# pktLog in TLA+

A verification development for pktLog, a syslog collector: a Python service that receives syslog
over UDP and TCP, lets registered collectors through, writes their records in batches to
ClickHouse (or DuckDB), and alerts on what it sees. It runs as one asyncio process (`start.sh`
starts one worker) with a SQLite database beside the log store. The models follow the code under
`app/`; the line ranges of every definition are in `PROJECT.json` ("map").

## 1. Inventory

What makes the system hard is not any one computation. It is that coroutines interleave at their
awaits with hardly a lock between them, that in-memory state outruns the SQLite tables, that a
stop or a crash falls between two steps, and that a storage backend may be away, or may apply
what it seems to have refused.

| Component (code) | State | Operations | Talks to | What makes it correct | Model |
|---|---|---|---|---|---|
| Listener (`ingest/listener.py`) | sockets | `_process` per message; start, stop | normalizer, writer | a message that passes the gate is enqueued | `IngestGate`, `IngestWriter` (in part) |
| Normalizer (`ingest/normalizer.py`) | collector cache, its age, a lock | `enrich`, `_maybe_refresh`, `_refresh` | registry, alert engine, pending queue | a verdict lags the registry by one cache lifetime at most; no message waits for good | `IngestGate` |
| Batch writer (`ingest/writer.py`) | queue, batch, journal files | `enqueue`, `_loop`, `_flush`, `_write_journal`, `_enforce_journal_cap`, `_replay_journal`, `stop` | storage, file system | no record is copied or lost but by a named cause; memory is emptied; a stop ends | `IngestWriter`, `FlushTimer` |
| Pending queue (`ingest/pending.py`) and approval API (`api/approval.py`) | `_seen` counters, `pending_collectors` | `record_unknown`, `flush`, `clear`; approve, ignore, unignore, forget | engine's tick, registry | a dropped message stays counted until an administrator decides | `PendingQueue` |
| Collector registry API (`api/collectors.py`) | `collector_registry` | create, import, update, delete | gate, pending queue, engine | queue, gate and alerts agree with the registry | as far as those three see it |
| Alert engine and API (`alerts/engine.py`, `api/alerts.py`) | rules with `last_fired`, events, notes of unknown senders | tick, `_fire`, auto-resolve, notifications; rules and events edited by requests | storage, channels | causes are reported, spaced by the cooldown; recovery resolves | `AlertEngine` (data_gap), `AlertRules` (all others) |
| Retention (`retention.py`, `alerts/cleanup.py`, `api/settings.py`, `api/system.py`) | the setting, the TTL of ClickHouse | daily pass, save, manual cleanup | both databases | only old rows go, and in the end all of them | `Retention`; its effects in `AlertEngine` |
| Accounts (`auth/lockout.py`, `auth/throttle.py`, `api/auth.py`, `api/users.py`) | failure counts, locks, address blocks, roles | login, change of the own password, password of an export, unlock, edits of users, default admin | SQLite | every wrong password weighs exactly once; an owner is not shut out | `Accounts` |
| Direct-access lock (`api/suite.py`, `main.py`) | lock, heartbeat, token, redirect | hub requests; middleware; failsafe at start | pktHub | a live hub's lock holds; a dead hub's lock ends | `DirectLock` |
| Resonance limiter and breaker (`api/resonance.py`, `integrations/resonance/`) | rate windows, breaker row | code requests, test | resonance server | limits hold; failures open the breaker; it closes again | `Resonance` |
| Self-update (`self_update.py`, `api/system.py`) | recorded release, installed tree | check, apply, swap, exit | GitHub, file system, systemd | the installed tree is one release and goes forward | `SelfUpdate` |
| Log handler and forwarder (`logging_handler.py`, `log_forward.py`, `api/logs.py`) | two bounded queues, threads, levels | emit, poll, insert, trim, stop, reload | SQLite, a syslog server | a line is stored or lost by a named cause; stop returns | `AppLog` |
| Backups (`backup.py`, `api/system.py`) | snapshot directories, live database | snapshot, rotation, export, import, restore | file system | rotation keeps a usable snapshot; a snapshot is current | `Backup` |
| ClickHouse and DuckDB (`storage/`) | the log table, last-seen summary | `insert_batch`, queries | - | an insert is applied or raises; perhaps both | as the environment of writer and engine |
| Lifecycle (`main.py`) | - | startup, shutdown | all of them | order of start and stop | in the components' modules |
| WebSocket, queries, widgets, settings, SAML and tokens, parser, front end | little or none | reads and single writes | - | - | not modelled (section 6) |

The hazards of this code are listed line by line in `PROJECT.json` ("hazards"), with the
properties that cover each, or the reason why none does.

## 2. Modules

| Module | Models | Composed with |
|---|---|---|
| `IngestWriter` | the batch writer in the life of its process: loop, flush with retries, journal, cap, replay, stop with its cancellations, crash, restart, outage | `IngestRefinement` maps it to `IngestPromise` |
| `IngestPromise` | the abstract specification: where one record can be, and how it may move | - |
| `FlushTimer` | the clock arithmetic of `_loop` that `IngestWriter` leaves out | `Clocks` |
| `DirectLock` | the direct-access lock between pktHub, the middleware and the start | `Clocks` |
| `Retention` | the retention setting and the three that push it through to storage, between their awaits | `Clocks` |
| `Clocks` | the three parts that compare ages; they share no state, and each behaviour is one of one part | - |
| `IngestGate` | the normalizer's cache between registry edits and messages | - |
| `PendingQueue` | `_seen`, `flush()`, `clear()`, the approval and registry requests | - |
| `AlertEngine` | the engine's tick with a data_gap rule, events, requests, records that leave | - |
| `AlertRules` | the same tick for the level rules and the new_host rule, with the requests that edit rules, the end of the process and its start | - |
| `Accounts` | sign-in under lockout and throttle, edits of the accounts | - |
| `Resonance` | rate limits, breaker, the requests between their awaits | - |
| `SelfUpdate` | checks, applies, the swap path by path, exits and restarts | - |
| `Backup` | snapshots, rotation, export, import, restore, beside a WAL | - |
| `AppLog` | the log handler's thread, the forwarder, and the one level they share | - |
| `MCIngestWriter` | the symmetry and the run of writer and refinement | - |
| `MCIngestGate`, `MCAlertRules`, `MCResonance` | nothing new: an instance of the module, its assumption and its properties | each is what a run checks and what a proof module extends |
| `*Proofs` (8) | the theorems (section 5) | each extends what it is about, and `TLAPS` |

A proof module may be about two components: `ClocksProofs` about `Clocks` and `Resonance`,
`PendingQueueProofs` about the pending queue and the gate before it, `AlertEngineProofs` about
`AlertEngine` and `AlertRules`. The second one is an instance (`Limiter`, `Gate`, `Rules`) with
variables of its own, made in the `MC` module; what would have the name of a variable or a
constant of the first is renamed there (`gateRegistry`, `evaluation`, `ruleEvent` ...).

### How state and actions correspond to the code

**IngestWriter.** `queue`, `batch`, `loop` and `call` are `BatchWriter._queue`, the list `_loop`
gathers, and the await at which the loop task and its `_flush` are suspended. `loop = "size"` is
the flush of a full batch, inside the `try`; `"time"` the flush inside the `except
asyncio.TimeoutError` handler; `"last"` the flush after the `while`. The distinction matters
because `stop()` cancels the task: a cancellation in the `try` is caught by `except
asyncio.CancelledError` and followed by the last flush (`StopFlushingFull`, which flushes the
same batch again), whereas one inside the handler is not caught by its sibling and leaves the
function (`StopFlushingTimed`, which forgets the batch). An insert runs in a thread; a cancelled
await leaves the thread running (`orphan`). A call goes `insert -> applied -> returned`: it may
raise before the backend applied it or after. Journal files are numbered by age (`sorted by
mtime`), and bytes are counted in records. A write that does not complete leaves a part of the
batch, perhaps with an incomplete line (`torn`), which no replay can parse. The cap may stop
half way, when an unlink raises (`Remaining`). `accepted` and `doubt` are history.

**IngestGate.** `since` is `time.monotonic() - _last_refresh`; because `_last_refresh` starts at
0.0 its first value is the host's uptime. The lock is held from `refresh # "none"`; the messages
behind it are `waiting`. The SELECT and the swap of the cache are two steps, edits fall between
them.

**PendingQueue.** `flush()` holds no database lock until its first upsert, and then holds
SQLite's write lock to its commit (`Locked`); requests wait for it or time out. `fault` records
whether the last step was a failure.

**AlertEngine.** `lastSeen` holds a row per (collector, name), as the query returns them; `read`
is what the dict made of them keeps. `Fire` is the whole of `_fire`: event, `last_fired`,
commit, and the notifications, one of which may raise. `silentThen`, `renamedThen` and
`sinceEvent` are history. The silence is judged by the record's own timestamp in the code; the
model takes it as the time of storing. `RecordsLeave` is what `Retention` may do to those rows:
the old ones may go at any time, and all of them at once. A failure anywhere in an evaluation,
the end of the process included, is `EvaluationFails`.

**AlertRules.** Between sleeps the engine goes through the level rule (`ReadRules`, `Measure`,
then `FireLevel`, `LevelPasses` or `AutoResolve`, then one `Dispatch` per channel) and then the
unknown senders (`Take`, and for each `Check`, `ReadRule`, `FireNewHost`). The four level types
share their control and differ in the query, so `breach` is their common answer. A rule may be
deleted while it is evaluated (`stale`): the event is inserted all the same, foreign keys being
off, and the JOIN of the listings hides it. The module takes one rule of either kind at a time.
`ProcessEnds` is a stop, a crash or a kill, at rest or in any await: the notes
(`_unknown_sampler_queue`) and what the evaluation holds are gone, rules and events stay.

**Retention.** `task` is what the daily pass, a save or a cleanup has read and not yet applied:
the setting is read or committed in one await, the days go to storage in a later one, and
anything may happen between. `"duckdb"` deletes when they arrive. `"clickhouse"` changes the
table's TTL and removes rows by it from then on (`Expire`): a disabled retention is committed
and not applied, so the old TTL stays. `why` and `stray` are history: why the days a task holds,
or the TTL, are not those of the setting. A setting that is no number, and a read that fails,
count as the default of 90 days. Three days stand for all; zero stands for everything that is
not positive.

**Accounts.** An attempt is a request between its awaits: `"row"` before the SELECT,
`"password"` before the hash is compared, `"count"` before the address throttle. `CountsFailure`
is the one UPDATE with its CASEs: below the limit it counts, at the limit it resets the count
and locks, for a while the first time and for good the second. Success clears the count and the
temporary lock and leaves the permanent one. `CheckDefaultAdmin` and `SetDefaultAdmin` are the
two awaits of one request; everything that edits accounts may fall between. Ids are never reused
(`made`; the table is AUTOINCREMENT). `ExportRefused` is a wrong password for the export of a
backup: it is compared with the hash like any other, by an administrator who is signed in, and
neither the lock nor the counter nor the throttle has a part in it. `wrong`, `exported` and
`changed` are history.

**DirectLock.** `beat` is the age of `lock_heartbeat_at`. It is written in UTC by SQLite and
compared with the local clock, so the expiry is shifted by `Local - Utc`. A direct request reads
the lock, then its heartbeat, then unlocks or redirects or serves, each at an await; when one of
them raises, the page is served (`RequestFails`). `HubStops`
and `Regenerate` end the renewals; `DatabaseRestored` brings back a lock and a token from a
snapshot.

**Resonance.** `RecordFailure` writes back a count that an earlier await read. The rate windows
count before they compare. The four refusals before the limiter leave no trace and are one
guard. `ConfigThreshold` is 2, as in the code, and not a parameter: with three, TLC finds that
the write of an older count lets further failures read it again, so that the breaker opens
later than `ConfigErrorsOpenBreaker` says.

**SelfUpdate.** `tree` gives each of three paths (first, middle, last of the swap's order) its
release; a path being replaced is missing (0) between `Remove` and `Copy`. `assets` and
`available` are the settings that `Record` writes with what `Fetch` learnt one await before.
`Exit` is the scheduled `os._exit`, `Crash` any other death; systemd starts the process if
`app/` is there.

**Backup.** The database is told by its last commit, in a main file and a WAL. A run makes its
directory (named to the minute), copies through SQLite's backup API, copies the events, and
rotates. Export and restore copy files without regard to the WAL, and that is where a torn
database can come from.

**AppLog.** `worker` is where the handler's thread is (`poll`, `get`, `insert`, `dead`,
`ended`). A sentinel met while the batch is drained only ends the batch. `root` is the level of
the pktlog logger, which both handlers and the poll set. `Down` is the end after `stop()`,
`Exit` the `os._exit(1)` of an update, or a kill, in any state.

## 3. Runs

All twelve end without an error. "Properties" of each run are in `PROJECT.json`; the comments
above their definitions say what code behaviour each is about.

| Run | Question | Bounds |
|---|---|---|
| `writer_safety` | are records neither copied nor lost but by the named causes; does the writer implement `IngestPromise`? | 3 records (symmetric), batches of 2, 2 attempts, cap of 2 records, 2 starts |
| `writer_liveness` | is memory emptied, does a stop end, is every file visited? | 2 records, otherwise the same |
| `clocks` | how late can a flush be; who takes off a lock in time; does every lockout end; which records leave, and does the retention come true? | batches of 3, interval of 2 shortest waits; 2 visitors, expiry 1, UTC one tick ahead of local time; 1 record, 2 requests beside the daily pass, 3 days, 1 failure |
| `gate` | does a verdict lag the registry by one lifetime at most? | 2 senders, lifetime 2, 1 failure in a row |
| `pending` | do dropped messages stay counted and get listed; is a listed sender registered by the named causes only? | 2 senders, 3 messages |
| `alerts` | are data_gap events spaced, do they follow storage, is silence reported and recovery resolved? | 2 collectors, 2 names, silence 2, cooldown 2, 1 rename, 2 failures |
| `alert_rules` | one event per cooldown; is a sender passed over by the named causes only; does a rule ever starve, or leave an event open? | 2 senders, 1 channel, cooldown 2, 1 failure |
| `accounts` | how many guesses pass the lockout; does a permanent lock last; is there one default administrator; does the owner get in? | 2 accounts, 1 of them attacked, 2 attempts at once, limits 2, 2 edits, 1 wrong password for an export |
| `resonance` | do the limits hold, does the breaker open, does the widget recover? | 2 requests at once, limits 2, thresholds 2 and 3, cooldowns 2 and 1, window 1 |
| `self_update` | when can the installed tree be a mixture, or go back; is a failed apply tried again? | 1 page, 1 click, the hourly task, 2 releases, 1 failure |
| `backup` | does rotation keep a usable snapshot; when is the database torn; is a snapshot current? | scheduler and 1 request, keep 1, 2 minutes, 1 commit, 1 failure |
| `app_log` | how are log lines lost; does `stop()` return; what hides the forwarder's lines? | queues of 2 and 1, batches of 2, 3 lines, a trim to 2 rows every 2 inserts, 1 failure, 2 starts |

Why the bounds are enough. In the writer, three records and batches of two give a full batch
beside a waiting record, two journal files and a cap that only one of them fits under; two
attempts distinguish a retry from the last attempt; two starts let a file of the first process
meet the replay of the second. In the gate and the pending queue, two senders give one that is
being dealt with while the other arrives, and lifetime 2 tells "just refreshed" from "half its
age". In the alert modules two collectors (or senders) share one rule's cooldown; a cooldown of
two intervals spans a tick that must not fire; silence of two lets a collector that keeps
sending never be silent at a tick, as a lasting recovery requires; two names and one rename make
a renamed collector. In `accounts` two attempts at once let one overtake the lock that the other
brings about, a limit of 2 tells "below" from "at", two edits demote one account and make
another, with the choice of a default administrator (no edit) before or between, and one wrong
password for an export adds to the two limits. In `resonance` two requests read the
same count. In `self_update` the three actors overlap with each other in every pair, and two
releases are one that is behind. In `backup` two directories with room for one rotate, a run of
the scheduler overlaps one of a request, and one commit tells a state before from one after. In
`app_log` a queue of two holds a line and the sentinel in both orders. In `clocks` the offset
makes a heartbeat look younger than it is, so that a lock outlives its expiry, as it does west
of Greenwich, and two visitors race each other as well as the hub; the theorems hold for any
offset. One record is enough for the retention, which treats each row alike; of three days, two
are the default and one and three a shorter and a longer window; the daily pass, a save and a
cleanup can all be under way at once.

### Where the code and its documentation disagree

These came up while the models were written. The passing properties state what the code does; a
"named cause" in them is mostly one of these. None is reported as a violated property.

1. The journal is replayed at a start only, not "once ClickHouse recovers" (`writer.py:74`
   against `writer.py:11`). A stop during a timed flush forgets the batch (`writer.py:118`),
   although one during the flush of a full batch is caught, for the last records to be flushed
   (`LossOnlyByNamedCause`).
2. `_last_refresh = 0.0` is compared with the monotonic clock (`normalizer.py:30`): on a host up
   for less than a cache lifetime a new process drops approved senders until the host is old
   enough (`docs/TROUBLESHOOTING.md:271` recommends a restart).
3. A trickle of records postpones the two-second flush to about 27 s (`DelayBounded`).
4. `collectors_last_seen` returns a row per collector and name, `storage/base.py:79` says per
   collector: a renamed collector is reported silent (`EventsFollowStorage`).
5. `settings.py:264` and `retention.py:75` take zero days for a disabled retention; the manual
   cleanup passes them on (`system.py:199`), and DuckDB deletes everything. A pass that had read
   the days before still deletes after retention was disabled, and on ClickHouse disabling it
   leaves the TTL in force (`RecordsLeaveOnlyByNamedCause`).
6. `docs/ADMIN_GUIDE.md:87` has every unknown sender alerted; of several noted in one cooldown
   one is, and the notes of a process end with it (`ForgottenOnlyByNamedCause`). A sender
   registered under Settings stays in the approval queue (`ListedOnlyByNamedCause`).
7. `lockout.py:10` says that no password is checked while an account is locked; requests past
   the SELECT still check theirs (`GuessesBounded` says how many). `lockout.py:14` has the count
   cover every place a password is checked; the export of a backup checks one (`system.py:264`)
   without count, lock or throttle (`ExportRefused`). `users.py:209` has "exactly one" default
   administrator; it is at most one, and it may have been demoted since it was chosen
   (`DefaultIsOneAdmin`).
8. `limiter.py:13` opens the breaker after two configuration errors; concurrent ones are counted
   as one (`ConfigErrorsOpenBreaker`).
9. `self_update.py:343` says that the installation is never partially overwritten; a failed or
   interrupted swap, or two at once, leave a mixture (`MixedOnlyByNamedCause`). Nothing compares
   the release applied with the one installed (`DowngradeOnlyByNamedCause`).
10. Exports copy `pktlog.db` without its WAL, restores put one beside a WAL that is not its own
    (`TornOnlyByNamedCause`).
11. The log handler's poll raises the level of the logger it shares above the forwarder's
    (`ForwarderHiddenOnlyByPoll`), and its table exceeds its cap of 10 000 rows between two
    trims. The exit after an update (`self_update.py:418`, `:442`) runs no `stop()`, so queued
    lines are lost (`LineLostOnlyByNamedCause`).

## 4. Fairness

Only what the program or its host does on its own is fair, and weakly but for the actions named
below as strong:

- the event loop runs every ready task and the threads run, so a coroutine past its await goes
  on (`LoopStep`, `FlushStep`, `AttemptStep`, `Requests`, `RequestStep`, `ApplyStep`,
  `WorkerStep` ...);
- a storage call ends, because the ClickHouse client is given connect and send/receive timeouts
  (`storage/clickhouse.py`, `_get_client`); so do the calls of resonance and GitHub;
- systemd restarts the service (`Restart=always`): `Start` of `IngestWriter` needs a backend
  that answers and `Start` of `SelfUpdate` needs `app/`, so nothing is claimed of a process that
  cannot start;
- time passes (`Tick`, `LockEnds`, `BlockEnds`), the engine's loop survives every exception, so
  does the daily pass of the retention (`DailyPass`), and ClickHouse removes what is past the
  TTL in the end (`Expire`).

Three properties are about users who keep trying, and assume as much: visitors of a locked page
come again (`Requests`), pages with the widget are loaded (`Code`), and the owner of an account
tries to sign in (`OwnerBegins`). This last is strong, because the model, unlike the server,
bounds the attempts that run at once, so that others may take the last place again and again.
`AutoDue` of `SelfUpdate` is strong because restarts interrupt what the hourly task waits for,
and it comes by again after each.

`Reads` and `Opens` of `DirectLock` are strong: a statement of a request may fail any number of
times, but not each time it is tried. Two properties of `AlertRules` are about a process that
stays up in the end (`<>[]Up`); that it is started is not assumed.

Nothing is assumed of arrivals, edits, stops, crashes, outages or failures. Where failures must
come to an end for something to happen, `MaxFaults` (or `MaxFailures`) says so.

## 5. Proofs

TLAPS proves, for all values of the constants (under the `...Assumption` of each module: the
sets are finite where they are counted, limits are positive):

| Module | Proved |
|---|---|
| `IngestWriterProofs` | `TypeOK`, `IInv`, `HandOver`, `OneHome`, `DuplicateOnlyInDoubt`, `LossOnlyByNamedCause`, `ImplementsPromise` (the refinement) |
| `ClocksProofs` | timer: `TypeOK`, `WaitBound`, `DelayBounded`; lock: `LockIInv` with its types, `FreshLockOpenedOnlyInRace`; retention: `KeepIInv` with its types, `RecordsLeaveOnlyByNamedCause`; resonance: `LimiterInv`, `WindowsLimit`, `ConfigErrorsOpenBreaker` |
| `PendingQueueProofs` | gate: `GateIInv` with `TypeOK`, `VerdictLagBounded`; queue: `IInv` with `TypeOK`, `DropsStayCounted`, `ListedOnlyByNamedCause` |
| `AlertEngineProofs` | data_gap: `IInv` with `TypeOK`, `EventsAreSpaced`, `EventsFollowStorage`; other rules: `RulesInv`, `OneEventPerCooldown`, `ForgottenOnlyByNamedCause` |
| `AccountsProofs` | `IInv` with `TypeOK`, `GuessesBounded`, `DefaultIsOneAdmin`, `PermanentLockIsKept` |
| `SelfUpdateProofs` | `IInv` with `TypeOK`, `MixedOnlyByNamedCause`, `DowngradeOnlyByNamedCause` |
| `BackupProofs` | `IInv` with `TypeOK`, `Rotated`, `BackupIsCurrent`, `TornOnlyByNamedCause`, `UsableBackupKept` |
| `AppLogProofs` | `LevelInv`, `LineInv`, `ForwarderHiddenOnlyByPoll`, `LineLostOnlyByNamedCause` |

That is every invariant and every action property of the runs, and the refinement.

Hardly any property is inductive as it stands. TLC has checked each inductive invariant on the
run's instance before it was proved. What each adds:

*Writer.* To know that an insert does not write a second row one must know where else the record
could still be waiting. `OneHome`: a record is in the queue, the batch or one file, once.
`ReplaysOneFile`: what a replay has read is in the file it visits and in no other place.
`StoredIsSettled`: a record with a row that is not in doubt is held only by the very call that
has just inserted it. `Quiescent` ties loop, call and process together, and `OnlyAccepted` says
that a record not yet accepted is nowhere. The lemmas `EnqueueAdds`, `GetRecordMoves`,
`SpillMoves`, `OtherStepsShrink`, `ReplayMoves` and `RowsMove` say once what each kind of step
does to the places a record can be in.

*Writer, losses.* `HandOver` is what the parts of the writer leave to each other: a loop that
has ended has left no batch but to the draining `stop()` (`EndedLoopHoldsNothing`), an insert
seen as applied has stored its records (`AppliedIsStored`), and a replay holds what is in the
file it visits, unless the cap removed that file meanwhile (`ReplaysWhatItVisits`). With it
every step is one of five kinds (`RecordsMove`): `enqueue` takes a record; an insert stores
records; what is stored, if anything, leaves memory or journal; memory is given up; memory is
spilled. Only the last two lose anything. In a spill that removes files the cap was exceeded,
and those it removes are the oldest, even if it stops half way (`RemainingIsNewest`,
`SpillMakesRoom`; the size of the journal is the number of its pairs of file and record, so that
the theorems about finite sets do for it); `LossHasCause` then names the cause. The same five
kinds are the steps of the refinement: the place of a record is the first of storage,
journal and memory that holds it (`PlaceIs`, `PlacesApart`), and under that mapping `enqueue`
accepts, an insert saves, settling what is stored is a stutter, giving memory up loses, and a
spill spills and may make room (`PromiseStep`).

*Clocks.* While the loop waits, the time since the last flush plus the wait under way is at most
the interval plus one shortest wait per gathered record (`WaitBound`). A request about to take
the lock off found it expired, and since then the heartbeat has grown older or the hub has
renewed it (`FoundExpired`). `Explained`: a task of the retention holds the days of the setting,
or was overtaken by a change of it, or could not read it; the TTL is the setting's, or `stray`
says why not, and it is behind a save only while that save is under way. A step of one part
leaves the others alone, so the invariants carry over to the composition.

*Resonance.* A window can let more than its limit through because a new window starts while
requests of the last one wait to read the count. `WindowHolds` counts these as if they had
passed: passed and waiting together are ahead of the count by at most the other requests in
flight, as long as the count is within the limit. Every step does one of three things to a
window (`CountedKeeps`, `GoesOnKeeps`, `LeftAloneKeeps`). `CountHolds`: the errors counted since
the breaker was last closed or opened, and the requests about to write a first failure, are
together no more than the requests there are; whoever writes a second failure opens the breaker.

*Gate.* The rows a refresh has read are as old as the refresh (`RowsAreFresh`), the cache is as
old as `since` (`CacheIsDated`), and who waits on the lock is decided before the cache ages
(`WaitersAreInTime`).

*Pending queue.* `CountedOnce`: what `flush()` has upserted for a sender is not in its fold any
more, and no more is counted than was dropped; every step then moves a count or is one of the
named causes.

*Alert engine.* `CooldownGuards`: `last_fired` is no older than the last event of any collector
of the rule, and an evaluation that found the cooldown over has none younger for what it has
still to fire. `AnswerKept`: what was read as silent was silent, or renamed. The oldest row is
found with `Max`, and `MaxIsMember` (the greatest of finitely many ages is one of them) is
proved by the strict subset order on the finite sets of greater ages.

*Other rules.* `RulesClock`: the engine writes an event and `last_fired` in one transaction, so
both are of one age, and what it read of `last_fired` is still true when it fires, because
nobody else makes a rule's `last_fired` younger and a rule made anew has none. `RulesPlace`:
a measure is held only while its rule is dealt with, and the senders taken from the notes only
after that, so none of the steps that drop the one drops the other; a process that is down has
neither.

*Accounts.* `Weighed`: every wrong password is in the failure count or in a lock that took
`Limit` of them (`wrong = count + Limit * lockouts + exported`), and after the second lock only
the attempts that had read the row before can still add one, and the exports any number.
`Flagged`: the default flag, and the account checked to get it, are on an active administrator
or one disqualified since. An earlier form of the model, in which a deleted account's id could
come back, could not be proved: rightly, and the table's AUTOINCREMENT excludes it.

*Self-update.* `OneRelease`: without "overlap" all applies are of one release. `Tidy`: how far a
swap has come determines the release of every path. `Forward`: without "overlap" and "slow
check" what is found is not older than what is recorded, nor that than what is installed or
being applied. `Forgets`: an actor carries no release from one request into the next.

*Backup.* `Ahead`: no commit that a run must have is missing from the live database, nor from
its copy once it is made. `Torned`: a torn file anywhere has had its cause. `Rotated`: while
runs neither overlap nor fail, the one run that may be going on writes to a directory of its
own, and every other directory holds a usable copy; so whatever rotation removes, one of those
it keeps is usable.

*Log.* `LevelInv`: requests, reloads and starts set the logger no higher than the forwarder
asks, so that a logger above it was raised by the poll. `OneSentinel`: `stop()` puts one
sentinel in a process, so that a drain that stops at it has all it took but the sentinel in its
batch, and leaves every other line in the queue (`GetLosesNothing`). `BatchIsInserted`: the
thread drains again only once its batch is in the table, or was lost to a statement that failed;
the trim keeps the newest rows, and a batch is no more than those (`NewestKeepsBatch`).

Only model-checked: the liveness properties, which rest on fairness and are out of the prover's
reach (`MemoryIsEmptied`, `StopCompletes`, `ReplayCompletes`, `LockoutEnds`,
`RetentionComesTrue`, `DroppedIsListed`, `SilenceIsReported`, `RecoveryResolves`,
`RuleNeverStarves`, `EventsFollowMeasure`, `OwnerGetsIn`, `WidgetRecovers`, `AutoTriesAgain`,
`StopReturns`).

## 6. Not modelled, and the plan

Left out for good: sockets and framing, parsing of syslog lines, SQL of the queries, CSV import
and export, tokens and SAML, the WebSocket pushes, the front end and the deployment scripts
(I/O, libraries, no state of their own). Settings are modelled where their reader is. Two worker
processes (`workers=2` in `main.py`'s own entry point) would share the journal directory and run
every background task twice; `start.sh` runs one and says the background jobs are not ready for
two. Memory growth of the writer's queue in an outage, the arrival of a forwarded line and the
open TCP connections that `wait_closed()` may wait for are listed as hazards without a property,
with the reason. So is a journal that waits for a restart: `ReplayCompletes` promises only that
a replay that was started visits its files. That a waiter on the refresh lock of the gate is
decided follows from the `async with`, and is not stated either.

Simplified:

- `AlertEngine.Fire` writes the event and `last_fired` in one transaction. A failure between the
  two is taken to undo both; the code does not roll its connection back (`engine.py:65`), and
  the commit of another rule of the same tick could write the event without `last_fired`.
- `SelfUpdate` leaves out a release that is withdrawn, and the answer 304 with which GitHub has
  the code go on with the release it knows.
- `Retention` has no backend that is missing altogether (`get_storage()` returns one once
  `init_storage` has), and takes the two statements of ClickHouse's `_apply` for one: the second
  is left out only if the first found the TTL to be the same already.
- Of the provider's sign-in `Accounts` has what it does to an account (`SamlCallback`), not the
  protocol.

Left of the plan:

1. `LastSeenSummary`: the backfill of the summary `AlertEngine` reads, interrupted or repeated
   at a connect.
2. `Ingest`: gate and writer composed, so that what the gate lets through is what the promise
   counts, and the engine's last-seen rows fed by the writer's inserts.
3. Password resets by administrators and the refresh of tokens in `Accounts`.
