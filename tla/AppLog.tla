------------------------------- MODULE AppLog -------------------------------
(***************************************************************************)
(* The program's own log: the lines of the pktlog loggers pass the level   *)
(* of that logger and then two handlers. SQLiteLogHandler queues them      *)
(* for a thread that writes them in batches to app_logs and polls the      *)
(* capture level (app/logging_handler.py, app/api/logs.py);                *)
(* SyslogForwardHandler queues them for a thread that sends them to a      *)
(* collector (app/log_forward.py, POST /system/log-forward/reload). All    *)
(* the levels end up in the one level of the pktlog logger ("root").       *)
(*                                                                         *)
(* A line is told by its number; its level is chosen as it is logged.      *)
(***************************************************************************)
EXTENDS Naturals, Sequences, FiniteSets, SequencesExt

CONSTANTS
  QueueSize,   \* 5000, of SQLiteLogHandler
  OutboxSize,  \* 5000, of SyslogForwardHandler
  BatchSize,   \* 50
  MaxRecords,  \* 10 000: the rows kept by a trim
  TrimEvery,   \* 500 inserts
  MaxLines,    \* bound on the lines logged
  MaxFaults,   \* bound on the statements that fail
  MaxStarts    \* bound on the starts of the process

ASSUME LogAssumption ==
  /\ {QueueSize, OutboxSize, BatchSize, TrimEvery} \subseteq Nat \ {0}
  /\ {MaxRecords, MaxLines, MaxFaults, MaxStarts} \subseteq Nat
  /\ BatchSize <= MaxRecords

Info == 1
Warning == 2
Levels == {Info, Warning}
Off == 0       \* no forwarder
Sentinel == 0  \* on the queue, where a line is 1 .. MaxLines

VARIABLES
  logged,     \* the lines so far
  root,       \* the level of the pktlog logger, root in the code
  capture,    \* the level of SQLiteLogHandler
  persisted,  \* log_capture_level of the settings
  setting,    \* the level a request has persisted and not applied yet, or Off
  wanted,     \* log_forward_* of the settings: a level, or Off
  forward,    \* the level of the forwarder, or Off
  outbox,     \* the number of lines in its queue
  queue,      \* the queue of SQLiteLogHandler
  worker,     \* its thread
  batch,      \* what the thread has drained
  inserts,    \* its insert_count
  table,      \* app_logs
  process,    \* running, stopping in the put or in the join of stop(), or down
  starts,     \* the starts of the process
  faults,     \* what has failed
  raised      \* did the poll take the root logger above the forwarder's level
              \* since that was set? (history)

levelVars == <<root, capture, persisted, setting, wanted, forward, raised>>
lineVars  == <<logged, outbox, queue>>
workVars  == <<worker, batch, inserts, table>>
vars == <<levelVars, lineVars, workVars, process, starts, faults>>

Lower(a, b) == IF a < b THEN a ELSE b

-----------------------------------------------------------------------------
(* lifespan: the forwarder, if it is configured, and then the handler at   *)
(* INFO. The pktlog logger has no level of its own before.                 *)
Init ==
  /\ logged = 0
  /\ wanted \in {Off} \cup Levels
  /\ forward = wanted
  /\ root = IF forward = Off THEN Info ELSE Lower(forward, Info)
  /\ capture = Info
  /\ persisted = Info
  /\ setting = Off
  /\ outbox = 0
  /\ queue = <<>>
  /\ worker = "poll"
  /\ batch = <<>>
  /\ inserts = 0
  /\ table = <<>>
  /\ process = "running"
  /\ starts = 1
  /\ faults = 0
  /\ raised = FALSE

(* A logger is called: the two emit(), none of which ever waits.           *)
Captured(l) == l >= root /\ l >= capture /\ Len(queue) < QueueSize
Forwarded(l) == forward # Off /\ l >= root /\ l >= forward

Log(l) ==
  /\ process # "down"
  /\ logged < MaxLines
  /\ logged' = logged + 1
  /\ queue' = IF Captured(l) THEN Append(queue, logged') ELSE queue
  /\ outbox' = IF Forwarded(l) THEN Lower(outbox + 1, OutboxSize) ELSE outbox
  /\ UNCHANGED <<levelVars, workVars, process, starts, faults>>

(* The thread of the forwarder: a line is sent, or its send fails, which   *)
(* is counted and loses the line.                                          *)
Send ==
  /\ process # "down"
  /\ outbox > 0
  /\ outbox' = outbox - 1
  /\ UNCHANGED <<levelVars, logged, queue, workVars, process, starts, faults>>

(* The settings page saves log_forward_*, and then asks for a reload.      *)
SaveForward(l) ==
  /\ process = "running"
  /\ l # wanted
  /\ wanted' = l
  /\ UNCHANGED <<root, capture, persisted, setting, forward, raised, lineVars, workVars, process,
                 starts, faults>>

(* configure_forwarding: what the old forwarder has queued is not sent.    *)
ConfigureForwarding(l) ==
  /\ forward' = l
  /\ outbox' = 0
  /\ root' = IF l = Off THEN root ELSE Lower(root, l)
  /\ raised' = FALSE

(* log_forward_reload *)
Reload ==
  /\ process = "running"
  /\ ConfigureForwarding(wanted)
  /\ UNCHANGED <<wanted, capture, persisted, setting, logged, queue, workVars, process, starts,
                 faults>>

-----------------------------------------------------------------------------
(* The capture level. *)

(* set_log_level commits the level ... *)
PersistLevel(l) ==
  /\ process = "running"
  /\ setting = Off
  /\ persisted' = l
  /\ setting' = l
  /\ UNCHANGED <<root, capture, wanted, forward, raised, lineVars, workVars, process, starts, faults>>

(* ... and then applies it here: set_capture_level.                        *)
SetsRoot == root' = setting \* mutant: not only lowered
LowersRoot == root' = Lower(root, setting)

ApplyLevel ==
  /\ setting # Off
  /\ capture' = setting
  /\ setting' = Off
  /\ LowersRoot
  /\ UNCHANGED <<persisted, wanted, forward, raised, logged, outbox, queue, workVars, process,
                 starts, faults>>

(* _check_shared_level, by the thread; the select may fail.                *)
Poll ==
  /\ process # "down"
  /\ worker = "poll"
  /\ worker' = "get"
  /\ \/ /\ capture' = persisted
        /\ root' = IF persisted = capture THEN root ELSE persisted
        /\ UNCHANGED faults
     \/ /\ faults < MaxFaults
        /\ faults' = faults + 1
        /\ UNCHANGED <<root, capture>>
  /\ raised' = (raised \/ root' > root)
  /\ UNCHANGED <<persisted, setting, wanted, forward, logged, outbox, queue, batch, inserts, table,
                 process, starts>>

-----------------------------------------------------------------------------
(* The thread of SQLiteLogHandler. *)

(* The queue up to the batch size, or up to the sentinel (there is one at  *)
(* most), which goes too.                                                  *)
Taken ==
  LET most == Lower(BatchSize, Len(queue)) IN
  IF \E i \in 1 .. most : queue[i] = Sentinel
    THEN CHOOSE i \in 1 .. most : queue[i] = Sentinel
    ELSE most

EndsAnywhere == \E i \in 1 .. Taken : queue[i] = Sentinel \* mutant
EndsThread == Head(queue) = Sentinel

(* A sentinel at the head ends the thread. One met later only ends the     *)
(* batch, and nothing remembers it.                                        *)
Get ==
  /\ process # "down"
  /\ worker = "get"
  /\ queue # <<>>
  /\ queue' = SubSeq(queue, Taken + 1, Len(queue))
  /\ batch' = SubSeq(queue, 1, IF queue[Taken] = Sentinel THEN Taken - 1 ELSE Taken)
  /\ worker' = IF EndsThread THEN "ended" ELSE "insert"
  /\ UNCHANGED <<levelVars, logged, outbox, inserts, table, process, starts, faults>>

(* Nothing arrives within the flush interval. *)
StopsWhenIdle == "ended" \* mutant: the timeout leaves the loop
GoesOn == "poll"

GetTimesOut ==
  /\ process # "down"
  /\ worker = "get"
  /\ queue = <<>>
  /\ worker' = GoesOn
  /\ UNCHANGED <<levelVars, lineVars, batch, inserts, table, process, starts, faults>>

Newest(s) == IF Len(s) > MaxRecords THEN SubSeq(s, Len(s) - MaxRecords + 1, Len(s)) ELSE s

Trims == inserts + Len(batch) >= TrimEvery

(* The insert, now and then the trim, and the commit. If one of them fails *)
(* the batch is lost; insert_count keeps what it was set to.               *)
Insert ==
  /\ process # "down"
  /\ worker = "insert"
  /\ worker' = "poll"
  /\ batch' = <<>>
  /\ \/ /\ table' = IF Trims THEN Newest(table \o batch) ELSE table \o batch
        /\ inserts' = IF Trims THEN 0 ELSE inserts + Len(batch)
        /\ UNCHANGED faults
     \/ /\ faults < MaxFaults
        /\ faults' = faults + 1
        /\ inserts' \in {inserts, inserts + Len(batch), 0}
        /\ inserts' = 0 => Trims \/ inserts = 0
        /\ UNCHANGED table
  /\ UNCHANGED <<levelVars, lineVars, process, starts>>

(* clear_logs *)
Clear ==
  /\ process = "running"
  /\ table # <<>>
  /\ table' = <<>>
  /\ UNCHANGED <<levelVars, lineVars, worker, batch, inserts, process, starts, faults>>

-----------------------------------------------------------------------------
(* stop(): a put that waits for room, and a join that waits five seconds.  *)
BeginStop ==
  /\ process = "running"
  /\ process' = "put"
  /\ UNCHANGED <<levelVars, lineVars, workVars, starts, faults>>

PutSentinel ==
  /\ process = "put"
  /\ Len(queue) < QueueSize
  /\ queue' = Append(queue, Sentinel)
  /\ process' = "join"
  /\ UNCHANGED <<levelVars, logged, outbox, workVars, starts, faults>>

(* With the process go its daemon thread, the queues, and a request that   *)
(* has not applied its level yet.                                          *)
ProcessGone ==
  /\ process' = "down"
  /\ queue' = <<>>
  /\ outbox' = 0
  /\ batch' = <<>>
  /\ worker' = "ended"
  /\ inserts' = 0
  /\ setting' = Off
  /\ UNCHANGED <<root, capture, persisted, wanted, forward, raised, logged, table, starts, faults>>

(* The thread has ended, or the five seconds are over. *)
Down ==
  /\ process = "join"
  /\ ProcessGone

(* os._exit(1) after an update (restart_soon, maybe_apply), which runs no  *)
(* stop(), or a kill, also of a process that is stopping.                  *)
Exit ==
  /\ process # "down"
  /\ ProcessGone

(* The thread ends at once if it cannot open the database.                 *)
Start ==
  /\ process = "down"
  /\ starts < MaxStarts
  /\ starts' = starts + 1
  /\ process' = "running"
  /\ capture' = Info
  /\ forward' = wanted
  /\ root' = IF wanted = Off THEN Info ELSE Lower(wanted, Info)
  /\ raised' = FALSE
  /\ worker' \in {"poll", "dead"}
  /\ UNCHANGED <<persisted, setting, wanted, lineVars, batch, inserts, table, faults>>

-----------------------------------------------------------------------------
WorkerStep == Poll \/ Get \/ GetTimesOut \/ Insert

Next ==
  \/ \E l \in Levels : Log(l) \/ PersistLevel(l)
  \/ \E l \in {Off} \cup Levels : SaveForward(l)
  \/ Reload
  \/ Send \/ ApplyLevel
  \/ WorkerStep
  \/ Clear
  \/ BeginStop \/ PutSentinel \/ Down \/ Exit \/ Start

Spec == Init /\ [][Next]_vars

(* The threads run, and stop() goes on when it can. *)
FairSpec ==
  /\ Spec
  /\ WF_vars(WorkerStep) /\ WF_vars(Send) /\ WF_vars(PutSentinel) /\ WF_vars(Down)

-----------------------------------------------------------------------------
(* Properties. *)

(* A line in the hands of the thread is stored, unless a statement failed  *)
(* or the process ended while the line was still queued or being written:  *)
(* the join of stop() was over, or it was an exit or a kill that asked no  *)
(* stop() (self_update.py:418, :442). A thread that has ended leaves       *)
(* nothing in its batch.                                                   *)
LineLostOnlyByNamedCause ==
  [][\A n \in Range(queue) \cup Range(batch) :
       n # Sentinel /\ n \notin Range(queue') \cup Range(batch') =>
         \/ n \in Range(table')
         \/ faults' > faults
         \/ /\ process # "down" /\ process' = "down"
            /\ n \in Range(queue) \/ worker = "insert"]_vars

(* stop() returns, although its put waits for room on a bounded queue;     *)
(* unless the thread died when it opened the database and the queue is     *)
(* full, or lines go on filling it.                                        *)
StopReturns ==
  process = "put" ~> process = "down" \/ worker = "dead"

(* The lines the forwarder asks for pass the pktlog logger, unless the poll*)
(* raised that to the capture level: the levels set by requests and by the *)
(* start only lower it, in whatever order they come.                       *)
ForwarderHiddenOnlyByPoll == forward # Off /\ root > forward => raised
=============================================================================
