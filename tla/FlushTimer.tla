----------------------------- MODULE FlushTimer -----------------------------
(***************************************************************************)
(* When the batch writer flushes: the clock arithmetic of                  *)
(* BatchWriter._loop (app/ingest/writer.py), which IngestWriter leaves     *)
(* out. One tick is the shortest wait of the loop, max(0.05, timeout).     *)
(***************************************************************************)
EXTENDS Naturals

CONSTANTS
  BatchSize,    \* _BATCH_SIZE
  Interval,     \* _FLUSH_INTERVAL, in ticks of 0.05 s
  MaxQueued     \* bound on the records that wait in the queue

ASSUME TimerAssumption ==
  /\ BatchSize \in Nat \ {0}
  /\ Interval \in Nat \ {0}
  /\ MaxQueued \in Nat \ {0}

VARIABLES
  loop,      \* "get": in wait_for(queue.get()), "flush": in _flush
  queued,    \* the length of the queue
  gathered,  \* len(batch)
  since,     \* ticks since last_flush (counted while the loop waits)
  wait       \* ticks until the wait_for times out

vars == <<loop, queued, gathered, since, wait>>

(* timeout = max(0.05, _FLUSH_INTERVAL - elapsed). *)
Timeout(elapsed) == IF Interval > elapsed THEN Interval - elapsed ELSE 1

Init ==
  /\ loop = "get"
  /\ queued = 0
  /\ gathered = 0
  /\ since = 0
  /\ wait = Timeout(0)

Enqueue ==
  /\ queued < MaxQueued
  /\ queued' = queued + 1
  /\ UNCHANGED <<loop, gathered, since, wait>>

(* The batch is full. *)
Full(n) == n >= BatchSize

(* wait_for returns a record; the next wait starts unless the batch is full. *)
Get ==
  /\ loop = "get"
  /\ queued > 0
  /\ queued' = queued - 1
  /\ gathered' = gathered + 1
  /\ IF Full(gathered + 1)
       THEN loop' = "flush" /\ UNCHANGED wait
       ELSE wait' = Timeout(since) /\ UNCHANGED loop
  /\ UNCHANGED since

(* A queued record is taken before time passes. *)
Tick ==
  /\ loop = "get"
  /\ queued = 0
  /\ wait > 0
  /\ wait' = wait - 1
  /\ since' = since + 1
  /\ UNCHANGED <<loop, queued, gathered>>

(* last_flush = now, and the next wait_for. *)
KeepsLastFlush == wait' = Timeout(since) /\ UNCHANGED since \* mutant
RestartInterval == since' = 0 /\ wait' = Timeout(0)

(* TimeoutError (also when a record arrives in the same instant): flush    *)
(* what there is, or only restart the interval.                            *)
TimesOut ==
  /\ loop = "get"
  /\ wait = 0
  /\ IF gathered > 0
       THEN loop' = "flush" /\ UNCHANGED <<since, wait>>
       ELSE RestartInterval /\ UNCHANGED loop
  /\ UNCHANGED <<queued, gathered>>

(* _flush returned: batch = [], last_flush = now. *)
FlushEnds ==
  /\ loop = "flush"
  /\ loop' = "get"
  /\ gathered' = 0
  /\ RestartInterval
  /\ UNCHANGED queued

Next == Enqueue \/ Get \/ Tick \/ TimesOut \/ FlushEnds

Spec == Init /\ [][Next]_vars

-----------------------------------------------------------------------------
(* Properties. *)

TypeOK ==
  /\ loop \in {"get", "flush"}
  /\ queued \in 0 .. MaxQueued
  /\ gathered \in 0 .. BatchSize
  /\ since \in Nat
  /\ wait \in 0 .. Interval

(* The wait under way ends at the interval, or one tick later for each     *)
(* record gathered: the inductive core of DelayBounded.                    *)
WaitBound ==
  /\ loop = "get" => since + wait <= Interval + gathered
  /\ loop = "get" => gathered < BatchSize
  /\ since < Interval + BatchSize

(* How late the flush of a gathered record can be: every record that       *)
(* arrives once the interval has run out restarts the shortest wait, so a  *)
(* steady trickle delays the flush by up to one tick for each record of    *)
(* the batch. With the code's constants that is 2 s + 499 * 0.05 s, about  *)
(* 27 s, not the "2 seconds elapsed since last flush" of writer.py:6.      *)
DelayBounded == gathered > 0 => since < Interval + BatchSize
=============================================================================
