---------------------------- MODULE IngestWriter ----------------------------
(***************************************************************************)
(* The batch writer of pktLog's ingest path (app/ingest/writer.py) inside  *)
(* the life of its process: records are enqueued by the listener, gathered *)
(* into a batch, inserted into the storage backend with retries, spilled   *)
(* to a file journal when the retries are exhausted, and replayed from the *)
(* journal by a task that runs once at every start.                        *)
(*                                                                         *)
(* Three activities interleave at their awaits: the writer's loop task     *)
(* (or, once it has ended, the drain inside stop()), the replay task, and  *)
(* an insert whose task was cancelled but whose thread keeps running.      *)
(* The process may crash between any two steps; the storage backend may go *)
(* away, and may apply an insert whose caller then sees an error.          *)
(***************************************************************************)
EXTENDS Naturals, Sequences, FiniteSets, Functions

CONSTANTS
  Records,      \* the syslog records that pass the gate, each enqueued once
  BatchSize,    \* _BATCH_SIZE
  MaxRetries,   \* _MAX_RETRIES
  JournalCap,   \* journal_max_gb, in records
  MaxStarts     \* bound on the number of process starts

ASSUME WriterAssumption ==
  /\ IsFiniteSet(Records)
  /\ BatchSize \in Nat \ {0}
  /\ MaxRetries \in Nat \ {0}
  /\ JournalCap \in Nat
  /\ MaxStarts \in Nat

VARIABLES
  starts,     \* how often the process was started
  status,     \* where the process is: running, in stop(), ended
  accepted,   \* the records enqueue() has taken so far (history)
  queue,      \* BatchWriter._queue
  batch,      \* the list handed to _flush, or being gathered by _loop
  loop,       \* where _loop is
  call,       \* where the current _flush is
  attempt,    \* the attempt number of the current _flush
  orphan,     \* the insert of a cancelled _flush, still running in its thread
  journal,    \* the journal files: number (= age) -> the records written
  torn,       \* the files with an incomplete line, which replay cannot parse
  nextFile,   \* the number of the next journal file
  todo,       \* the files _replay_journal has still to visit
  rcall,      \* where the current _replay_file is
  rbatch,     \* the records read by the current _replay_file
  storageUp,  \* does the storage backend answer?
  stored,     \* how many rows of each record the storage backend holds
  doubt       \* records applied by the backend in a call not seen to succeed
              \* (history)

writerVars  == <<queue, batch, loop, call, attempt>>
journalVars == <<journal, torn, nextFile>>
replayVars  == <<todo, rcall, rbatch>>
storeVars   == <<stored, doubt>>
vars == <<starts, status, accepted, writerVars, orphan, journalVars, replayVars,
          storageUp, storeVars>>

Queued    == Range(queue)
Files     == DOMAIN journal
Readable  == Files \ torn
Journaled == UNION {journal[f] : f \in Readable}
Stored    == {r \in Records : stored[r] > 0}

(* What the writer still holds or has brought to safety. *)
Kept == Queued \cup batch \cup Journaled \cup Stored

Alive == status # "down"

-----------------------------------------------------------------------------
(* Helpers. *)

(* One more row in storage for each record of rs. *)
Insert(rs) == [r \in Records |-> stored[r] + (IF r \in rs THEN 1 ELSE 0)]

(* Bytes on disk, counted in records: the lines of the files fs. *)
SizeOf(j, fs) == Cardinality({line \in fs \X Records : line[2] \in j[line[1]]})

(* _enforce_journal_cap drops the oldest file while the total is over the  *)
(* cap: what stays is every file from which on the rest fits.              *)
Fitting(j) ==
  {f \in DOMAIN j : SizeOf(j, {g \in DOMAIN j : g >= f}) <= JournalCap}

(* An unlink that raises ends that, and so does a stat before the first.   *)
Remaining(j) ==
  {Fitting(j)} \cup {{g \in DOMAIN j : g >= f} : f \in DOMAIN j \ Fitting(j)}

(* The file the replay visits next: it goes by mtime, that is by number. *)
Oldest(fs) == CHOOSE f \in fs : \A g \in fs : f <= g

(* The batch still has a retry. *)
RetriesLeft == attempt < MaxRetries

(* _flush is entered with the records rs. *)
BeginFlush(rs) ==
  /\ batch' = rs
  /\ call' = "insert"
  /\ attempt' = 1

(* batch = [] after a flush. *)
BatchNotReset == UNCHANGED batch \* mutant
ResetBatch == batch' = {}

(* while self._running, after a flush. *)
LoopsForever == loop' = "get" \* mutant: while True
LoopsOnOrEnds == loop' = IF loop \in {"size", "time"} THEN "get" ELSE "done"

(* _flush returned: _loop forgets the batch and goes on or ends, the drain *)
(* in stop() ends.                                                         *)
EndFlush ==
  /\ ResetBatch
  /\ call' = "idle"
  /\ attempt' = 1
  /\ LoopsOnOrEnds
  /\ status' = IF status = "draining" THEN "stopped" ELSE status
  /\ UNCHANGED queue

(* write_text does not complete: some of the batch reaches the file, whose *)
(* last line may be incomplete.                                            *)
WritesPart ==
  /\ \E part \in SUBSET batch \ {batch} :
       journal' = [f \in Files \cup {nextFile} |->
                     IF f = nextFile THEN part ELSE journal[f]]
  /\ torn' \in {torn, torn \cup {nextFile}}
  /\ nextFile' = nextFile + 1

(* The inserts that were applied and whose return nobody waits for. *)
Unseen(applied, rs) == IF applied THEN rs ELSE {}

(* The process is gone, and its memory with it; the files and the storage  *)
(* backend stay.                                                           *)
ProcessEnds ==
  /\ status' = "down"
  /\ queue' = <<>>
  /\ batch' = {}
  /\ loop' = "done"
  /\ call' = "idle"
  /\ attempt' = 1
  /\ orphan' = {}
  /\ todo' = {}
  /\ rcall' = "idle"
  /\ rbatch' = {}
  /\ doubt' = doubt \cup Unseen(call = "applied", batch)
                   \cup Unseen(rcall = "applied", rbatch)

-----------------------------------------------------------------------------
Init ==
  /\ starts = 0
  /\ status = "down"
  /\ accepted = {}
  /\ queue = <<>>
  /\ batch = {}
  /\ loop = "done"
  /\ call = "idle"
  /\ attempt = 1
  /\ orphan = {}
  /\ journal = [f \in {} |-> {}]
  /\ torn = {}
  /\ nextFile = 1
  /\ todo = {}
  /\ rcall = "idle"
  /\ rbatch = {}
  /\ storageUp = TRUE
  /\ stored = [r \in Records |-> 0]
  /\ doubt = {}

(* The lifespan's startup: init_storage() raises unless the backend        *)
(* answers, then the listener starts the writer, whose replay task lists   *)
(* the files there are.                                                    *)
Start ==
  /\ status = "down"
  /\ storageUp
  /\ starts < MaxStarts
  /\ starts' = starts + 1
  /\ status' = "running"
  /\ loop' = "get"
  /\ todo' = Files
  /\ UNCHANGED <<accepted, queue, batch, call, attempt, orphan, journalVars,
                 rcall, rbatch, storageUp, storeVars>>

(* A UDP task or a TCP connection reaches writer.enqueue(); neither is     *)
(* cancelled by the listener's stop(), so it can happen until the end.     *)
Enqueue(r) ==
  /\ Alive
  /\ r \notin accepted
  /\ accepted' = accepted \cup {r}
  /\ queue' = Append(queue, r)
  /\ UNCHANGED <<starts, status, batch, loop, call, attempt, orphan,
                 journalVars, replayVars, storageUp, storeVars>>

-----------------------------------------------------------------------------
(* The loop task. *)

(* queue.get() returns; a full batch is flushed at once. *)
GetRecord ==
  /\ loop = "get"
  /\ queue # <<>>
  /\ queue' = Tail(queue)
  /\ LET gathered == batch \cup {Head(queue)} IN
       IF Cardinality(gathered) >= BatchSize
         THEN BeginFlush(gathered) /\ loop' = "size"
         ELSE batch' = gathered /\ UNCHANGED <<loop, call, attempt>>
  /\ UNCHANGED <<starts, status, accepted, orphan, journalVars, replayVars,
                 storageUp, storeVars>>

(* What a timeout flushes. *)
OnlyFullBatches == Cardinality(batch) >= BatchSize \* mutant
AnythingGathered == batch # {}

(* wait_for times out on an empty queue: what was gathered is flushed. *)
GetTimesOut ==
  /\ loop = "get"
  /\ queue = <<>>
  /\ AnythingGathered
  /\ BeginFlush(batch)
  /\ loop' = "time"
  /\ UNCHANGED <<starts, status, accepted, queue, orphan, journalVars,
                 replayVars, storageUp, storeVars>>

-----------------------------------------------------------------------------
(* _flush, called by the loop task or by the drain in stop(). *)

(* The thread's insert reaches the backend. *)
InsertApplied ==
  /\ call = "insert"
  /\ storageUp
  /\ call' = "applied"
  /\ stored' = Insert(batch)
  /\ UNCHANGED <<starts, status, accepted, queue, batch, loop, attempt, orphan,
                 journalVars, replayVars, storageUp, doubt>>

InsertReturns ==
  /\ call = "applied"
  /\ EndFlush
  /\ UNCHANGED <<starts, accepted, orphan, journalVars, replayVars, storageUp,
                 storeVars>>

(* The insert raises: the backend is away, or the answer to an insert it   *)
(* has applied is lost.                                                    *)
InsertRaises ==
  /\ \/ call = "insert" /\ ~storageUp /\ UNCHANGED doubt
     \/ call = "applied" /\ doubt' = doubt \cup batch
  /\ UNCHANGED <<starts, accepted, orphan, replayVars, storageUp, stored>>

RetryLater ==
  /\ RetriesLeft
  /\ InsertRaises
  /\ call' = "sleep"
  /\ UNCHANGED <<status, queue, batch, loop, attempt, journalVars>>

Retry ==
  /\ call = "sleep"
  /\ call' = "insert"
  /\ attempt' = attempt + 1
  /\ UNCHANGED <<starts, status, accepted, queue, batch, loop, orphan,
                 journalVars, replayVars, storageUp, storeVars>>

(* The last attempt raised: _write_journal writes the file, and drops the  *)
(* oldest files when the cap is exceeded.                                  *)
SpillToJournal ==
  /\ attempt = MaxRetries
  /\ InsertRaises
  /\ EndFlush
  /\ LET written == [f \in Files \cup {nextFile} |->
                       IF f = nextFile THEN batch ELSE journal[f]]
     IN  \E kept \in Remaining(written) :
           /\ journal' = Restrict(written, kept)
           /\ torn' = torn \cap kept
  /\ nextFile' = nextFile + 1

(* The last attempt raised and the file cannot be written (a full disk):   *)
(* the error is logged and the batch forgotten; some of its lines may have *)
(* reached the file. The cap is not enforced.                              *)
SpillFails ==
  /\ attempt = MaxRetries
  /\ InsertRaises
  /\ EndFlush
  /\ UNCHANGED journalVars \/ WritesPart

-----------------------------------------------------------------------------
(* stop(): _running is cleared and the loop task cancelled. What that does *)
(* depends on where the loop is suspended.                                 *)

(* Mutant: nothing follows the while. *)
BreakAndForget ==
  /\ loop' = "done"
  /\ batch' = {}
  /\ call' = "idle"
  /\ attempt' = 1

(* CancelledError in the try: break, and the flush after the while. *)
BreakAndFlush ==
  IF batch = {}
    THEN loop' = "done" /\ UNCHANGED <<batch, call, attempt>>
    ELSE loop' = "last" /\ BeginFlush(batch)

(* In queue.get(): the loop breaks and flushes what it had gathered. *)
StopWaiting ==
  /\ status = "running"
  /\ loop = "get"
  /\ status' = "stopping"
  /\ BreakAndFlush
  /\ UNCHANGED <<starts, accepted, queue, orphan, journalVars, replayVars,
                 storageUp, storeVars>>

(* A cancelled _flush abandons the thread of its insert. *)
AbandonInsert ==
  /\ orphan' = IF call = "insert" THEN batch ELSE {}
  /\ doubt' = doubt \cup Unseen(call = "applied", batch)

(* In the flush of a full batch, inside the try: the loop breaks and       *)
(* flushes the same batch again.                                           *)
StopFlushingFull ==
  /\ status = "running"
  /\ loop = "size"
  /\ status' = "stopping"
  /\ AbandonInsert
  /\ BreakAndFlush
  /\ UNCHANGED <<starts, accepted, queue, journalVars, replayVars, storageUp,
                 stored>>

(* In the flush inside the TimeoutError handler: CancelledError leaves     *)
(* _loop from there, past the flush after the while, and stop() swallows   *)
(* it. The batch is forgotten.                                             *)
StopFlushingTimed ==
  /\ status = "running"
  /\ loop = "time"
  /\ status' = "stopping"
  /\ AbandonInsert
  /\ loop' = "done"
  /\ batch' = {}
  /\ call' = "idle"
  /\ attempt' = 1
  /\ UNCHANGED <<starts, accepted, queue, journalVars, replayVars, storageUp,
                 stored>>

(* The loop task has ended: stop() empties the queue and flushes it. *)
Drain ==
  /\ status = "stopping"
  /\ loop = "done"
  /\ IF queue = <<>>
       THEN status' = "stopped" /\ UNCHANGED <<queue, batch, call, attempt>>
       ELSE /\ status' = "draining"
            /\ queue' = <<>>
            /\ BeginFlush(Queued)
  /\ UNCHANGED <<starts, accepted, loop, orphan, journalVars, replayVars,
                 storageUp, storeVars>>

(* The thread of an abandoned insert ends. *)
OrphanEnds ==
  /\ orphan # {}
  /\ orphan' = {}
  /\ \/ /\ storageUp
        /\ stored' = Insert(orphan)
        /\ doubt' = doubt \cup orphan
     \/ /\ ~storageUp
        /\ UNCHANGED storeVars
  /\ UNCHANGED <<starts, status, accepted, writerVars, journalVars, replayVars,
                 storageUp>>

(* The rest of the lifespan's shutdown, and the end of the process. *)
Exit ==
  /\ status = "stopped"
  /\ ProcessEnds
  /\ UNCHANGED <<starts, accepted, journalVars, storageUp, stored>>

-----------------------------------------------------------------------------
(* The replay task. *)

(* The exception of one file is logged and the next file is visited. *)
AbortsReplay == UNCHANGED todo \* mutant: no try inside the for
PassesOver == todo' = todo \ {Oldest(todo)}

(* _replay_file reads the next file; one that was dropped meanwhile or     *)
(* cannot be parsed raises, is logged and passed over.                     *)
ReplayOpen ==
  /\ rcall = "idle"
  /\ todo # {}
  /\ IF Oldest(todo) \in Readable
       THEN /\ rcall' = "insert"
            /\ rbatch' = journal[Oldest(todo)]
            /\ UNCHANGED todo
       ELSE PassesOver /\ UNCHANGED <<rcall, rbatch>>
  /\ UNCHANGED <<starts, status, accepted, writerVars, orphan, journalVars,
                 storageUp, storeVars>>

(* insert_batch returns at once when the file was empty. *)
ReplayApplied ==
  /\ rcall = "insert"
  /\ storageUp \/ rbatch = {}
  /\ rcall' = "applied"
  /\ stored' = Insert(rbatch)
  /\ UNCHANGED <<starts, status, accepted, writerVars, orphan, journalVars,
                 todo, rbatch, storageUp, doubt>>

ReplayEnds == todo' = todo \ {Oldest(todo)} /\ rcall' = "idle" /\ rbatch' = {}

Unlink ==
  /\ journal' = Restrict(journal, Files \ {Oldest(todo)})
  /\ torn' = torn \ {Oldest(todo)}
UnlinkAlways == Unlink \* mutant: finally: path.unlink()
KeepFile == UNCHANGED <<journal, torn>>

(* The insert returned: the file is removed. *)
ReplayReturns ==
  /\ rcall = "applied"
  /\ ReplayEnds
  /\ Unlink
  /\ UNCHANGED <<starts, status, accepted, writerVars, orphan, nextFile,
                 storageUp, storeVars>>

(* The insert raised: logged, the file stays until the next start. *)
ReplayRaises ==
  /\ rbatch # {}
  /\ \/ rcall = "insert" /\ ~storageUp /\ UNCHANGED doubt
     \/ rcall = "applied" /\ doubt' = doubt \cup rbatch
  /\ ReplayEnds
  /\ KeepFile
  /\ UNCHANGED <<starts, status, accepted, writerVars, orphan, nextFile,
                 storageUp, stored>>

-----------------------------------------------------------------------------
(* The environment. *)

Crash ==
  /\ Alive
  /\ ProcessEnds
  /\ UNCHANGED <<starts, accepted, journalVars, storageUp, stored>>

(* The crash falls into write_text. *)
CrashInSpill ==
  /\ call \in {"insert", "applied"}
  /\ attempt = MaxRetries
  /\ ~storageUp \/ call = "applied"
  /\ ProcessEnds
  /\ WritesPart
  /\ UNCHANGED <<starts, accepted, storageUp, stored>>

StorageFlips ==
  /\ storageUp' = ~storageUp
  /\ UNCHANGED <<starts, status, accepted, writerVars, orphan, journalVars,
                 replayVars, storeVars>>

-----------------------------------------------------------------------------
LoopStep   == GetRecord \/ GetTimesOut
FlushStep  == \/ InsertApplied \/ InsertReturns \/ RetryLater \/ Retry
              \/ SpillToJournal \/ SpillFails
StopStep   == StopWaiting \/ StopFlushingFull \/ StopFlushingTimed
ReplayStep == ReplayOpen \/ ReplayApplied \/ ReplayReturns \/ ReplayRaises

Next ==
  \/ Start
  \/ \E r \in Records : Enqueue(r)
  \/ LoopStep
  \/ FlushStep
  \/ StopStep
  \/ Drain
  \/ OrphanEnds
  \/ Exit
  \/ ReplayStep
  \/ Crash
  \/ CrashInSpill
  \/ StorageFlips

Spec == Init /\ [][Next]_vars

(* The event loop runs every ready task; every insert ends, because the    *)
(* client bounds connect, send and receive with timeouts; systemd restarts *)
(* the service (Restart=always). Nothing is assumed of arrivals, stops,    *)
(* crashes and outages.                                                    *)
Fairness ==
  /\ WF_vars(Start)
  /\ WF_vars(LoopStep)
  /\ WF_vars(FlushStep)
  /\ WF_vars(Drain)
  /\ WF_vars(OrphanEnds)
  /\ WF_vars(Exit)
  /\ WF_vars(ReplayStep)

FairSpec == Spec /\ Fairness

-----------------------------------------------------------------------------
(* Properties. *)

(* The variables have the values the code can give them. *)
TypeOK ==
  /\ starts \in Nat
  /\ status \in {"down", "running", "stopping", "draining", "stopped"}
  /\ accepted \in SUBSET Records
  /\ queue \in Seq(Records)
  /\ batch \in SUBSET Records
  /\ loop \in {"get", "size", "time", "last", "done"}
  /\ call \in {"idle", "insert", "applied", "sleep"}
  /\ attempt \in 1 .. MaxRetries
  /\ orphan \in SUBSET Records
  /\ Files \in SUBSET (1 .. nextFile - 1)
  /\ journal \in [Files -> SUBSET Records]
  /\ torn \in SUBSET Files
  /\ nextFile \in Nat \ {0}
  /\ todo \in SUBSET (1 .. nextFile - 1)
  /\ rcall \in {"idle", "insert", "applied"}
  /\ rbatch \in SUBSET Records
  /\ storageUp \in BOOLEAN
  /\ stored \in [Records -> Nat]
  /\ doubt \in SUBSET Records

(* A record waits for the backend in one place only: once in the queue, or *)
(* in the batch, or in one journal file. What retries, cancellations and   *)
(* replays do to a batch never copies a record (writer.py: _loop, _flush,  *)
(* _write_journal, stop).                                                  *)
OneHome ==
  /\ IsInjective(queue)
  /\ Queued \cap batch = {}
  /\ \A f \in Files : journal[f] \cap (Queued \cup batch) = {}
  /\ \A f, g \in Files : f # g => journal[f] \cap journal[g] = {}

(* The backend holds a second row of a record only if an earlier insert of *)
(* it was applied in a call the writer did not see succeed: its answer was *)
(* lost, its task was cancelled by stop(), or the process died before the  *)
(* replayed file was removed. Neither the batch hand-over nor the replay   *)
(* of the journal duplicates on its own.                                   *)
DuplicateOnlyInDoubt == \A r \in Records : stored[r] > 1 => r \in doubt

(* What DuplicateOnlyInDoubt rests on: where the activities are relative   *)
(* to each other, and that a record which has a row and is not in doubt is *)
(* held only by the call that has just inserted it.                        *)
Quiescent ==
  /\ loop = "get" \/ (loop = "done" /\ status # "draining") => call = "idle"
  /\ call # "idle" => batch # {}
  /\ call = "sleep" => attempt < MaxRetries
  /\ status = "down" => /\ queue = <<>> /\ batch = {} /\ orphan = {}
                        /\ loop = "done" /\ rcall = "idle" /\ todo = {}

OnlyAccepted ==
  /\ Queued \cup batch \cup orphan \cup rbatch \cup Stored \subseteq accepted
  /\ \A f \in Files : journal[f] \subseteq accepted

ReplaysOneFile ==
  /\ rbatch \cap (Queued \cup batch) = {}
  /\ rcall = "idle" => rbatch = {}
  /\ rcall # "idle" =>
       \A f \in Files : f # Oldest(todo) => journal[f] \cap rbatch = {}

StoredIsSettled ==
  \A r \in Records \ doubt :
    /\ stored[r] <= 1
    /\ stored[r] = 1 =>
         /\ r \notin Queued
         /\ r \in batch => call = "applied"
         /\ r \in rbatch => rcall = "applied"
         /\ \A f \in Files : r \in journal[f] => r \in rbatch

IInv == OneHome /\ Quiescent /\ OnlyAccepted /\ ReplaysOneFile /\ StoredIsSettled

(* A record the writer accepted leaves its hands without reaching the      *)
(* backend in four ways only: it is in memory when the process ends; it is *)
(* in the batch that is being flushed for time when the writer is stopped; *)
(* it is in the batch whose retries all failed and whose file could not be *)
(* written; or a spill exceeded the journal's cap, and then every file     *)
(* that stays is newer than those that go.                                 *)
LossStep(r) ==
  \/ r \in Queued \cup batch /\ status' = "down"
  \/ r \in batch /\ loop = "time" /\ status = "running" /\ status' = "stopping"
  \/ /\ call \in {"insert", "applied"} /\ call' = "idle"
     /\ attempt = MaxRetries
     /\ \/ r \in batch /\ Files \subseteq Files'
        \/ /\ SizeOf(journal, Files) + Cardinality(batch) > JournalCap
           /\ \A f \in Files \ Files', g \in Files' : f < g

LossOnlyByNamedCause ==
  [][\A r \in Kept : r \notin Kept' => LossStep(r)]_vars

(* No accepted record stays in memory: it is stored, spilled, or lost by   *)
(* one of the causes above, through outages, stops and restarts.           *)
MemoryIsEmptied == \A r \in Records : r \in Queued \cup batch ~> r \notin Queued \cup batch

(* A stop that was begun ends the process, whatever the backend does. *)
StopCompletes == status = "stopping" ~> status = "down"

(* The replay visits every file it found, so a file that cannot be parsed  *)
(* or inserted does not keep it from the files behind it.                  *)
ReplayCompletes == todo # {} ~> todo = {}
=============================================================================
