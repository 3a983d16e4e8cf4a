---------------------------- MODULE PendingQueue ----------------------------
(***************************************************************************)
(* The approval queue of pktLog: senders that ingest drops are counted in  *)
(* memory (app/ingest/pending.py: record_unknown), folded into the table   *)
(* pending_collectors by the alert engine's tick (flush), and decided by   *)
(* an administrator (app/api/approval.py); collectors are also registered  *)
(* and removed behind the queue's back (app/api/collectors.py).            *)
(*                                                                         *)
(* flush() holds SQLite's write lock from its first upsert to its commit;  *)
(* between the check of a sender and that upsert it holds none. A request  *)
(* writes and commits in one step here, for it waits for the lock and then *)
(* keeps it to its commit.                                                 *)
(***************************************************************************)
EXTENDS Naturals, FiniteSets

CONSTANTS
  Senders,   \* the addresses whose messages the gate drops
  MaxDrops,  \* bound on the messages dropped
  None       \* no sender

ASSUME PendingAssumption ==
  /\ IsFiniteSet(Senders)
  /\ MaxDrops \in Nat
  /\ None \notin Senders

VARIABLES
  drops,     \* messages dropped so far (bounds the model)
  seen,      \* _seen: sender -> count
  registry,  \* the senders with a row in collector_registry
  table,     \* pending_collectors: sender -> message_count, 0 for no row
  ignored,   \* the rows with ignored = 1
  flush,     \* where flush() is: "idle", "check", "upsert"
  folding,   \* its copy of _seen, less what it has dealt with
  current,   \* the sender found unregistered, to be upserted
  upserted,  \* its upserts, not committed yet
  clearing,  \* where the clear() of a sender is: "no", "pop", "delete"
  fault      \* was the last step a failure? (history)

flushVars == <<flush, folding, current, upserted>>
vars == <<drops, seen, registry, table, ignored, flushVars, clearing, fault>>

Zero == [s \in Senders |-> 0]

(* No other connection can write. *)
Locked == upserted # Zero

-----------------------------------------------------------------------------
Init ==
  /\ drops = 0
  /\ seen = Zero
  /\ registry \in SUBSET Senders
  /\ table = Zero
  /\ ignored = {}
  /\ flush = "idle"
  /\ folding = Zero
  /\ current = None
  /\ upserted = Zero
  /\ clearing = [s \in Senders |-> "no"]
  /\ fault = FALSE

(* enrich() drops a message: of an unregistered or disabled sender, or of  *)
(* one the cache does not hold yet, so of any.                             *)
RecordUnknown(s) ==
  /\ drops < MaxDrops
  /\ drops' = drops + 1
  /\ seen' = [seen EXCEPT ![s] = @ + 1]
  /\ fault' = FALSE
  /\ UNCHANGED <<registry, table, ignored, flushVars, clearing>>

-----------------------------------------------------------------------------
(* flush(), once per tick. *)

(* batch = dict(_seen); _seen.clear(). *)
ClearsFirst == seen' = Zero /\ folding' = Zero \* mutant
TakesSeen == folding' = seen /\ seen' = Zero

FlushStart ==
  /\ flush = "idle"
  /\ seen # Zero
  /\ flush' = "check"
  /\ TakesSeen
  /\ fault' = FALSE
  /\ UNCHANGED <<drops, registry, table, ignored, current, upserted, clearing>>

(* The SELECT: a registered sender is discarded. *)
FlushCheck(s) ==
  /\ flush = "check"
  /\ folding[s] > 0
  /\ IF s \in registry
       THEN /\ folding' = [folding EXCEPT ![s] = 0]
            /\ UNCHANGED <<flush, current>>
       ELSE /\ flush' = "upsert"
            /\ current' = s
            /\ UNCHANGED folding
  /\ fault' = FALSE
  /\ UNCHANGED <<drops, seen, registry, table, ignored, upserted, clearing>>

DealtWith == flush' = "check" /\ current' = None /\ folding' = [folding EXCEPT ![current] = 0]

FlushUpsert ==
  /\ flush = "upsert"
  /\ upserted' = [upserted EXCEPT ![current] = folding[current]]
  /\ DealtWith
  /\ fault' = FALSE
  /\ UNCHANGED <<drops, seen, registry, table, ignored, clearing>>

(* The SELECT or the upsert raises: logged, the count of this sender is    *)
(* gone.                                                                   *)
FlushUpsertFails ==
  /\ flush = "upsert"
  /\ DealtWith
  /\ fault' = TRUE
  /\ UNCHANGED <<drops, seen, registry, table, ignored, upserted, clearing>>

(* ON CONFLICT DO UPDATE leaves ignored alone. *)
UpdatesRow == UNCHANGED ignored

(* What flush() does not touch when it commits. *)
ClearsSeenLate == seen' = Zero \* mutant: _seen.clear() at the end
LeavesSeen == UNCHANGED seen

FlushCommit ==
  /\ flush = "check"
  /\ folding = Zero
  /\ flush' = "idle"
  /\ table' = [s \in Senders |-> table[s] + upserted[s]]
  /\ upserted' = Zero
  /\ UpdatesRow
  /\ LeavesSeen
  /\ fault' = FALSE
  /\ UNCHANGED <<drops, registry, folding, current, clearing>>

(* The commit raises, outside any try of flush(): every count is gone. *)
FlushCommitFails ==
  /\ flush = "check"
  /\ folding = Zero
  /\ flush' = "idle"
  /\ upserted' = Zero
  /\ fault' = TRUE
  /\ UNCHANGED <<drops, seen, registry, table, ignored, folding, current, clearing>>

-----------------------------------------------------------------------------
(* The requests. *)

(* approve: the registry row first; a second row is refused with 409. *)
Approve(s) ==
  /\ ~Locked
  /\ s \notin registry
  /\ clearing[s] = "no"
  /\ registry' = registry \cup {s}
  /\ clearing' = [clearing EXCEPT ![s] = "pop"]
  /\ fault' = FALSE
  /\ UNCHANGED <<drops, seen, table, ignored, flushVars>>

(* forget: nothing but clear(). *)
Forget(s) ==
  /\ clearing[s] = "no"
  /\ clearing' = [clearing EXCEPT ![s] = "pop"]
  /\ fault' = FALSE
  /\ UNCHANGED <<drops, seen, registry, table, ignored, flushVars>>

ClearPops(s) ==
  /\ clearing[s] = "pop"
  /\ seen' = [seen EXCEPT ![s] = 0]
  /\ clearing' = [clearing EXCEPT ![s] = "delete"]
  /\ fault' = FALSE
  /\ UNCHANGED <<drops, registry, table, ignored, flushVars>>

KeepsRow(s) == UNCHANGED table \* mutant: clear() forgets the table
DeletesRow(s) == table' = [table EXCEPT ![s] = 0]

ClearDeletes(s) ==
  /\ ~Locked
  /\ clearing[s] = "delete"
  /\ DeletesRow(s)
  /\ ignored' = ignored \ {s}
  /\ clearing' = [clearing EXCEPT ![s] = "no"]
  /\ fault' = FALSE
  /\ UNCHANGED <<drops, seen, registry, flushVars>>

(* The DELETE waits for the lock in vain: the request ends with an error,  *)
(* the registry row of an approval stays.                                  *)
ClearTimesOut(s) ==
  /\ Locked
  /\ clearing[s] = "delete"
  /\ clearing' = [clearing EXCEPT ![s] = "no"]
  /\ fault' = TRUE
  /\ UNCHANGED <<drops, seen, registry, table, ignored, flushVars>>

(* UPDATE ... WHERE sampler_ip = s finds a row; 404 otherwise. *)
HasRow(s) == table[s] > 0

(* ignore and unignore. *)
SetIgnored(s) ==
  /\ ~Locked
  /\ HasRow(s)
  /\ \/ ignored' = ignored \cup {s}
     \/ ignored' = ignored \ {s}
  /\ fault' = FALSE
  /\ UNCHANGED <<drops, seen, registry, table, flushVars, clearing>>

(* Settings -> Collectors: create_collector and import_collectors_csv add  *)
(* a registry row, delete_collector removes one; the queue is not told.    *)
Register(s) ==
  /\ ~Locked
  /\ s \notin registry
  /\ registry' = registry \cup {s}
  /\ fault' = FALSE
  /\ UNCHANGED <<drops, seen, table, ignored, flushVars, clearing>>

Unregister(s) ==
  /\ ~Locked
  /\ s \in registry
  /\ registry' = registry \ {s}
  /\ fault' = FALSE
  /\ UNCHANGED <<drops, seen, table, ignored, flushVars, clearing>>

(* A crash: the memory, the open transaction and the requests are gone. *)
Crash ==
  /\ seen' = Zero
  /\ flush' = "idle"
  /\ folding' = Zero
  /\ current' = None
  /\ upserted' = Zero
  /\ clearing' = [s \in Senders |-> "no"]
  /\ fault' = TRUE
  /\ UNCHANGED <<drops, registry, table, ignored>>

-----------------------------------------------------------------------------
FlushStep == \/ FlushStart
             \/ \E s \in Senders : FlushCheck(s)
             \/ FlushUpsert \/ FlushUpsertFails
             \/ FlushCommit \/ FlushCommitFails

ClearStep(s) == ClearPops(s) \/ ClearDeletes(s) \/ ClearTimesOut(s)

Next ==
  \/ FlushStep
  \/ \E s \in Senders :
       \/ RecordUnknown(s) \/ Approve(s) \/ Forget(s) \/ ClearStep(s)
       \/ SetIgnored(s) \/ Register(s) \/ Unregister(s)
  \/ Crash

Spec == Init /\ [][Next]_vars

(* The tick recurs, and a coroutine that was begun goes on. *)
Fairness == WF_vars(FlushStep) /\ \A s \in Senders : WF_vars(ClearStep(s))

FairSpec == Spec /\ Fairness

-----------------------------------------------------------------------------
(* Properties. *)

(* flush() works on a sender only while it folds its count, and never on   *)
(* a count it has not taken out of _seen.                                  *)
TypeOK ==
  /\ drops \in 0 .. MaxDrops
  /\ seen \in [Senders -> 0 .. drops]
  /\ registry \in SUBSET Senders
  /\ table \in [Senders -> 0 .. drops]
  /\ ignored \in SUBSET {s \in Senders : table[s] > 0}
  /\ flush \in {"idle", "check", "upsert"}
  /\ folding \in [Senders -> 0 .. drops]
  /\ current \in IF flush = "upsert" THEN {s \in Senders : folding[s] > 0} ELSE {None}
  /\ upserted \in [Senders -> 0 .. drops]
  /\ clearing \in [Senders -> {"no", "pop", "delete"}]
  /\ fault \in BOOLEAN

(* The messages of a sender that are counted somewhere. *)
Counted(s) == seen[s] + folding[s] + upserted[s] + table[s]

(* A dropped message is counted once until an administrator clears its     *)
(* sender, the sender turns out to be registered, or something fails: what *)
(* arrives while flush() awaits the database is neither lost nor counted   *)
(* twice, although _seen is emptied without a lock (pending.py:27-29).     *)
DropsStayCounted ==
  [][\A s \in Senders :
       /\ Counted(s)' < Counted(s) =>
            s \in registry \/ clearing[s] # "no" \/ fault'
       /\ Counted(s)' > Counted(s) =>
            drops' = drops + 1 /\ Counted(s)' = Counted(s) + 1]_vars

(* A dropped sender shows in the table, unless it is registered or cleared *)
(* before: without a failure none is dropped without a trace               *)
(* (docs/ADMIN_GUIDE.md:87, "rather than silently vanishing").             *)
DroppedIsListed ==
  ([]~fault) =>
    \A s \in Senders :
      seen[s] > 0 ~> table[s] > 0 \/ s \in registry \/ clearing[s] # "no"

(* The list shows "senders seen at ingest that aren't registered"          *)
(* (app/api/approval.py:52), but for three causes: the sender was listed   *)
(* when it was registered under Settings, which clears nothing; it was     *)
(* registered between flush()'s check and its commit (pending.py:53        *)
(* promises to discard it); or the clear() of its approval failed. Nothing *)
(* else makes a listed sender a registered one.                            *)
ListedAndRegistered(s) == table[s] > 0 /\ s \in registry /\ clearing[s] = "no"

ListedOnlyByNamedCause ==
  [][\A s \in Senders :
       ListedAndRegistered(s)' /\ ~ListedAndRegistered(s) =>
         \/ table[s] > 0 /\ s \notin registry
         \/ upserted[s] > 0 /\ upserted'[s] = 0
         \/ fault']_vars
=============================================================================
