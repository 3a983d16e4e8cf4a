------------------------ MODULE PendingQueueProofs ------------------------
(***************************************************************************)
(* Proofs about the approval queue, for every set of senders and any       *)
(* number of dropped messages: what is dropped stays counted, once, and    *)
(* nothing but the named causes makes a listed sender a registered one.    *)
(* Then those about the gate that drops the messages (IngestGate).         *)
(***************************************************************************)
EXTENDS PendingQueue, MCIngestGate, TLAPS

(* A message is counted in one place: what flush() has folded in is not to *)
(* be folded again, and a flush that is over holds nothing.                *)
CountedOnce ==
  /\ \A s \in Senders : Counted(s) <= drops
  /\ \A s \in Senders : folding[s] > 0 => upserted[s] = 0
  /\ flush = "idle" => folding = Zero /\ upserted = Zero

(* TypeOK bounds each counter by the messages dropped; that their sum is   *)
(* bounded is what makes the bound survive a commit.                       *)
IInv == TypeOK /\ CountedOnce

-----------------------------------------------------------------------------
(* The counters are numbers, so that they can be added up. *)
LEMMA CountersAreNumbers ==
  ASSUME IInv
  PROVE  /\ drops \in Nat
         /\ seen \in [Senders -> Nat] /\ table \in [Senders -> Nat]
         /\ folding \in [Senders -> Nat] /\ upserted \in [Senders -> Nat]
         /\ Zero \in [Senders -> Nat] /\ \A s \in Senders : Zero[s] = 0
BY PendingAssumption DEF IInv, TypeOK, Zero

(* A counter that is reset stays within its bound. *)
LEMMA ResetCounter ==
  ASSUME NEW n \in Nat, NEW counter \in [Senders -> 0 .. n], NEW s \in Senders
  PROVE  [counter EXCEPT ![s] = 0] \in [Senders -> 0 .. n]
OBVIOUS

(* Steps that change no counter leave the counting alone.                  *)
LEMMA SameCounters ==
  ASSUME IInv, UNCHANGED <<drops, seen, folding, upserted, table>>,
         flush' = "idle" => flush = "idle"
  PROVE  CountedOnce' /\ \A s \in Senders : Counted(s)' = Counted(s)
BY DEF IInv, CountedOnce, Counted, Zero

LEMMA PendingInit == Init => IInv
<1> SUFFICES ASSUME Init  PROVE IInv
  OBVIOUS
<1> USE PendingAssumption
<1>1. drops = 0 /\ Zero \in [Senders -> 0 .. drops] /\ 0 \in 0 .. MaxDrops
  BY DEF Init, Zero
<1>2. TypeOK
  <2>1. fault \in BOOLEAN
    BY DEF Init
  <2> QED  BY <1>1, <2>1 DEF Init, TypeOK
<1>3. CountedOnce
  BY <1>1 DEF Init, CountedOnce, Counted, Zero
<1> QED  BY <1>2, <1>3 DEF IInv

-----------------------------------------------------------------------------
(* What each step does to the counters of a sender. A step adds a message  *)
(* only when one is dropped, and takes messages away only of a registered  *)
(* or cleared sender, or when something fails.                             *)
Accounted(s) ==
  /\ Counted(s)' < Counted(s) => s \in registry \/ clearing[s] # "no" \/ fault'
  /\ Counted(s)' > Counted(s) => drops' = drops + 1 /\ Counted(s)' = Counted(s) + 1

LEMMA DropIsCounted ==
  ASSUME IInv, NEW s \in Senders, RecordUnknown(s)
  PROVE  IInv' /\ \A t \in Senders : Accounted(t)
<1>1. /\ drops' = drops + 1 /\ drops' \in 0 .. MaxDrops
      /\ seen' = [seen EXCEPT ![s] = @ + 1]
      /\ UNCHANGED <<folding, upserted, table, flush>>
  BY CountersAreNumbers, PendingAssumption DEF RecordUnknown, flushVars
<1>2. \A t \in Senders : /\ t # s => Counted(t)' = Counted(t)
                         /\ t = s => Counted(t)' = Counted(t) + 1
  BY <1>1, CountersAreNumbers DEF Counted
<1>3. CountedOnce'
  BY <1>1, <1>2, CountersAreNumbers DEF IInv, CountedOnce, Counted, Zero
<1>4. TypeOK'
  <2>1. /\ seen' \in [Senders -> 0 .. drops'] /\ table' \in [Senders -> 0 .. drops']
        /\ folding' \in [Senders -> 0 .. drops'] /\ upserted' \in [Senders -> 0 .. drops']
    BY <1>1, CountersAreNumbers DEF IInv, TypeOK
  <2>2. fault' \in BOOLEAN
    BY DEF RecordUnknown
  <2> QED  BY <1>1, <2>1, <2>2 DEF IInv, TypeOK, RecordUnknown, flushVars
<1> QED  BY <1>1, <1>2, <1>3, <1>4, CountersAreNumbers DEF IInv, Accounted, Counted

LEMMA FlushStartMoves ==
  ASSUME IInv, FlushStart
  PROVE  IInv' /\ \A t \in Senders : Accounted(t)
<1>1. /\ folding = Zero /\ upserted = Zero
      /\ folding' = seen /\ seen' = Zero /\ flush' = "check" /\ fault' = FALSE
      /\ UNCHANGED <<drops, registry, table, ignored, current, upserted, clearing>>
  BY DEF IInv, CountedOnce, FlushStart, TakesSeen
<1>2. \A t \in Senders : Counted(t)' = Counted(t)
  BY <1>1, CountersAreNumbers DEF Counted
<1>3. CountedOnce'
  BY <1>1, <1>2, CountersAreNumbers DEF IInv, CountedOnce, Counted
<1>4. TypeOK'
  BY <1>1, CountersAreNumbers DEF IInv, TypeOK, FlushStart, Zero
<1> QED  BY <1>2, <1>3, <1>4, CountersAreNumbers DEF IInv, Accounted, Counted

LEMMA FlushCheckDiscards ==
  ASSUME IInv, NEW s \in Senders, FlushCheck(s)
  PROVE  IInv' /\ \A t \in Senders : Accounted(t)
<1>1. CASE s \in registry
  <2>1. /\ folding' = [folding EXCEPT ![s] = 0]
        /\ UNCHANGED <<drops, seen, registry, table, ignored, flush, current, upserted, clearing>>
        /\ fault' = FALSE /\ flush = "check"
    BY <1>1 DEF FlushCheck
  <2>2. \A t \in Senders : /\ t # s => Counted(t)' = Counted(t)
                           /\ t = s => Counted(t)' <= Counted(t)
    BY <2>1, CountersAreNumbers DEF Counted
  <2>3. CountedOnce'
    BY <2>1, <2>2, CountersAreNumbers DEF IInv, CountedOnce, Counted, Zero
  <2>4. TypeOK'
    <3>1. folding' \in [Senders -> 0 .. drops]
      BY <2>1, CountersAreNumbers, ResetCounter DEF IInv, TypeOK
    <3> QED  BY <2>1, <3>1 DEF IInv, TypeOK
  <2> QED  BY <1>1, <2>1, <2>2, <2>3, <2>4, CountersAreNumbers DEF IInv, Accounted, Counted
<1>2. CASE s \notin registry
  <2>1. /\ UNCHANGED <<drops, seen, registry, table, ignored, folding, upserted, clearing>>
        /\ flush' = "upsert" /\ current' = s /\ fault' = FALSE /\ folding[s] > 0
    BY <1>2 DEF FlushCheck
  <2>2. TypeOK'
    BY <2>1 DEF IInv, TypeOK
  <2> QED  BY <2>1, <2>2, SameCounters, CountersAreNumbers DEF IInv, Accounted, Counted
<1> QED  BY <1>1, <1>2

(* The sender that is dealt with has a count that was not upserted yet.    *)
LEMMA CurrentIsFolded ==
  ASSUME IInv, flush = "upsert"
  PROVE  current \in Senders /\ folding[current] > 0 /\ upserted[current] = 0
BY DEF IInv, TypeOK, CountedOnce

LEMMA FlushUpsertMoves ==
  ASSUME IInv, FlushUpsert
  PROVE  IInv' /\ \A t \in Senders : Accounted(t)
<1>1. /\ flush = "upsert" /\ flush' = "check" /\ current' = None /\ fault' = FALSE
      /\ folding' = [folding EXCEPT ![current] = 0]
      /\ upserted' = [upserted EXCEPT ![current] = folding[current]]
      /\ UNCHANGED <<drops, seen, registry, table, ignored, clearing>>
  BY DEF FlushUpsert, DealtWith
<1>2. \A t \in Senders : Counted(t)' = Counted(t)
  BY <1>1, CountersAreNumbers, CurrentIsFolded DEF Counted
<1>3. CountedOnce'
  BY <1>1, <1>2, CountersAreNumbers, CurrentIsFolded DEF IInv, CountedOnce, Counted
<1>4. TypeOK'
  BY <1>1, CountersAreNumbers, CurrentIsFolded DEF IInv, TypeOK
<1> QED  BY <1>2, <1>3, <1>4, CountersAreNumbers DEF IInv, Accounted, Counted

(* A failure may lose counts, of any sender, but never makes one up.       *)
LEMMA FlushFailureLoses ==
  ASSUME IInv, FlushUpsertFails \/ FlushCommitFails
  PROVE  IInv' /\ \A t \in Senders : Accounted(t)
<1>1. CASE FlushUpsertFails
  <2>1. /\ flush = "upsert" /\ flush' = "check" /\ current' = None /\ fault' = TRUE
        /\ folding' = [folding EXCEPT ![current] = 0]
        /\ UNCHANGED <<drops, seen, registry, table, ignored, upserted, clearing>>
    BY <1>1 DEF FlushUpsertFails, DealtWith
  <2>2. \A t \in Senders : Counted(t)' <= Counted(t)
    BY <2>1, CountersAreNumbers, CurrentIsFolded DEF Counted
  <2>3. CountedOnce'
    BY <2>1, <2>2, CountersAreNumbers, CurrentIsFolded DEF IInv, CountedOnce, Counted
  <2>4. TypeOK'
    BY <2>1, CountersAreNumbers, CurrentIsFolded DEF IInv, TypeOK
  <2> QED  BY <2>1, <2>2, <2>3, <2>4, CountersAreNumbers DEF IInv, Accounted, Counted
<1>2. CASE FlushCommitFails
  <2>1. /\ folding = Zero /\ flush = "check" /\ flush' = "idle" /\ upserted' = Zero /\ fault' = TRUE
        /\ UNCHANGED <<drops, seen, registry, table, ignored, folding, current, clearing>>
    BY <1>2 DEF FlushCommitFails
  <2>2. \A t \in Senders : Counted(t)' <= Counted(t)
    BY <2>1, CountersAreNumbers DEF Counted
  <2>3. CountedOnce'
    BY <2>1, <2>2, CountersAreNumbers DEF IInv, CountedOnce, Counted
  <2>4. TypeOK'
    BY <2>1, CountersAreNumbers DEF IInv, TypeOK, Zero
  <2> QED  BY <2>1, <2>2, <2>3, <2>4, CountersAreNumbers DEF IInv, Accounted, Counted
<1> QED  BY <1>1, <1>2

LEMMA FlushCommitMoves ==
  ASSUME IInv, FlushCommit
  PROVE  IInv' /\ \A t \in Senders : Accounted(t)
<1>1. /\ folding = Zero /\ flush = "check" /\ flush' = "idle" /\ upserted' = Zero /\ fault' = FALSE
      /\ table' = [s \in Senders |-> table[s] + upserted[s]]
      /\ UNCHANGED <<drops, seen, registry, ignored, folding, current, clearing>>
  BY DEF FlushCommit, UpdatesRow, LeavesSeen
<1>2. \A t \in Senders : Counted(t)' = Counted(t)
  BY <1>1, CountersAreNumbers DEF Counted
<1>3. CountedOnce'
  BY <1>1, <1>2, CountersAreNumbers DEF IInv, CountedOnce
<1>4. \A t \in Senders : table[t] <= table'[t] /\ table'[t] \in 0 .. drops
  BY <1>1, CountersAreNumbers DEF IInv, CountedOnce, Counted
<1>5. TypeOK'
  <2>1. table' \in [Senders -> 0 .. drops]
    BY <1>1, <1>4
  <2>2. ignored \in SUBSET {s \in Senders : table'[s] > 0}
    BY <1>4, CountersAreNumbers DEF IInv, TypeOK
  <2> QED  BY <1>1, <2>1, <2>2 DEF IInv, TypeOK, Zero
<1> QED  BY <1>2, <1>3, <1>5, CountersAreNumbers DEF IInv, Accounted, Counted

(* A request that clears a sender takes away the counts of that one only.  *)
LEMMA ClearingAccounts ==
  ASSUME IInv, NEW s \in Senders, ClearStep(s)
  PROVE  IInv' /\ \A t \in Senders : Accounted(t)
<1>1. CASE ClearPops(s)
  <2>1. /\ seen' = [seen EXCEPT ![s] = 0] /\ clearing[s] = "pop" /\ fault' = FALSE
        /\ clearing' = [clearing EXCEPT ![s] = "delete"]
        /\ UNCHANGED <<drops, registry, table, ignored, flush, folding, current, upserted>>
    BY <1>1 DEF ClearPops, flushVars
  <2>2. \A t \in Senders : /\ t # s => Counted(t)' = Counted(t)
                           /\ t = s => Counted(t)' <= Counted(t)
    BY <2>1, CountersAreNumbers DEF Counted
  <2>3. CountedOnce'
    BY <2>1, <2>2, CountersAreNumbers DEF IInv, CountedOnce, Counted, Zero
  <2>4. TypeOK'
    <3>1. seen' \in [Senders -> 0 .. drops]
      BY <2>1, CountersAreNumbers, ResetCounter DEF IInv, TypeOK
    <3>2. clearing' \in [Senders -> {"no", "pop", "delete"}]
      BY <2>1 DEF IInv, TypeOK
    <3> QED  BY <2>1, <3>1, <3>2 DEF IInv, TypeOK
  <2> QED  BY <2>1, <2>2, <2>3, <2>4, CountersAreNumbers DEF IInv, Accounted, Counted
<1>2. CASE ClearDeletes(s)
  <2>1. /\ table' = [table EXCEPT ![s] = 0] /\ clearing[s] = "delete" /\ fault' = FALSE
        /\ ignored' = ignored \ {s} /\ clearing' = [clearing EXCEPT ![s] = "no"]
        /\ UNCHANGED <<drops, seen, registry, flush, folding, current, upserted>>
    BY <1>2 DEF ClearDeletes, DeletesRow, flushVars
  <2>2. \A t \in Senders : /\ t # s => Counted(t)' = Counted(t)
                           /\ t = s => Counted(t)' <= Counted(t)
    BY <2>1, CountersAreNumbers DEF Counted
  <2>3. CountedOnce'
    BY <2>1, <2>2, CountersAreNumbers DEF IInv, CountedOnce, Counted, Zero
  <2>4. TypeOK'
    <3>1. ignored' \in SUBSET {t \in Senders : table'[t] > 0}
      BY <2>1, CountersAreNumbers DEF IInv, TypeOK
    <3>2. table' \in [Senders -> 0 .. drops]
      BY <2>1, CountersAreNumbers, ResetCounter DEF IInv, TypeOK
    <3>3. clearing' \in [Senders -> {"no", "pop", "delete"}]
      BY <2>1 DEF IInv, TypeOK
    <3> QED  BY <2>1, <3>1, <3>2, <3>3 DEF IInv, TypeOK
  <2> QED  BY <2>1, <2>2, <2>3, <2>4, CountersAreNumbers DEF IInv, Accounted, Counted
<1>3. CASE ClearTimesOut(s)
  <2>1. /\ fault' = TRUE /\ clearing' = [clearing EXCEPT ![s] = "no"]
        /\ UNCHANGED <<drops, seen, registry, table, ignored, flush, folding, current, upserted>>
    BY <1>3 DEF ClearTimesOut, flushVars
  <2>2. TypeOK'
    BY <2>1 DEF IInv, TypeOK
  <2> QED  BY <2>1, <2>2, SameCounters, CountersAreNumbers DEF IInv, Accounted, Counted
<1> QED  BY <1>1, <1>2, <1>3 DEF ClearStep

(* The other requests count nothing. *)
LEMMA RequestsAccount ==
  ASSUME IInv, NEW s \in Senders,
         Approve(s) \/ Forget(s) \/ SetIgnored(s) \/ Register(s) \/ Unregister(s)
  PROVE  IInv' /\ \A t \in Senders : Accounted(t)
<1>1. /\ UNCHANGED <<drops, seen, table, flush, folding, current, upserted>>
      /\ fault' = FALSE
      /\ registry' \in SUBSET Senders
      /\ clearing' \in [Senders -> {"no", "pop", "delete"}]
      /\ ignored' \in SUBSET {t \in Senders : table[t] > 0}
  BY DEF Approve, Forget, SetIgnored, HasRow, Register, Unregister, flushVars, IInv, TypeOK
<1>2. TypeOK'
  BY <1>1 DEF IInv, TypeOK
<1> QED  BY <1>1, <1>2, SameCounters, CountersAreNumbers DEF IInv, Accounted, Counted

(* A crash leaves the table, and nothing else. *)
LEMMA CrashLoses ==
  ASSUME IInv, Crash
  PROVE  IInv' /\ \A t \in Senders : Accounted(t)
<1>1. /\ seen' = Zero /\ folding' = Zero /\ upserted' = Zero /\ flush' = "idle"
      /\ current' = None /\ fault' = TRUE /\ clearing' = [s \in Senders |-> "no"]
      /\ UNCHANGED <<drops, registry, table, ignored>>
  BY DEF Crash
<1>2. \A t \in Senders : Counted(t)' <= Counted(t)
  BY <1>1, CountersAreNumbers DEF Counted
<1>3. CountedOnce'
  BY <1>1, <1>2, CountersAreNumbers DEF IInv, CountedOnce, Counted
<1>4. TypeOK'
  BY <1>1, CountersAreNumbers DEF IInv, TypeOK, Zero
<1> QED  BY <1>1, <1>2, <1>3, <1>4, CountersAreNumbers DEF IInv, Accounted, Counted

-----------------------------------------------------------------------------
(* Every step of the queue keeps the invariant, and accounts for the       *)
(* counters.                                                               *)
LEMMA PendingStep ==
  ASSUME IInv, [Next]_vars
  PROVE  IInv' /\ (vars' # vars => \A s \in Senders : Accounted(s))
<1>1. ASSUME NEW s \in Senders, RecordUnknown(s)
      PROVE  IInv' /\ \A t \in Senders : Accounted(t)
  BY <1>1, DropIsCounted
<1>2. CASE FlushStep
  BY <1>2, FlushStartMoves, FlushCheckDiscards, FlushUpsertMoves, FlushFailureLoses,
     FlushCommitMoves DEF FlushStep
<1>3. ASSUME NEW s \in Senders, ClearStep(s)
      PROVE  IInv' /\ \A t \in Senders : Accounted(t)
  BY <1>3, ClearingAccounts
<1>4. ASSUME NEW s \in Senders,
             Approve(s) \/ Forget(s) \/ SetIgnored(s) \/ Register(s) \/ Unregister(s)
      PROVE  IInv' /\ \A t \in Senders : Accounted(t)
  BY <1>4, RequestsAccount
<1>5. CASE Crash
  BY <1>5, CrashLoses
<1>6. CASE UNCHANGED vars
  BY <1>6 DEF vars, flushVars, IInv, TypeOK, CountedOnce, Counted
<1> QED  BY <1>1, <1>2, <1>3, <1>4, <1>5, <1>6 DEF Next

(* The variables of the queue keep their types, and IInv holds throughout. *)
THEOREM PendingIInvHolds == Spec => []IInv
<1>1. IInv /\ [Next]_vars => IInv'
  BY PendingStep
<1> QED  BY <1>1, PendingInit, PTL DEF Spec

(* A dropped message is counted once, until its sender is cleared or       *)
(* registered, or something fails.                                         *)
THEOREM DropsStayCountedHolds == Spec => DropsStayCounted
<1>1. IInv /\ [Next]_vars => [\A s \in Senders : Accounted(s)]_vars
  BY PendingStep
<1>2. (\A s \in Senders : Accounted(s)) <=>
        \A s \in Senders :
          /\ Counted(s)' < Counted(s) => s \in registry \/ clearing[s] # "no" \/ fault'
          /\ Counted(s)' > Counted(s) => drops' = drops + 1 /\ Counted(s)' = Counted(s) + 1
  BY DEF Accounted
<1> QED  BY <1>1, <1>2, PendingIInvHolds, PTL DEF Spec, DropsStayCounted

(* A listed sender becomes a registered one by the three named causes.     *)
THEOREM ListedOnlyByNamedCauseHolds == Spec => ListedOnlyByNamedCause
<1> DEFINE Named(s) ==
      ListedAndRegistered(s)' /\ ~ListedAndRegistered(s) =>
        \/ table[s] > 0 /\ s \notin registry
        \/ upserted[s] > 0 /\ upserted'[s] = 0
        \/ fault'
<1>1. IInv /\ [Next]_vars => [\A s \in Senders : Named(s)]_vars
  <2> SUFFICES ASSUME IInv, [Next]_vars, NEW s \in Senders,
                      table'[s] > 0, s \in registry', clearing'[s] = "no",
                      ~ListedAndRegistered(s), ~fault',
                      table[s] > 0 => s \in registry
               PROVE  upserted[s] > 0 /\ upserted'[s] = 0
    BY DEF ListedAndRegistered
  <2>1. ASSUME table[s] > 0  PROVE FALSE
    <3>1. s \in registry /\ clearing[s] # "no"
      BY <2>1 DEF ListedAndRegistered
    <3>2. ClearDeletes(s)
      BY <3>1
         DEF Next, FlushStep, ClearStep, vars, flushVars, RecordUnknown, FlushStart, FlushCheck,
             FlushUpsert, FlushUpsertFails, FlushCommit, FlushCommitFails, Approve, Forget,
             ClearPops, ClearDeletes, ClearTimesOut, SetIgnored, Register, Unregister, Crash,
             IInv, TypeOK
    <3> QED  BY <3>2 DEF ClearDeletes, DeletesRow, IInv, TypeOK
  <2>2. CASE ~(table[s] > 0)
    <3>1. table'[s] # table[s]
      BY <2>2
    <3>2. FlushCommit
      BY <2>2, <3>1
         DEF Next, FlushStep, ClearStep, vars, flushVars, RecordUnknown, FlushStart, FlushCheck,
             FlushUpsert, FlushUpsertFails, FlushCommitFails, Approve, Forget, ClearPops,
             ClearDeletes, DeletesRow, ClearTimesOut, SetIgnored, Register, Unregister, Crash,
             IInv, TypeOK
    <3> QED  BY <2>2, <3>2, CountersAreNumbers DEF FlushCommit
  <2> QED  BY <2>1, <2>2
<1> QED  BY <1>1, PendingIInvHolds, PTL DEF Spec, ListedOnlyByNamedCause

-----------------------------------------------------------------------------
(* The gate of the ingest path (IngestGate): the bound on how far a verdict*)
(* may lag the registry, for every set of senders, every lifetime of the   *)
(* cache and any number of failed refreshes.                               *)

LEMMA GateNumbers ==
  ASSUME Gate!GateConstants
  PROVE  TTL \in Nat \ {0} /\ MaxFailures \in Nat
BY DEF Gate!GateConstants

(* Where a set of senders and the registry disagree. *)
Differs(set, s) == ~(s \in set <=> s \in Gate!Enabled)

(* The rows a refresh has read differ from the registry only where it was  *)
(* edited since: no time passes during a refresh.                          *)
RowsAreFresh ==
  /\ refresh = "swap" => \A s \in Sources : Differs(rows, s) => settled[s] = 0
  /\ rows \subseteq Sources

(* The cache of a process whose last refresh succeeded differs from the    *)
(* registry only where it was edited since that refresh; a process that    *)
(* had none passes nobody.                                                 *)
CacheIsDated ==
  /\ filled /\ failures = 0 => \A s \in Sources : Differs(cache, s) => settled[s] <= since
  /\ ~filled => cache = {}

(* Time waits for those that wait behind a refresh.                        *)
WaitersAreInTime == refresh = "none" /\ waiting # {} => Gate!Young

(* VerdictLagBounded says nothing of the cache the verdicts come from.     *)
GateIInv ==
  /\ Gate!TypeOK /\ Gate!VerdictLagBounded
  /\ RowsAreFresh /\ CacheIsDated /\ WaitersAreInTime

-----------------------------------------------------------------------------
(* What enrich() decides from a young cache is in the bound. *)
LEMMA DecidesInBound ==
  ASSUME Gate!GateConstants, GateIInv, Gate!Young, NEW s \in Sources, Gate!Decide(s)
  PROVE  verdict' \in Gate!Verdicts /\ Gate!VerdictLagBounded'
<1> DEFINE v == [passed   |-> s \in cache,
                 enabled  |-> s \in Gate!Enabled,
                 settled  |-> settled[s],
                 failures |-> failures,
                 filled   |-> filled]
<1>1. verdict' = v
  BY DEF Gate!Decide
<1>2. v \in Gate!Verdicts
  <2>1. /\ settled[s] \in 0 .. TTL
        /\ failures \in 0 .. MaxFailures
        /\ filled \in BOOLEAN
    BY DEF GateIInv, Gate!TypeOK
  <2>2. (s \in cache) \in BOOLEAN /\ (s \in Gate!Enabled) \in BOOLEAN
    OBVIOUS
  <2> QED  BY <2>1, <2>2 DEF Gate!Verdicts
<1>3. ASSUME v.passed # v.enabled
      PROVE  \/ ~v.passed /\ ~v.filled
             \/ v.failures > 0
             \/ v.settled < TTL
  <2>1. Differs(cache, s)
    BY <1>3 DEF Differs
  <2>2. CASE ~filled
    BY <2>2 DEF GateIInv, CacheIsDated
  <2>3. CASE failures # 0
    BY <2>3, GateNumbers DEF GateIInv, Gate!TypeOK
  <2>4. CASE filled /\ failures = 0
    <3>1. settled[s] <= since
      BY <2>1, <2>4 DEF GateIInv, CacheIsDated
    <3> QED  BY <3>1, GateNumbers DEF GateIInv, Gate!TypeOK, Gate!Young
  <2> QED  BY <2>2, <2>3, <2>4
<1> QED  BY <1>1, <1>2, <1>3 DEF Gate!VerdictLagBounded

(* An edit unsettles the entry it changes, and no other. *)
LEMMA EditUnsettles ==
  ASSUME Gate!GateConstants, Gate!TypeOK,
         NEW s \in Sources, NEW entry \in {"absent", "disabled", "enabled"}, Gate!Edit(s, entry)
  PROVE  /\ gateRegistry' \in [Sources -> {"absent", "disabled", "enabled"}]
         /\ settled' \in [Sources -> 0 .. TTL]
         /\ settled'[s] = 0
         /\ \A t \in Sources \ {s} :
              settled'[t] = settled[t] /\ (t \in Gate!Enabled' <=> t \in Gate!Enabled)
BY GateNumbers DEF Gate!TypeOK, Gate!Edit, Gate!Enabled

(* The gate starts within the invariant. *)
LEMMA GateInit ==
  ASSUME Gate!GateConstants, Gate!Init
  PROVE  GateIInv
<1>1. Gate!TypeOK
  <2>1. settled \in [Sources -> 0 .. TTL] /\ 0 \in 0 .. MaxFailures
    BY GateNumbers DEF Gate!Init
  <2>2. filled \in BOOLEAN
    BY DEF Gate!Init
  <2> QED  BY <2>1, <2>2 DEF Gate!Init, Gate!TypeOK
<1>2. RowsAreFresh /\ CacheIsDated /\ WaitersAreInTime /\ Gate!VerdictLagBounded
  BY DEF Gate!Init, RowsAreFresh, CacheIsDated, WaitersAreInTime, Gate!VerdictLagBounded
<1> QED  BY <1>1, <1>2 DEF GateIInv

(* Every step of the gate keeps the invariant. *)
LEMMA GateStep ==
  ASSUME Gate!GateConstants, GateIInv, [Gate!Next]_(Gate!vars)
  PROVE  GateIInv'
<1> USE GateNumbers
<1>1. ASSUME NEW s \in Sources, NEW entry \in {"absent", "disabled", "enabled"},
             Gate!Edit(s, entry)
      PROVE  GateIInv'
  <2>1. Gate!TypeOK'
    BY <1>1, EditUnsettles DEF GateIInv, Gate!TypeOK, Gate!Edit
  <2>2. ASSUME NEW t \in Sources
        PROVE  \/ settled'[t] = 0
               \/ settled'[t] = settled[t] /\ (t \in Gate!Enabled' <=> t \in Gate!Enabled)
    BY <1>1, EditUnsettles DEF GateIInv
  <2>3. RowsAreFresh'
    BY <1>1, <2>2 DEF GateIInv, RowsAreFresh, Differs, Gate!Edit
  <2>4. CacheIsDated'
    BY <1>1, <2>2 DEF GateIInv, Gate!TypeOK, CacheIsDated, Differs, Gate!Edit
  <2>5. WaitersAreInTime' /\ Gate!VerdictLagBounded'
    BY <1>1 DEF GateIInv, WaitersAreInTime, Gate!VerdictLagBounded, Gate!Young, Gate!Edit
  <2> QED  BY <2>1, <2>3, <2>4, <2>5 DEF GateIInv
<1>2. ASSUME NEW s \in Sources, Gate!MessageDecided(s) \/ Gate!WaiterDecided(s)
      PROVE  GateIInv'
  <2>1. Gate!Young /\ Gate!Decide(s)
    BY <1>2 DEF GateIInv, WaitersAreInTime, Gate!MessageDecided, Gate!WaiterDecided
  <2>2. verdict' \in Gate!Verdicts /\ Gate!VerdictLagBounded'
    BY <2>1, DecidesInBound
  <2>3. /\ UNCHANGED <<gateRegistry, settled, cache, since, refresh, rows, failures, filled>>
        /\ waiting' \subseteq waiting
    BY <1>2 DEF Gate!MessageDecided, Gate!WaiterDecided
  <2>4. RowsAreFresh' /\ CacheIsDated' /\ WaitersAreInTime'
    BY <2>3 DEF GateIInv, RowsAreFresh, CacheIsDated, WaitersAreInTime, Differs, Gate!Enabled,
         Gate!Young
  <2> QED  BY <2>2, <2>3, <2>4 DEF GateIInv, Gate!TypeOK
<1>3. ASSUME NEW s \in Sources, Gate!MessageWaits(s)
      PROVE  GateIInv'
  BY <1>3 DEF Gate!MessageWaits, GateIInv, Gate!TypeOK, RowsAreFresh, CacheIsDated,
              WaitersAreInTime,
              Gate!VerdictLagBounded, Differs, Gate!Enabled
<1>4. CASE Gate!RefreshReads
  BY <1>4 DEF Gate!RefreshReads, GateIInv, Gate!TypeOK, RowsAreFresh, CacheIsDated,
              WaitersAreInTime,
              Gate!VerdictLagBounded, Differs, Gate!Enabled
<1>5. CASE Gate!RefreshSwaps
  <2>1. /\ cache' = rows /\ since' = 0 /\ refresh' = "none" /\ rows' = {}
        /\ failures' = 0 /\ filled'
        /\ UNCHANGED <<gateRegistry, settled, waiting, verdict>>
    BY <1>5 DEF Gate!RefreshSwaps, Gate!ReplacesCache, Gate!Refreshed, Gate!MonotonicClock,
         Gate!ReleasesLock
  <2>2. \A s \in Sources : Differs(rows, s) => settled[s] = 0
    BY <1>5 DEF Gate!RefreshSwaps, GateIInv, RowsAreFresh
  <2>3. CacheIsDated'
    BY <2>1, <2>2 DEF GateIInv, Gate!TypeOK, CacheIsDated, Differs, Gate!Enabled
  <2> QED  BY <1>5, <2>1, <2>3 DEF Gate!RefreshSwaps, GateIInv, Gate!TypeOK, RowsAreFresh,
             WaitersAreInTime, Gate!VerdictLagBounded, Gate!Young
<1>6. CASE Gate!RefreshFails
  BY <1>6 DEF Gate!RefreshFails, Gate!Refreshed, Gate!MonotonicClock, Gate!ReleasesLock,
              GateIInv, Gate!TypeOK, RowsAreFresh,
              CacheIsDated, WaitersAreInTime, Gate!VerdictLagBounded, Gate!Young
<1>7. CASE Gate!Tick
  <2>1. Gate!TypeOK'
    BY <1>7 DEF Gate!Tick, Gate!Capped, GateIInv, Gate!TypeOK
  <2>2. ASSUME NEW s \in Sources, settled[s] <= since
        PROVE  settled'[s] <= since'
    BY <1>7, <2>2 DEF Gate!Tick, Gate!Capped, GateIInv, Gate!TypeOK
  <2>3. CacheIsDated'
    BY <1>7, <2>2 DEF Gate!Tick, GateIInv, CacheIsDated, Differs, Gate!Enabled
  <2> QED  BY <1>7, <2>1, <2>3 DEF Gate!Tick, GateIInv, RowsAreFresh, WaitersAreInTime,
             Gate!VerdictLagBounded
<1>8. CASE UNCHANGED Gate!vars
  BY <1>8 DEF Gate!vars, GateIInv, Gate!TypeOK, RowsAreFresh, CacheIsDated, WaitersAreInTime,
              Gate!VerdictLagBounded, Differs, Gate!Enabled, Gate!Young
<1> QED  BY <1>1, <1>2, <1>3, <1>4, <1>5, <1>6, <1>7, <1>8 DEF Gate!Next

-----------------------------------------------------------------------------
(* The variables of the gate keep their types, and GateIInv holds throughout.  *)
THEOREM GateIInvHolds == Gate!Spec => []GateIInv
<1>1. Gate!Init => GateIInv
  BY GateAssumption, GateInit
<1>2. GateIInv /\ [Gate!Next]_(Gate!vars) => GateIInv'
  BY GateAssumption, GateStep
<1> QED  BY <1>1, <1>2, PTL DEF Gate!Spec

(* A verdict lags the registry by less than one lifetime of the cache, but *)
(* for the two exceptions VerdictLagBounded names.                         *)
THEOREM VerdictLagHolds == Gate!Spec => []VerdictLagBounded
<1>1. GateIInv => VerdictLagBounded
  BY DEF GateIInv, VerdictLagBounded
<1> QED  BY <1>1, GateIInvHolds, PTL
=============================================================================
