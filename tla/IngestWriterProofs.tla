------------------------- MODULE IngestWriterProofs -------------------------
(***************************************************************************)
(* Proofs about the batch writer, for every value of the constants: its    *)
(* variables keep their types, a record waits in one place only, a record  *)
(* gets a second row only when it was in doubt, a record is lost only for  *)
(* a named cause, and the writer implements IngestPromise.                 *)
(***************************************************************************)
EXTENDS IngestRefinement, SequenceTheorems, FiniteSetTheorems,
        WellFoundedInduction, TLAPS

-----------------------------------------------------------------------------
(* What the operators the model is built from do. *)

(* Queue.put: the record is added to what the queue holds, and the queue   *)
(* stays free of duplicates if it did not hold it.                         *)
LEMMA RangeOfAppend ==
  ASSUME NEW S, NEW q \in Seq(S), NEW e \in S
  PROVE  /\ Append(q, e) \in Seq(S)
         /\ Range(Append(q, e)) = Range(q) \cup {e}
         /\ IsInjective(q) /\ e \notin Range(q) => IsInjective(Append(q, e))
<1>1. /\ Append(q, e) \in Seq(S)
      /\ DOMAIN q = 1 .. Len(q)
      /\ DOMAIN Append(q, e) = 1 .. Len(q) + 1
      /\ \A i \in 1 .. Len(q) : Append(q, e)[i] = q[i]
      /\ Append(q, e)[Len(q) + 1] = e
      /\ Len(q) \in Nat
  BY AppendProperties, LenProperties
<1>2. Range(Append(q, e)) = Range(q) \cup {e}
  BY <1>1 DEF Range
<1>3. ASSUME IsInjective(q), e \notin Range(q)
      PROVE  IsInjective(Append(q, e))
  BY <1>1, <1>3 DEF Range, IsInjective
<1> QED  BY <1>1, <1>2, <1>3

(* Queue.get: the head leaves the queue, and is not left in it.            *)
LEMMA RangeOfTail ==
  ASSUME NEW S, NEW q \in Seq(S), q # <<>>
  PROVE  /\ Head(q) \in S
         /\ Tail(q) \in Seq(S)
         /\ Range(q) = Range(Tail(q)) \cup {Head(q)}
         /\ IsInjective(q) => IsInjective(Tail(q)) /\ Head(q) \notin Range(Tail(q))
<1>1. /\ Head(q) \in S
      /\ Tail(q) \in Seq(S)
      /\ Len(q) \in Nat \ {0}
      /\ DOMAIN q = 1 .. Len(q)
      /\ DOMAIN Tail(q) = 1 .. Len(q) - 1
      /\ \A i \in 1 .. Len(q) - 1 : Tail(q)[i] = q[i + 1]
      /\ Head(q) = q[1]
  BY EmptySeq, HeadTailProperties, LenProperties
<1>2. Range(q) \subseteq Range(Tail(q)) \cup {Head(q)}
  <2> SUFFICES ASSUME NEW i \in 1 .. Len(q)
               PROVE  q[i] \in Range(Tail(q)) \cup {Head(q)}
    BY <1>1 DEF Range
  <2>1. CASE i = 1  BY <1>1, <2>1
  <2>2. CASE i # 1
    <3>1. i - 1 \in 1 .. Len(q) - 1 /\ Tail(q)[i - 1] = q[i]
      BY <1>1, <2>2
    <3> QED  BY <1>1, <3>1 DEF Range
  <2> QED  BY <2>1, <2>2
<1>3. Range(Tail(q)) \cup {Head(q)} \subseteq Range(q)
  BY <1>1 DEF Range
<1>4. ASSUME IsInjective(q)
      PROVE  IsInjective(Tail(q)) /\ Head(q) \notin Range(Tail(q))
  BY <1>1, <1>4 DEF Range, IsInjective
<1> QED  BY <1>1, <1>2, <1>3, <1>4

(* An empty queue holds nothing. *)
LEMMA EmptyQueue ==
  ASSUME NEW S
  PROVE  <<>> \in Seq(S) /\ Range(<<>>) = {} /\ IsInjective(<<>>)
<1>1. <<>> \in Seq(S) /\ DOMAIN <<>> = {}
  BY EmptySeq, LenProperties
<1> QED  BY <1>1 DEF Range, IsInjective

(* A queue that is not empty holds something. *)
LEMMA NonemptyQueue ==
  ASSUME NEW S, NEW q \in Seq(S), q # <<>>
  PROVE  Range(q) # {}
<1>1. Head(q) \in Range(q)
  BY RangeOfTail
<1> QED  BY <1>1

(* File numbers stay file numbers when there is one more. *)
LEMMA IntervalGrows ==
  ASSUME NEW m \in Nat, NEW n \in Nat, n >= m
  PROVE  1 .. m - 1 \subseteq 1 .. n - 1
OBVIOUS

(* insert_batch adds one row for each of its records. *)
LEMMA RowsAfterInsert ==
  ASSUME TypeOK, NEW rs \in SUBSET Records
  PROVE  /\ Insert(rs) \in [Records -> Nat]
         /\ \A r \in rs : Insert(rs)[r] = stored[r] + 1
         /\ \A r \in Records \ rs : Insert(rs)[r] = stored[r]
BY DEF TypeOK, Insert

-----------------------------------------------------------------------------
(* What the cap keeps. *)

Younger == {p \in Nat \X Nat : p[1] < p[2]}

(* Of some files one is the oldest. *)
LEMMA OldestIsFirst ==
  ASSUME NEW fs \in SUBSET Nat, fs # {}
  PROVE  Oldest(fs) \in fs /\ \A g \in fs : Oldest(fs) <= g
<1>1. IsWellFoundedOn(Younger, Nat)
  <2>1. OpToRel(<, Nat) = Younger
    BY DEF OpToRel, Younger
  <2> QED  BY <2>1, NatLessThanWellFounded
<1>2. PICK f \in fs : \A g \in fs : ~ (<<g, f>> \in Younger)
  BY <1>1, WFMin
<1>3. \A g \in fs : ~ (g < f)
  BY <1>2 DEF Younger
<1>4. \A g \in fs : f <= g
  BY <1>3
<1> QED  BY <1>4 DEF Oldest

(* The lines of some files take room, and more files take no less.         *)
LEMMA MoreFilesAreLarger ==
  ASSUME NEW J, NEW fs, IsFiniteSet(fs), NEW part \in SUBSET fs
  PROVE  SizeOf(J, fs) \in Nat /\ SizeOf(J, part) <= SizeOf(J, fs)
<1> DEFINE Lines(gs) == {line \in gs \X Records : line[2] \in J[line[1]]}
<1>1. IsFiniteSet(fs \X Records)
  BY FS_Product, WriterAssumption
<1>2. Lines(fs) \in SUBSET (fs \X Records)
  OBVIOUS
<1>3. Lines(part) \in SUBSET Lines(fs)
  OBVIOUS
<1> HIDE DEF Lines
<1>4. IsFiniteSet(Lines(fs))
  BY <1>1, <1>2, FS_Subset
<1>5. Cardinality(Lines(fs)) \in Nat
  BY <1>4, FS_CardinalityType
<1>6. Cardinality(Lines(part)) <= Cardinality(Lines(fs))
  BY <1>3, <1>4, FS_Subset
<1> QED  BY <1>5, <1>6 DEF SizeOf, Lines

(* One more file takes the room of its lines.                              *)
LEMMA OneMoreFile ==
  ASSUME NEW J, NEW K, NEW fs, IsFiniteSet(fs), NEW f, f \notin fs,
         NEW rs \in SUBSET Records,
         \A g \in fs : K[g] = J[g], K[f] = rs
  PROVE  SizeOf(K, fs \cup {f}) = SizeOf(J, fs) + Cardinality(rs)
<1> DEFINE old == {line \in fs \X Records : line[2] \in J[line[1]]}
           new == {f} \X rs
<1>1. {line \in (fs \cup {f}) \X Records : line[2] \in K[line[1]]} = old \cup new
  OBVIOUS
<1>2. old \cap new = {}
  OBVIOUS
<1>3. IsFiniteSet(old)
  <2>1. IsFiniteSet(fs \X Records)
    BY FS_Product, WriterAssumption
  <2> QED  BY <2>1, FS_Subset
<1>4. IsFiniteSet(rs) /\ Cardinality(rs) \in Nat
  BY WriterAssumption, FS_Subset, FS_CardinalityType
<1>5. IsFiniteSet(new) /\ Cardinality(new) = Cardinality(rs)
  <2>1. IsFiniteSet({f}) /\ Cardinality({f}) = 1
    BY FS_Singleton
  <2> QED  BY <1>4, <2>1, FS_Product
<1> HIDE DEF old, new
<1>6. Cardinality(old \cup new) = Cardinality(old) + Cardinality(new) - Cardinality({})
  BY <1>2, <1>3, <1>5, FS_Union
<1>7. Cardinality(old) \in Nat /\ Cardinality({}) = 0
  BY <1>3, FS_CardinalityType, FS_EmptySet
<1>8. SizeOf(K, fs \cup {f}) = Cardinality(old \cup new) /\ SizeOf(J, fs) = Cardinality(old)
  BY <1>1 DEF SizeOf, old
<1> QED  BY <1>4, <1>5, <1>6, <1>7, <1>8

(* The cap keeps the newest files that fit, drops none when all fit, and   *)
(* what it drops is older than what it keeps.                              *)
LEMMA FittingFits ==
  ASSUME NEW J, DOMAIN J \in SUBSET Nat, IsFiniteSet(DOMAIN J)
  PROVE  /\ SizeOf(J, DOMAIN J) <= JournalCap => Fitting(J) = DOMAIN J
         /\ SizeOf(J, Fitting(J)) <= JournalCap
         /\ \A f \in DOMAIN J \ Fitting(J), g \in Fitting(J) : f < g
<1> DEFINE D == DOMAIN J
           Upto(f) == {g \in D : g >= f}
<1>1. \A f \in D : Upto(f) \in SUBSET D
  OBVIOUS
<1>2. \A f \in D : SizeOf(J, Upto(f)) <= SizeOf(J, D) /\ SizeOf(J, D) \in Nat
                   /\ SizeOf(J, Upto(f)) \in Nat
  <2> SUFFICES ASSUME NEW f \in D
               PROVE  SizeOf(J, Upto(f)) <= SizeOf(J, D) /\ SizeOf(J, D) \in Nat
                      /\ SizeOf(J, Upto(f)) \in Nat
    OBVIOUS
  <2>1. IsFiniteSet(Upto(f))
    BY FS_Subset
  <2> HIDE DEF D, Upto
  <2> QED  BY <1>1, <2>1, MoreFilesAreLarger DEF D
<1>3. ASSUME SizeOf(J, D) <= JournalCap
      PROVE  Fitting(J) = D
  <2> SUFFICES ASSUME NEW f \in D  PROVE SizeOf(J, Upto(f)) <= JournalCap
    BY DEF Fitting
  <2> HIDE DEF Upto, D
  <2> QED  BY <1>2, <1>3, WriterAssumption
<1>4. ASSUME NEW f \in D, NEW g \in D, f >= g, g \in Fitting(J)
      PROVE  f \in Fitting(J)
  <2>1. Upto(f) \in SUBSET Upto(g)
    BY <1>4
  <2>2. IsFiniteSet(Upto(g))
    BY FS_Subset
  <2>3. SizeOf(J, Upto(f)) <= SizeOf(J, Upto(g))
    <3> HIDE DEF Upto, D
    <3> QED  BY <2>1, <2>2, MoreFilesAreLarger
  <2>4. SizeOf(J, Upto(g)) <= JournalCap
    BY <1>4 DEF Fitting
  <2>5. SizeOf(J, Upto(f)) <= JournalCap
    <3> HIDE DEF Upto
    <3> QED  BY <1>2, <2>3, <2>4, WriterAssumption
  <2> QED  BY <2>5 DEF Fitting
<1>5. \A f \in D \ Fitting(J), g \in Fitting(J) : f < g
  <2>1. Fitting(J) \in SUBSET D
    BY DEF Fitting
  <2> HIDE DEF Upto
  <2> QED  BY <1>4, <2>1
<1>6. SizeOf(J, Fitting(J)) <= JournalCap
  <2>1. CASE Fitting(J) = {}
    <3>1. SizeOf(J, {}) = 0
      <4>1. {line \in {} \X Records : line[2] \in J[line[1]]} = {}
        OBVIOUS
      <4> QED  BY <4>1, FS_EmptySet DEF SizeOf
    <3> QED  BY <2>1, <3>1, WriterAssumption
  <2>2. CASE Fitting(J) # {}
    <3>1. Fitting(J) \in SUBSET D
      BY DEF Fitting
    <3>2. PICK m \in Fitting(J) : \A g \in Fitting(J) : m <= g
      BY <2>2, <3>1, OldestIsFirst
    <3>3. Fitting(J) = Upto(m)
      <4>1. Fitting(J) \in SUBSET Upto(m)
        BY <3>1, <3>2
      <4>2. Upto(m) \in SUBSET Fitting(J)
        BY <1>4, <3>1, <3>2
      <4> QED  BY <4>1, <4>2
    <3>4. SizeOf(J, Upto(m)) <= JournalCap
      BY DEF Fitting
    <3> QED  BY <3>3, <3>4
  <2> QED  BY <2>1, <2>2
<1> QED  BY <1>3, <1>5, <1>6
-----------------------------------------------------------------------------
(* The inductive invariant: IInv with the types.                           *)
WriterInv == TypeOK /\ IInv

(* So does the cap when an unlink fails half way.                          *)
LEMMA RemainingIsNewest ==
  ASSUME NEW J, DOMAIN J \in SUBSET Nat, IsFiniteSet(DOMAIN J), NEW keep \in Remaining(J)
  PROVE  /\ keep \in SUBSET DOMAIN J
         /\ SizeOf(J, DOMAIN J) <= JournalCap => keep = DOMAIN J
         /\ \A f \in DOMAIN J \ keep, g \in keep : f < g
<1>1. CASE keep = Fitting(J)
  <2>1. Fitting(J) \in SUBSET DOMAIN J
    BY DEF Fitting
  <2> QED  BY <1>1, <2>1, FittingFits
<1>2. ASSUME NEW h \in DOMAIN J \ Fitting(J), keep = {g \in DOMAIN J : g >= h}
      PROVE  /\ keep \in SUBSET DOMAIN J
             /\ SizeOf(J, DOMAIN J) <= JournalCap => keep = DOMAIN J
             /\ \A f \in DOMAIN J \ keep, g \in keep : f < g
  <2>1. ~(SizeOf(J, DOMAIN J) <= JournalCap)
    BY <1>2, FittingFits
  <2>2. \A f \in DOMAIN J \ keep, g \in keep : f < h /\ g >= h
    BY <1>2
  <2> QED  BY <1>2, <2>1, <2>2
<1> QED  BY <1>1, <1>2 DEF Remaining

(* Initially nothing is held anywhere. *)
LEMMA InvInitially == Init => WriterInv
<1> SUFFICES ASSUME Init  PROVE WriterInv
  OBVIOUS
<1> USE DEF Init
<1>1. Queued = {} /\ queue \in Seq(Records) /\ IsInjective(queue)
  BY EmptyQueue DEF Queued
<1>2. Files = {} /\ journal \in [Files -> SUBSET Records]
  BY DEF Files
<1>3. Stored = {}
  BY DEF Stored
<1>4. TypeOK
  BY <1>1, <1>2, WriterAssumption DEF TypeOK
<1>5. OneHome /\ OnlyAccepted /\ ReplaysOneFile /\ StoredIsSettled
  BY <1>1, <1>2, <1>3 DEF OneHome, OnlyAccepted, ReplaysOneFile, StoredIsSettled
<1>6. Quiescent
  BY DEF Quiescent
<1> QED  BY <1>4, <1>5, <1>6 DEF WriterInv, IInv

(* The files after a spill of the records rs to the next file, of which    *)
(* the cap keeps those in keep.                                            *)
LEMMA FilesAfterSpill ==
  ASSUME TypeOK, NEW rs \in SUBSET Records, NEW keep \in SUBSET (Files \cup {nextFile}),
         journal' = [f \in keep |-> IF f = nextFile THEN rs ELSE journal[f]],
         nextFile' = nextFile + 1
  PROVE  /\ Files' = keep
         /\ Files' \in SUBSET (1 .. nextFile' - 1)
         /\ journal' \in [Files' -> SUBSET Records]
         /\ nextFile' \in Nat \ {0}
         /\ \A f \in Files' : journal'[f] = IF f = nextFile THEN rs ELSE journal[f]
         /\ \A f \in Files' : f # nextFile => f \in Files
<1>1. Files' = keep
  BY DEF Files
<1>2. nextFile \in Nat \ {0} /\ Files \in SUBSET (1 .. nextFile - 1)
  BY DEF TypeOK
<1>3. nextFile' \in Nat \ {0} /\ Files' \in SUBSET (1 .. nextFile' - 1)
  BY <1>1, <1>2
<1>4. \A f \in Files : journal[f] \in SUBSET Records
  BY DEF TypeOK
<1>5. \A f \in keep : f # nextFile => f \in Files
  OBVIOUS
<1>6. journal' \in [keep -> SUBSET Records]
  BY <1>4, <1>5
<1> QED  BY <1>1, <1>3, <1>5, <1>6

(* SpillToJournal, SpillFails and CrashInSpill all write one file at most. *)
LEMMA SpillWritesOneFile ==
  ASSUME TypeOK, SpillToJournal \/ SpillFails \/ CrashInSpill
  PROVE  \/ UNCHANGED journalVars
         \/ \E part \in SUBSET batch, keep \in SUBSET (Files \cup {nextFile}) :
              /\ journal' = [f \in keep |-> IF f = nextFile THEN part ELSE journal[f]]
              /\ torn' \in SUBSET keep /\ torn \cap keep \subseteq torn'
              /\ nextFile' = nextFile + 1
<1>1. CASE SpillToJournal
  <2> DEFINE written == [f \in Files \cup {nextFile} |->
                           IF f = nextFile THEN batch ELSE journal[f]]
  <2>1. PICK keep \in Remaining(written) :
          journal' = Restrict(written, keep) /\ torn' = torn \cap keep /\ nextFile' = nextFile + 1
    BY <1>1 DEF SpillToJournal
  <2>2. keep \in SUBSET (Files \cup {nextFile})
    BY <2>1 DEF Remaining, Fitting
  <2>3. journal' = [f \in keep |-> IF f = nextFile THEN batch ELSE journal[f]]
    BY <2>1, <2>2 DEF Restrict
  <2> QED  BY <2>1, <2>2, <2>3
<1>2. CASE SpillFails
  BY <1>2 DEF SpillFails, WritesPart, TypeOK
<1>3. CASE CrashInSpill
  BY <1>3 DEF CrashInSpill, WritesPart, TypeOK
<1> QED  BY <1>1, <1>2, <1>3

(* The rows of the records inserted, and the types of the files written,   *)
(* keep every variable in its type.                                        *)
LEMMA TypeOKStep == TypeOK /\ IInv /\ [Next]_vars => TypeOK'
<1> SUFFICES ASSUME TypeOK, IInv, [Next]_vars  PROVE TypeOK'
  OBVIOUS
<1>r. MaxRetries \in Nat \ {0} /\ 1 \in 1 .. MaxRetries
  BY WriterAssumption
<1>q. <<>> \in Seq(Records)
  BY EmptyQueue
<1>f. journal' = journal => Files' = Files
  BY DEF Files
<1>b. Queued \in SUBSET Records
  BY DEF TypeOK, Queued, Range
<1>1. CASE Start
  <2>1. starts' \in Nat /\ todo' \in SUBSET (1 .. nextFile - 1)
    BY <1>1 DEF Start, TypeOK
  <2> QED  BY <1>1, <1>f, <2>1 DEF Start, TypeOK, journalVars, storeVars
<1>2. ASSUME NEW r \in Records, Enqueue(r)  PROVE TypeOK'
  <2>1. queue' \in Seq(Records)
    BY <1>2, RangeOfAppend DEF Enqueue, TypeOK
  <2> QED  BY <1>2, <1>f, <2>1 DEF Enqueue, TypeOK, journalVars, replayVars, storeVars
<1>3. CASE GetRecord
  <2>1. queue' \in Seq(Records) /\ Head(queue) \in Records
    BY <1>3, RangeOfTail DEF GetRecord, TypeOK
  <2>2. batch' \in SUBSET Records /\ loop' \in {"get", "size"}
        /\ call' \in {"idle", "insert", "applied", "sleep"} /\ attempt' \in 1 .. MaxRetries
    BY <1>3, <1>r, <2>1 DEF GetRecord, BeginFlush, TypeOK
  <2> QED  BY <1>3, <1>f, <2>1, <2>2 DEF GetRecord, TypeOK, journalVars, replayVars, storeVars
<1>4. CASE GetTimesOut
  BY <1>4, <1>f, <1>r DEF GetTimesOut, BeginFlush, TypeOK, journalVars, replayVars, storeVars
<1>5. CASE InsertApplied
  <2>1. Insert(batch) \in [Records -> Nat]
    BY RowsAfterInsert DEF TypeOK
  <2> QED  BY <1>5, <1>f, <2>1 DEF InsertApplied, TypeOK, journalVars, replayVars
<1>6. CASE InsertReturns
  BY <1>6, <1>f, <1>r DEF InsertReturns, EndFlush, ResetBatch, LoopsOnOrEnds, TypeOK,
                          journalVars, replayVars, storeVars
<1>7. CASE RetryLater
  BY <1>7, <1>f DEF RetryLater, InsertRaises, TypeOK, journalVars, replayVars
<1>8. CASE Retry
  <2>1. attempt' \in 1 .. MaxRetries
    BY <1>8, <1>r DEF Retry, TypeOK, IInv, Quiescent
  <2> QED  BY <1>8, <1>f, <2>1 DEF Retry, TypeOK, journalVars, replayVars, storeVars
<1>9. CASE SpillToJournal \/ SpillFails \/ CrashInSpill
  <2> DEFINE JournalTypes ==
               /\ Files' \in SUBSET (1 .. nextFile' - 1)
               /\ journal' \in [Files' -> SUBSET Records]
               /\ torn' \in SUBSET Files'
               /\ nextFile' \in Nat \ {0}
               /\ nextFile' >= nextFile
  <2>1. JournalTypes
    <3>1. CASE UNCHANGED journalVars
      <4>1. UNCHANGED <<journal, torn, nextFile, Files>>
        BY <1>f, <3>1 DEF journalVars
      <4> QED  BY <4>1 DEF TypeOK
    <3>2. ASSUME NEW part \in SUBSET batch, NEW keep \in SUBSET (Files \cup {nextFile}),
                 journal' = [f \in keep |-> IF f = nextFile THEN part ELSE journal[f]],
                 torn' \in SUBSET keep,
                 nextFile' = nextFile + 1
          PROVE  JournalTypes
      <4>1. part \in SUBSET Records /\ nextFile' >= nextFile
        BY <3>2 DEF TypeOK
      <4> QED  BY <3>2, <4>1, FilesAfterSpill
    <3> QED  BY <1>9, <3>1, <3>2, SpillWritesOneFile
  <2>2. CASE SpillToJournal \/ SpillFails
    <3>1. EndFlush /\ InsertRaises
      BY <2>2 DEF SpillToJournal, SpillFails
    <3>2. todo' \in SUBSET (1 .. nextFile' - 1) /\ doubt' \in SUBSET Records
      <4>1. todo' = todo /\ doubt' \in {doubt, doubt \cup batch}
        BY <3>1 DEF InsertRaises, replayVars
      <4>2. nextFile \in Nat /\ todo \in SUBSET (1 .. nextFile - 1)
            /\ doubt \in SUBSET Records /\ batch \in SUBSET Records
        BY DEF TypeOK
      <4>3. nextFile' \in Nat /\ nextFile' >= nextFile
        BY <2>1
      <4>4. 1 .. nextFile - 1 \subseteq 1 .. nextFile' - 1
        BY <4>2, <4>3, IntervalGrows
      <4> QED  BY <4>1, <4>2, <4>4
    <3>3. /\ queue' = queue /\ batch' = {} /\ call' = "idle" /\ attempt' = 1
          /\ status' \in {status, "stopped"} /\ loop' \in {"get", "done"}
      BY <3>1 DEF EndFlush, ResetBatch, LoopsOnOrEnds
    <3> QED  BY <1>r, <2>1, <3>1, <3>2, <3>3 DEF InsertRaises, TypeOK, replayVars
  <2>3. CASE CrashInSpill
    BY <1>q, <1>r, <2>1, <2>3 DEF CrashInSpill, ProcessEnds, Unseen, TypeOK
  <2> QED  BY <1>9, <2>2, <2>3
<1>10. CASE StopWaiting
  BY <1>10, <1>f, <1>r DEF StopWaiting, BreakAndFlush, BeginFlush, TypeOK, journalVars,
                           replayVars, storeVars
<1>11. CASE StopFlushingFull
  BY <1>11, <1>f, <1>r DEF StopFlushingFull, AbandonInsert, Unseen, BreakAndFlush, BeginFlush,
                           TypeOK, journalVars, replayVars
<1>12. CASE StopFlushingTimed
  BY <1>12, <1>f, <1>r DEF StopFlushingTimed, AbandonInsert, Unseen, TypeOK, journalVars,
                           replayVars
<1>13. CASE Drain
  BY <1>13, <1>b, <1>f, <1>q, <1>r DEF Drain, BeginFlush, TypeOK, journalVars, replayVars,
                                       storeVars
<1>14. CASE OrphanEnds
  <2>1. Insert(orphan) \in [Records -> Nat]
    BY RowsAfterInsert DEF TypeOK
  <2> QED  BY <1>14, <1>f, <2>1 DEF OrphanEnds, TypeOK, writerVars, journalVars, replayVars,
                                    storeVars
<1>15. CASE Exit \/ Crash
  BY <1>15, <1>f, <1>q, <1>r DEF Exit, Crash, ProcessEnds, Unseen, TypeOK, journalVars
<1>16. CASE ReplayOpen
  <2>1. Oldest(todo) \in Readable => journal[Oldest(todo)] \in SUBSET Records
    BY DEF Readable, TypeOK
  <2>2. rbatch' \in SUBSET Records /\ todo' \in SUBSET (1 .. nextFile - 1)
        /\ rcall' \in {"idle", "insert", "applied"}
    BY <1>16, <2>1 DEF ReplayOpen, PassesOver, TypeOK
  <2> QED  BY <1>16, <1>f, <2>2 DEF ReplayOpen, TypeOK, writerVars, journalVars, storeVars
<1>17. CASE ReplayApplied
  <2>1. Insert(rbatch) \in [Records -> Nat]
    BY RowsAfterInsert DEF TypeOK
  <2> QED  BY <1>17, <1>f, <2>1 DEF ReplayApplied, TypeOK, writerVars, journalVars
<1>18. CASE ReplayReturns
  <2>1. Files' = Files \ {Oldest(todo)} /\ journal' \in [Files' -> SUBSET Records]
    BY <1>18 DEF ReplayReturns, Unlink, Restrict, Files, TypeOK
  <2>2. torn' \in SUBSET Files' /\ todo' \in SUBSET (1 .. nextFile - 1)
    BY <1>18, <2>1 DEF ReplayReturns, ReplayEnds, Unlink, TypeOK
  <2> QED  BY <1>18, <2>1, <2>2 DEF ReplayReturns, ReplayEnds, TypeOK, writerVars, storeVars
<1>19. CASE ReplayRaises
  BY <1>19, <1>f DEF ReplayRaises, ReplayEnds, KeepFile, TypeOK, writerVars
<1>20. CASE StorageFlips
  BY <1>20, <1>f DEF StorageFlips, TypeOK, writerVars, journalVars, replayVars, storeVars
<1>21. CASE UNCHANGED vars
  BY <1>21, <1>f DEF vars, TypeOK, writerVars, journalVars, replayVars, storeVars
<1> QED
  BY <1>1, <1>2, <1>3, <1>4, <1>5, <1>6, <1>7, <1>8, <1>9, <1>10, <1>11, <1>12, <1>13,
     <1>14, <1>15, <1>16, <1>17, <1>18, <1>19, <1>20, <1>21
     DEF Next, LoopStep, FlushStep, StopStep, ReplayStep

-----------------------------------------------------------------------------
(* What a step does to the places a record can be in. *)

(* A place is the same when the variable it is read from is. *)
LEMMA Frame ==
  /\ queue' = queue => Queued' = Queued
  /\ queue' = <<>> => Queued' = {} /\ IsInjective(queue')
  /\ journal' = journal => Files' = Files
  /\ stored' = stored => Stored' = Stored
BY EmptyQueue DEF Queued, Files, Stored

(* A new record is in the queue only. *)
LEMMA EnqueueAdds ==
  ASSUME TypeOK, NEW r \in Records, Enqueue(r)
  PROVE  /\ Queued' = Queued \cup {r}
         /\ IsInjective(queue) /\ r \notin Queued => IsInjective(queue')
BY RangeOfAppend DEF TypeOK, Enqueue, Queued

(* The head of the queue moves to the batch. *)
LEMMA GetRecordMoves ==
  ASSUME TypeOK, GetRecord
  PROVE  /\ Head(queue) \in Records
         /\ Queued = Queued' \cup {Head(queue)}
         /\ IsInjective(queue) => IsInjective(queue') /\ Head(queue) \notin Queued'
         /\ batch' = batch \cup {Head(queue)}
<1>1. queue \in Seq(Records) /\ queue # <<>> /\ queue' = Tail(queue)
  BY DEF TypeOK, GetRecord
<1>2. batch' = batch \cup {Head(queue)}
  BY DEF GetRecord, BeginFlush
<1> QED  BY <1>1, <1>2, RangeOfTail DEF Queued

SpillStep == SpillToJournal \/ SpillFails \/ CrashInSpill

(* A spill moves the batch to the next file at most; the cap drops files. *)
LEMMA SpillMoves ==
  ASSUME TypeOK, SpillStep
  PROVE  /\ batch' = {}
         /\ queue' \in {queue, <<>>}
         /\ nextFile \notin Files
         /\ Files' \in SUBSET (Files \cup {nextFile})
         /\ \A f \in Files' : f # nextFile => journal'[f] = journal[f]
         /\ \A f \in Files' : f = nextFile => journal'[f] \in SUBSET batch
<1>1. batch' = {} /\ queue' \in {queue, <<>>}
  BY DEF SpillStep, SpillToJournal, SpillFails, CrashInSpill, EndFlush, ResetBatch, ProcessEnds
<1>2. nextFile \notin Files
  BY DEF TypeOK
<1>3. CASE UNCHANGED journalVars
  BY <1>1, <1>2, <1>3, Frame DEF journalVars
<1>4. ASSUME NEW part \in SUBSET batch, NEW keep \in SUBSET (Files \cup {nextFile}),
             journal' = [f \in keep |-> IF f = nextFile THEN part ELSE journal[f]]
      PROVE  /\ Files' \in SUBSET (Files \cup {nextFile})
             /\ \A f \in Files' : f # nextFile => journal'[f] = journal[f]
             /\ \A f \in Files' : f = nextFile => journal'[f] \in SUBSET batch
  <2>1. Files' = keep
    BY <1>4 DEF Files
  <2> QED  BY <1>4, <2>1
<1> QED  BY <1>1, <1>2, <1>3, <1>4, SpillWritesOneFile DEF SpillStep

MemoryShrinks ==
  /\ queue' \in {queue, <<>>}
  /\ batch' \in {batch, {}}
  /\ Files' \in SUBSET Files
  /\ \A f \in Files' : journal'[f] = journal[f]

(* Every other step leaves queue, batch and files as they are, or empties  *)
(* or removes them.                                                        *)
LEMMA OtherStepsShrink ==
  ASSUME TypeOK, [Next]_vars
  PROVE  \/ \E r \in Records : Enqueue(r)
         \/ GetRecord
         \/ Drain
         \/ SpillStep
         \/ MemoryShrinks
<1>f. journal' = journal => Files' \in SUBSET Files /\ \A f \in Files' : journal'[f] = journal[f]
  BY Frame
<1>1. CASE Start \/ Retry \/ InsertApplied \/ RetryLater \/ GetTimesOut \/ InsertReturns
  BY <1>1, <1>f DEF Start, Retry, InsertApplied, RetryLater, GetTimesOut, BeginFlush,
                    InsertReturns, EndFlush, ResetBatch, MemoryShrinks, journalVars
<1>2. CASE StopWaiting \/ StopFlushingFull \/ StopFlushingTimed
  BY <1>2, <1>f DEF StopWaiting, StopFlushingFull, StopFlushingTimed, BreakAndFlush, BeginFlush,
                    MemoryShrinks, journalVars
<1>3. CASE Exit \/ Crash
  BY <1>3, <1>f DEF Exit, Crash, ProcessEnds, MemoryShrinks, journalVars
<1>4. CASE ReplayReturns
  <2>1. Files' = Files \ {Oldest(todo)} /\ \A f \in Files' : journal'[f] = journal[f]
    BY <1>4 DEF ReplayReturns, Unlink, Restrict, Files
  <2> QED  BY <1>4, <2>1 DEF ReplayReturns, MemoryShrinks, writerVars
<1>5. CASE OrphanEnds \/ ReplayOpen \/ ReplayApplied \/ ReplayRaises \/ StorageFlips
           \/ UNCHANGED vars
  BY <1>5, <1>f DEF OrphanEnds, ReplayOpen, ReplayApplied, ReplayRaises, KeepFile, StorageFlips,
                    vars, MemoryShrinks, writerVars, journalVars
<1> QED
  BY <1>1, <1>2, <1>3, <1>4, <1>5
     DEF Next, LoopStep, FlushStep, StopStep, ReplayStep, SpillStep

-----------------------------------------------------------------------------
(* Each part of the invariant is kept by every step. *)

(* No step copies a record from one place it waits in to another.          *)
LEMMA OneHomeStep == TypeOK /\ IInv /\ [Next]_vars => OneHome'
<1> SUFFICES ASSUME TypeOK, IInv, [Next]_vars  PROVE OneHome'
  OBVIOUS
<1>i. /\ IsInjective(queue)
      /\ Queued \cap batch = {}
      /\ \A f \in Files : journal[f] \cap (Queued \cup batch) = {}
      /\ \A f, g \in Files : f # g => journal[f] \cap journal[g] = {}
  BY DEF IInv, OneHome
<1>1. ASSUME NEW r \in Records, Enqueue(r)  PROVE OneHome'
  <2>1. UNCHANGED <<batch, journal, Files>> /\ r \notin accepted
    BY <1>1, Frame DEF Enqueue, journalVars
  <2>2. r \notin Queued \cup batch /\ \A f \in Files : r \notin journal[f]
    BY <2>1 DEF IInv, OnlyAccepted
  <2>3. Queued' = Queued \cup {r} /\ IsInjective(queue')
    BY <1>1, <1>i, <2>2, EnqueueAdds
  <2> QED  BY <1>i, <2>1, <2>2, <2>3 DEF OneHome
<1>2. CASE GetRecord
  <2>1. UNCHANGED <<journal, Files>>
    BY <1>2, Frame DEF GetRecord, journalVars
  <2> QED  BY <1>2, <1>i, <2>1, GetRecordMoves DEF OneHome
<1>3. CASE Drain
  <2>1. UNCHANGED <<journal, Files>>
    BY <1>3, Frame DEF Drain, journalVars
  <2>2. CASE queue = <<>>
    BY <1>3, <1>i, <2>1, <2>2, Frame DEF Drain, OneHome
  <2>3. CASE queue # <<>>
    <3>1. Queued' = {} /\ IsInjective(queue') /\ batch' = Queued
      BY <1>3, <2>3, Frame DEF Drain, BeginFlush
    <3> QED  BY <1>i, <2>1, <3>1 DEF OneHome
  <2> QED  BY <2>2, <2>3
<1>4. CASE SpillStep
  <2>1. Queued' \in SUBSET Queued /\ IsInjective(queue')
    BY <1>4, <1>i, SpillMoves, Frame
  <2> QED  BY <1>4, <1>i, <2>1, SpillMoves DEF OneHome
<1>5. CASE MemoryShrinks
  <2>1. Queued' \in SUBSET Queued /\ IsInjective(queue')
    BY <1>5, <1>i, Frame DEF MemoryShrinks
  <2> QED  BY <1>5, <1>i, <2>1 DEF MemoryShrinks, OneHome
<1> QED  BY <1>1, <1>2, <1>3, <1>4, <1>5, OtherStepsShrink

(* A flush, the loop and the process stay in step with each other.         *)
LEMMA QuiescentStep == TypeOK /\ IInv /\ [Next]_vars => Quiescent'
<1> SUFFICES ASSUME TypeOK, Quiescent, [Next]_vars  PROVE Quiescent'
  BY DEF IInv
<1> USE DEF Quiescent
<1>1. CASE Start
  BY <1>1 DEF Start
<1>2. ASSUME NEW r \in Records, Enqueue(r)  PROVE Quiescent'
  BY <1>2 DEF Enqueue, Alive, replayVars
<1>3. CASE GetRecord
  <2>1. batch' # {}
    BY <1>3 DEF GetRecord, BeginFlush
  <2> QED  BY <1>3, <2>1 DEF GetRecord, BeginFlush, replayVars
<1>4. CASE GetTimesOut
  BY <1>4 DEF GetTimesOut, AnythingGathered, BeginFlush, replayVars
<1>5. CASE InsertApplied \/ RetryLater \/ Retry
  BY <1>5 DEF InsertApplied, RetryLater, RetriesLeft, InsertRaises, Retry, replayVars
<1>6. CASE InsertReturns \/ SpillToJournal \/ SpillFails
  <2>1. /\ EndFlush /\ call # "idle" /\ UNCHANGED replayVars
    BY <1>6 DEF InsertReturns, SpillToJournal, SpillFails, InsertRaises
  <2>2. status # "down" /\ status' # "down"
    BY <2>1 DEF EndFlush
  <2>3. call' = "idle"
    BY <2>1 DEF EndFlush
  <2> QED  BY <2>2, <2>3
<1>7. CASE StopWaiting \/ StopFlushingFull \/ StopFlushingTimed
  BY <1>7 DEF StopWaiting, StopFlushingFull, StopFlushingTimed, BreakAndFlush, BeginFlush,
              TypeOK
<1>8. CASE Drain
  <2>1. CASE queue = <<>>
    BY <1>8, <2>1 DEF Drain
  <2>2. CASE queue # <<>>
    <3>1. Queued # {}
      BY <2>2, NonemptyQueue DEF Queued, TypeOK
    <3> QED  BY <1>8, <2>2, <3>1 DEF Drain, BeginFlush
  <2> QED  BY <2>1, <2>2
<1>9. CASE Exit \/ Crash \/ CrashInSpill
  BY <1>9 DEF Exit, Crash, CrashInSpill, ProcessEnds
<1>10. CASE OrphanEnds
  BY <1>10 DEF OrphanEnds, writerVars, replayVars
<1>11. CASE ReplayOpen \/ ReplayApplied \/ ReplayReturns \/ ReplayRaises
  BY <1>11 DEF ReplayOpen, PassesOver, ReplayApplied, ReplayReturns, ReplayRaises, ReplayEnds,
               writerVars
<1>12. CASE StorageFlips \/ UNCHANGED vars
  BY <1>12 DEF StorageFlips, vars, writerVars, replayVars
<1> QED
  BY <1>1, <1>2, <1>3, <1>4, <1>5, <1>6, <1>7, <1>8, <1>9, <1>10, <1>11, <1>12
     DEF Next, LoopStep, FlushStep, StopStep, ReplayStep

Opens == ReplayOpen /\ Oldest(todo) \in Readable

(* A file becomes the replayed one only while nothing is replayed; the     *)
(* records of a replay stay the same until it ends.                        *)
LEMMA ReplayMoves ==
  ASSUME TypeOK, IInv, [Next]_vars
  PROVE  \/ rcall' = "idle" /\ rbatch' = {}
         \/ rcall # "idle" /\ rcall' # "idle" /\ UNCHANGED <<todo, rbatch>>
         \/ Opens
<1>i. /\ rcall = "idle" => rbatch = {}
      /\ status = "down" => rcall = "idle"
  BY DEF IInv, ReplaysOneFile, Quiescent
<1>1. CASE Start
  BY <1>1, <1>i DEF Start
<1>2. CASE Exit \/ Crash \/ CrashInSpill
  BY <1>2 DEF Exit, Crash, CrashInSpill, ProcessEnds
<1>3. CASE ReplayOpen
  BY <1>3, <1>i DEF ReplayOpen, Opens
<1>4. CASE ReplayApplied \/ ReplayReturns \/ ReplayRaises
  BY <1>4 DEF ReplayApplied, ReplayReturns, ReplayRaises, ReplayEnds
<1>5. ASSUME UNCHANGED replayVars
      PROVE  \/ rcall' = "idle" /\ rbatch' = {}
             \/ rcall # "idle" /\ rcall' # "idle" /\ UNCHANGED <<todo, rbatch>>
  BY <1>5, <1>i DEF replayVars
<1>6. (\E r \in Records : Enqueue(r)) \/ LoopStep \/ FlushStep \/ StopStep \/ Drain \/ OrphanEnds
        \/ StorageFlips \/ UNCHANGED vars => UNCHANGED replayVars
  BY DEF Enqueue, LoopStep, GetRecord, GetTimesOut, FlushStep, InsertApplied, InsertReturns,
         RetryLater, Retry, SpillToJournal, SpillFails, InsertRaises, StopStep, StopWaiting,
         StopFlushingFull, StopFlushingTimed, Drain, OrphanEnds, StorageFlips, vars
<1> QED
  BY <1>1, <1>2, <1>3, <1>4, <1>5, <1>6 DEF Next, ReplayStep

(* What a replay has read is in the file it visits and nowhere else.       *)
LEMMA ReplaysOneFileStep == TypeOK /\ IInv /\ [Next]_vars => ReplaysOneFile'
<1> SUFFICES ASSUME TypeOK, IInv, [Next]_vars  PROVE ReplaysOneFile'
  OBVIOUS
<1>i. /\ rbatch \cap (Queued \cup batch) = {}
      /\ rcall # "idle" =>
           \A f \in Files : f # Oldest(todo) => journal[f] \cap rbatch = {}
  BY DEF IInv, ReplaysOneFile
<1>1. CASE rcall' = "idle" /\ rbatch' = {}
  BY <1>1 DEF ReplaysOneFile
<1>2. CASE rcall # "idle" /\ rcall' # "idle" /\ UNCHANGED <<todo, rbatch>>
  <2>1. ASSUME NEW r \in Records, Enqueue(r)
        PROVE  rbatch \cap (Queued' \cup batch') = {} /\ UNCHANGED <<journal, Files>>
    <3>1. r \notin rbatch
      BY <2>1 DEF Enqueue, IInv, OnlyAccepted
    <3> QED  BY <1>i, <2>1, <3>1, EnqueueAdds, Frame DEF Enqueue, journalVars
  <2>2. CASE GetRecord
    <3>1. rbatch \cap (Queued' \cup batch') = {}
      BY <1>i, <2>2, GetRecordMoves
    <3> QED  BY <1>2, <1>i, <2>2, <3>1, Frame DEF GetRecord, journalVars, ReplaysOneFile
  <2>3. CASE Drain
    <3>1. UNCHANGED <<journal, Files>>
      BY <2>3, Frame DEF Drain, journalVars
    <3>2. Queued' \cup batch' \subseteq Queued \cup batch
      BY <2>3, Frame DEF Drain, BeginFlush
    <3> QED  BY <1>2, <1>i, <3>1, <3>2 DEF ReplaysOneFile
  <2>4. CASE SpillStep \/ MemoryShrinks
    <3>1. Queued' \cup batch' \subseteq Queued \cup batch
      BY <2>4, SpillMoves, Frame DEF MemoryShrinks
    <3>2. \A f \in Files' : \/ journal'[f] \in SUBSET batch
                            \/ f \in Files /\ journal'[f] = journal[f]
      <4>1. CASE SpillStep
        BY <4>1, SpillMoves
      <4>2. CASE MemoryShrinks
        BY <4>2 DEF MemoryShrinks
      <4> QED  BY <2>4, <4>1, <4>2
    <3>3. rbatch \cap (Queued' \cup batch') = {} /\ batch \cap rbatch = {}
      BY <1>i, <3>1
    <3>4. ASSUME NEW f \in Files', f # Oldest(todo)
          PROVE  journal'[f] \cap rbatch = {}
      BY <1>2, <1>i, <3>2, <3>3, <3>4
    <3> QED  BY <1>2, <3>3, <3>4 DEF ReplaysOneFile
  <2> QED  BY <1>2, <1>i, <2>1, <2>2, <2>3, <2>4, OtherStepsShrink DEF ReplaysOneFile
<1>3. CASE Opens
  <2>1. UNCHANGED <<journal, Files, Queued, batch, todo>> /\ rbatch' = journal[Oldest(todo)]
    BY <1>3, Frame DEF Opens, ReplayOpen, journalVars, writerVars
  <2>2. Oldest(todo) \in Files /\ rcall' # "idle"
    BY <1>3 DEF Opens, ReplayOpen, Readable
  <2> QED  BY <2>1, <2>2 DEF ReplaysOneFile, IInv, OneHome
<1> QED  BY <1>1, <1>2, <1>3, ReplayMoves

(* A record has a row once it was inserted.                                *)
LEMMA InsertStores ==
  ASSUME TypeOK, NEW rs \in SUBSET Records, stored' = Insert(rs)
  PROVE  Stored' = Stored \cup rs
<1>1. \A r \in rs : stored'[r] > 0 /\ r \in Records
  BY RowsAfterInsert DEF TypeOK
<1>2. \A r \in Records \ rs : stored'[r] = stored[r]
  BY RowsAfterInsert
<1> QED  BY <1>1, <1>2 DEF Stored

(* What is inserted was held before, and what a call gives up stays with   *)
(* the thread of its insert.                                               *)
LEMMA RowsMove ==
  ASSUME TypeOK, [Next]_vars
  PROVE  /\ accepted \in SUBSET accepted'
         /\ Stored' \in {Stored, Stored \cup batch, Stored \cup orphan, Stored \cup rbatch}
         /\ orphan' \in {orphan, batch, {}}
         /\ rbatch' \in {rbatch, {}} \/ Opens
<1>1. CASE InsertApplied \/ OrphanEnds \/ ReplayApplied
  BY <1>1, InsertStores, Frame DEF InsertApplied, OrphanEnds, ReplayApplied, TypeOK, replayVars, storeVars
<1>2. CASE Start \/ (\E r \in Records : Enqueue(r)) \/ GetRecord \/ GetTimesOut \/ InsertReturns
           \/ RetryLater \/ Retry \/ SpillToJournal \/ SpillFails \/ StopStep \/ Drain
           \/ StorageFlips \/ UNCHANGED vars
  BY <1>2, Frame
     DEF Start, Enqueue, GetRecord, GetTimesOut, InsertReturns, RetryLater, Retry,
         SpillToJournal, SpillFails, InsertRaises, StopStep, StopWaiting, StopFlushingFull,
         StopFlushingTimed, AbandonInsert, Drain, StorageFlips, vars, replayVars, storeVars
<1>3. CASE Exit \/ Crash \/ CrashInSpill
  BY <1>3, Frame DEF Exit, Crash, CrashInSpill, ProcessEnds
<1>4. CASE ReplayOpen \/ ReplayReturns \/ ReplayRaises
  BY <1>4, Frame DEF ReplayOpen, Opens, ReplayReturns, ReplayRaises, ReplayEnds, storeVars
<1> QED
  BY <1>1, <1>2, <1>3, <1>4 DEF Next, LoopStep, FlushStep, ReplayStep

(* Every place holds records only that enqueue() has taken.                *)
LEMMA OnlyAcceptedStep == TypeOK /\ IInv /\ [Next]_vars => OnlyAccepted'
<1> SUFFICES ASSUME TypeOK, IInv, [Next]_vars  PROVE OnlyAccepted'
  OBVIOUS
<1>i. /\ Queued \cup batch \cup orphan \cup rbatch \cup Stored \subseteq accepted
      /\ \A f \in Files : journal[f] \subseteq accepted
  BY DEF IInv, OnlyAccepted
<1>1. accepted \subseteq accepted' /\ Stored' \cup orphan' \subseteq accepted'
  BY <1>i, RowsMove
<1>2. rbatch' \subseteq accepted'
  <2>1. CASE Opens
    BY <1>1, <1>i, <2>1 DEF Opens, ReplayOpen, Readable
  <2> QED  BY <1>1, <1>i, <2>1, RowsMove
<1>3. Queued' \cup batch' \subseteq accepted' /\ \A f \in Files' : journal'[f] \subseteq accepted'
  <2>1. ASSUME NEW r \in Records, Enqueue(r)
        PROVE  <1>3
    BY <1>i, <2>1, EnqueueAdds, Frame DEF Enqueue, journalVars
  <2>2. CASE GetRecord
    BY <1>1, <1>i, <2>2, GetRecordMoves, Frame DEF GetRecord, journalVars
  <2>3. CASE Drain
    BY <1>1, <1>i, <2>3, Frame DEF Drain, BeginFlush, journalVars
  <2>4. CASE SpillStep
    BY <1>1, <1>i, <2>4, SpillMoves, Frame
  <2>5. CASE MemoryShrinks
    BY <1>1, <1>i, <2>5, Frame DEF MemoryShrinks
  <2> QED  BY <2>1, <2>2, <2>3, <2>4, <2>5, OtherStepsShrink
<1> QED  BY <1>1, <1>2, <1>3 DEF OnlyAccepted

(* A row that was seen to be written is not going to be written again.     *)
LEMMA StoredIsSettledStep == TypeOK /\ IInv /\ [Next]_vars => StoredIsSettled'
<1> SUFFICES ASSUME TypeOK, IInv, [Next]_vars, NEW r \in Records, r \notin doubt'
             PROVE  /\ stored'[r] <= 1
                    /\ stored'[r] = 1 =>
                         /\ r \notin Queued'
                         /\ r \in batch' => call' = "applied"
                         /\ r \in rbatch' => rcall' = "applied"
                         /\ \A f \in Files' : r \in journal'[f] => r \in rbatch'
  BY DEF StoredIsSettled
<1> DEFINE Settled == /\ r \notin Queued
                      /\ r \in batch => call = "applied"
                      /\ r \in rbatch => rcall = "applied"
                      /\ \A f \in Files : r \in journal[f] => r \in rbatch
<1>h. stored[r] \in Nat /\ (stored[r] = 1 => r \in accepted)
  BY DEF TypeOK, IInv, OnlyAccepted, Stored
<1>q. loop = "get" \/ (loop = "done" /\ status # "draining") => call = "idle"
  BY DEF IInv, Quiescent
<1>o. /\ Queued \cap batch = {} /\ rbatch \cap (Queued \cup batch) = {}
      /\ \A f \in Files : journal[f] \cap (Queued \cup batch) = {}
  BY DEF IInv, OneHome, ReplaysOneFile
<1>d. ASSUME doubt \in SUBSET doubt'
      PROVE  stored[r] <= 1 /\ (stored[r] = 1 => Settled)
  BY <1>d DEF IInv, StoredIsSettled
<1>1. CASE Start
  BY <1>1, <1>d, Frame DEF Start, journalVars, storeVars
<1>2. ASSUME NEW n \in Records, Enqueue(n)  PROVE stored'[r] <= 1 /\ (stored'[r] = 1 => Settled')
  <2>1. UNCHANGED <<batch, call, journal, Files, rbatch, rcall, stored, doubt>> /\ n \notin accepted
    BY <1>2, Frame DEF Enqueue, journalVars, replayVars, storeVars
  <2> QED  BY <1>2, <1>d, <1>h, <2>1, EnqueueAdds
<1>3. CASE GetRecord
  <2>1. UNCHANGED <<journal, Files, rbatch, rcall, stored, doubt>> /\ call = "idle"
    BY <1>3, <1>q, Frame DEF GetRecord, journalVars, replayVars, storeVars
  <2> QED  BY <1>3, <1>d, <2>1, GetRecordMoves
<1>4. CASE GetTimesOut
  BY <1>4, <1>d, <1>q, Frame DEF GetTimesOut, BeginFlush, journalVars, replayVars, storeVars
<1>5. CASE InsertApplied
  <2>1. /\ UNCHANGED <<Queued, batch, journal, Files, rbatch, rcall, doubt>>
        /\ call = "insert" /\ call' = "applied" /\ stored' = Insert(batch)
    BY <1>5, Frame DEF InsertApplied, journalVars, replayVars
  <2>2. CASE r \in batch
    <3>1. stored[r] = 0 /\ stored'[r] = 1
      BY <1>d, <1>h, <2>1, <2>2, RowsAfterInsert DEF TypeOK
    <3> QED  BY <1>o, <2>1, <2>2, <3>1
  <2>3. CASE r \notin batch
    BY <1>d, <2>1, <2>3, RowsAfterInsert DEF TypeOK
  <2> QED  BY <2>2, <2>3
<1>6. CASE InsertReturns
  BY <1>6, <1>d, Frame DEF InsertReturns, EndFlush, ResetBatch, journalVars, replayVars, storeVars
<1>7. CASE RetryLater
  BY <1>7, <1>d, Frame DEF RetryLater, InsertRaises, journalVars, replayVars
<1>8. CASE Retry
  BY <1>8, <1>d, Frame DEF Retry, journalVars, replayVars, storeVars
<1>9. CASE SpillStep
  <2>1. UNCHANGED stored /\ doubt \in SUBSET doubt' /\ call \in {"insert", "applied"}
        /\ (r \in batch => call # "applied")
    BY <1>9 DEF SpillStep, SpillToJournal, SpillFails, InsertRaises, CrashInSpill, ProcessEnds, Unseen
  <2>2. UNCHANGED <<rbatch, rcall>> \/ (rbatch' = {} /\ r \notin Unseen(rcall = "applied", rbatch))
    BY <1>9 DEF SpillStep, SpillToJournal, SpillFails, InsertRaises, CrashInSpill, ProcessEnds,
                replayVars
  <2>3. Queued' \in SUBSET Queued /\ batch' = {}
    BY <1>9, SpillMoves, Frame
  <2>4. \A f \in Files' : r \in journal'[f] => r \in batch \/ \E g \in Files : r \in journal[g]
    BY <1>9, SpillMoves
  <2> QED  BY <1>d, <2>1, <2>2, <2>3, <2>4 DEF Unseen
<1>10. CASE StopWaiting
  BY <1>10, <1>d, <1>q, Frame DEF StopWaiting, BreakAndFlush, BeginFlush, journalVars, replayVars,
                                  storeVars
<1>11. CASE StopFlushingFull \/ StopFlushingTimed
  <2>1. /\ UNCHANGED <<Queued, journal, Files, rbatch, rcall, stored>>
        /\ doubt' = doubt \cup Unseen(call = "applied", batch)
        /\ batch' \in {batch, {}}
    BY <1>11, Frame DEF StopFlushingFull, StopFlushingTimed, AbandonInsert, BreakAndFlush,
                        BeginFlush, journalVars, replayVars
  <2> QED  BY <1>d, <2>1 DEF Unseen
<1>12. CASE Drain
  <2>1. UNCHANGED <<journal, Files, rbatch, rcall, stored, doubt>> /\ call = "idle"
    BY <1>12, <1>q, Frame DEF Drain, journalVars, replayVars, storeVars
  <2>2. \/ UNCHANGED <<Queued, batch, call>>
        \/ Queued' = {} /\ batch' = Queued
    BY <1>12, Frame DEF Drain, BeginFlush
  <2> QED  BY <1>d, <2>1, <2>2
<1>13. CASE OrphanEnds
  <2>1. UNCHANGED <<Queued, batch, call, journal, Files, rbatch, rcall>> /\ doubt \in SUBSET doubt'
    BY <1>13, Frame DEF OrphanEnds, writerVars, journalVars, replayVars, storeVars
  <2>2. stored'[r] = stored[r]
    BY <1>13, RowsAfterInsert DEF OrphanEnds, TypeOK, storeVars
  <2> QED  BY <1>d, <2>1, <2>2
<1>14. CASE Exit \/ Crash
  <2>1. /\ UNCHANGED <<journal, Files, stored>> /\ Queued' = {} /\ batch' = {} /\ rbatch' = {}
        /\ doubt \in SUBSET doubt' /\ r \notin Unseen(rcall = "applied", rbatch)
    BY <1>14, Frame DEF Exit, Crash, ProcessEnds, journalVars
  <2> QED  BY <1>d, <2>1 DEF Unseen
<1>15. CASE ReplayOpen
  <2>1. UNCHANGED <<Queued, batch, call, journal, Files, stored, doubt>> /\ rbatch = {}
    BY <1>15, Frame DEF ReplayOpen, writerVars, journalVars, storeVars, IInv, ReplaysOneFile
  <2>2. rbatch' = {} \/ (Oldest(todo) \in Files /\ rbatch' = journal[Oldest(todo)])
    BY <1>15, <2>1 DEF ReplayOpen, Readable
  <2> QED  BY <1>d, <2>1, <2>2
<1>16. CASE ReplayApplied
  <2>1. /\ UNCHANGED <<Queued, batch, call, journal, Files, rbatch, doubt>>
        /\ rcall = "insert" /\ rcall' = "applied" /\ stored' = Insert(rbatch)
    BY <1>16, Frame DEF ReplayApplied, writerVars, journalVars
  <2>2. CASE r \in rbatch
    <3>1. stored[r] = 0 /\ stored'[r] = 1
      BY <1>d, <1>h, <2>1, <2>2, RowsAfterInsert DEF TypeOK
    <3> QED  BY <1>o, <2>1, <2>2, <3>1
  <2>3. CASE r \notin rbatch
    BY <1>d, <2>1, <2>3, RowsAfterInsert DEF TypeOK
  <2> QED  BY <2>2, <2>3
<1>17. CASE ReplayReturns
  <2>1. /\ UNCHANGED <<Queued, batch, call, stored, doubt>>
        /\ Files' = Files \ {Oldest(todo)} /\ rbatch' = {} /\ rcall # "idle"
        /\ \A f \in Files' : journal'[f] = journal[f]
    BY <1>17, Frame DEF ReplayReturns, ReplayEnds, Unlink, Restrict, Files, writerVars, storeVars
  <2>2. \A f \in Files' : journal'[f] \cap rbatch = {}
    BY <2>1 DEF IInv, ReplaysOneFile
  <2> QED  BY <1>d, <2>1, <2>2
<1>18. CASE ReplayRaises
  <2>1. /\ UNCHANGED <<Queued, batch, call, journal, Files, stored>> /\ rbatch' = {}
        /\ doubt \in SUBSET doubt' /\ (r \in rbatch => rcall # "applied")
    BY <1>18, Frame DEF ReplayRaises, ReplayEnds, KeepFile, writerVars
  <2> QED  BY <1>d, <2>1
<1>19. CASE StorageFlips \/ UNCHANGED vars
  BY <1>19, <1>d, Frame DEF StorageFlips, vars, writerVars, journalVars, replayVars, storeVars
<1> QED
  BY <1>1, <1>2, <1>3, <1>4, <1>5, <1>6, <1>7, <1>8, <1>9, <1>10, <1>11, <1>12, <1>13,
     <1>14, <1>15, <1>16, <1>17, <1>18, <1>19
     DEF Next, LoopStep, FlushStep, StopStep, ReplayStep, SpillStep

-----------------------------------------------------------------------------
(* What the steps that let go of records rest on, beyond WriterInv.        *)

(* Nothing is gathered once _loop has ended.                               *)
EndedLoopHoldsNothing == loop = "done" /\ status # "draining" => batch = {}

(* An insert that was applied has brought all its records to storage.      *)
AppliedIsStored ==
  /\ call = "applied" => batch \subseteq Stored
  /\ rcall = "applied" => rbatch \subseteq Stored

(* The replay holds what is in the file it visits, for as long as the cap  *)
(* leaves that file in place.                                              *)
ReplaysWhatItVisits ==
  rcall # "idle" =>
    /\ todo # {}
    /\ Oldest(todo) \in Files => journal[Oldest(todo)] = rbatch

HandOver == EndedLoopHoldsNothing /\ AppliedIsStored /\ ReplaysWhatItVisits

(* enqueue() has taken nothing yet and the journal is empty. *)
LEMMA HandOverInitially == Init => HandOver
BY DEF Init, HandOver, EndedLoopHoldsNothing, AppliedIsStored, ReplaysWhatItVisits

(* _loop ends with an empty batch, and what stop() drains is flushed.      *)
LEMMA EndedLoopStep == HandOver /\ [Next]_vars => EndedLoopHoldsNothing'
<1> SUFFICES ASSUME EndedLoopHoldsNothing, [Next]_vars  PROVE EndedLoopHoldsNothing'
  BY DEF HandOver
<1> USE DEF EndedLoopHoldsNothing
<1>1. CASE Start \/ GetRecord \/ GetTimesOut
  BY <1>1 DEF Start, GetRecord, BeginFlush, GetTimesOut
<1>2. CASE InsertReturns \/ SpillToJournal \/ SpillFails
  BY <1>2 DEF InsertReturns, SpillToJournal, SpillFails, EndFlush, ResetBatch
<1>3. CASE StopWaiting \/ StopFlushingFull \/ StopFlushingTimed
  BY <1>3 DEF StopWaiting, StopFlushingFull, StopFlushingTimed, BreakAndFlush
<1>4. CASE Drain
  BY <1>4 DEF Drain
<1>5. CASE Exit \/ Crash \/ CrashInSpill
  BY <1>5 DEF Exit, Crash, CrashInSpill, ProcessEnds
<1>6. (\E r \in Records : Enqueue(r)) \/ InsertApplied \/ RetryLater \/ Retry \/ OrphanEnds
        \/ ReplayStep \/ StorageFlips \/ UNCHANGED vars => UNCHANGED <<status, loop, batch>>
  BY DEF Enqueue, InsertApplied, RetryLater, Retry, OrphanEnds, ReplayStep, ReplayOpen,
         ReplayApplied, ReplayReturns, ReplayRaises, StorageFlips, vars, writerVars
<1> QED
  BY <1>1, <1>2, <1>3, <1>4, <1>5, <1>6 DEF Next, LoopStep, FlushStep, StopStep

(* The rows an insert writes are there while its call is seen as applied.  *)
LEMMA AppliedIsStoredStep == WriterInv /\ HandOver /\ [Next]_vars => AppliedIsStored'
<1> SUFFICES ASSUME WriterInv, AppliedIsStored, [Next]_vars  PROVE AppliedIsStored'
  BY DEF HandOver
<1>1. Stored \subseteq Stored'
  BY RowsMove DEF WriterInv
<1>q. loop = "get" \/ (loop = "done" /\ status # "draining") => call = "idle"
  BY DEF WriterInv, IInv, Quiescent
<1>2. call' = "applied" => batch' \subseteq Stored'
  <2>1. CASE InsertApplied
    BY <2>1, InsertStores DEF InsertApplied, WriterInv, TypeOK
  <2>2. CASE GetRecord \/ Drain
    BY <1>q, <2>2 DEF GetRecord, Drain, BeginFlush
  <2>3. CASE StopWaiting \/ StopFlushingFull \/ StopFlushingTimed
    BY <1>1, <2>3 DEF StopWaiting, StopFlushingFull, StopFlushingTimed, BreakAndFlush,
                      BeginFlush, AppliedIsStored
  <2>4. CASE GetTimesOut \/ InsertReturns \/ SpillToJournal \/ SpillFails \/ Exit \/ Crash
             \/ CrashInSpill
    BY <2>4 DEF GetTimesOut, BeginFlush, InsertReturns, SpillToJournal, SpillFails, EndFlush, Exit,
                Crash, CrashInSpill, ProcessEnds
  <2>5. Start \/ (\E r \in Records : Enqueue(r)) \/ RetryLater \/ Retry \/ OrphanEnds
          \/ ReplayStep \/ StorageFlips \/ UNCHANGED vars
          => UNCHANGED batch /\ (call' # "applied" \/ UNCHANGED call)
    BY DEF Start, Enqueue, RetryLater, Retry, OrphanEnds, ReplayStep, ReplayOpen,
           ReplayApplied, ReplayReturns, ReplayRaises, StorageFlips, vars, writerVars
  <2> QED
    BY <1>1, <2>1, <2>2, <2>3, <2>4, <2>5
       DEF Next, LoopStep, FlushStep, StopStep, AppliedIsStored
<1>3. rcall' = "applied" => rbatch' \subseteq Stored'
  <2>1. CASE ReplayApplied
    BY <2>1, InsertStores DEF ReplayApplied, WriterInv, TypeOK
  <2>2. ~ReplayApplied => rcall' # "applied" \/ UNCHANGED <<rcall, rbatch>>
    BY DEF Next, Start, Enqueue, LoopStep, GetRecord, GetTimesOut, FlushStep, InsertApplied,
           InsertReturns, RetryLater, Retry, SpillToJournal, SpillFails, InsertRaises, StopStep,
           StopWaiting, StopFlushingFull, StopFlushingTimed, Drain, OrphanEnds, Exit, Crash,
           CrashInSpill, ProcessEnds, ReplayStep, ReplayOpen, ReplayReturns, ReplayRaises,
           ReplayEnds, StorageFlips, vars, replayVars
  <2> QED  BY <1>1, <2>1, <2>2 DEF AppliedIsStored
<1> QED  BY <1>2, <1>3 DEF AppliedIsStored

(* The file that is replayed changes only by being dropped.                *)
LEMMA ReplaysWhatItVisitsStep ==
  WriterInv /\ HandOver /\ [Next]_vars => ReplaysWhatItVisits'
<1> SUFFICES ASSUME WriterInv, ReplaysWhatItVisits, [Next]_vars  PROVE ReplaysWhatItVisits'
  BY DEF HandOver
<1> USE DEF WriterInv
<1>1. CASE rcall' = "idle"
  BY <1>1 DEF ReplaysWhatItVisits
<1>2. CASE rcall # "idle" /\ UNCHANGED <<todo, rbatch>>
  <2>1. todo # {} /\ (Oldest(todo) \in Files => journal[Oldest(todo)] = rbatch)
    BY <1>2 DEF ReplaysWhatItVisits
  <2>2. Oldest(todo) # nextFile
    <3>1. todo \in SUBSET (1 .. nextFile - 1) /\ nextFile \in Nat
      BY DEF TypeOK
    <3>2. todo \in SUBSET Nat
      BY <3>1
    <3>3. Oldest(todo) \in todo
      BY <2>1, <3>2, OldestIsFirst
    <3> QED  BY <3>1, <3>3
  <2>3. Oldest(todo) \in Files' => Oldest(todo) \in Files
                                   /\ journal'[Oldest(todo)] = journal[Oldest(todo)]
    <3>1. CASE \E r \in Records : Enqueue(r)
      BY <3>1, Frame DEF Enqueue, journalVars
    <3>2. CASE GetRecord \/ Drain
      BY <3>2, Frame DEF GetRecord, Drain, journalVars
    <3>3. CASE SpillStep
      BY <2>2, <3>3, SpillMoves
    <3>4. CASE MemoryShrinks
      BY <3>4 DEF MemoryShrinks
    <3> QED  BY <3>1, <3>2, <3>3, <3>4, OtherStepsShrink
  <2> QED  BY <1>2, <2>1, <2>3 DEF ReplaysWhatItVisits
<1>3. CASE Opens
  BY <1>3, Frame DEF Opens, ReplayOpen, journalVars, ReplaysWhatItVisits
<1> QED  BY <1>1, <1>2, <1>3, ReplayMoves

-----------------------------------------------------------------------------
(* What a step does to the places of records.                              *)

Held == Queued \cup batch

(* One insert reaches the backend. *)
Saves(rs) ==
  /\ Stored' = Stored \cup rs
  /\ UNCHANGED <<accepted, Held, Journaled>>

(* Only what is stored leaves memory and journal. *)
Settles ==
  /\ UNCHANGED <<accepted, Stored>>
  /\ Held' \subseteq Held /\ Held \ Held' \subseteq Stored
  /\ Journaled' \subseteq Journaled /\ Journaled \ Journaled' \subseteq Stored

(* Memory is given up, and nothing else. *)
Forgets ==
  /\ UNCHANGED <<accepted, Stored, Journaled>>
  /\ Held' \subseteq Held

(* Memory goes to the journal as far as there is room. *)
Spills ==
  /\ UNCHANGED <<accepted, Stored>>
  /\ Held' \subseteq Held /\ Held \ Held' # {}
  /\ Journaled' \subseteq Journaled \cup (Held \ Held')

LEMMA HeldFrame ==
  /\ UNCHANGED <<queue, batch>> => Held' = Held
  /\ UNCHANGED <<journal, torn>> => Journaled' = Journaled
BY DEF Held, Queued, Journaled, Readable, Files

(* A spill writes the batch, or part of it, to a file that did not exist.  *)
LEMMA SpillSpills ==
  ASSUME WriterInv, SpillStep
  PROVE  Spills
<1> USE DEF WriterInv
<1>1. UNCHANGED <<accepted, Stored>>
  BY Frame DEF SpillStep, SpillToJournal, SpillFails, InsertRaises, CrashInSpill
<1>2. batch # {} /\ batch' = {} /\ Queued' \subseteq Queued /\ batch \cap Queued = {}
  <2>1. batch # {}
    BY DEF SpillStep, SpillToJournal, SpillFails, InsertRaises, CrashInSpill, IInv, Quiescent
  <2> QED  BY <2>1, SpillMoves, Frame DEF IInv, OneHome
<1>3. Journaled' \subseteq Journaled \cup batch
  <2>1. CASE UNCHANGED journalVars
    BY <2>1, HeldFrame DEF journalVars
  <2>2. ASSUME NEW part \in SUBSET batch, NEW keep \in SUBSET (Files \cup {nextFile}),
               journal' = [f \in keep |-> IF f = nextFile THEN part ELSE journal[f]],
               torn \cap keep \subseteq torn'
        PROVE  Journaled' \subseteq Journaled \cup batch
    <3>1. Files' = keep
      BY <2>2 DEF Files
    <3>2. ASSUME NEW f \in Readable'
          PROVE  journal'[f] \subseteq Journaled \cup batch
      <4>1. f \in keep /\ f \notin torn
        BY <2>2, <3>1 DEF Readable
      <4>2. CASE f = nextFile
        BY <2>2, <4>1, <4>2
      <4>3. CASE f # nextFile
        BY <2>2, <4>1, <4>3 DEF Journaled, Readable
      <4> QED  BY <4>2, <4>3
    <3> QED  BY <3>2 DEF Journaled
  <2> QED  BY <2>1, <2>2, SpillWritesOneFile DEF SpillStep
<1> QED  BY <1>1, <1>2, <1>3 DEF Spills, Held

(* Records leave memory or the journal for storage, unless the process     *)
(* ends, the flush of a gathered batch is cancelled, or a batch is         *)
(* spilled.                                                                *)
LEMMA RecordsMove ==
  ASSUME WriterInv, HandOver, [Next]_vars
  PROVE  \/ \E r \in Records : Enqueue(r)
         \/ \E rs \in {batch, orphan, rbatch} : Saves(rs)
         \/ Settles
         \/ Forgets /\ (status' = "down" \/ StopFlushingTimed)
         \/ SpillStep
<1> USE DEF WriterInv
<1>s. batch \in SUBSET Records /\ orphan \in SUBSET Records /\ rbatch \in SUBSET Records
  BY DEF TypeOK
<1>k. UNCHANGED <<accepted, Held, Journaled, Stored>> => Settles
  BY DEF Settles
<1>1. CASE InsertApplied \/ ReplayApplied
  BY <1>1, <1>s, InsertStores, HeldFrame
     DEF InsertApplied, ReplayApplied, Saves, writerVars, journalVars
<1>2. CASE OrphanEnds
  <2>1. UNCHANGED <<accepted, Held, Journaled>>
    BY <1>2, HeldFrame DEF OrphanEnds, writerVars, journalVars
  <2>2. Stored' = Stored \/ Stored' = Stored \cup orphan
    BY <1>2, <1>s, InsertStores, Frame DEF OrphanEnds, storeVars
  <2> QED  BY <1>k, <2>1, <2>2 DEF Saves
<1>3. CASE Start \/ GetTimesOut \/ RetryLater \/ Retry \/ StopWaiting \/ StopFlushingFull
           \/ ReplayOpen \/ ReplayRaises \/ StorageFlips \/ UNCHANGED vars
  <2>1. UNCHANGED <<accepted, queue, batch, journal, torn, stored>>
    BY <1>3 DEF Start, GetTimesOut, BeginFlush, RetryLater, InsertRaises, Retry, StopWaiting,
                StopFlushingFull, BreakAndFlush, ReplayOpen, ReplayRaises, KeepFile,
                StorageFlips, vars, writerVars, journalVars, storeVars
  <2> QED  BY <1>k, <2>1, HeldFrame, Frame
<1>4. CASE GetRecord
  <2>1. UNCHANGED <<accepted, journal, torn, stored>>
    BY <1>4 DEF GetRecord, journalVars, storeVars
  <2>2. Held' = Held
    BY <1>4, GetRecordMoves DEF Held
  <2> QED  BY <1>k, <2>1, <2>2, HeldFrame, Frame
<1>5. CASE Drain
  <2>1. UNCHANGED <<accepted, journal, torn, stored>>
    BY <1>5 DEF Drain, journalVars, storeVars
  <2>2. batch = {}
    BY <1>5 DEF Drain, HandOver, EndedLoopHoldsNothing
  <2>3. Held' = Held
    BY <1>5, <2>2, Frame DEF Drain, BeginFlush, Held
  <2> QED  BY <1>k, <2>1, <2>3, HeldFrame, Frame
<1>6. CASE InsertReturns
  <2>1. UNCHANGED <<accepted, queue, journal, torn, stored>> /\ batch' = {}
    BY <1>6 DEF InsertReturns, EndFlush, ResetBatch, journalVars, storeVars
  <2>2. batch \subseteq Stored
    BY <1>6 DEF InsertReturns, HandOver, AppliedIsStored
  <2> QED  BY <2>1, <2>2, HeldFrame, Frame DEF Settles, Held
<1>7. CASE ReplayReturns
  <2>1. UNCHANGED <<accepted, queue, batch, stored>>
    BY <1>7 DEF ReplayReturns, writerVars, storeVars
  <2>2. /\ Files' = Files \ {Oldest(todo)} /\ Readable' = Readable \ {Oldest(todo)}
        /\ \A f \in Files' : journal'[f] = journal[f]
    BY <1>7 DEF ReplayReturns, Unlink, Restrict, Files, Readable
  <2>3. Oldest(todo) \in Files => journal[Oldest(todo)] \subseteq Stored
    BY <1>7 DEF ReplayReturns, HandOver, ReplaysWhatItVisits, AppliedIsStored
  <2>4. Journaled' \subseteq Journaled /\ Journaled \ Journaled' \subseteq Stored
    BY <2>2, <2>3 DEF Journaled, Readable
  <2> QED  BY <2>1, <2>4, HeldFrame, Frame DEF Settles
<1>8. CASE StopFlushingTimed
  BY <1>8, HeldFrame, Frame DEF StopFlushingTimed, Forgets, Held, journalVars
<1>9. CASE Exit \/ Crash
  BY <1>9, HeldFrame, Frame DEF Exit, Crash, ProcessEnds, Forgets, Held, journalVars
<1> QED
  BY <1>1, <1>2, <1>3, <1>4, <1>5, <1>6, <1>7, <1>8, <1>9
     DEF Next, LoopStep, FlushStep, StopStep, ReplayStep, SpillStep

(* A spill that drops a file exceeds the cap, and what it drops is older   *)
(* than what stays.                                                        *)
LEMMA SpillMakesRoom ==
  ASSUME WriterInv, SpillToJournal, NEW r \in Kept \ Kept'
  PROVE  /\ SizeOf(journal, Files) + Cardinality(batch) > JournalCap
         /\ \A f \in Files \ Files', g \in Files' : f < g
<1> DEFINE D == Files \cup {nextFile}
           written == [f \in D |-> IF f = nextFile THEN batch ELSE journal[f]]
<1> USE DEF WriterInv
<1>1. nextFile \in Nat \ {0} /\ Files \in SUBSET (1 .. nextFile - 1) /\ batch \in SUBSET Records
      /\ torn \in SUBSET Files
  BY DEF TypeOK
<1>2. IsFiniteSet(Files) /\ IsFiniteSet(D) /\ D \in SUBSET Nat /\ nextFile \notin Files
  <2>1. IsFiniteSet(1 .. nextFile - 1)
    BY <1>1, FS_Interval
  <2>2. IsFiniteSet(Files)
    BY <1>1, <2>1, FS_Subset
  <2> QED  BY <1>1, <2>2, FS_AddElement
<1>3. SizeOf(written, D) = SizeOf(journal, Files) + Cardinality(batch)
  <2>1. (\A f \in Files : written[f] = journal[f]) /\ written[nextFile] = batch
    BY <1>2
  <2>2. IsFiniteSet(Files) /\ nextFile \notin Files /\ batch \in SUBSET Records
    BY <1>1, <1>2
  <2> HIDE DEF written
  <2>3. SizeOf(written, Files \cup {nextFile}) = SizeOf(journal, Files) + Cardinality(batch)
    BY <2>1, <2>2, OneMoreFile
  <2> QED  BY <2>3
<1>4. DOMAIN written = D
  OBVIOUS
<1>5. PICK keep \in Remaining(written) : journal' = Restrict(written, keep)
  BY DEF SpillToJournal
<1>6. /\ keep \in SUBSET D
      /\ SizeOf(written, D) <= JournalCap => keep = D
      /\ \A f \in D \ keep, g \in keep : f < g
  <2> HIDE DEF written, D
  <2> QED  BY <1>2, <1>4, RemainingIsNewest
<1>7. /\ Queued' = Queued /\ Stored' = Stored
      /\ torn' = torn \cap Files'
  BY Frame DEF SpillToJournal, EndFlush, InsertRaises, Restrict, Files
<1>8. Files' = keep /\ \A f \in keep : journal'[f] = written[f]
  BY <1>5, <1>6 DEF Restrict, Files
<1>10. keep # D
  <2> SUFFICES ASSUME keep = D  PROVE r \in Kept'
    OBVIOUS
  <2>1. Readable' = Readable \cup {nextFile}
    BY <1>1, <1>2, <1>7, <1>8 DEF Readable
  <2>2. Journaled \cup batch \subseteq Journaled'
    <3>1. \A f \in Readable : journal'[f] = journal[f]
      BY <1>2, <1>8 DEF Readable
    <3>2. journal'[nextFile] = batch
      BY <1>8
    <3> QED  BY <2>1, <3>1, <3>2 DEF Journaled
  <2> QED  BY <1>7, <2>2 DEF Kept
<1>11. SizeOf(journal, Files) + Cardinality(batch) > JournalCap
  <2>1. SizeOf(journal, Files) \in Nat
    BY <1>2, MoreFilesAreLarger
  <2>2. Cardinality(batch) \in Nat
    BY <1>1, WriterAssumption, FS_Subset, FS_CardinalityType
  <2> HIDE DEF written, D
  <2> QED  BY <1>3, <1>6, <1>10, <2>1, <2>2, WriterAssumption
<1> QED  BY <1>6, <1>8, <1>11

(* A record that a step loses is lost for one of the named causes.         *)
LEMMA LossHasCause ==
  ASSUME WriterInv, HandOver, [Next]_vars, NEW r \in Kept, r \notin Kept'
  PROVE  LossStep(r)
<1>1. CASE \E n \in Records : Enqueue(n)
  <2> PICK n \in Records : Enqueue(n)
    BY <1>1
  <2>1. Queued' = Queued \cup {n} /\ UNCHANGED <<batch, Journaled, Stored>>
    BY EnqueueAdds, HeldFrame, Frame DEF Enqueue, journalVars, storeVars, WriterInv
  <2> QED  BY <2>1 DEF Kept
<1>2. CASE (\E rs \in {batch, orphan, rbatch} : Saves(rs)) \/ Settles
  BY <1>2 DEF Saves, Settles, Kept, Held
<1>3. CASE Forgets /\ (status' = "down" \/ StopFlushingTimed)
  <2>1. r \in Queued \cup batch
    BY <1>3 DEF Forgets, Kept, Held
  <2>2. StopFlushingTimed => r \in batch /\ loop = "time" /\ status = "running"
                             /\ status' = "stopping"
    BY <2>1, Frame DEF StopFlushingTimed, Kept
  <2> QED  BY <1>3, <2>1, <2>2 DEF LossStep
<1>4. CASE SpillToJournal
  <2>1. call \in {"insert", "applied"} /\ call' = "idle" /\ attempt = MaxRetries
    BY <1>4 DEF SpillToJournal, InsertRaises, EndFlush
  <2> QED  BY <1>4, <2>1, SpillMakesRoom DEF LossStep
<1>5. CASE SpillFails \/ CrashInSpill
  <2>1. Stored' = Stored /\ (Queued' = Queued \/ status' = "down")
    BY <1>5, Frame DEF SpillFails, EndFlush, InsertRaises, CrashInSpill, ProcessEnds
  <2>2. Files \subseteq Files' /\ Journaled \subseteq Journaled'
    <3>1. CASE UNCHANGED journalVars
      BY <3>1, Frame, HeldFrame DEF journalVars
    <3>2. CASE WritesPart
      <4>1. nextFile \notin Files
        BY DEF WriterInv, TypeOK
      <4>2. Files' = Files \cup {nextFile}
        BY <3>2 DEF WritesPart, Files
      <4>3. \A f \in Files : journal'[f] = journal[f]
        BY <3>2, <4>1 DEF WritesPart
      <4>4. Readable \subseteq Readable'
        BY <3>2, <4>1, <4>2 DEF WritesPart, Readable
      <4> QED  BY <4>2, <4>3, <4>4 DEF Journaled, Readable
    <3> QED  BY <1>5, <3>1, <3>2 DEF SpillFails, CrashInSpill
  <2>3. r \in Queued \cup batch
    BY <2>1, <2>2 DEF Kept
  <2>4. CASE SpillFails
    BY <2>1, <2>2, <2>3, <2>4, Frame DEF SpillFails, InsertRaises, EndFlush, Kept, LossStep
  <2>5. CASE CrashInSpill
    BY <2>3, <2>5 DEF CrashInSpill, ProcessEnds, LossStep
  <2> QED  BY <1>5, <2>4, <2>5
<1> QED
  BY <1>1, <1>2, <1>3, <1>4, <1>5, RecordsMove DEF SpillStep

-----------------------------------------------------------------------------
(* The writer implements the promise of IngestPromise: Place is where the  *)
(* promise sees a record.                                                  *)

(* The first of storage, journal and memory that holds a record is its     *)
(* place.                                                                  *)
LEMMA PlaceIs ==
  /\ Place = [r \in Records |-> IF r \in Stored THEN "stored"
                                ELSE IF r \in Journaled THEN "journal"
                                ELSE IF r \in Held THEN "memory"
                                ELSE IF r \in accepted THEN "lost"
                                ELSE "outside"]
  /\ Place' = [r \in Records |-> IF r \in Stored' THEN "stored"
                                 ELSE IF r \in Journaled' THEN "journal"
                                 ELSE IF r \in Held' THEN "memory"
                                 ELSE IF r \in accepted' THEN "lost"
                                 ELSE "outside"]
BY DEF Place, Kept, Held

(* Only records that were accepted are anywhere, and those in the journal  *)
(* are not in memory.                                                      *)
LEMMA PlacesApart ==
  ASSUME WriterInv
  PROVE  /\ Stored \in SUBSET Records /\ Journaled \in SUBSET Records
         /\ Held \in SUBSET Records /\ accepted \in SUBSET Records
         /\ Stored \cup Journaled \cup Held \cup orphan \cup rbatch \subseteq accepted
         /\ Journaled \cap Held = {}
<1>1. \A f \in Files : journal[f] \subseteq accepted /\ journal[f] \cap (Queued \cup batch) = {}
  BY DEF WriterInv, IInv, OnlyAccepted, OneHome
<1>2. Journaled \subseteq accepted /\ Journaled \cap Held = {}
  BY <1>1 DEF Journaled, Readable, Held
<1>3. Held \cup orphan \cup rbatch \cup Stored \subseteq accepted
  BY DEF WriterInv, IInv, OnlyAccepted, Held
<1>4. accepted \in SUBSET Records
  BY DEF WriterInv, TypeOK
<1> QED  BY <1>2, <1>3, <1>4

(* Initially every record is outside. *)
LEMMA PromiseInitially == Init => Promise!Init
<1> SUFFICES ASSUME Init  PROVE Promise!Init
  OBVIOUS
<1>1. Stored = {} /\ Journaled = {} /\ Held = {} /\ accepted = {}
  BY EmptyQueue DEF Init, Stored, Journaled, Readable, Files, Held, Queued
<1> QED  BY <1>1, PlaceIs DEF Promise!Init

(* enqueue() accepts a record, which goes from outside to memory.          *)
LEMMA EnqueueAccepts ==
  ASSUME WriterInv, NEW r \in Records, Enqueue(r)
  PROVE  Promise!Accept(r)
<1>1. /\ r \notin accepted /\ accepted' = accepted \cup {r}
      /\ Held' = Held \cup {r} /\ UNCHANGED <<Journaled, Stored>>
  BY EnqueueAdds, HeldFrame, Frame DEF Enqueue, journalVars, storeVars, WriterInv, Held
<1> QED  BY <1>1, PlaceIs, PlacesApart DEF Promise!Accept, Promise!At, Promise!Move

(* An insert brings records to storage, wherever they were.                *)
LEMMA InsertSaves ==
  ASSUME WriterInv, NEW rs \in {batch, orphan, rbatch}, Saves(rs)
  PROVE  Promise!Save(rs) /\ rs \in SUBSET Records
<1>1. rs \subseteq accepted /\ rs \in SUBSET Records
  BY PlacesApart DEF Held
<1> QED
  BY <1>1, PlaceIs, PlacesApart DEF Saves, Promise!Save, Promise!At, Promise!Move

(* Records that are stored leave the writer's hands unnoticed.             *)
LEMMA SettlingStutters ==
  ASSUME WriterInv, Settles
  PROVE  UNCHANGED Place
BY PlaceIs DEF Settles

(* Memory that is given up is lost. *)
LEMMA ForgettingLoses ==
  ASSUME WriterInv, Forgets
  PROVE  \E rs \in SUBSET Records : Promise!Lose(rs)
<1> DEFINE rs == (Held \ Held') \ Stored
<1>1. rs \in SUBSET Records
  BY PlacesApart
<1>2. Promise!Lose(rs)
  BY PlaceIs, PlacesApart DEF Forgets, Promise!Lose, Promise!At, Promise!Move
<1> QED  BY <1>1, <1>2

(* What leaves memory in a spill goes to the journal, unless it is among   *)
(* what the journal gives up.                                              *)
LEMMA SpillingSpills ==
  ASSUME WriterInv, Spills
  PROVE  \E rs, dropped \in SUBSET Records : Promise!Spill(rs, dropped)
<1> DEFINE rs == Held \ Held'
           dropped == ((Journaled \cup rs) \ Stored) \ Journaled'
<1>1. rs \in SUBSET Records /\ dropped \in SUBSET Records
  BY PlacesApart
<1>2. rs # {}
  BY DEF Spills
<1>3. rs \subseteq Promise!At("memory") \cup Promise!At("stored")
  BY PlaceIs, PlacesApart DEF Promise!At
<1>4. dropped \subseteq Promise!At("journal") \cup (rs \cap Promise!At("memory"))
  BY PlaceIs, PlacesApart DEF Promise!At
<1>5. Place' = [r \in Records |->
                  CASE r \in dropped -> "lost"
                    [] r \in (rs \cap Promise!At("memory")) \ dropped -> "journal"
                    [] OTHER -> Place[r]]
  <2> SUFFICES ASSUME NEW r \in Records
               PROVE  Place'[r] = CASE r \in dropped -> "lost"
                                    [] r \in (rs \cap Promise!At("memory")) \ dropped -> "journal"
                                    [] OTHER -> Place[r]
    BY PlaceIs
  <2>1. /\ Stored' = Stored /\ accepted' = accepted /\ Held' \subseteq Held
        /\ Journaled' \subseteq Journaled \cup rs
    BY DEF Spills
  <2>2. CASE r \in dropped
    <3>1. r \notin Stored /\ r \notin Journaled' /\ r \notin Held' /\ r \in accepted
      BY <2>1, <2>2, PlacesApart
    <3> QED  BY <2>1, <2>2, <3>1, PlaceIs
  <2>3. CASE r \in (rs \cap Promise!At("memory")) \ dropped
    <3>1. r \notin Stored /\ r \in Journaled'
      BY <2>3, PlaceIs DEF Promise!At
    <3>2. Place'[r] = "journal"
      BY <2>1, <3>1, PlaceIs
    <3> QED  BY <2>3, <3>2
  <2>4. CASE r \notin dropped /\ r \notin rs \cap Promise!At("memory")
    <3>1. Place[r] = Place'[r]
      BY <2>1, <2>4, PlaceIs, PlacesApart DEF Promise!At
    <3> QED  BY <2>4, <3>1
  <2> QED  BY <2>2, <2>3, <2>4
<1>6. Promise!Spill(rs, dropped)
  BY <1>2, <1>3, <1>4, <1>5 DEF Promise!Spill
<1> QED  BY <1>1, <1>6

(* Every step of the writer is one the promise allows, or none of its      *)
(* concern.                                                                *)
LEMMA PromiseStep == WriterInv /\ HandOver /\ [Next]_vars => [Promise!Next]_Place
<1> SUFFICES ASSUME WriterInv, HandOver, [Next]_vars  PROVE Promise!Next \/ UNCHANGED Place
  OBVIOUS
<1>1. CASE \E r \in Records : Enqueue(r)
  BY <1>1, EnqueueAccepts DEF Promise!Next
<1>2. CASE \E rs \in {batch, orphan, rbatch} : Saves(rs)
  BY <1>2, InsertSaves DEF Promise!Next
<1>3. CASE Settles
  BY <1>3, SettlingStutters
<1>4. CASE Forgets
  BY <1>4, ForgettingLoses DEF Promise!Next
<1>5. CASE SpillStep
  BY <1>5, SpillSpills, SpillingSpills DEF Promise!Next
<1> QED  BY <1>1, <1>2, <1>3, <1>4, <1>5, RecordsMove

-----------------------------------------------------------------------------
(* The theorems. *)

(* The inductive invariant holds in every reachable state of the writer,   *)
(* whatever the batch size, the retries, the cap and the records are.      *)
THEOREM WriterInvHolds == Spec => []WriterInv
<1>1. Init => WriterInv
  BY InvInitially
<1>2. WriterInv /\ [Next]_vars => WriterInv'
  BY TypeOKStep, OneHomeStep, QuiescentStep, OnlyAcceptedStep, ReplaysOneFileStep,
     StoredIsSettledStep DEF WriterInv, IInv
<1> QED  BY <1>1, <1>2, PTL DEF Spec

(* The variables keep their types. *)
THEOREM WriterTypeCorrect == Spec => []TypeOK
BY WriterInvHolds, PTL DEF WriterInv

(* Every part of what OneHome and DuplicateOnlyInDoubt rest on holds.      *)
THEOREM WriterIInvHolds == Spec => []IInv
BY WriterInvHolds, PTL DEF WriterInv

(* A record waits for the backend in one place only: neither retries, nor  *)
(* stop()'s cancellation, nor the replay of the journal copies a record.   *)
THEOREM RecordHasOneHome == Spec => []OneHome
BY WriterInvHolds, PTL DEF WriterInv, IInv

(* A second row in the backend implies a call that applied the record and  *)
(* was not seen to succeed: the writer on its own duplicates nothing.      *)
THEOREM NoDuplicateWithoutDoubt == Spec => []DuplicateOnlyInDoubt
<1>1. WriterInv => DuplicateOnlyInDoubt
  BY DEF WriterInv, IInv, TypeOK, StoredIsSettled, DuplicateOnlyInDoubt
<1> QED  BY <1>1, WriterInvHolds, PTL

(* What the hand-over of records between the writer's activities rests on. *)
THEOREM HandOverHolds == Spec => []HandOver
<1>1. Init => HandOver
  BY HandOverInitially
<1>2. WriterInv /\ HandOver /\ [Next]_vars => HandOver'
  BY EndedLoopStep, AppliedIsStoredStep, ReplaysWhatItVisitsStep DEF HandOver
<1> QED  BY <1>1, <1>2, WriterInvHolds, PTL DEF Spec

(* An accepted record leaves the writer's hands without reaching the       *)
(* backend for one of the named causes only, whatever the batch size, the  *)
(* number of retries and the cap of the journal are.                       *)
THEOREM RecordsLostOnlyByNamedCause == Spec => LossOnlyByNamedCause
<1>1. WriterInv /\ HandOver /\ [Next]_vars
        => [\A r \in Kept : r \notin Kept' => LossStep(r)]_vars
  BY LossHasCause
<1> QED  BY <1>1, WriterInvHolds, HandOverHolds, PTL DEF Spec, LossOnlyByNamedCause

(* The writer implements the promise: a record it accepted goes from       *)
(* memory to storage, perhaps by way of the journal, storage never gives   *)
(* one back, and the journal gives one up only to make room in a spill.    *)
THEOREM WriterKeepsPromise == Spec => ImplementsPromise
<1>1. Init => Promise!Init
  BY PromiseInitially
<1>2. WriterInv /\ HandOver /\ [Next]_vars => [Promise!Next]_Place
  BY PromiseStep
<1> QED
  BY <1>1, <1>2, WriterInvHolds, HandOverHolds, PTL DEF Spec, ImplementsPromise, Promise!Spec
=============================================================================
