---------------------------- MODULE AppLogProofs ----------------------------
(***************************************************************************)
(* Proofs about the program's own log, for every size of the queues and of *)
(* the batches, every trim and every number of starts: what hides lines    *)
(* from the forwarder, and what loses a line of the handler.               *)
(***************************************************************************)
EXTENDS AppLog, SequenceTheorems, TLAPS

LevelTypes ==
  /\ root \in Levels /\ capture \in Levels /\ persisted \in Levels
  /\ {setting, wanted, forward} \subseteq {Off} \cup Levels
  /\ raised \in BOOLEAN

LevelInv == LevelTypes /\ ForwarderHiddenOnlyByPoll

LineTypes ==
  /\ logged \in Nat /\ faults \in Nat
  /\ queue \in Seq(Nat) /\ batch \in Seq(Nat) /\ table \in Seq(Nat)

(* stop() runs once in a process and puts one sentinel; lines may follow.  *)
OneSentinel ==
  /\ \A i, j \in DOMAIN queue : queue[i] = Sentinel /\ queue[j] = Sentinel => i = j
  /\ process # "join" => \A i \in DOMAIN queue : queue[i] # Sentinel

(* Whatever the thread does, it has written its batch (or lost it to a     *)
(* statement that failed) before it drains the next, or ends.              *)
BatchIsInserted ==
  /\ worker # "insert" => batch = <<>>
  /\ process = "down" => worker # "insert"
  /\ Len(batch) <= BatchSize

LineInv == LineTypes /\ OneSentinel /\ BatchIsInserted

-----------------------------------------------------------------------------
(* The levels. *)

LEMMA LowerIsLower ==
  ASSUME NEW a \in Levels, NEW b \in Levels
  PROVE  Lower(a, b) \in Levels /\ Lower(a, b) <= a /\ Lower(a, b) <= b
BY DEF Lower, Levels, Info, Warning

LEMMA LevelInit == Init => LevelInv
<1> SUFFICES ASSUME Init  PROVE LevelInv
  OBVIOUS
<1>1. Info \in Levels /\ wanted \in {Off} \cup Levels /\ forward = wanted
  BY DEF Init, Levels
<1>2. root = IF forward = Off THEN Info ELSE Lower(forward, Info)
  BY DEF Init
<1>3. root \in Levels /\ (forward # Off => root <= forward)
  BY <1>1, <1>2, LowerIsLower
<1>4. LevelTypes
  BY <1>1, <1>3 DEF Init, LevelTypes
<1>5. forward # Off => ~(root > forward)
  BY <1>1, <1>3 DEF Levels, Info, Warning, Off
<1> QED  BY <1>4, <1>5 DEF LevelInv, ForwarderHiddenOnlyByPoll

(* Requests and starts only lower the level of the pktlog logger under     *)
(* that of the forwarder; what the poll raises, it marks.                  *)
LEMMA LevelStep == LevelInv /\ [Next]_vars => LevelInv'
<1> SUFFICES ASSUME LevelInv, [Next]_vars
             PROVE  LevelInv'
  OBVIOUS
<1> USE DEF LevelInv, LevelTypes, ForwarderHiddenOnlyByPoll
<1>1. CASE \E l \in {Off} \cup Levels : SaveForward(l)
  BY <1>1 DEF SaveForward
<1>2. CASE Reload
  <2>1. /\ forward' = wanted /\ raised' = FALSE /\ UNCHANGED <<wanted, capture, persisted, setting>>
        /\ root' = IF wanted = Off THEN root ELSE Lower(root, wanted)
    BY <1>2 DEF Reload, ConfigureForwarding
  <2>2. root' \in Levels /\ (wanted # Off => root' <= wanted)
    BY <2>1, LowerIsLower
  <2>3. wanted # Off => ~(root' > wanted)
    BY <2>2 DEF Levels, Info, Warning, Off
  <2> QED  BY <2>1, <2>2, <2>3
<1>3. CASE \E l \in Levels : PersistLevel(l)
  BY <1>3 DEF PersistLevel
<1>4. CASE ApplyLevel
  <2>1. /\ setting \in Levels /\ root' = Lower(root, setting)
        /\ capture' = setting /\ setting' = Off
        /\ UNCHANGED <<persisted, wanted, forward, raised>>
    BY <1>4 DEF ApplyLevel, LowersRoot
  <2>2. root' \in Levels /\ root' <= root
    BY <2>1, LowerIsLower
  <2> QED  BY <2>1, <2>2 DEF Levels, Info, Warning, Off
<1>5. CASE Poll
  <2>1. /\ UNCHANGED <<persisted, setting, wanted, forward>>
        /\ root' \in Levels /\ capture' \in Levels
    BY <1>5 DEF Poll
  <2>2. raised' <=> raised \/ root' > root
    BY <1>5 DEF Poll
  <2>3. raised' \in BOOLEAN
    BY <1>5 DEF Poll
  <2> QED  BY <2>1, <2>2, <2>3 DEF Levels, Info, Warning, Off
<1>6. CASE Start
  <2>1. /\ capture' = Info /\ forward' = wanted /\ raised' = FALSE
        /\ root' = IF wanted = Off THEN Info ELSE Lower(wanted, Info)
        /\ UNCHANGED <<persisted, setting, wanted>>
    BY <1>6 DEF Start
  <2>2. Info \in Levels
    BY DEF Levels
  <2>3. root' \in Levels /\ (wanted # Off => root' <= wanted)
    BY <2>1, <2>2, LowerIsLower
  <2>4. wanted # Off => ~(root' > wanted)
    BY <2>3 DEF Levels, Info, Warning, Off
  <2> QED  BY <2>1, <2>2, <2>3, <2>4
<1>7. CASE Down \/ Exit
  BY <1>7 DEF Down, Exit, ProcessGone
<1>8. CASE \/ \E l \in Levels : Log(l)
           \/ Send \/ Get \/ GetTimesOut \/ Insert \/ Clear \/ BeginStop \/ PutSentinel
           \/ UNCHANGED vars
  <2>1. UNCHANGED levelVars
    BY <1>8 DEF Log, Send, Get, GetTimesOut, Insert, Clear, BeginStop, PutSentinel, vars
  <2> QED  BY <2>1 DEF levelVars
<1> QED  BY <1>1, <1>2, <1>3, <1>4, <1>5, <1>6, <1>7, <1>8 DEF Next, WorkerStep

(* The lines the forwarder asks for pass the pktlog logger, unless the     *)
(* poll raised it.                                                         *)
THEOREM ForwarderHiddenHolds == Spec => []ForwarderHiddenOnlyByPoll
<1>1. LevelInv => ForwarderHiddenOnlyByPoll
  BY DEF LevelInv
<1> QED  BY <1>1, LevelInit, LevelStep, PTL DEF Spec

-----------------------------------------------------------------------------
(* The lines. *)

(* What one drain takes of a queue that is not empty. *)
InBatch == IF queue[Taken] = Sentinel THEN Taken - 1 ELSE Taken

LEMMA LogNumbers ==
  /\ QueueSize \in Nat /\ OutboxSize \in Nat /\ TrimEvery \in Nat
  /\ BatchSize \in Nat /\ BatchSize >= 1
  /\ MaxRecords \in Nat /\ BatchSize <= MaxRecords
BY LogAssumption

LEMMA TakenIsThere ==
  ASSUME LineTypes, queue # <<>>
  PROVE  /\ Taken \in 1 .. Len(queue) /\ Taken <= BatchSize
         /\ (\E i \in 1 .. Taken : queue[i] = Sentinel) /\ OneSentinel => queue[Taken] = Sentinel
         /\ InBatch \in 0 .. Taken
<1> DEFINE most == Lower(BatchSize, Len(queue))
<1>1. Len(queue) \in Nat /\ Len(queue) >= 1 /\ DOMAIN queue = 1 .. Len(queue)
  BY EmptySeq, LenProperties DEF LineTypes
<1>2. most \in 1 .. Len(queue) /\ most <= BatchSize
  BY <1>1, LogNumbers DEF Lower
<1> HIDE DEF most
<1>3. CASE \E i \in 1 .. most : queue[i] = Sentinel
  <2>1. Taken \in 1 .. most /\ queue[Taken] = Sentinel
    BY <1>3 DEF Taken, most
  <2> QED  BY <1>1, <1>2, <2>1, LogNumbers DEF InBatch
<1>4. CASE ~(\E i \in 1 .. most : queue[i] = Sentinel)
  <2>1. Taken = most
    BY <1>4 DEF Taken, most
  <2> QED  BY <1>2, <1>4, <2>1, LogNumbers DEF InBatch
<1> QED  BY <1>3, <1>4

LEMMA GetDrains ==
  ASSUME LineInv, Get
  PROVE  /\ queue' \in Seq(Nat) /\ batch' \in Seq(Nat)
         /\ Len(queue') = Len(queue) - Taken
         /\ \A i \in 1 .. Len(queue') : queue'[i] = queue[Taken + i]
         /\ Len(batch') = InBatch
         /\ \A i \in 1 .. InBatch : batch'[i] = queue[i]
<1>1. /\ queue \in Seq(Nat) /\ Len(queue) \in Nat
      /\ \A i \in 1 .. Len(queue) : queue[i] \in Nat
      /\ Taken \in 1 .. Len(queue) /\ InBatch \in 0 .. Taken
  BY TakenIsThere, LenProperties, ElementOfSeq DEF LineInv, LineTypes, Get
<1>2. queue' = SubSeq(queue, Taken + 1, Len(queue)) /\ batch' = SubSeq(queue, 1, InBatch)
  BY DEF Get, InBatch
<1> DEFINE t == Taken
           b == InBatch
<1> HIDE DEF t, b
<1>3. t \in 1 .. Len(queue) /\ b \in 0 .. t
  BY <1>1 DEF t, b
<1>4. /\ SubSeq(queue, t + 1, Len(queue)) \in Seq(Nat)
      /\ Len(SubSeq(queue, t + 1, Len(queue))) = Len(queue) - t
      /\ \A i \in 1 .. Len(queue) - t : SubSeq(queue, t + 1, Len(queue))[i] = queue[t + i]
  <2> DEFINE m == t + 1
             n == Len(queue)
  <2>1. m \in Nat \ {0} /\ n \in Nat /\ n - m + 1 = n - t /\ \A i \in m .. n : queue[i] \in Nat
    BY <1>1, <1>3
  <2>2. \A i \in 1 .. n - t : m + i - 1 = t + i
    BY <1>1, <1>3
  <2>3. n - t = IF m <= n THEN n - m + 1 ELSE 0
    BY <1>1, <1>3
  <2> HIDE DEF m, n
  <2>4. /\ SubSeq(queue, m, n) \in Seq(Nat)
        /\ Len(SubSeq(queue, m, n)) = n - t
        /\ \A i \in 1 .. n - t : SubSeq(queue, m, n)[i] = queue[m + i - 1]
    BY <1>1, <2>1, <2>3, SubSeqProperties
  <2> QED  BY <2>2, <2>4 DEF m, n
<1>5. /\ SubSeq(queue, 1, b) \in Seq(Nat)
      /\ Len(SubSeq(queue, 1, b)) = b
      /\ \A i \in 1 .. b : SubSeq(queue, 1, b)[i] = queue[i]
  BY <1>1, <1>3, SubSeqProperties
<1> QED  BY <1>2, <1>4, <1>5 DEF t, b

(* Every line of a queue that is drained goes into the batch or stays.     *)
LEMMA GetLosesNothing ==
  ASSUME LineInv, Get, NEW n \in Range(queue), n # Sentinel
  PROVE  n \in Range(queue') \cup Range(batch')
<1>1. /\ Len(queue) \in Nat /\ DOMAIN queue = 1 .. Len(queue)
      /\ Taken \in 1 .. Len(queue) /\ InBatch \in 0 .. Taken
  BY TakenIsThere, LenProperties DEF LineInv, LineTypes, Get
<1>2. DOMAIN queue' = 1 .. Len(queue) - Taken /\ DOMAIN batch' = 1 .. InBatch
  BY GetDrains, LenProperties
<1>3. PICK i \in 1 .. Len(queue) : n = queue[i]
  BY <1>1 DEF Range
<1>4. CASE i <= Taken
  <2>1. i \in 1 .. InBatch
    BY <1>1, <1>3, <1>4 DEF InBatch
  <2>2. batch'[i] = n
    BY <1>3, <2>1, GetDrains
  <2> QED  BY <1>2, <2>1, <2>2 DEF Range
<1>5. CASE i > Taken
  <2>1. i - Taken \in 1 .. Len(queue) - Taken /\ Taken + (i - Taken) = i
    BY <1>1, <1>5
  <2>2. queue'[i - Taken] = n
    BY <1>3, <2>1, GetDrains
  <2> QED  BY <1>2, <2>1, <2>2 DEF Range
<1> QED  BY <1>1, <1>4, <1>5

(* The trim keeps the newest rows, and a batch is no more than those.      *)
LEMMA NewestKeepsBatch ==
  ASSUME LineTypes, Len(batch) <= BatchSize
  PROVE  /\ Newest(table \o batch) \in Seq(Nat)
         /\ Range(batch) \subseteq Range(Newest(table \o batch))
         /\ Range(batch) \subseteq Range(table \o batch)
<1> DEFINE t == Len(table)
           b == Len(batch)
           all == table \o batch
<1>1. /\ t \in Nat /\ b \in Nat /\ b <= MaxRecords /\ DOMAIN batch = 1 .. b
      /\ MaxRecords \in Nat
  BY LenProperties, LogNumbers DEF LineTypes
<1>2. /\ all \in Seq(Nat) /\ Len(all) = t + b /\ DOMAIN all = 1 .. t + b
      /\ \A i \in 1 .. t + b : all[i] \in Nat
      /\ \A i \in 1 .. t + b : all[i] = IF i <= t THEN table[i] ELSE batch[i - t]
  <2>1. /\ all \in Seq(Nat) /\ Len(all) = t + b
        /\ \A i \in 1 .. t + b : all[i] = IF i <= t THEN table[i] ELSE batch[i - t]
    BY ConcatProperties DEF LineTypes
  <2> QED  BY <2>1, LenProperties, ElementOfSeq
<1> HIDE DEF t, b, all
<1>3. \A i \in 1 .. b : t + i \in 1 .. t + b /\ all[t + i] = batch[i]
  <2> SUFFICES ASSUME NEW i \in 1 .. b
               PROVE  t + i \in 1 .. t + b /\ all[t + i] = batch[i]
    OBVIOUS
  <2>1. t + i \in 1 .. t + b /\ ~(t + i <= t) /\ (t + i) - t = i
    BY <1>1
  <2> QED  BY <1>2, <2>1
<1>4. Range(batch) \subseteq Range(all)
  <2>1. ASSUME NEW i \in 1 .. b  PROVE batch[i] \in Range(all)
    BY <1>2, <1>3 DEF Range
  <2> QED  BY <1>1, <2>1 DEF Range
<1>5. CASE t + b > MaxRecords
  <2> DEFINE m == t + b - MaxRecords
             kept == SubSeq(all, m + 1, t + b)
  <2>1. /\ m \in Nat /\ m + 1 \in Nat \ {0} /\ t + b \in Nat
        /\ (t + b) - (m + 1) + 1 = MaxRecords
        /\ (IF m + 1 <= t + b THEN (t + b) - (m + 1) + 1 ELSE 0) = MaxRecords
        /\ \A i \in m + 1 .. t + b : i \in 1 .. t + b
        /\ \A i \in 1 .. MaxRecords : (m + 1) + i - 1 = m + i
    BY <1>1, <1>5
  <2>2. Newest(all) = kept
    BY <1>1, <1>2, <1>5 DEF Newest
  <2> HIDE DEF m
  <2>3. /\ kept \in Seq(Nat) /\ Len(kept) = MaxRecords
        /\ \A i \in 1 .. MaxRecords : kept[i] = all[(m + 1) + i - 1]
    <3> DEFINE first == m + 1
               last == t + b
    <3>1. \A i \in first .. last : all[i] \in Nat
      BY <1>2, <2>1
    <3>2. first \in Nat \ {0} /\ last \in Nat
      BY <2>1
    <3>3. /\ last - first + 1 = MaxRecords
          /\ (IF first <= last THEN last - first + 1 ELSE 0) = MaxRecords
      BY <2>1
    <3> HIDE DEF first, last
    <3>4. /\ SubSeq(all, first, last) \in Seq(Nat) /\ Len(SubSeq(all, first, last)) = MaxRecords
          /\ \A i \in 1 .. MaxRecords : SubSeq(all, first, last)[i] = all[first + i - 1]
      BY <1>2, <3>1, <3>2, <3>3, SubSeqProperties
    <3> QED  BY <3>4 DEF first, last
  <2> HIDE DEF kept
  <2>4. \A i \in 1 .. b : t + i - m \in 1 .. MaxRecords /\ m + (t + i - m) = t + i
    BY <1>1, <1>5 DEF m
  <2>5. \A i \in 1 .. b : kept[t + i - m] = batch[i]
    <3> SUFFICES ASSUME NEW i \in 1 .. b
                 PROVE  kept[t + i - m] = batch[i]
      OBVIOUS
    <3> DEFINE j == t + i - m
    <3>1. j \in 1 .. MaxRecords /\ m + j = t + i
      BY <2>4
    <3> HIDE DEF j
    <3>2. kept[j] = all[m + j]
      BY <2>1, <2>3, <3>1
    <3>3. kept[j] = batch[i]
      BY <1>3, <3>1, <3>2
    <3> QED  BY <3>3 DEF j
  <2>6. DOMAIN kept = 1 .. MaxRecords
    BY <2>3, LenProperties
  <2>7. Range(batch) \subseteq Range(kept)
    <3>1. ASSUME NEW i \in 1 .. b  PROVE batch[i] \in Range(kept)
      BY <2>4, <2>5, <2>6 DEF Range
    <3> QED  BY <1>1, <3>1 DEF Range
  <2> QED  BY <1>4, <2>2, <2>3, <2>7 DEF all
<1>6. CASE ~(t + b > MaxRecords)
  <2>1. Newest(all) = all
    BY <1>2, <1>6 DEF Newest
  <2> QED  BY <1>2, <1>4, <2>1 DEF all
<1> QED  BY <1>5, <1>6

-----------------------------------------------------------------------------
LEMMA LineInit == Init => LineInv
<1> SUFFICES ASSUME Init  PROVE LineInv
  OBVIOUS
<1>1. <<>> \in Seq(Nat) /\ Len(<<>>) = 0
  BY EmptySeq
<1>2. LineTypes
  BY <1>1 DEF Init, LineTypes
<1>3. OneSentinel /\ BatchIsInserted
  BY <1>1, LogNumbers DEF Init, OneSentinel, BatchIsInserted
<1> QED  BY <1>2, <1>3 DEF LineInv

(* An entry is added to the queue: a line, or the sentinel of stop().      *)
LEMMA QueueGrows ==
  ASSUME LineTypes, NEW e \in Nat, queue' = Append(queue, e)
  PROVE  /\ queue' \in Seq(Nat) /\ DOMAIN queue' = 1 .. Len(queue) + 1 /\ Len(queue) \in Nat
         /\ DOMAIN queue = 1 .. Len(queue)
         /\ \A i \in 1 .. Len(queue) : queue'[i] = queue[i]
         /\ queue'[Len(queue) + 1] = e
BY AppendProperties, LenProperties DEF LineTypes

LEMMA LineStep == LineInv /\ [Next]_vars => LineInv'
<1> SUFFICES ASSUME LineInv, [Next]_vars
             PROVE  LineInv'
  OBVIOUS
<1>0. LineTypes /\ OneSentinel /\ BatchIsInserted
  BY DEF LineInv
<1>1. ASSUME NEW l \in Levels, Log(l)
      PROVE  LineInv'
  <2>1. /\ logged' = logged + 1 /\ logged' \in Nat \ {0}
        /\ UNCHANGED <<batch, table, worker, process, faults>>
        /\ queue' = IF Captured(l) THEN Append(queue, logged') ELSE queue
    BY <1>0, <1>1 DEF Log, workVars, LineTypes
  <2>2. CASE queue' = queue
    BY <1>0, <2>1, <2>2 DEF LineInv, LineTypes, OneSentinel, BatchIsInserted
  <2>3. CASE queue' = Append(queue, logged')
    <3> DEFINE k == Len(queue)
    <3>1. /\ queue' \in Seq(Nat) /\ DOMAIN queue' = 1 .. k + 1 /\ k \in Nat
          /\ DOMAIN queue = 1 .. k
          /\ \A i \in 1 .. k : queue'[i] = queue[i]
          /\ queue'[k + 1] # Sentinel
      BY <1>0, <2>1, <2>3, QueueGrows DEF Sentinel
    <3> HIDE DEF k
    <3>2. \A i \in DOMAIN queue' : queue'[i] = Sentinel => i \in DOMAIN queue /\ queue[i] = Sentinel
      BY <3>1
    <3>3. OneSentinel'
      BY <1>0, <2>1, <3>2 DEF OneSentinel
    <3> QED  BY <1>0, <2>1, <3>1, <3>3 DEF LineInv, LineTypes, BatchIsInserted
  <2> QED  BY <2>1, <2>2, <2>3
<1>2. CASE PutSentinel
  <2>1. /\ process = "put" /\ process' = "join" /\ queue' = Append(queue, Sentinel)
        /\ UNCHANGED <<logged, batch, table, worker, faults>>
    BY <1>2 DEF PutSentinel, workVars
  <2> DEFINE k == Len(queue)
  <2>2. /\ queue' \in Seq(Nat) /\ DOMAIN queue' = 1 .. k + 1 /\ k \in Nat
        /\ DOMAIN queue = 1 .. k
        /\ \A i \in 1 .. k : queue'[i] = queue[i]
    BY <1>0, <2>1, QueueGrows DEF Sentinel
  <2> HIDE DEF k
  <2>3. \A i \in DOMAIN queue' : queue'[i] = Sentinel => i = k + 1
    BY <1>0, <2>1, <2>2 DEF OneSentinel
  <2>4. OneSentinel'
    BY <2>1, <2>3 DEF OneSentinel
  <2> QED  BY <1>0, <2>1, <2>2, <2>4 DEF LineInv, LineTypes, BatchIsInserted
<1>3. CASE Get
  <2>1. /\ UNCHANGED <<logged, table, process, faults>> /\ process # "down"
        /\ queue # <<>> /\ worker' = IF EndsThread THEN "ended" ELSE "insert"
    BY <1>3 DEF Get
  <2>2. /\ Taken \in 1 .. Len(queue) /\ Taken <= BatchSize /\ InBatch \in 0 .. Taken
        /\ (\E i \in 1 .. Taken : queue[i] = Sentinel) => queue[Taken] = Sentinel
        /\ Len(queue) \in Nat /\ DOMAIN queue = 1 .. Len(queue)
    BY <1>0, <2>1, TakenIsThere, LenProperties DEF LineTypes
  <2>3. /\ queue' \in Seq(Nat) /\ batch' \in Seq(Nat)
        /\ DOMAIN queue' = 1 .. Len(queue) - Taken
        /\ \A i \in 1 .. Len(queue) - Taken : queue'[i] = queue[Taken + i]
        /\ Len(batch') = InBatch
    BY <1>3, GetDrains, LenProperties
  <2>4. \A i \in DOMAIN queue' : Taken + i \in DOMAIN queue /\ queue'[i] = queue[Taken + i]
    BY <2>2, <2>3
  <2>5. OneSentinel'
    <3>1. ASSUME NEW i \in DOMAIN queue', NEW j \in DOMAIN queue',
                 queue'[i] = Sentinel, queue'[j] = Sentinel
          PROVE  i = j
      <4>1. Taken + i = Taken + j
        BY <1>0, <2>4, <3>1 DEF OneSentinel
      <4> QED  BY <2>2, <2>3, <4>1
    <3>2. process' # "join" => \A i \in DOMAIN queue' : queue'[i] # Sentinel
      BY <1>0, <2>1, <2>4 DEF OneSentinel
    <3> QED  BY <3>1, <3>2 DEF OneSentinel
  <2>6. EndsThread => batch' = <<>>
    <3> SUFFICES ASSUME EndsThread  PROVE batch' = <<>>
      OBVIOUS
    <3>1. 1 \in DOMAIN queue /\ queue[1] = Sentinel
      BY <1>0, <2>1, <2>2, HeadTailProperties DEF EndsThread, LineTypes
    <3>2. queue[Taken] = Sentinel
      BY <2>2, <3>1
    <3>3. Taken = 1
      BY <1>0, <2>2, <3>1, <3>2 DEF OneSentinel
    <3>4. Len(batch') = 0
      BY <2>3, <3>2, <3>3 DEF InBatch
    <3> QED  BY <2>3, <3>4, EmptySeq
  <2>7. BatchIsInserted'
    BY <2>1, <2>2, <2>3, <2>6, LogNumbers DEF BatchIsInserted
  <2> QED  BY <1>0, <2>1, <2>3, <2>5, <2>7 DEF LineInv, LineTypes
<1>4. CASE Insert
  <2>1. /\ UNCHANGED <<logged, queue, process>> /\ process # "down"
        /\ worker' = "poll" /\ batch' = <<>>
        /\ faults' \in Nat
        /\ \/ table' = table
           \/ table' = Newest(table \o batch)
           \/ table' = table \o batch
    BY <1>0, <1>4 DEF Insert, lineVars, LineTypes
  <2>2. table' \in Seq(Nat)
    <3>1. Newest(table \o batch) \in Seq(Nat) /\ table \o batch \in Seq(Nat)
      BY <1>0, NewestKeepsBatch, ConcatProperties DEF LineTypes, BatchIsInserted
    <3> QED  BY <1>0, <2>1, <3>1 DEF LineTypes
  <2>3. <<>> \in Seq(Nat) /\ Len(<<>>) = 0
    BY EmptySeq
  <2> QED  BY <1>0, <2>1, <2>2, <2>3, LogNumbers
           DEF LineInv, LineTypes, OneSentinel, BatchIsInserted
<1>5. CASE Clear
  <2>1. <<>> \in Seq(Nat)
    BY EmptySeq
  <2> QED  BY <1>0, <1>5, <2>1 DEF Clear, lineVars, LineInv, LineTypes, OneSentinel, BatchIsInserted
<1>6. CASE Down \/ Exit
  <2>1. <<>> \in Seq(Nat) /\ Len(<<>>) = 0 /\ DOMAIN <<>> = {}
    BY EmptySeq
  <2>2. /\ process' = "down" /\ queue' = <<>> /\ batch' = <<>> /\ worker' = "ended"
        /\ UNCHANGED <<logged, table, faults>>
    BY <1>6 DEF Down, Exit, ProcessGone
  <2>3. OneSentinel'
    BY <2>1, <2>2 DEF OneSentinel
  <2> QED  BY <1>0, <2>1, <2>2, <2>3, LogNumbers DEF LineInv, LineTypes, BatchIsInserted
<1>7. CASE Start
  <2>1. /\ process = "down" /\ process' = "running" /\ worker' \in {"poll", "dead"}
        /\ UNCHANGED <<logged, queue, batch, table, faults>>
    BY <1>7 DEF Start, lineVars
  <2> QED  BY <1>0, <2>1 DEF LineInv, LineTypes, OneSentinel, BatchIsInserted
<1>8. CASE BeginStop
  <2>1. /\ process = "running" /\ process' = "put"
        /\ UNCHANGED <<logged, queue, batch, table, worker, faults>>
    BY <1>8 DEF BeginStop, lineVars, workVars
  <2> QED  BY <1>0, <2>1 DEF LineInv, LineTypes, OneSentinel, BatchIsInserted
<1>9. CASE Poll \/ GetTimesOut
  <2>1. /\ worker' # "insert" /\ worker # "insert" /\ faults' \in Nat
        /\ UNCHANGED <<logged, queue, batch, table, process>>
    BY <1>0, <1>9 DEF Poll, GetTimesOut, GoesOn, lineVars, LineTypes
  <2> QED  BY <1>0, <2>1 DEF LineInv, LineTypes, OneSentinel, BatchIsInserted
<1>10. CASE \/ Send \/ Reload \/ ApplyLevel
            \/ \E l \in Levels : PersistLevel(l)
            \/ \E l \in {Off} \cup Levels : SaveForward(l)
            \/ UNCHANGED vars
  <2>1. UNCHANGED <<logged, queue, batch, table, worker, process, faults>>
    BY <1>10 DEF Send, Reload, ApplyLevel, PersistLevel, SaveForward, vars, lineVars, workVars
  <2> QED  BY <1>0, <2>1 DEF LineInv, LineTypes, OneSentinel, BatchIsInserted
<1> QED  BY <1>1, <1>2, <1>3, <1>4, <1>5, <1>6, <1>7, <1>8, <1>9, <1>10 DEF Next, WorkerStep

LEMMA LineInvHolds == Spec => []LineInv
BY LineInit, LineStep, PTL DEF Spec

(* A line that the handler has taken is stored, unless a statement failed  *)
(* or the process ended before the thread was done with it.                *)
LEMMA LineLeaves ==
  ASSUME LineInv, [Next]_vars, NEW n \in Range(queue) \cup Range(batch), n # Sentinel,
         n \notin Range(queue') \cup Range(batch')
  PROVE  \/ n \in Range(table')
         \/ faults' > faults
         \/ /\ process # "down" /\ process' = "down"
            /\ n \in Range(queue) \/ worker = "insert"
<1>0. LineTypes /\ BatchIsInserted
  BY DEF LineInv
<1>1. worker # "insert" => Range(batch) = {}
  BY <1>0, EmptySeq DEF BatchIsInserted, Range
<1>2. CASE Get
  <2>1. worker # "insert"
    BY <1>2 DEF Get
  <2> QED  BY <1>1, <1>2, <2>1, GetLosesNothing
<1>3. CASE Insert
  <2>1. \/ table' = Newest(table \o batch)
        \/ table' = table \o batch
        \/ faults' = faults + 1
    BY <1>3 DEF Insert
  <2>2. n \in Range(batch)
    BY <1>3 DEF Insert, lineVars
  <2>3. /\ Range(batch) \subseteq Range(Newest(table \o batch))
        /\ Range(batch) \subseteq Range(table \o batch)
    BY <1>0, NewestKeepsBatch DEF BatchIsInserted
  <2>4. faults' = faults + 1 => faults' > faults
    BY <1>0 DEF LineTypes
  <2>5. n \in Range(table') \/ faults' > faults
    <3>1. CASE table' = Newest(table \o batch)
      BY <2>2, <2>3, <3>1
    <3>2. CASE table' = table \o batch
      BY <2>2, <2>3, <3>2
    <3>3. CASE faults' = faults + 1
      BY <2>4, <3>3
    <3> QED  BY <2>1, <3>1, <3>2, <3>3
  <2> QED  BY <2>5
<1>4. CASE Down \/ Exit
  BY <1>1, <1>4 DEF Down, Exit, ProcessGone
<1>5. ASSUME NEW e \in Nat, queue' = Append(queue, e), batch' = batch
      PROVE  FALSE
  <2>1. /\ DOMAIN queue' = 1 .. Len(queue) + 1 /\ DOMAIN queue = 1 .. Len(queue)
        /\ Len(queue) \in Nat
        /\ \A i \in 1 .. Len(queue) : queue'[i] = queue[i]
    BY <1>0, <1>5, QueueGrows
  <2>2. \A i \in DOMAIN queue : i \in DOMAIN queue' /\ queue'[i] = queue[i]
    BY <2>1
  <2>3. Range(queue) \subseteq Range(queue')
    BY <2>2 DEF Range
  <2> QED  BY <1>5, <2>3
<1>6. ASSUME NEW l \in Levels, Log(l)
      PROVE  FALSE
  <2>1. batch' = batch /\ logged' \in Nat /\ (queue' = queue \/ queue' = Append(queue, logged'))
    BY <1>0, <1>6 DEF Log, workVars, LineTypes
  <2> QED  BY <1>5, <2>1
<1>7. CASE PutSentinel
  <2>1. batch' = batch /\ Sentinel \in Nat /\ queue' = Append(queue, Sentinel)
    BY <1>7 DEF PutSentinel, workVars, Sentinel
  <2> QED  BY <1>5, <2>1
<1>8. CASE \/ Send \/ Reload \/ ApplyLevel \/ Poll \/ GetTimesOut \/ Clear \/ BeginStop \/ Start
           \/ \E l \in Levels : PersistLevel(l)
           \/ \E l \in {Off} \cup Levels : SaveForward(l)
           \/ UNCHANGED vars
  <2>1. UNCHANGED <<queue, batch>>
    BY <1>8 DEF Send, Reload, ApplyLevel, Poll, GetTimesOut, Clear, BeginStop, Start, PersistLevel,
         SaveForward, vars, lineVars, workVars
  <2> QED  BY <2>1
<1> QED  BY <1>2, <1>3, <1>4, <1>6, <1>7, <1>8 DEF Next, WorkerStep

THEOREM LineLostOnlyByNamedCauseHolds == Spec => LineLostOnlyByNamedCause
<1>1. LineInv /\ [Next]_vars =>
        [\A n \in Range(queue) \cup Range(batch) :
           n # Sentinel /\ n \notin Range(queue') \cup Range(batch') =>
             \/ n \in Range(table')
             \/ faults' > faults
             \/ /\ process # "down" /\ process' = "down"
                /\ n \in Range(queue) \/ worker = "insert"]_vars
  BY LineLeaves
<1> QED  BY <1>1, LineInvHolds, PTL DEF Spec, LineLostOnlyByNamedCause
=============================================================================
