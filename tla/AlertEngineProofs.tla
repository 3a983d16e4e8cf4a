------------------------- MODULE AlertEngineProofs -------------------------
(***************************************************************************)
(* Proofs about the alert engine, for every set of collectors and names,   *)
(* every silence and cooldown: two events of a collector are a cooldown    *)
(* apart, events follow what storage answered, and records leave storage   *)
(* for a named cause. Then those about its other rules (AlertRules).       *)
(***************************************************************************)
EXTENDS AlertEngine, MCAlertRules, FiniteSetTheorems, WellFoundedInduction, TLAPS

(* The cooldown of the rule is no older than any event of its collectors,  *)
(* and an evaluation that found it over may fire once for each of them.    *)
CooldownGuards ==
  /\ \A c \in Collectors : sinceFired <= sinceEvent[c]
  /\ engine = "query" /\ ~inCooldown => sinceFired = Cooldown
  /\ engine = "fire" /\ ~inCooldown => \A c \in todo : sinceEvent[c] = Cooldown

(* What the evaluation works on is what storage answered.                  *)
AnswerKept ==
  /\ gapped \subseteq silentThen \cup renamedThen
  /\ \A c \in DOMAIN read \cap silentThen : read[c] = Silence

(* EventsAreSpaced and EventsFollowStorage are about steps: IInv is what   *)
(* the state before the step has to say.                                   *)
IInv == TypeOK /\ CooldownGuards /\ AnswerKept

-----------------------------------------------------------------------------
(* The row the engine uses. *)

(* The greatest of some ages is one of them. *)
LEMMA MaxIsMember ==
  ASSUME NEW n \in Nat, NEW S \in SUBSET (0 .. n), S # {}
  PROVE  Max(S) \in S
<1> DEFINE Above(x) == {y \in S : y > x}
           T == {Above(x) : x \in S}
<1>1. IsFiniteSet(S)
  <2>1. IsFiniteSet(0 .. n)
    BY FS_Interval
  <2> QED  BY <2>1, FS_Subset
<1>2. PICK U \in T : \A V \in T : ~(<<V, U>> \in StrictSubsetOrdering(S))
  <2>1. IsWellFoundedOn(StrictSubsetOrdering(S), SUBSET S)
    BY <1>1, FS_FiniteSubsetsOfFinite, FS_StrictSubsetOrderingWellFounded
  <2>2. T \subseteq SUBSET S /\ T # {}
    OBVIOUS
  <2> QED  BY <2>1, <2>2, WFMin
<1>3. PICK x \in S : U = Above(x)
  OBVIOUS
<1>4. \A z \in S : x >= z
  <2> SUFFICES ASSUME NEW z \in S, z > x  PROVE FALSE
    OBVIOUS
  <2>0. \A y \in S : y \in Int
    OBVIOUS
  <2>1. \A y \in S : y > z => y > x
    BY <2>0
  <2>3. Above(z) \subseteq Above(x)
    BY <2>1
  <2>4. z \in Above(x) /\ z \notin Above(z)
    BY <2>0
  <2>2. <<Above(z), Above(x)>> \in StrictSubsetOrdering(S)
    BY <2>3, <2>4 DEF StrictSubsetOrdering
  <2> QED  BY <1>2, <1>3, <2>2
<1> QED  BY <1>4 DEF Max

(* The rows of a collector are ages, and the one used is among them. *)
LEMMA UsedIsARow ==
  ASSUME TypeOK, NEW c \in Seen
  PROVE  Rows(c) \subseteq Ages /\ RowUsed(c) \in Rows(c)
<1>1. Rows(c) \subseteq Ages /\ Rows(c) # {}
  BY DEF Seen, Rows, TypeOK
<1> QED  BY <1>1, MaxIsMember, AlertAssumption DEF RowUsed, Ages

(* A collector that kept its name, and whose row is too old, is silent.    *)
LEMMA GapIsSilence ==
  ASSUME TypeOK, NEW c \in Seen, Gaps(c), ~Silent(c)
  PROVE  Cardinality(DOMAIN lastSeen[c]) > 1
<1> DEFINE names == DOMAIN lastSeen[c]
<1>1. c \in Collectors /\ names \in SUBSET Names /\ names # {}
  BY DEF Seen, Rows, TypeOK
<1>2. IsFiniteSet(names) /\ Cardinality(names) \in Nat
  BY <1>1, FS_Subset, FS_CardinalityType, AlertAssumption
<1>3. Cardinality(names) # 0
  BY <1>1, <1>2, FS_EmptySet
<1>4. Cardinality(names) # 1
  <2> SUFFICES ASSUME NEW n, names = {n}  PROVE FALSE
    BY <1>2, FS_Singleton
  <2>1. Rows(c) = {lastSeen[c][n]}
    BY DEF Rows
  <2>2. lastSeen[c][n] = Silence
    BY <2>1, UsedIsARow DEF Gaps
  <2> QED  BY <2>1, <2>2 DEF Silent
<1> QED  BY <1>2, <1>3, <1>4

(* A silent collector that is in the answer is read as silent.             *)
LEMMA SilentIsRead ==
  ASSUME TypeOK, NEW c \in Seen, Silent(c)
  PROVE  RowUsed(c) = Silence
BY UsedIsARow DEF Silent

-----------------------------------------------------------------------------
(* The steps. *)

LEMMA OlderAges ==
  ASSUME NEW max \in Nat, NEW age \in 0 .. max
  PROVE  /\ Older(age, max) \in 0 .. max
         /\ age <= Older(age, max)
         /\ \A other \in 0 .. max : age <= other => Older(age, max) <= Older(other, max)
BY DEF Older

(* The end of an evaluation leaves nothing of its answer.                  *)
LEMMA EndKeepsIInv ==
  ASSUME IInv, EndEvaluation,
         UNCHANGED <<storeVars, rule>>, faults' \in 0 .. MaxFaults, open' \in SUBSET Collectors,
         sinceFired' \in 0 .. Cooldown, sinceEvent' \in [Collectors -> 0 .. Cooldown],
         \A c \in Collectors : sinceFired' <= sinceEvent'[c]
  PROVE  IInv'
<1>1. TypeOK'
  BY DEF IInv, TypeOK, EndEvaluation, storeVars
<1>2. CooldownGuards' /\ AnswerKept'
  BY DEF CooldownGuards, AnswerKept, EndEvaluation
<1> QED  BY <1>1, <1>2 DEF IInv

(* Requests, arrivals and what leaves storage leave the evaluation alone.  *)
LEMMA OutsideKeepsIInv ==
  ASSUME IInv, UNCHANGED <<engine, evalVars, faults, sinceFired, sinceEvent>>,
         name' \in [Collectors -> Names], renames' \in 0 .. MaxRenames,
         rule' \in {"enabled", "disabled"}, open' \in SUBSET Collectors,
         DOMAIN lastSeen' = Collectors,
         \A c \in Collectors : /\ DOMAIN lastSeen'[c] \in SUBSET Names
                               /\ lastSeen'[c] \in [DOMAIN lastSeen'[c] -> Ages]
  PROVE  IInv'
<1>1. TypeOK'
  BY DEF IInv, TypeOK, evalVars
<1>2. CooldownGuards' /\ AnswerKept'
  BY DEF IInv, CooldownGuards, AnswerKept, evalVars
<1> QED  BY <1>1, <1>2 DEF IInv

LEMMA AlertInit == Init => IInv
<1> SUFFICES ASSUME Init  PROVE IInv
  OBVIOUS
<1> USE AlertAssumption
<1>1. name \in [Collectors -> Names]
  <2>1. (CHOOSE n \in Names : TRUE) \in Names
    OBVIOUS
  <2> QED  BY <2>1 DEF Init
<1>2. /\ DOMAIN lastSeen = Collectors
      /\ \A c \in Collectors : /\ DOMAIN lastSeen[c] \in SUBSET Names
                               /\ lastSeen[c] \in [DOMAIN lastSeen[c] -> Ages]
  <2>1. DOMAIN lastSeen = Collectors
    BY DEF Init
  <2>2. ASSUME NEW c \in Collectors
        PROVE  /\ DOMAIN lastSeen[c] \in SUBSET Names
               /\ lastSeen[c] \in [DOMAIN lastSeen[c] -> Ages]
    <3>1. lastSeen[c] = [n \in {name[c]} |-> 0]
      BY DEF Init
    <3>2. 0 \in Ages
      BY DEF Ages
    <3>3. lastSeen[c] \in [{name[c]} -> Ages] /\ DOMAIN lastSeen[c] = {name[c]}
      BY <3>1, <3>2
    <3> QED  BY <1>1, <3>3
  <2> QED  BY <2>1, <2>2
<1>3. /\ sinceFired \in 0 .. Cooldown
      /\ sinceEvent \in [Collectors -> 0 .. Cooldown]
      /\ \A c \in Collectors : sinceFired <= sinceEvent[c]
  BY DEF Init
<1>4. TypeOK
  <2>1. inCooldown \in BOOLEAN
    BY DEF Init
  <2>2. renames \in 0 .. MaxRenames /\ faults \in 0 .. MaxFaults
    BY DEF Init
  <2>3. DOMAIN read \in SUBSET Collectors /\ read \in [DOMAIN read -> Ages]
    BY DEF Init
  <2> QED  BY <1>1, <1>2, <1>3, <2>1, <2>2, <2>3 DEF Init, TypeOK
<1>5. CooldownGuards /\ AnswerKept
  BY <1>3 DEF Init, CooldownGuards, AnswerKept
<1> QED  BY <1>4, <1>5 DEF IInv

(* Time passes, and makes the cooldown no older than an event; it is over  *)
(* for an evaluation only if it is for all of its collectors.              *)
LEMMA TickKeepsIInv ==
  ASSUME IInv, Tick
  PROVE  IInv'
<1> USE AlertAssumption
<1>1. /\ DOMAIN lastSeen' = Collectors
      /\ \A c \in Collectors : /\ DOMAIN lastSeen'[c] \in SUBSET Names
                               /\ lastSeen'[c] \in [DOMAIN lastSeen'[c] -> Ages]
  BY OlderAges DEF IInv, TypeOK, Tick, Ages
<1>2. /\ sinceFired' \in 0 .. Cooldown
      /\ sinceEvent' \in [Collectors -> 0 .. Cooldown]
      /\ \A c \in Collectors : sinceFired' <= sinceEvent'[c]
  <2>1. /\ sinceFired \in 0 .. Cooldown /\ Cooldown \in Nat
        /\ \A c \in Collectors : sinceEvent[c] \in 0 .. Cooldown /\ sinceFired <= sinceEvent[c]
    BY DEF IInv, TypeOK, CooldownGuards
  <2>2. \A c \in Collectors : /\ Older(sinceEvent[c], Cooldown) \in 0 .. Cooldown
                             /\ Older(sinceFired, Cooldown) <= Older(sinceEvent[c], Cooldown)
    BY <2>1, OlderAges
  <2> QED  BY <2>1, <2>2, OlderAges DEF Tick
<1>3. /\ engine' \in {"sleep", "query"} /\ inCooldown' \in BOOLEAN
      /\ engine' = "query" /\ ~inCooldown' => sinceFired' = Cooldown
  <2>1. /\ engine' = IF rule = "enabled" THEN "query" ELSE "sleep"
        /\ inCooldown' = (rule = "enabled" /\ sinceFired' < Cooldown)
    BY DEF Tick
  <2>2. ~(sinceFired' < Cooldown) => sinceFired' = Cooldown
    BY <1>2
  <2>3. inCooldown' \in BOOLEAN
    BY <2>1
  <2> QED  BY <2>1, <2>2, <2>3
<1>4. TypeOK'
  BY <1>1, <1>2, <1>3 DEF IInv, TypeOK, Tick
<1>5. CooldownGuards' /\ AnswerKept'
  BY <1>2, <1>3 DEF IInv, CooldownGuards, AnswerKept, Tick
<1> QED  BY <1>4, <1>5 DEF IInv

(* The answer of storage: who is too old was silent, or has several names. *)
LEMMA ReadKeepsIInv ==
  ASSUME IInv, ReadLastSeen
  PROVE  IInv'
<1>1. /\ engine = "query" /\ engine' = "fire"
      /\ read' = [c \in Seen |-> RowUsed(c)]
      /\ gapped' = {c \in Seen \ Dismissed : Gaps(c)}
      /\ todo' = gapped'
      /\ silentThen' = {c \in Collectors : Silent(c)}
      /\ renamedThen' = {c \in Collectors : Cardinality(DOMAIN lastSeen[c]) > 1}
      /\ UNCHANGED <<storeVars, ruleVars, open, inCooldown, opened, faults, sinceEvent>>
  BY DEF ReadLastSeen
<1>2. DOMAIN read' = Seen /\ read' \in [Seen -> Ages]
  BY <1>1, UsedIsARow DEF IInv
<1>3. gapped' \subseteq Collectors \ Dismissed
  BY <1>1 DEF Seen
<1>4. TypeOK'
  <2>1. Seen \subseteq Collectors
    BY DEF Seen
  <2> QED  BY <1>1, <1>2, <1>3, <2>1 DEF IInv, TypeOK, storeVars, ruleVars
<1>5. CooldownGuards'
  <2>1. ~inCooldown => \A c \in Collectors : sinceEvent[c] = Cooldown
    BY <1>1, AlertAssumption DEF IInv, TypeOK, CooldownGuards
  <2> QED  BY <1>1, <1>3, <2>1 DEF IInv, CooldownGuards, ruleVars
<1>6. gapped' \subseteq silentThen' \cup renamedThen'
  BY <1>1, GapIsSilence DEF IInv, Seen
<1>7. \A c \in DOMAIN read' \cap silentThen' : read'[c] = Silence
  BY <1>1, <1>2, SilentIsRead DEF IInv
<1> QED  BY <1>4, <1>5, <1>6, <1>7 DEF IInv, AnswerKept

(* An event starts its cooldown and the rule's.                            *)
LEMMA FireKeepsIInv ==
  ASSUME IInv, NEW c \in Collectors, Fire(c)
  PROVE  IInv'
<1> USE AlertAssumption
<1>1. /\ sinceFired' = 0
      /\ sinceEvent' = [sinceEvent EXCEPT ![c] = 0]
      /\ open' = open \cup {c}
      /\ UNCHANGED <<storeVars, rule>>
  BY DEF Fire, StampsRule
<1>2. /\ sinceFired' \in 0 .. Cooldown
      /\ sinceEvent' \in [Collectors -> 0 .. Cooldown]
      /\ \A d \in Collectors : sinceFired' <= sinceEvent'[d]
      /\ \A d \in Collectors \ {c} : sinceEvent'[d] = sinceEvent[d]
  BY <1>1 DEF IInv, TypeOK
<1>3. CASE todo' = StillToFire(c) /\ UNCHANGED <<engine, inCooldown, read, gapped, opened,
                                                silentThen, renamedThen, faults>>
  <2>1. TypeOK'
    BY <1>1, <1>2, <1>3 DEF IInv, TypeOK, storeVars, StillToFire
  <2>2. \A d \in todo' : d \in todo /\ d \in Collectors \ {c}
    BY <1>3 DEF IInv, TypeOK, StillToFire
  <2>3. CooldownGuards'
    BY <1>2, <1>3, <2>2 DEF IInv, CooldownGuards, Fire
  <2> QED  BY <1>3, <2>1, <2>3 DEF IInv, AnswerKept
<1>4. CASE faults < MaxFaults /\ faults' = faults + 1 /\ EndEvaluation
  <2>1. faults' \in 0 .. MaxFaults /\ open' \in SUBSET Collectors
    BY <1>1, <1>4 DEF IInv, TypeOK
  <2> QED  BY <1>1, <1>2, <1>4, <2>1, EndKeepsIInv
<1> QED  BY <1>3, <1>4 DEF Fire

(* The steps of an evaluation. *)
LEMMA EngineKeepsIInv ==
  ASSUME IInv, EngineStep
  PROVE  IInv'
<1>1. CASE ReadLastSeen
  BY <1>1, ReadKeepsIInv
<1>2. CASE SkipFiring
  BY <1>2 DEF SkipFiring, IInv, TypeOK, CooldownGuards, AnswerKept, storeVars, ruleVars
<1>3. CASE ReadOpen
  BY <1>3 DEF ReadOpen, IInv, TypeOK, CooldownGuards, AnswerKept, storeVars, ruleVars
<1>4. CASE Resolve
  <2>1. faults' \in 0 .. MaxFaults /\ open' \in SUBSET Collectors
    BY <1>4 DEF Resolve, IInv, TypeOK
  <2> QED  BY <1>4, <2>1, EndKeepsIInv DEF Resolve, IInv, TypeOK, CooldownGuards, ruleVars
<1>5. ASSUME NEW c \in Collectors, Fire(c)  PROVE IInv'
  BY <1>5, FireKeepsIInv
<1>6. CASE EvaluationFails
  <2>1. faults' \in 0 .. MaxFaults /\ open' \in SUBSET Collectors
    BY <1>6, AlertAssumption DEF EvaluationFails, IInv, TypeOK
  <2> QED  BY <1>6, <2>1, EndKeepsIInv DEF EvaluationFails, IInv, TypeOK, CooldownGuards, ruleVars
<1> QED  BY <1>1, <1>2, <1>3, <1>4, <1>5, <1>6 DEF EngineStep

(* A record is stored: the row of the name it carries is young again.      *)
LEMMA StoredKeepsTypes ==
  ASSUME TypeOK, NEW c \in Collectors, RecordStored(c)
  PROVE  /\ DOMAIN lastSeen' = Collectors
         /\ \A d \in Collectors : /\ DOMAIN lastSeen'[d] \in SUBSET Names
                                  /\ lastSeen'[d] \in [DOMAIN lastSeen'[d] -> Ages]
<1> DEFINE rows == [n \in DOMAIN lastSeen[c] \cup {name[c]} |->
                      IF n = name[c] THEN 0 ELSE lastSeen[c][n]]
<1>1. lastSeen' = [lastSeen EXCEPT ![c] = rows]
  BY DEF RecordStored
<1>2. DOMAIN rows \in SUBSET Names /\ rows \in [DOMAIN rows -> Ages]
  BY AlertAssumption DEF TypeOK, Ages
<1> QED  BY <1>1, <1>2 DEF TypeOK

(* Every step of the engine and of its surroundings keeps the invariant.   *)
LEMMA AlertStep == IInv /\ [Next]_vars => IInv'
<1> SUFFICES ASSUME IInv, [Next]_vars
             PROVE  IInv'
  OBVIOUS
<1>1. ASSUME NEW c \in Collectors, RecordStored(c)  PROVE IInv'
  <2>1. /\ UNCHANGED <<engine, evalVars, faults, sinceFired, sinceEvent>>
        /\ UNCHANGED <<name, renames, rule, open>>
    BY <1>1 DEF RecordStored, ruleVars
  <2> QED  BY <1>1, <2>1, StoredKeepsTypes, OutsideKeepsIInv DEF IInv, TypeOK
<1>2. ASSUME NEW c \in Collectors, NEW n \in Names, Rename(c, n)  PROVE IInv'
  <2>1. /\ UNCHANGED <<engine, evalVars, faults, sinceFired, sinceEvent>>
        /\ UNCHANGED <<lastSeen, rule, open>>
    BY <1>2 DEF Rename, ruleVars
  <2>2. renames' \in 0 .. MaxRenames /\ name' \in [Collectors -> Names]
    BY <1>2, AlertAssumption DEF Rename, IInv, TypeOK
  <2> QED  BY <2>1, <2>2, OutsideKeepsIInv DEF IInv, TypeOK
<1>3. CASE Tick
  BY <1>3, TickKeepsIInv
<1>4. CASE EngineStep
  BY <1>4, EngineKeepsIInv
<1>5. ASSUME \/ \E c \in Collectors : Ack(c)
             \/ AckAll
             \/ \E old \in SUBSET open : Cleanup(old)
             \/ ToggleRule
      PROVE  IInv'
  <2>1. /\ UNCHANGED <<engine, evalVars, faults, sinceFired, sinceEvent>>
        /\ UNCHANGED storeVars
        /\ rule' \in {"enabled", "disabled"}
        /\ open' \subseteq open
    BY <1>5 DEF Ack, AckAll, Cleanup, ToggleRule, ruleVars, IInv, TypeOK
  <2>2. /\ UNCHANGED <<name, renames, lastSeen>>
        /\ open' \in SUBSET Collectors
    BY <2>1 DEF storeVars, IInv, TypeOK
  <2> QED  BY <2>1, <2>2, OutsideKeepsIInv DEF IInv, TypeOK
<1>6. ASSUME NEW gone, RecordsLeave(gone)  PROVE IInv'
  <2>1. /\ UNCHANGED <<engine, evalVars, faults, sinceFired, sinceEvent>>
        /\ UNCHANGED <<name, renames, rule, open>>
    BY <1>6 DEF RecordsLeave, ruleVars
  <2>2. /\ DOMAIN lastSeen' = Collectors
        /\ \A c \in Collectors : /\ DOMAIN lastSeen'[c] \in SUBSET Names
                                 /\ lastSeen'[c] \in [DOMAIN lastSeen'[c] -> Ages]
    BY <1>6 DEF RecordsLeave, IInv, TypeOK
  <2> QED  BY <2>1, <2>2, OutsideKeepsIInv DEF IInv, TypeOK
<1>7. CASE UNCHANGED vars
  BY <1>7, OutsideKeepsIInv DEF vars, storeVars, ruleVars, IInv, TypeOK
<1> QED  BY <1>1, <1>2, <1>3, <1>4, <1>5, <1>6, <1>7 DEF Next

(* The variables of the engine keep their types, and IInv holds throughout.*)
THEOREM AlertIInvHolds == Spec => []IInv
BY AlertInit, AlertStep, PTL DEF Spec

-----------------------------------------------------------------------------
(* What moves the age of an event is an event, or time, which is not while *)
(* the engine fires.                                                       *)
LEMMA EventsAreFired ==
  ASSUME IInv, [Next]_vars, NEW c \in Collectors, Fires(c)
  PROVE  Fire(c)
<1>1. engine = "fire" /\ sinceEvent'[c] # sinceEvent[c]
  BY DEF Fires
<1>2. PICK d \in Collectors : Fire(d)
  BY <1>1
     DEF Next, vars, storeVars, ruleVars, RecordStored, Rename, Tick, EngineStep, ReadLastSeen,
         SkipFiring, ReadOpen, Resolve, EvaluationFails, Ack, AckAll, Cleanup,
         RecordsLeave, ToggleRule
<1>3. c = d
  BY <1>1, <1>2 DEF Fire, IInv, TypeOK
<1> QED  BY <1>2, <1>3

(* Two events of one collector are at least the cooldown apart. *)
THEOREM EventsAreSpacedHolds == Spec => EventsAreSpaced
<1>1. IInv /\ [Next]_vars => [\A c \in Collectors : Fires(c) => sinceEvent[c] = Cooldown]_vars
  <2>1. ASSUME IInv, [Next]_vars, NEW c \in Collectors, Fires(c)
        PROVE  sinceEvent[c] = Cooldown
    BY <2>1, EventsAreFired DEF Fire, IInv, CooldownGuards
  <2> QED  BY <2>1
<1> QED  BY <1>1, AlertIInvHolds, PTL DEF Spec, EventsAreSpaced

(* The engine fires only for what storage showed silent or renamed, and    *)
(* resolves only what it did not show silent.                              *)
THEOREM EventsFollowStorageHolds == Spec => EventsFollowStorage
<1> DEFINE Follows ==
      /\ \A c \in Collectors : Fires(c) => c \in silentThen \cup renamedThen
      /\ engine = "resolve" /\ engine' # engine => (open \ open') \cap silentThen = {}
<1>1. IInv /\ [Next]_vars => [Follows]_vars
  <2>1. ASSUME IInv, [Next]_vars, NEW c \in Collectors, Fires(c)
        PROVE  c \in silentThen \cup renamedThen
    BY <2>1, EventsAreFired DEF Fire, IInv, TypeOK, AnswerKept
  <2>2. ASSUME IInv, [Next]_vars, engine = "resolve", engine' # engine
        PROVE  (open \ open') \cap silentThen = {}
    <3>1. Resolve \/ EvaluationFails
      BY <2>2
         DEF Next, vars, storeVars, ruleVars, RecordStored, Rename, Tick, EngineStep,
             ReadLastSeen, SkipFiring, ReadOpen, Fire, Ack, AckAll, Cleanup,
             RecordsLeave, ToggleRule
    <3>2. \A c \in Recovered : c \notin silentThen
      BY <2>2, AlertAssumption DEF Recovered, IInv, AnswerKept
    <3> QED  BY <3>1, <3>2 DEF Resolve, EvaluationFails
  <2> QED  BY <2>1, <2>2
<1> QED  BY <1>1, AlertIInvHolds, PTL DEF Spec, EventsFollowStorage

-----------------------------------------------------------------------------
(* The other rules of the engine (AlertRules), for every set of senders    *)
(* and channels and every cooldown.                                        *)

Fresh == 0 .. RuleCooldown

RulesTypes ==
  /\ noted \subseteq Senders /\ ips \subseteq Senders
  /\ ruleFired \in [Rules!Rules -> Fresh]
  /\ failed \in Nat

(* A measure is held only while its rule is dealt with, and then no notes  *)
(* have been taken; a sender in hand is one that was noted.                *)
RulesPlace ==
  /\ measured # "none" => evaluation \in {"level", "notify"}
  /\ ips # {} => evaluation \in {"check", "rule", "fire", "notify"} /\ measured = "none"
  /\ evaluation \in {"rule", "fire"} => current \in Senders

(* last_fired is as old as the last event: the engine writes the two in    *)
(* one transaction, and neither for a rule deleted meanwhile. What it read *)
(* of last_fired still holds when it fires, as nobody else makes it        *)
(* younger and a rule made anew has none.                                  *)
RulesClock ==
  /\ ruleEvent = ruleFired
  /\ evaluation \in {"measure", "level"} /\ ~cooling => ruleFired["level"] = RuleCooldown
  /\ evaluation = "fire" => ruleFired["new_host"] = RuleCooldown

RulesInv == RulesTypes /\ RulesPlace /\ RulesClock

LEMMA RulesInit ==
  ASSUME Rules!RulesConstants, Rules!Init
  PROVE  RulesInv
BY DEF Rules!RulesConstants, Rules!Init, RulesInv, RulesTypes, RulesPlace, RulesClock, Fresh

(* What the administrators, ingest and time do, and the ends of the process. *)
LEMMA RulesWorldStep ==
  ASSUME Rules!RulesConstants, RulesInv,
         \/ \E s \in Senders : Rules!MessageDropped(s) \/ Rules!Register(s)
         \/ \E k \in Rules!Rules :
              \/ Rules!ToggleRule(k) \/ Rules!DeleteRule(k)
              \/ \E on \in BOOLEAN : Rules!UpdateRule(k, on) \/ Rules!CreateRule(k, on)
         \/ \E new, on \in SUBSET Rules!Rules : Rules!ImportRules(new, on)
         \/ \E b \in {"yes", "no", "none"} : Rules!MeasureChanges(b)
         \/ Rules!Ack \/ Rules!Tick \/ Rules!ProcessEnds \/ Rules!Start
  PROVE  RulesInv'
<1>0. RuleCooldown \in Nat \ {0} /\ Rules!Rules = {"level", "new_host"}
  BY DEF Rules!RulesConstants, Rules!Rules
<1> USE DEF RulesInv, RulesTypes, RulesPlace, RulesClock, Fresh
<1>1. CASE \E s \in Senders : Rules!MessageDropped(s)
  BY <1>1 DEF Rules!MessageDropped, Rules!evalVars
<1>2. CASE \/ \E s \in Senders : Rules!Register(s)
           \/ \E k \in Rules!Rules : Rules!ToggleRule(k)
           \/ \E k \in Rules!Rules : \E on \in BOOLEAN : Rules!UpdateRule(k, on)
           \/ \E b \in {"yes", "no", "none"} : Rules!MeasureChanges(b)
           \/ Rules!Ack
  <2>1. Rules!World
    BY <1>2 DEF Rules!Request, Rules!Register, Rules!ToggleRule, Rules!UpdateRule, Rules!MeasureChanges, Rules!Ack
  <2> QED  BY <2>1 DEF Rules!World, Rules!evalVars
<1>3. CASE \E k \in Rules!Rules : Rules!DeleteRule(k)
  BY <1>3 DEF Rules!DeleteRule
<1>4. ASSUME NEW new \in SUBSET Rules!Rules, NEW on, Rules!Insert(new, on)
      PROVE  RulesInv'
  BY <1>0, <1>4 DEF Rules!Insert, Rules!evalVars
<1>5. CASE Rules!Tick
  BY <1>0, <1>5 DEF Rules!Tick, Rules!Older
<1>6. CASE \E k \in Rules!Rules : \E on \in BOOLEAN : Rules!CreateRule(k, on)
  BY <1>4, <1>6 DEF Rules!CreateRule
<1>7. CASE \E new, on \in SUBSET Rules!Rules : Rules!ImportRules(new, on)
  BY <1>4, <1>7 DEF Rules!ImportRules
<1>8. CASE Rules!ProcessEnds \/ Rules!Start
  BY <1>8 DEF Rules!ProcessEnds, Rules!Start, Rules!Quiet
<1> QED  BY <1>1, <1>2, <1>3, <1>5, <1>6, <1>7, <1>8

LEMMA RulesEngineStep ==
  ASSUME Rules!RulesConstants, RulesInv, Rules!EngineStep
  PROVE  RulesInv'
<1>0. RuleCooldown \in Nat \ {0} /\ Rules!Rules = {"level", "new_host"}
  BY DEF Rules!RulesConstants, Rules!Rules
<1> USE DEF RulesInv, RulesTypes, RulesPlace, RulesClock, Fresh
<1>1. CASE Rules!ReadRules
  <2>1. /\ noted' = noted /\ ips' = ips /\ measured' = measured /\ failed' = failed
        /\ ruleFired' = ruleFired /\ ruleEvent' = ruleEvent
        /\ evaluation = "due" /\ evaluation' \in {"measure", "take"}
    BY <1>1 DEF Rules!ReadRules, Rules!Quiet
  <2>2. evaluation' = "measure" /\ ~cooling' => ~(ruleFired["level"] < RuleCooldown)
    <3>1. /\ evaluation' = IF "level" \in enabled THEN "measure" ELSE "take"
          /\ cooling' <=> "level" \in enabled /\ ruleFired["level"] < RuleCooldown
      BY <1>1 DEF Rules!ReadRules
    <3> QED  BY <3>1
  <2>3. ruleFired["level"] \in Fresh
    BY <1>0
  <2> QED  BY <1>0, <2>1, <2>2, <2>3
<1>2. CASE Rules!Measure
  BY <1>2 DEF Rules!Measure, Rules!Quiet
<1>3. CASE Rules!AutoResolve \/ Rules!LevelPasses
  BY <1>3 DEF Rules!AutoResolve, Rules!LevelPasses, Rules!LevelDone, Rules!Quiet
<1>4. CASE Rules!FireLevel
  BY <1>0, <1>4 DEF Rules!FireLevel, Rules!Fired, Rules!StampsRule
<1>5. CASE Rules!Take
  BY <1>5 DEF Rules!Take, Rules!TakesNotes, Rules!Quiet
<1>6. CASE \E s \in Senders : Rules!Check(s)
  BY <1>6 DEF Rules!Check, Rules!Quiet
<1>7. CASE Rules!ReadRule
  BY <1>7 DEF Rules!ReadRule, Rules!NextSender, Rules!Quiet
<1>8. CASE Rules!FireNewHost
  BY <1>0, <1>8 DEF Rules!FireNewHost, Rules!Fired, Rules!StampsRule, Rules!NextSender
<1>9. CASE \E channel \in Channels : Rules!Dispatch(channel)
  BY <1>9 DEF Rules!Dispatch, Rules!Quiet
<1>10. CASE Rules!Notified
  BY <1>10 DEF Rules!Notified, Rules!LevelDone, Rules!Quiet
<1>11. CASE Rules!EvaluationEnds
  BY <1>11 DEF Rules!EvaluationEnds, Rules!LeavesNotes, Rules!Quiet
<1>12. CASE Rules!LevelFails
  BY <1>12 DEF Rules!LevelFails, Rules!LevelDone, Rules!Fault
<1>13. CASE Rules!NewHostFails
  BY <1>13 DEF Rules!NewHostFails, Rules!Fault
<1> QED  BY <1>1, <1>2, <1>3, <1>4, <1>5, <1>6, <1>7, <1>8, <1>9, <1>10, <1>11, <1>12, <1>13
           DEF Rules!EngineStep

LEMMA RulesInvHolds == Rules!Spec => []RulesInv
<1>1. Rules!Init => RulesInv
  BY RulesAssumption, RulesInit
<1>2. RulesInv /\ [Rules!Next]_(Rules!vars) => RulesInv'
  <2>1. RulesInv /\ Rules!Next => RulesInv'
    BY RulesAssumption, RulesWorldStep, RulesEngineStep DEF Rules!Next
  <2>2. RulesInv /\ UNCHANGED Rules!vars => RulesInv'
    BY DEF Rules!vars, Rules!evalVars, RulesInv, RulesTypes, RulesPlace, RulesClock
  <2> QED  BY <2>1, <2>2
<1> QED  BY <1>1, <1>2, PTL DEF Rules!Spec

(* Two events of one rule are at least its cooldown apart. *)
THEOREM OneEventPerCooldownHolds == Rules!Spec => OneEventPerCooldown
<1> DEFINE Spaced == event' # None => ruleEvent[Rules!RuleOf(event')] = RuleCooldown
<1>1. ASSUME Rules!RulesConstants, RulesInv, Rules!Next
      PROVE  Spaced
  <2>1. CASE Rules!FireLevel
    <3>1. event' = Level /\ ruleEvent["level"] = RuleCooldown
      BY <1>1, <2>1 DEF RulesInv, RulesClock, Rules!FireLevel, Rules!Fired
    <3> QED  BY <3>1 DEF Rules!RuleOf
  <2>2. CASE Rules!FireNewHost
    <3>1. event' \in Senders /\ ruleEvent["new_host"] = RuleCooldown
      BY <1>1, <2>2 DEF RulesInv, RulesPlace, RulesClock, Rules!FireNewHost, Rules!Fired
    <3> QED  BY <1>1, <3>1 DEF Rules!RuleOf, Rules!RulesConstants
  <2>3. CASE ~Rules!FireLevel /\ ~Rules!FireNewHost
    <3>1. event' = None
      <4>1. CASE Rules!EngineStep
        BY <2>3, <4>1 DEF Rules!EngineStep, Rules!ReadRules, Rules!Measure, Rules!AutoResolve,
             Rules!LevelPasses, Rules!LevelFails, Rules!Take, Rules!ReadRule, Rules!NewHostFails,
             Rules!Notified, Rules!EvaluationEnds, Rules!Check, Rules!Dispatch, Rules!Quiet,
             Rules!Fault
      <4>2. CASE ~Rules!EngineStep
        BY <1>1, <4>2 DEF Rules!Next, Rules!MessageDropped, Rules!Register, Rules!ToggleRule,
             Rules!UpdateRule, Rules!DeleteRule, Rules!CreateRule, Rules!ImportRules, Rules!Insert,
             Rules!MeasureChanges, Rules!Ack, Rules!Tick, Rules!ProcessEnds, Rules!Start,
             Rules!Quiet, Rules!Request, Rules!World
      <4> QED  BY <4>1, <4>2
    <3> QED  BY <3>1
  <2> QED  BY <2>1, <2>2, <2>3
<1>2. RulesInv /\ [Rules!Next]_(Rules!vars) => [Spaced]_(Rules!vars)
  BY <1>1, RulesAssumption
<1> HIDE DEF Spaced
<1>3. Rules!Spec => [][Spaced]_(Rules!vars)
  BY <1>2, RulesInvHolds, PTL DEF Rules!Spec
<1> QED  BY <1>3 DEF OneEventPerCooldown, Rules!OneEventPerCooldown, Spaced

(* No sender is forgotten, neither by the clearing of the notes nor by     *)
(* what became of another sender.                                          *)
THEOREM ForgottenOnlyByNamedCauseHolds == Rules!Spec => ForgottenOnlyByNamedCause
<1> DEFINE Forgets(s) == s \in noted \cup ips /\ s \notin noted' \cup ips'
           Named(s) == \/ s \in registry
                       \/ event' = s
                       \/ "new_host" \notin enabled
                       \/ ruleFired["new_host"] < RuleCooldown
                       \/ failed' > failed
                       \/ Rules!Up /\ ~Rules!Up'
           Remembers == \A s \in noted \cup ips : s \notin noted' \cup ips' => Named(s)
<1>1. ASSUME Rules!RulesConstants, RulesInv, Rules!Next, NEW s, Forgets(s)
      PROVE  Named(s)
  <2>1. CASE Rules!Take
    BY <1>1, <2>1 DEF RulesInv, RulesPlace, Rules!Take, Rules!TakesNotes
  <2>2. CASE \E q \in Senders : Rules!Check(q)
    BY <1>1, <2>2 DEF Rules!Check
  <2>3. CASE Rules!ReadRule
    <3>1. /\ ~("new_host" \in enabled /\ ruleFired["new_host"] = RuleCooldown)
          /\ ruleFired["new_host"] \in Fresh /\ RuleCooldown \in Nat
      BY <1>1, <2>3 DEF RulesInv, RulesTypes, Rules!ReadRule, Rules!Rules, Rules!RulesConstants
    <3> QED  BY <3>1 DEF Fresh
  <2>4. CASE Rules!FireNewHost
    BY <1>1, <2>4 DEF Rules!FireNewHost, Rules!Fired, Rules!NextSender
  <2>5. CASE Rules!NewHostFails
    BY <1>1, <2>5 DEF Rules!NewHostFails, Rules!Fault, RulesInv, RulesTypes
  <2>6. CASE Rules!EvaluationEnds
    BY <1>1, <2>6 DEF Rules!EvaluationEnds, Rules!LeavesNotes
  <2>7. CASE \/ Rules!ReadRules \/ Rules!Measure \/ Rules!AutoResolve \/ Rules!LevelPasses
             \/ Rules!FireLevel \/ Rules!LevelFails \/ Rules!Notified
             \/ \E channel \in Channels : Rules!Dispatch(channel)
    BY <1>1, <2>7 DEF Rules!ReadRules, Rules!Measure, Rules!AutoResolve, Rules!LevelPasses,
         Rules!FireLevel, Rules!LevelFails, Rules!Notified, Rules!Dispatch, Rules!Fault
  <2>8. CASE Rules!ProcessEnds
    BY <2>8 DEF Rules!ProcessEnds, Rules!Up
  <2>9. CASE ~Rules!EngineStep /\ ~Rules!ProcessEnds
    BY <1>1, <2>9 DEF Rules!Next, Rules!MessageDropped, Rules!Register, Rules!ToggleRule,
         Rules!UpdateRule, Rules!DeleteRule, Rules!CreateRule, Rules!ImportRules, Rules!Insert,
         Rules!MeasureChanges, Rules!Ack, Rules!Tick, Rules!Start, Rules!Quiet, Rules!Request,
         Rules!World, Rules!evalVars
  <2> QED  BY <2>1, <2>2, <2>3, <2>4, <2>5, <2>6, <2>7, <2>8, <2>9 DEF Rules!EngineStep
<1>2. RulesInv /\ [Rules!Next]_(Rules!vars) => [Remembers]_(Rules!vars)
  BY <1>1, RulesAssumption
<1> HIDE DEF Remembers
<1>3. Rules!Spec => [][Remembers]_(Rules!vars)
  BY <1>2, RulesInvHolds, PTL DEF Rules!Spec
<1> QED  BY <1>3 DEF ForgottenOnlyByNamedCause, Rules!ForgottenOnlyByNamedCause, Remembers
=============================================================================
