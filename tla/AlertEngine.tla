---------------------------- MODULE AlertEngine ----------------------------
(***************************************************************************)
(* The alert engine of pktLog (app/alerts/engine.py) and its data_gap      *)
(* rule: once per interval it reads the rules, asks storage when each      *)
(* collector was last seen, fires an event for each that fell silent, and  *)
(* resolves the open events of those that came back. Meanwhile records     *)
(* arrive, collectors are renamed, analysts acknowledge events, and        *)
(* administrators switch the rule off and on (app/api/alerts.py; rules are *)
(* made and deleted in AlertRules); old events are removed                 *)
(* (app/alerts/cleanup.py) and so are records (Retention says when), and a *)
(* collector without records is not in the answer of storage any more.     *)
(*                                                                         *)
(* One tick of time is one interval of the engine; an evaluation takes     *)
(* less. A statement of the engine up to its commit is one step: the       *)
(* first write takes SQLite's write lock.                                  *)
(***************************************************************************)
EXTENDS Naturals, FiniteSets, FiniteSetsExt

CONSTANTS
  Collectors,  \* the collector_ips with records in storage
  Names,       \* the names a collector may be given
  Dismissed,   \* sampler_dismissals, which nothing in the program writes
  Silence,     \* silence_minutes, in ticks
  Cooldown,    \* cooldown_min, in ticks
  MaxRenames,  \* bound on the renames
  MaxFaults    \* bound on the statements that fail

ASSUME AlertAssumption ==
  /\ IsFiniteSet(Collectors) /\ IsFiniteSet(Names)
  /\ Names # {}
  /\ Dismissed \subseteq Collectors
  /\ Silence \in Nat \ {0}
  /\ Cooldown \in Nat \ {0}
  /\ {MaxRenames, MaxFaults} \subseteq Nat

VARIABLES
  lastSeen,    \* collector_last_seen(): the age of each (collector, name) row
  name,        \* collector_name of the registry
  renames,     \* how often that was changed
  rule,        \* the data_gap rule: enabled or disabled
  sinceFired,  \* the age of its last_fired, up to Cooldown
  open,        \* the collectors with an open event: not acked, not resolved
  engine,      \* where the evaluation is
  inCooldown,  \* of the rule as read at the start of the evaluation
  read,        \* last_seen as this evaluation uses it: an age per collector
  gapped,      \* gapped_samplers
  todo,        \* the silent collectors still to fire for
  opened,      \* those read for auto-resolve
  faults,      \* the statements that have failed
  silentThen,  \* the collectors that were silent at the query (history)
  renamedThen, \* those with rows of several names at the query (history)
  sinceEvent   \* the age of the last event of each collector, up to
               \* Cooldown (history)

storeVars == <<lastSeen, name, renames>>
ruleVars  == <<rule, sinceFired>>
evalVars  == <<inCooldown, read, gapped, todo, opened, silentThen, renamedThen>>
vars == <<storeVars, ruleVars, open, engine, evalVars, faults, sinceEvent>>

Ages == 0 .. Silence

Older(age, max) == IF age < max THEN age + 1 ELSE max

(* collector_last_seen(): the rows of a collector, one for each name its   *)
(* records carry.                                                          *)
Rows(c) == {lastSeen[c][n] : n \in DOMAIN lastSeen[c]}
Seen == {c \in Collectors : Rows(c) # {}}

(* No record of the collector under any name is younger than the silence.  *)
Silent(c) == Rows(c) \subseteq {Silence}

-----------------------------------------------------------------------------
(* Names matter only in that a new one differs from the old: all start     *)
(* with the same.                                                          *)
Init ==
  /\ name = [c \in Collectors |-> CHOOSE n \in Names : TRUE]
  /\ renames = 0
  /\ lastSeen = [c \in Collectors |-> [n \in {name[c]} |-> 0]]
  /\ rule = "enabled"
  /\ sinceFired = Cooldown
  /\ open = {}
  /\ engine = "sleep"
  /\ inCooldown = FALSE
  /\ read = [c \in {} |-> 0]
  /\ gapped = {}
  /\ todo = {}
  /\ opened = {}
  /\ faults = 0
  /\ silentThen = {}
  /\ renamedThen = {}
  /\ sinceEvent = [c \in Collectors |-> Cooldown]

(* A record is stored, under the name its collector has now. *)
RecordStored(c) ==
  /\ lastSeen' = [lastSeen EXCEPT ![c] =
                    [n \in DOMAIN @ \cup {name[c]} |-> IF n = name[c] THEN 0 ELSE @[n]]]
  /\ UNCHANGED <<name, renames, ruleVars, open, engine, evalVars, faults, sinceEvent>>

(* Settings -> Collectors: update_collector. *)
Rename(c, n) ==
  /\ n # name[c]
  /\ renames < MaxRenames
  /\ renames' = renames + 1
  /\ name' = [name EXCEPT ![c] = n]
  /\ UNCHANGED <<lastSeen, ruleVars, open, engine, evalVars, faults, sinceEvent>>

-----------------------------------------------------------------------------
(* One evaluation. *)

(* The evaluation of the rule is over, and its local variables are gone. *)
EndEvaluation ==
  /\ engine' = "sleep"
  /\ inCooldown' = FALSE
  /\ read' = [c \in {} |-> 0]
  /\ gapped' = {}
  /\ todo' = {}
  /\ opened' = {}
  /\ silentThen' = {}
  /\ renamedThen' = {}

(* asyncio.sleep(interval) ends, everything is one interval older, and the *)
(* enabled rules are read once, last_fired with them.                      *)
Tick ==
  /\ engine = "sleep"
  /\ lastSeen' = [c \in Collectors |->
                    [n \in DOMAIN lastSeen[c] |-> Older(lastSeen[c][n], Silence)]]
  /\ sinceFired' = Older(sinceFired, Cooldown)
  /\ sinceEvent' = [c \in Collectors |-> Older(sinceEvent[c], Cooldown)]
  /\ engine' = IF rule = "enabled" THEN "query" ELSE "sleep"
  /\ inCooldown' = (rule = "enabled" /\ sinceFired' < Cooldown)
  /\ UNCHANGED <<name, renames, rule, open, read, gapped, todo, opened, silentThen,
                 renamedThen, faults>>

(* One row per (collector, name), newest first, goes into a dict by        *)
(* collector: the oldest row of a collector is the one that stays.         *)
RowUsed(c) == Max(Rows(c))

(* now - ts > silence_minutes *)
GapsEarly(c) == RowUsed(c) + 1 >= Silence \* mutant: one interval too soon
Gaps(c) == RowUsed(c) = Silence

ReadLastSeen ==
  /\ engine = "query"
  /\ engine' = "fire"
  /\ read' = [c \in Seen |-> RowUsed(c)]
  /\ gapped' = {c \in Seen \ Dismissed : Gaps(c)}
  /\ todo' = gapped'
  /\ silentThen' = {c \in Collectors : Silent(c)}
  /\ renamedThen' = {c \in Collectors : Cardinality(DOMAIN lastSeen[c]) > 1}
  /\ UNCHANGED <<storeVars, ruleVars, open, inCooldown, opened, faults, sinceEvent>>

(* UPDATE alert_rules SET last_fired. *)
ForgetsFiring == UNCHANGED sinceFired \* mutant
StampsRule == sinceFired' = 0

(* The collectors after c: the cooldown is not read again for them. *)
RereadsCooldown(c) == {} \* mutant
StillToFire(c) == todo \ {c}

(* _fire. The notifications that follow the commit may raise, which ends   *)
(* the evaluation of the rule.                                             *)
Fire(c) ==
  /\ engine = "fire"
  /\ c \in todo
  /\ ~inCooldown
  /\ open' = open \cup {c}
  /\ StampsRule
  /\ sinceEvent' = [sinceEvent EXCEPT ![c] = 0]
  /\ \/ /\ todo' = StillToFire(c)
        /\ UNCHANGED <<engine, inCooldown, read, gapped, opened, silentThen, renamedThen,
                       faults>>
     \/ faults < MaxFaults /\ faults' = faults + 1 /\ EndEvaluation
  /\ UNCHANGED <<storeVars, rule>>

(* Still in cooldown: _fire returns at once, for every collector. *)
SkipFiring ==
  /\ engine = "fire"
  /\ inCooldown
  /\ todo # {}
  /\ todo' = {}
  /\ UNCHANGED <<storeVars, ruleVars, open, engine, inCooldown, read, gapped, opened,
                 faults, silentThen, renamedThen, sinceEvent>>

(* _auto_resolve_data_gap reads the open events of the rule ... *)
ReadOpen ==
  /\ engine = "fire"
  /\ todo = {}
  /\ engine' = "resolve"
  /\ opened' = open
  /\ UNCHANGED <<storeVars, ruleVars, open, inCooldown, read, gapped, todo, faults,
                 silentThen, renamedThen, sinceEvent>>

(* ... and resolves those whose collector has been heard of again; one     *)
(* that is not in the answer cannot be confirmed.                          *)
ResolvesNone == {} \* mutant
Recovered == {c \in (opened \cap DOMAIN read) \ gapped : read[c] < Silence}

Resolve ==
  /\ engine = "resolve"
  /\ open' = open \ Recovered
  /\ EndEvaluation
  /\ UNCHANGED <<storeVars, ruleVars, faults, sinceEvent>>

(* Storage or the database fails a statement, or the process ends and      *)
(* starts again: the rule is given up for this evaluation, of which        *)
(* nothing is kept.                                                        *)
EvaluationFails ==
  /\ engine \in {"query", "fire", "resolve"}
  /\ faults < MaxFaults
  /\ faults' = faults + 1
  /\ EndEvaluation
  /\ UNCHANGED <<storeVars, ruleVars, open, sinceEvent>>

-----------------------------------------------------------------------------
(* The requests, and what leaves storage. *)

(* ack_event, of the last open event of a collector. *)
Ack(c) ==
  /\ c \in open
  /\ open' = open \ {c}
  /\ UNCHANGED <<storeVars, ruleVars, engine, evalVars, faults, sinceEvent>>

AckAll ==
  /\ open' = {}
  /\ UNCHANGED <<storeVars, ruleVars, engine, evalVars, faults, sinceEvent>>

(* AlertCleanup: events past their retention go, whatever was done about   *)
(* them.                                                                   *)
Cleanup(old) ==
  /\ open' = open \ old
  /\ UNCHANGED <<storeVars, ruleVars, engine, evalVars, faults, sinceEvent>>

(* Records leave storage: rows past the retention, which is longer than    *)
(* the silence, at once or as ClickHouse merges (the summary keeps them),  *)
(* or every row there is, as a cleanup of a disabled retention has it.     *)
Aged == {r \in Collectors \X Names : r[2] \in DOMAIN lastSeen[r[1]] /\ lastSeen[r[1]][r[2]] = Silence}

RecordsLeave(gone) ==
  /\ lastSeen' = [c \in Collectors |->
                    [n \in {m \in DOMAIN lastSeen[c] : <<c, m>> \notin gone} |-> lastSeen[c][n]]]
  /\ UNCHANGED <<name, renames, ruleVars, open, engine, evalVars, faults, sinceEvent>>

ToggleRule ==
  /\ rule' = IF rule = "enabled" THEN "disabled" ELSE "enabled"
  /\ UNCHANGED <<storeVars, sinceFired, open, engine, evalVars, faults, sinceEvent>>

-----------------------------------------------------------------------------
EngineStep == \/ ReadLastSeen \/ SkipFiring \/ ReadOpen \/ Resolve
              \/ \E c \in Collectors : Fire(c)
              \/ EvaluationFails

Next ==
  \/ \E c \in Collectors : RecordStored(c) \/ \E n \in Names : Rename(c, n)
  \/ Tick
  \/ EngineStep
  \/ \E c \in Collectors : Ack(c)
  \/ AckAll
  \/ \E old \in SUBSET open : Cleanup(old)
  \/ \E gone \in SUBSET Aged \cup {Collectors \X Names} : RecordsLeave(gone)
  \/ ToggleRule

Spec == Init /\ [][Next]_vars

(* Time passes, and the loop of the engine survives every exception. *)
FairSpec == Spec /\ WF_vars(Tick) /\ WF_vars(EngineStep)

-----------------------------------------------------------------------------
(* Properties. *)

(* The variables have the values the code can give them. *)
TypeOK ==
  /\ DOMAIN lastSeen = Collectors
  /\ \A c \in Collectors : /\ DOMAIN lastSeen[c] \in SUBSET Names
                           /\ lastSeen[c] \in [DOMAIN lastSeen[c] -> Ages]
  /\ name \in [Collectors -> Names]
  /\ rule \in {"enabled", "disabled"}
  /\ sinceFired \in 0 .. Cooldown
  /\ renames \in 0 .. MaxRenames
  /\ open \in SUBSET Collectors
  /\ engine \in {"sleep", "query", "fire", "resolve"}
  /\ inCooldown \in BOOLEAN
  /\ DOMAIN read \in SUBSET Collectors
  /\ read \in [DOMAIN read -> Ages]
  /\ gapped \in SUBSET (Collectors \ Dismissed)
  /\ todo \in SUBSET gapped
  /\ opened \in SUBSET Collectors
  /\ faults \in 0 .. MaxFaults
  /\ {silentThen, renamedThen} \subseteq SUBSET Collectors
  /\ sinceEvent \in [Collectors -> 0 .. Cooldown]

Fires(c) == engine = "fire" /\ sinceEvent[c] > 0 /\ sinceEvent'[c] = 0

(* Two events of one collector are at least the cooldown apart, although   *)
(* the cooldown is kept per rule, is read at the start of the evaluation   *)
(* and is not looked at again while several collectors fire; whatever      *)
(* fails or is switched in between (engine.py: _evaluate_all, _fire).      *)
EventsAreSpaced ==
  [][\A c \in Collectors : Fires(c) => sinceEvent[c] = Cooldown]_vars

(* Events follow what storage answered, in whatever order records,         *)
(* requests and failures fall between the query and the update. An event   *)
(* is fired for a collector that was silent when storage was asked, or for *)
(* one that has been renamed: "Last received timestamp per collector -     *)
(* used for data-gap alerting" (app/storage/base.py:79) is one per         *)
(* collector and name, of which the oldest is used. The engine resolves on *)
(* its own only the events of a collector that was not silent.             *)
EventsFollowStorage ==
  [][/\ \A c \in Collectors : Fires(c) => c \in silentThen \cup renamedThen
     /\ engine = "resolve" /\ engine' # engine => (open \ open') \cap silentThen = {}]_vars

(* A collector that stays silent is reported, and reported again, while    *)
(* the rule is on: the cooldown the rule shares between its collectors     *)
(* does not starve one of them. A collector whose records are all past the *)
(* retention is not silent but unknown.                                    *)
SilenceIsReported ==
  \A c \in Collectors \ Dismissed :
    <>[](rule = "enabled" /\ c \in Seen /\ Silent(c)) => []<>(sinceEvent[c] = 0)

(* When a collector that kept its name is heard of again for good, none of *)
(* its events stays open.                                                  *)
RecoveryResolves ==
  \A c \in Collectors :
    <>[](rule = "enabled" /\ c \in Seen /\ Silence \notin Rows(c))
      => <>[](c \notin open)
=============================================================================
