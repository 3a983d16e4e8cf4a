----------------------------- MODULE AlertRules -----------------------------
(***************************************************************************)
(* The rules of pktLog's alert engine (app/alerts/engine.py) besides       *)
(* data_gap, in one evaluation as _evaluate_all makes it once per interval.*)
(* A level rule (threshold, rate_spike, top_talker, ingest_rate_low,       *)
(* clickhouse_size) is read first and compares a measure of storage with   *)
(* its limit. The new_host rule is read for each sender that ingest noted  *)
(* while it dropped its messages (app/ingest/normalizer.py: enrich).       *)
(*                                                                         *)
(* Meanwhile administrators make, change, switch and delete rules          *)
(* (app/api/alerts.py), also one that is being evaluated, and the process  *)
(* ends and starts again: the rules and their last_fired are in the        *)
(* database, the notes and the evaluation are not.                         *)
(*                                                                         *)
(* One tick of time is one interval of the engine; a statement up to its   *)
(* commit is one step. There is at most one rule of either kind at a time. *)
(***************************************************************************)
EXTENDS Naturals, FiniteSets

CONSTANTS
  Senders,    \* the addresses syslog arrives from
  Channels,   \* the channels of each rule
  Cooldown,   \* cooldown_min of each rule, in ticks
  MaxFaults,  \* bound on the statements that fail
  Level,      \* stands for what an event of the level rule is about
  None        \* no sender

RulesConstants ==
  /\ IsFiniteSet(Senders) /\ IsFiniteSet(Channels)
  /\ Cooldown \in Nat \ {0}
  /\ MaxFaults \in Nat
  /\ Level \notin Senders
  /\ None \notin Senders \cup {Level}

Rules == {"level", "new_host"}

VARIABLES
  noted,       \* _unknown_sampler_queue, which is made a set when it is taken
  registry,    \* the senders with a row in collector_registry
  breach,      \* is the measure beyond its limit? "none": it does not apply
  there,       \* the kinds that have a row in alert_rules
  enabled,     \* those whose row has enabled = 1
  sinceFired,  \* the age of last_fired of each rule, up to Cooldown
  levelOpen,   \* an event of the level rule is neither acked nor resolved
  stale,       \* the rule under evaluation has been deleted
  engine,      \* where the evaluation is; "down": there is no process
  cooling,     \* the level rule as it was read was in its cooldown
  measured,    \* the measure as it was read
  ips,         \* the senders it has still to look at
  current,     \* the sender found unregistered
  sending,     \* the channels still to be notified of the event just fired
  faults,      \* the statements that failed
  event,       \* what the event fired in the last step is about (history)
  sinceEvent   \* the age of the last event of each rule (history)

evalVars == <<engine, cooling, measured, ips, current, sending, stale>>
worldVars == <<registry, breach, there, enabled>>
vars == <<noted, worldVars, sinceFired, levelOpen, evalVars, faults, event, sinceEvent>>

Older(age) == IF age < Cooldown THEN age + 1 ELSE Cooldown

-----------------------------------------------------------------------------
Init ==
  /\ noted = {}
  /\ registry \in SUBSET Senders
  /\ breach = "no"
  /\ there = Rules
  /\ enabled \in SUBSET Rules
  /\ sinceFired = [k \in Rules |-> Cooldown]
  /\ levelOpen = FALSE
  /\ engine = "sleep"
  /\ cooling = FALSE
  /\ measured = "none"
  /\ ips = {}
  /\ current = None
  /\ sending = {}
  /\ stale = FALSE
  /\ faults = 0
  /\ event = None
  /\ sinceEvent = [k \in Rules |-> Cooldown]

Up == engine # "down"

(* notify_unknown_sampler; the cache that decides may lag the registry. *)
MessageDropped(s) ==
  /\ Up
  /\ noted' = noted \cup {s}
  /\ event' = None
  /\ UNCHANGED <<worldVars, sinceFired, levelOpen, evalVars, faults, sinceEvent>>

World == event' = None /\ UNCHANGED <<noted, sinceFired, evalVars, faults, sinceEvent>>
Request == Up /\ World

Register(s) ==
  /\ s \notin registry
  /\ registry' = registry \cup {s}
  /\ Request
  /\ UNCHANGED <<breach, there, enabled, levelOpen>>

(* toggle_rule; update_rule, which may also leave the switch as it is, and *)
(* keeps last_fired in any case.                                           *)
Switch(k) == enabled' = IF k \in enabled THEN enabled \ {k} ELSE enabled \cup {k}

ToggleRule(k) ==
  /\ k \in there
  /\ Switch(k)
  /\ Request
  /\ UNCHANGED <<registry, breach, there, levelOpen>>

UpdateRule(k, on) ==
  /\ k \in there
  /\ (k \in enabled) # on
  /\ Switch(k)
  /\ Request
  /\ UNCHANGED <<registry, breach, there, levelOpen>>

(* What the evaluation has read of the rule k is all it works with.        *)
Evaluated(k) ==
  \/ k = "level" /\ engine \in {"measure", "level"}
  \/ k = "new_host" /\ engine = "fire"
  \/ engine = "notify" /\ (k = "level") = (measured # "none")

(* delete_rule: its events go first. *)
DeleteRule(k) ==
  /\ Up
  /\ k \in there
  /\ there' = there \ {k}
  /\ enabled' = enabled \ {k}
  /\ levelOpen' = (levelOpen /\ k # "level")
  /\ stale' = (stale \/ Evaluated(k))
  /\ event' = None
  /\ UNCHANGED <<noted, registry, breach, sinceFired, engine, cooling, measured, ips, current,
                 sending, faults, sinceEvent>>

(* A new row, with an id of its own and no last_fired. *)
Insert(new, on) ==
  /\ Up
  /\ there' = there \cup new
  /\ enabled' = enabled \cup on
  /\ sinceFired' = [k \in Rules |-> IF k \in new THEN Cooldown ELSE sinceFired[k]]
  /\ sinceEvent' = [k \in Rules |-> IF k \in new THEN Cooldown ELSE sinceEvent[k]]
  /\ event' = None
  /\ UNCHANGED <<noted, registry, breach, levelOpen, evalVars, faults>>

CreateRule(k, on) ==
  /\ k \notin there
  /\ Insert({k}, IF on THEN {k} ELSE {})

(* import_rules_csv: the rows that read as a rule, in one transaction. *)
ImportRules(new, on) ==
  /\ new # {} /\ new \cap there = {}
  /\ on \subseteq new
  /\ Insert(new, on)

MeasureChanges(b) ==
  /\ b # breach
  /\ breach' = b
  /\ World
  /\ UNCHANGED <<registry, there, enabled, levelOpen>>

(* ack_event. *)
Ack ==
  /\ levelOpen
  /\ levelOpen' = FALSE
  /\ Request
  /\ UNCHANGED worldVars

-----------------------------------------------------------------------------
(* asyncio.sleep(interval) ends; time passes without a process, too. *)
Tick ==
  /\ engine \in {"sleep", "down"}
  /\ engine' = IF engine = "sleep" THEN "due" ELSE "down"
  /\ sinceFired' = [k \in Rules |-> Older(sinceFired[k])]
  /\ sinceEvent' = [k \in Rules |-> Older(sinceEvent[k])]
  /\ event' = None
  /\ UNCHANGED <<noted, worldVars, levelOpen, cooling, measured, ips, current, sending, stale,
                 faults>>

(* What a step of the evaluation that fires nothing leaves alone. *)
Quiet == event' = None /\ UNCHANGED <<worldVars, sinceFired, faults, sinceEvent>>

(* The level rule is dealt with; so are the new hosts next. *)
LevelDone ==
  /\ engine' = "take"
  /\ cooling' = FALSE
  /\ measured' = "none"
  /\ stale' = FALSE

(* SELECT of the enabled rules, last_fired with them. *)
ReadRules ==
  /\ engine = "due"
  /\ engine' = IF "level" \in enabled THEN "measure" ELSE "take"
  /\ cooling' = ("level" \in enabled /\ sinceFired["level"] < Cooldown)
  /\ Quiet
  /\ UNCHANGED <<noted, levelOpen, measured, ips, current, sending, stale>>

(* The evaluators ask storage for the measure of their rule. *)
Measure ==
  /\ engine = "measure"
  /\ engine' = "level"
  /\ measured' = breach
  /\ Quiet
  /\ UNCHANGED <<noted, levelOpen, cooling, ips, current, sending, stale>>

(* The measure is within its limit: _auto_resolve. *)
ResolvesNever == FALSE \* mutant
Clears == measured = "no"

AutoResolve ==
  /\ engine = "level"
  /\ Clears
  /\ levelOpen' = (levelOpen /\ stale)
  /\ LevelDone
  /\ Quiet
  /\ UNCHANGED <<noted, ips, current, sending>>

(* It does not apply (an empty table), or _fire finds the rule in its      *)
(* cooldown.                                                               *)
LevelPasses ==
  /\ engine = "level"
  /\ \/ measured = "none"
     \/ measured = "yes" /\ cooling
  /\ LevelDone
  /\ Quiet
  /\ UNCHANGED <<noted, levelOpen, ips, current, sending>>

(* _fire: the event, last_fired, commit; then the notifications. The       *)
(* engine's connection does not enforce foreign keys: the event of a rule  *)
(* deleted meanwhile is stored, has no row to stamp, and no page lists it. *)
ForgetsFiring(k) == UNCHANGED sinceFired \* mutant
StampsRule(k) == sinceFired' = IF stale THEN sinceFired ELSE [sinceFired EXCEPT ![k] = 0]

Fired(k, about) ==
  /\ StampsRule(k)
  /\ sinceEvent' = IF stale THEN sinceEvent ELSE [sinceEvent EXCEPT ![k] = 0]
  /\ event' = about
  /\ engine' = "notify"
  /\ sending' = Channels

FireLevel ==
  /\ engine = "level"
  /\ measured = "yes"
  /\ ~cooling
  /\ levelOpen' = (levelOpen \/ ~stale)
  /\ Fired("level", Level)
  /\ UNCHANGED <<noted, worldVars, cooling, measured, ips, current, stale, faults>>

-----------------------------------------------------------------------------
(* The notes are copied and cleared, with no await in between. *)
ClearsFirst == noted' = {} /\ ips' = {} \* mutant: clear() before list()
TakesNotes == ips' = noted /\ noted' = {}

Take ==
  /\ engine = "take"
  /\ engine' = "check"
  /\ TakesNotes
  /\ Quiet
  /\ UNCHANGED <<levelOpen, cooling, measured, current, sending, stale>>

(* SELECT from the registry: a registered sender is passed over. *)
Check(s) ==
  /\ engine = "check"
  /\ s \in ips
  /\ IF s \in registry
       THEN ips' = ips \ {s} /\ UNCHANGED <<engine, current>>
       ELSE engine' = "rule" /\ current' = s /\ UNCHANGED ips
  /\ Quiet
  /\ UNCHANGED <<noted, levelOpen, cooling, measured, sending, stale>>

NextSender == ips' = ips \ {current} /\ current' = None

(* SELECT of the rule, with its last_fired: is the sender to be reported?  *)
ReadRule ==
  /\ engine = "rule"
  /\ IF "new_host" \in enabled /\ sinceFired["new_host"] = Cooldown
       THEN engine' = "fire" /\ UNCHANGED <<ips, current>>
       ELSE engine' = "check" /\ NextSender
  /\ Quiet
  /\ UNCHANGED <<noted, levelOpen, cooling, measured, sending, stale>>

FireNewHost ==
  /\ engine = "fire"
  /\ Fired("new_host", current)
  /\ NextSender
  /\ UNCHANGED <<noted, worldVars, levelOpen, cooling, measured, stale, faults>>

(* _dispatch: the notification of a channel is sent, skipped or failed,    *)
(* whatever its sender raises, and what became of it is logged.            *)
Dispatch(channel) ==
  /\ engine = "notify"
  /\ channel \in sending
  /\ sending' = sending \ {channel}
  /\ Quiet
  /\ UNCHANGED <<noted, levelOpen, engine, cooling, measured, ips, current, stale>>

(* _fire returns to the evaluation of the level rule, or of the next sender*)
Notified ==
  /\ engine = "notify"
  /\ sending = {}
  /\ IF measured # "none" THEN LevelDone
     ELSE engine' = "check" /\ stale' = FALSE /\ UNCHANGED <<cooling, measured>>
  /\ Quiet
  /\ UNCHANGED <<noted, levelOpen, ips, current, sending>>

(* What the evaluation does not touch once it has taken the notes. *)
ClearsNotesLate == noted' = {} \* mutant: clear() after the loop
LeavesNotes == UNCHANGED noted

(* The loop over the senders is done. (pending.flush is PendingQueue's.) *)
EvaluationEnds ==
  /\ engine = "check"
  /\ ips = {}
  /\ engine' = "sleep"
  /\ LeavesNotes
  /\ Quiet
  /\ UNCHANGED <<levelOpen, cooling, measured, ips, current, sending, stale>>

Fault ==
  /\ faults < MaxFaults
  /\ faults' = faults + 1
  /\ event' = None
  /\ UNCHANGED <<noted, worldVars, sinceFired, levelOpen, sinceEvent>>

(* A statement of the level rule raises, the one that logs a notification  *)
(* included: _evaluate_all logs it and goes on.                            *)
LevelFails ==
  /\ \/ engine \in {"measure", "level"}
     \/ engine = "notify" /\ measured # "none"
  /\ LevelDone
  /\ sending' = {}
  /\ Fault
  /\ UNCHANGED <<ips, current>>

(* One of the new hosts raises: _run_loop logs it, and the senders taken   *)
(* are forgotten.                                                          *)
NewHostFails ==
  /\ \/ engine \in {"check", "rule", "fire"}
     \/ engine = "notify" /\ measured = "none"
  /\ engine' = "sleep"
  /\ ips' = {}
  /\ current' = None
  /\ sending' = {}
  /\ stale' = FALSE
  /\ Fault
  /\ UNCHANGED <<cooling, measured>>

(* The process ends, wherever the evaluation is: AlertEngine.stop cancels  *)
(* its task in the await it is in, and a crash or a kill asks nobody. The  *)
(* notes were in memory only, and so were the senders taken from them.     *)
ProcessEnds ==
  /\ Up
  /\ engine' = "down"
  /\ noted' = {}
  /\ cooling' = FALSE
  /\ measured' = "none"
  /\ ips' = {}
  /\ current' = None
  /\ sending' = {}
  /\ stale' = FALSE
  /\ event' = None
  /\ UNCHANGED <<worldVars, sinceFired, levelOpen, faults, sinceEvent>>

(* AlertEngine.start: the loop evaluates before it sleeps. *)
Start ==
  /\ engine = "down"
  /\ engine' = "due"
  /\ Quiet
  /\ UNCHANGED <<noted, levelOpen, cooling, measured, ips, current, sending, stale>>

EngineStep ==
  \/ ReadRules \/ Measure \/ AutoResolve \/ LevelPasses \/ FireLevel \/ LevelFails
  \/ Take \/ ReadRule \/ FireNewHost \/ NewHostFails \/ Notified \/ EvaluationEnds
  \/ \E s \in Senders : Check(s)
  \/ \E channel \in Channels : Dispatch(channel)

Next ==
  \/ \E s \in Senders : MessageDropped(s) \/ Register(s)
  \/ \E k \in Rules :
       \/ ToggleRule(k) \/ DeleteRule(k)
       \/ \E on \in BOOLEAN : UpdateRule(k, on) \/ CreateRule(k, on)
  \/ \E new, on \in SUBSET Rules : ImportRules(new, on)
  \/ \E b \in {"yes", "no", "none"} : MeasureChanges(b)
  \/ Ack
  \/ Tick
  \/ EngineStep
  \/ ProcessEnds
  \/ Start

Spec == Init /\ [][Next]_vars

(* Time passes, and the loop of the engine survives every exception. *)
FairSpec == Spec /\ WF_vars(Tick) /\ WF_vars(EngineStep)

-----------------------------------------------------------------------------
(* Properties. *)

RuleOf(about) == IF about = Level THEN "level" ELSE "new_host"

(* Two events of a rule are at least its cooldown apart, although the      *)
(* level rule is checked against the last_fired it was read with, and      *)
(* although any number of unknown senders come up in one evaluation: for   *)
(* these last_fired is read again.                                         *)
OneEventPerCooldown ==
  [][event' # None => sinceEvent[RuleOf(event')] = Cooldown]_vars

(* While messages of an unregistered sender are dropped again and again    *)
(* and the rule is on, events go on being fired: neither failures, nor the *)
(* cooldown, nor the clearing of the notes stops the rule for good. The    *)
(* process is one that does not end again.                                 *)
RuleNeverStarves ==
  (/\ <>[]Up
   /\ \E s \in Senders : <>[](s \notin registry) /\ []<>(s \in noted)
   /\ <>[]("new_host" \in enabled))
    => []<>(event \in Senders)

(* Whoever was noted is reported unless it is registered, the rule is off, *)
(* the rule is in its cooldown, the evaluation failed, or the process      *)
(* ended, be it while the note waited (engine.py:20) or after the          *)
(* evaluation had taken it: those are the exceptions to                    *)
(* docs/ADMIN_GUIDE.md:87, by which the drop path "fires a new_host alert" *)
(* for every sender. In particular the clearing of the notes loses no      *)
(* message that arrives meanwhile, and no sender is passed over for        *)
(* another one while the rule may fire.                                    *)
ForgottenOnlyByNamedCause ==
  [][\A s \in noted \cup ips :
       s \notin noted' \cup ips' =>
         \/ s \in registry
         \/ event' = s
         \/ "new_host" \notin enabled
         \/ sinceFired["new_host"] < Cooldown
         \/ faults' > faults
         \/ Up /\ ~Up']_vars

(* The events of a level rule follow its measure: a breach that lasts is   *)
(* reported again and again, and once the measure is back within its limit *)
(* for good no event stays open, not even one fired on the measure of      *)
(* before or by a process that has ended since.                            *)
EventsFollowMeasure ==
  /\ <>[](Up /\ breach = "yes" /\ "level" \in enabled) => []<>(event = Level)
  /\ <>[](Up /\ breach = "no" /\ "level" \in enabled) => <>[](~levelOpen)
=============================================================================
