---------------------------- MODULE MCAlertRules ----------------------------
(***************************************************************************)
(* The rules of the alert engine besides data_gap (AlertRules), as they    *)
(* are checked and as they are proved about. Their evaluation is a task    *)
(* apart from that of AlertEngine: what has the name of a variable or a    *)
(* constant there gets another one.                                        *)
(***************************************************************************)

CONSTANTS Senders, Channels, RuleCooldown, RuleFaults, Level, None

VARIABLES noted, registry, breach, there, enabled, ruleFired, levelOpen, stale, evaluation, cooling,
          measured, ips, current, sending, failed, event, ruleEvent

Rules == INSTANCE AlertRules
  WITH Cooldown <- RuleCooldown, MaxFaults <- RuleFaults,
       engine <- evaluation, sinceFired <- ruleFired, sinceEvent <- ruleEvent, faults <- failed

ASSUME RulesAssumption == Rules!RulesConstants

RulesSpec == Rules!FairSpec

-----------------------------------------------------------------------------
(* AlertRules: two events of a rule are at least its cooldown apart.       *)
OneEventPerCooldown == Rules!OneEventPerCooldown

(* AlertRules: a noted sender is reported or left out for a named cause.   *)
ForgottenOnlyByNamedCause == Rules!ForgottenOnlyByNamedCause

(* AlertRules: nothing stops the new_host rule for good.                   *)
RuleNeverStarves == Rules!RuleNeverStarves

(* AlertRules: the events of a level rule follow its measure.              *)
EventsFollowMeasure == Rules!EventsFollowMeasure
=============================================================================
