----------------------------- MODULE SelfUpdate -----------------------------
(***************************************************************************)
(* The self-update of pktLog (app/self_update.py, and its endpoints in     *)
(* app/api/system.py): a check asks GitHub for the latest release and      *)
(* records it; an apply downloads what is recorded and swaps it in, path   *)
(* by path, in a thread, and then the process exits for systemd to start   *)
(* the new code. Pages check; an administrator's "Update now" checks and   *)
(* applies; in auto mode the hourly task applies. Nothing keeps two of     *)
(* them apart.                                                             *)
(***************************************************************************)
EXTENDS Naturals, Sequences, FiniteSets

CONSTANTS
  Pages,       \* the requests that check: banner, status, "check now"
  Clicks,      \* the requests of "Update now"
  Hourly,      \* the hourly task
  MaxRelease,  \* bound on the releases published; 1 is installed at first
  MaxFaults    \* bound on failures of GitHub, disk and pip, and on crashes

ASSUME UpdateAssumption ==
  /\ IsFiniteSet(Pages) /\ IsFiniteSet(Clicks)
  /\ Pages \cap Clicks = {} /\ Hourly \notin Pages \cup Clicks
  /\ MaxRelease \in Nat \ {0}
  /\ MaxFaults \in Nat

Actors == Pages \cup Clicks \cup {Hourly}

(* _swap_in in its order; docs, migrations and the rest go as app does.    *)
SwapWithoutDist == <<"app", "VERSION">> \* mutant
SwapOrder == <<"app", "VERSION", "dist">>

Paths == {"app", "VERSION", "dist"}

VARIABLES
  latest,     \* the newest release on GitHub
  assets,     \* self_update_latest_assets: a release, 0 before any check
  available,  \* self_update_available
  mode,       \* self_update_mode
  tree,       \* install_dir: the release of each path, 0 for missing or partial
  up,         \* is the process running?
  exiting,    \* an exit is scheduled
  stage,      \* where each actor is
  release,    \* what it found, or the release it applies
  at,         \* the path it swaps
  faults,     \* what has failed
  causes      \* what may spoil an install, of what has happened (history)

recordVars == <<assets, available, mode>>
actorVars  == <<stage, release, at>>
vars == <<latest, recordVars, tree, up, exiting, actorVars, faults, causes>>

Swapping(a) == stage[a] \in {"remove", "copy"}
Applying(a) == Swapping(a) \/ stage[a] \in {"download", "record"}
Whole == \A p, q \in Paths : tree[p] # 0 /\ tree[p] = tree[q]

-----------------------------------------------------------------------------
Init ==
  /\ latest = 1
  /\ assets = 0
  /\ available = FALSE
  /\ mode \in {"manual", "auto"}
  /\ tree = [p \in Paths |-> 1]
  /\ up = TRUE
  /\ exiting = FALSE
  /\ stage = [a \in Actors |-> "idle"]
  /\ release = [a \in Actors |-> 0]
  /\ at = [a \in Actors |-> 1]
  /\ faults = 0
  /\ causes = {}

Publish ==
  /\ latest < MaxRelease
  /\ latest' = latest + 1
  /\ UNCHANGED <<recordVars, tree, up, exiting, actorVars, faults, causes>>

(* save_config *)
SetMode(m) ==
  /\ up
  /\ m # mode
  /\ mode' = m
  /\ UNCHANGED <<latest, assets, available, tree, up, exiting, actorVars, faults, causes>>

Goto(a, s) == stage' = [stage EXCEPT ![a] = s]

(* The actor is done, and its local variables are gone. *)
Ends(a) ==
  /\ Goto(a, "idle")
  /\ release' = [release EXCEPT ![a] = 0]
  /\ at' = [at EXCEPT ![a] = 1]

-----------------------------------------------------------------------------
(* check_latest: the answer of GitHub, and later, in one commit, what it   *)
(* said. No answer is recorded as no update.                               *)
AnswersByDate == 1 .. latest \* mutant: the first of a list is not the latest
Answers == {latest}

(* The banner asks GitHub only while nothing newer is known; a refresh of  *)
(* the page and the administrator's check ask in any case.                 *)
NothingNewer == ~(available /\ assets > tree["VERSION"])
Asks(who) == who = "banner" => NothingNewer

Fetch(a) ==
  /\ up
  /\ a # Hourly
  /\ \E who \in {"banner", "check"} : Asks(who)
  /\ stage[a] = "idle"
  /\ Goto(a, "check")
  /\ \/ \E r \in Answers : release' = [release EXCEPT ![a] = r] /\ UNCHANGED faults
     \/ /\ faults < MaxFaults
        /\ faults' = faults + 1
        /\ UNCHANGED release
  /\ causes' = IF \E b \in Actors : stage[b] = "check" /\ release[b] \notin {0, latest}
                 THEN causes \cup {"slow check"} ELSE causes
  /\ UNCHANGED <<latest, recordVars, tree, up, exiting, at>>

(* A page is then done; apply_now goes on if there is something newer.     *)
Record(a) ==
  /\ stage[a] = "check"
  /\ available' = (release[a] > tree["VERSION"])
  /\ assets' = IF release[a] = 0 THEN assets ELSE release[a]
  /\ IF a \in Clicks /\ available'
       THEN Goto(a, "assets") /\ release' = [release EXCEPT ![a] = 0] /\ UNCHANGED at
       ELSE Ends(a)
  /\ UNCHANGED <<latest, mode, tree, up, exiting, faults, causes>>

(* maybe_apply, once an hour: auto mode, something available, and the time *)
(* is in the window.                                                       *)
UntilItFails == available /\ faults = 0 \* mutant: not after a last_error
Wanted == available

AutoDue ==
  /\ up
  /\ stage[Hourly] = "idle"
  /\ mode = "auto"
  /\ Wanted
  /\ Goto(Hourly, "assets")
  /\ UNCHANGED <<latest, recordVars, tree, up, exiting, release, at, faults, causes>>

-----------------------------------------------------------------------------
(* apply_update. *)

Overlaps(a) ==
  \E b \in Actors \ {a} : Applying(b) /\ release[b] # assets

ReadAssets(a) ==
  /\ stage[a] = "assets"
  /\ IF assets = 0
       THEN Ends(a) /\ UNCHANGED causes
       ELSE /\ Goto(a, "download")
            /\ release' = [release EXCEPT ![a] = assets]
            /\ causes' = IF Overlaps(a) THEN causes \cup {"overlap"} ELSE causes
            /\ UNCHANGED at
  /\ UNCHANGED <<latest, recordVars, tree, up, exiting, faults>>

(* Download, unpack, verify and pip, all outside the installed tree. *)
Stage(a) ==
  /\ stage[a] = "download"
  /\ Goto(a, "remove")
  /\ UNCHANGED <<latest, recordVars, tree, up, exiting, release, at, faults, causes>>

Path(a) == SwapOrder[at[a]]

Remove(a) ==
  /\ stage[a] = "remove"
  /\ Goto(a, "copy")
  /\ tree' = [tree EXCEPT ![Path(a)] = 0]
  /\ UNCHANGED <<latest, recordVars, up, exiting, release, at, faults, causes>>

(* copytree refuses a directory that exists; copy2 overwrites a file.      *)
Refused(a) == Path(a) # "VERSION" /\ tree[Path(a)] # 0

Copy(a) ==
  /\ stage[a] = "copy"
  /\ ~Refused(a)
  /\ tree' = [tree EXCEPT ![Path(a)] = release[a]]
  /\ IF at[a] < Len(SwapOrder)
       THEN Goto(a, "remove") /\ at' = [at EXCEPT ![a] = @ + 1]
       ELSE Goto(a, "record") /\ UNCHANGED at
  /\ UNCHANGED <<latest, recordVars, up, exiting, release, faults, causes>>

(* A failed apply ends with a 502, or with a last_error in auto mode: what *)
(* is recorded stays recorded.                                             *)
ApplyFails(a) ==
  /\ Applying(a) /\ stage[a] # "record"
  /\ \/ stage[a] = "copy" /\ Refused(a) /\ UNCHANGED faults
     \/ faults < MaxFaults /\ faults' = faults + 1
  /\ Ends(a)
  /\ causes' = IF Swapping(a) THEN causes \cup {"failed swap"} ELSE causes
  /\ UNCHANGED <<latest, recordVars, tree, up, exiting>>

Cut == IF \E a \in Actors : Swapping(a) THEN causes \cup {"cut swap"} ELSE causes

Dies ==
  /\ up' = FALSE
  /\ exiting' = FALSE
  /\ stage' = [a \in Actors |-> "idle"]
  /\ release' = [a \in Actors |-> 0]
  /\ at' = [a \in Actors |-> 1]

(* The end of apply_update. Auto mode then exits at once, whatever the     *)
(* other actors do; "Update now" answers first (restart_soon).             *)
Applied(a) ==
  /\ stage[a] = "record"
  /\ available' = FALSE
  /\ IF a = Hourly
       THEN Dies /\ causes' = Cut
       ELSE Ends(a) /\ exiting' = TRUE /\ UNCHANGED <<up, causes>>
  /\ UNCHANGED <<latest, assets, mode, tree, faults>>

-----------------------------------------------------------------------------
(* POST /api/system/restart: _delayed_restart. *)
RequestRestart ==
  /\ up
  /\ ~exiting
  /\ exiting' = TRUE
  /\ UNCHANGED <<latest, recordVars, tree, up, actorVars, faults, causes>>

(* os._exit after two seconds, or systemctl restart. *)
Exit ==
  /\ exiting
  /\ Dies
  /\ causes' = Cut
  /\ UNCHANGED <<latest, recordVars, tree, faults>>

Crash ==
  /\ up
  /\ faults < MaxFaults
  /\ faults' = faults + 1
  /\ Dies
  /\ causes' = Cut
  /\ UNCHANGED <<latest, recordVars, tree>>

(* systemd; without app/ there is nothing to start. *)
Start ==
  /\ ~up
  /\ tree["app"] # 0
  /\ up' = TRUE
  /\ UNCHANGED <<latest, recordVars, tree, exiting, actorVars, faults, causes>>

-----------------------------------------------------------------------------
ApplyStep(a) ==
  \/ ReadAssets(a) \/ Stage(a) \/ Remove(a) \/ Copy(a) \/ ApplyFails(a) \/ Applied(a)

Next ==
  \/ Publish
  \/ \E m \in {"manual", "auto"} : SetMode(m)
  \/ AutoDue
  \/ \E a \in Actors : Fetch(a) \/ Record(a) \/ ApplyStep(a)
  \/ RequestRestart \/ Exit \/ Crash \/ Start

Spec == Init /\ [][Next]_vars

(* Coroutines and threads go on, systemd restarts the service, and the     *)
(* hourly task comes by in the window. Nobody has to open a page.          *)
Fairness ==
  /\ WF_vars(Exit) /\ WF_vars(Start) /\ SF_vars(AutoDue)
  /\ \A a \in Actors : WF_vars(Record(a)) /\ WF_vars(ApplyStep(a))

FairSpec == Spec /\ Fairness

-----------------------------------------------------------------------------
(* Properties. *)

(* The variables have the values the code can give them. *)
TypeOK ==
  /\ latest \in 1 .. MaxRelease
  /\ assets \in 0 .. latest
  /\ available \in BOOLEAN
  /\ mode \in {"manual", "auto"}
  /\ tree \in [Paths -> 0 .. latest]
  /\ up \in BOOLEAN /\ exiting \in BOOLEAN
  /\ stage \in [Actors -> {"idle", "check", "assets", "download", "remove", "copy", "record"}]
  /\ release \in [Actors -> 0 .. latest]
  /\ \A a \in Actors : Applying(a) => release[a] # 0
  /\ at \in [Actors -> 1 .. Len(SwapOrder)]
  /\ faults \in 0 .. MaxFaults
  /\ causes \in SUBSET {"slow check", "overlap", "failed swap", "cut swap"}
  /\ ~up => ~exiting /\ \A a \in Actors : stage[a] = "idle"

(* Outside a swap the installed tree is one release, unless a swap failed  *)
(* half-way, was cut off by an exit, or ran beside the apply of another    *)
(* release: these are the exceptions to "never partially overwrites        *)
(* install_dir" (self_update.py:343). Two applies of the same release, or  *)
(* any number of checks and restarts, do not leave a mixture.              *)
MixedOnlyByNamedCause ==
  \/ Whole
  \/ \E a \in Actors : Swapping(a)
  \/ causes \cap {"overlap", "failed swap", "cut swap"} # {}

(* An apply takes the installed version back only beside another apply, or *)
(* when a slow check was overtaken by another and recorded its older       *)
(* answer: neither apply_update nor maybe_apply compares what it applies.  *)
DowngradeOnlyByNamedCause ==
  \A a \in Actors :
    stage[a] = "remove" /\ Path(a) = "VERSION" =>
      release[a] >= tree["VERSION"] \/ causes \cap {"overlap", "slow check"} # {}

(* In auto mode a failed apply is tried again until one succeeds, or a     *)
(* check finds nothing newer, whatever the other requests do meanwhile;    *)
(* unless restarts go on for ever, or the failure took app/ away.          *)
AutoTriesAgain ==
  <>[](mode = "auto" /\ ~exiting) => []<>(~available \/ tree["app"] = 0)
=============================================================================
