------------------------------- MODULE Backup -------------------------------
(***************************************************************************)
(* Backup and restore of pktLog (app/backup.py, app/api/system.py): the    *)
(* scheduler and "Run Backup Now" write a snapshot directory each, named   *)
(* to the minute, and then rotate; exports bundle the live files; restores *)
(* copy a snapshot or a bundle over the live ones. All of it runs in       *)
(* threads beside the rest of the program, and nothing keeps two apart.    *)
(*                                                                         *)
(* The database is told by its last commit. It is a main file and a WAL;   *)
(* a checkpoint moves the WAL into the main file. config.yaml and the      *)
(* export of the events go with it and are not followed.                   *)
(***************************************************************************)
EXTENDS Naturals, Sequences, FiniteSets, SequencesExt

CONSTANTS
  Scheduler,   \* the task of BackupScheduler
  Requests,    \* the requests of "Run Backup Now"
  Keep,        \* backup_rotation_count
  MaxMinutes,  \* bound on the minutes in which something is done
  MaxCommits,  \* bound on the commits
  MaxFaults    \* bound on what fails

ASSUME BackupAssumption ==
  /\ IsFiniteSet(Requests)
  /\ Scheduler \notin Requests
  /\ Keep \in Nat
  /\ MaxMinutes \in Nat \ {0}
  /\ {MaxCommits, MaxFaults} \subseteq Nat

Runners == Requests \cup {Scheduler}
Minutes == 1 .. MaxMinutes
Torn == MaxCommits + 1  \* no state the database ever had
None == MaxCommits + 2  \* no file, or an empty WAL

VARIABLES
  minute,   \* the clock
  main,     \* pktlog.db
  wal,      \* pktlog.db-wal: the last commit in it
  commits,  \* the commits so far
  order,    \* the snapshot directories, by mtime
  copyOf,   \* pktlog.db of each directory
  bundle,   \* pktlog.db of the exported bundle
  stage,    \* where each runner is
  dir,      \* the directory it writes
  faults,   \* what has failed
  since,    \* the commits the copy of a runner must have (history)
  facts     \* what may spoil the database or the snapshots (history)

liveVars == <<main, wal, commits>>
snapVars == <<order, copyOf>>
runVars  == <<stage, dir, since>>
vars == <<minute, liveVars, snapVars, bundle, runVars, faults, facts>>

(* What a reader of the database sees. *)
Content == IF wal = None THEN main ELSE wal

Dirs == Range(order)
Usable(d) == d \in Dirs /\ copyOf[d] < Torn
Busy(r) == stage[r] # "idle"

-----------------------------------------------------------------------------
Init ==
  /\ minute = 1
  /\ main = 0
  /\ wal = None
  /\ commits = 0
  /\ order = <<>>
  /\ copyOf = [d \in Minutes |-> None]
  /\ bundle = None
  /\ stage = [r \in Runners |-> "idle"]
  /\ dir = [r \in Runners |-> 1]
  /\ since = [r \in Runners |-> 0]
  /\ faults = 0
  /\ facts = {}

(* A request or a job commits something. *)
Commit ==
  /\ commits < MaxCommits
  /\ commits' = commits + 1
  /\ wal' = IF Content = Torn THEN Torn ELSE commits'
  /\ UNCHANGED <<minute, main, snapVars, bundle, runVars, faults, facts>>

Checkpoint ==
  /\ wal # None
  /\ main' = wal
  /\ wal' = None
  /\ UNCHANGED <<minute, commits, snapVars, bundle, runVars, faults, facts>>

MinutePasses ==
  /\ minute < MaxMinutes
  /\ minute' = minute + 1
  /\ UNCHANGED <<liveVars, snapVars, bundle, runVars, faults, facts>>

-----------------------------------------------------------------------------
(* run_backup_sync. *)

(* An entry is made in the directory: it becomes the newest. *)
Touch(d) ==
  LET i == CHOOSE j \in 1 .. Len(order) : order[j] = d
  IN  Append(RemoveAt(order, i), d)

Goto(r, s) == stage' = [stage EXCEPT ![r] = s]
Ends(r) ==
  /\ Goto(r, "idle")
  /\ dir' = [dir EXCEPT ![r] = 1]
  /\ since' = [since EXCEPT ![r] = 0]

(* Two runs within a minute share the directory. *)
MakeDirectory(r) ==
  /\ ~Busy(r)
  /\ Goto(r, "copy")
  /\ dir' = [dir EXCEPT ![r] = minute]
  /\ order' = IF minute \in Dirs THEN order ELSE Append(order, minute)
  /\ since' = [since EXCEPT ![r] = Content]
  /\ facts' = IF \E q \in Runners : Busy(q) THEN facts \cup {"overlap"} ELSE facts
  /\ UNCHANGED <<minute, liveVars, copyOf, bundle, faults>>

(* The online backup reads what a reader sees. A copy that cannot pass     *)
(* integrity_check is only reported, and stays.                            *)
FileCopy == main \* mutant
OnlineCopy == Content

CopyDatabase(r) ==
  /\ stage[r] = "copy"
  /\ dir[r] \in Dirs
  /\ Goto(r, "flows")
  /\ copyOf' = [copyOf EXCEPT ![dir[r]] = OnlineCopy]
  /\ order' = Touch(dir[r])
  /\ facts' = IF OnlineCopy = Torn THEN facts \cup {"unusable"} ELSE facts
  /\ UNCHANGED <<minute, liveVars, bundle, dir, since, faults>>

(* What a copy that was broken off leaves of the file. *)
HalfCopied(r) == {Torn, copyOf[dir[r]]}

(* The disk is full, or another run has rotated the directory away: the    *)
(* exception ends the run, and the directory is not rotated away by it.    *)
CopyFails(r) ==
  /\ stage[r] = "copy"
  /\ \/ dir[r] \notin Dirs /\ UNCHANGED <<copyOf, faults>>
     \/ /\ dir[r] \in Dirs
        /\ faults < MaxFaults
        /\ faults' = faults + 1
        /\ \E v \in HalfCopied(r) : copyOf' = [copyOf EXCEPT ![dir[r]] = v]
  /\ Ends(r)
  /\ facts' = facts \cup {"unusable"}
  /\ UNCHANGED <<minute, liveVars, order, bundle>>

(* flows.csv.gz; a failed export is logged, and the run goes on.           *)
CopyEvents(r) ==
  /\ stage[r] = "flows"
  /\ Goto(r, "rotate")
  /\ order' = IF dir[r] \in Dirs THEN Touch(dir[r]) ELSE order
  /\ UNCHANGED <<minute, liveVars, copyOf, bundle, dir, since, faults, facts>>

(* The oldest directories go, usable or not. *)
KeptBelow == \* mutant: while len(snapshots) >= keep
  IF Len(order) >= Keep THEN SubSeq(order, Len(order) - Keep + 2, Len(order)) ELSE order
Kept == IF Len(order) > Keep THEN SubSeq(order, Len(order) - Keep + 1, Len(order)) ELSE order

Rotate(r) ==
  /\ stage[r] = "rotate"
  /\ order' = Kept
  /\ copyOf' = [d \in Minutes |-> IF d \in Range(Kept) THEN copyOf[d] ELSE None]
  /\ Ends(r)
  /\ facts' = facts \cup {"backed up"}
  /\ UNCHANGED <<minute, liveVars, bundle, faults>>

(* The process goes in the middle of its runs. *)
Restart ==
  /\ \E r \in Runners : Busy(r)
  /\ faults < MaxFaults
  /\ faults' = faults + 1
  /\ \E spoilt \in SUBSET {dir[r] : r \in {q \in Runners : stage[q] = "copy"}} :
       copyOf' = [d \in Minutes |-> IF d \in spoilt \cap Dirs THEN Torn ELSE copyOf[d]]
  /\ stage' = [r \in Runners |-> "idle"]
  /\ dir' = [r \in Runners |-> 1]
  /\ since' = [r \in Runners |-> 0]
  /\ facts' = facts \cup {"unusable"}
  /\ UNCHANGED <<minute, liveVars, order, bundle>>

-----------------------------------------------------------------------------
(* export_bundle copies the main file alone, perhaps during a checkpoint.  *)
WithoutWal == {main, Torn} \* mutant: every commit writes to the main file
ExportCopies == IF wal = None THEN {main} ELSE {main, Torn}

Export ==
  /\ bundle' \in ExportCopies
  /\ facts' = IF wal = None THEN facts ELSE facts \cup {"export beside a WAL"}
  /\ UNCHANGED <<minute, liveVars, snapVars, runVars, faults>>

(* _restore_from_dir, of pktlog.db: over the main file, and the WAL stays, *)
(* to be read as if it belonged to the new one.                            *)
Overwrite(v, why) ==
  /\ main' = v
  /\ wal' = IF wal = None THEN None ELSE Torn
  /\ since' = [r \in Runners |-> 0]
  /\ facts' = facts \cup why \cup (IF wal = None THEN {} ELSE {"restored beside a WAL"})
  /\ UNCHANGED <<minute, commits, snapVars, bundle, stage, dir, faults>>

(* restore_from_snapshot; the directory may still be written.              *)
RestoreSnapshot(d) ==
  /\ d \in Dirs
  /\ \/ copyOf[d] # None /\ Overwrite(copyOf[d], {})
     \/ /\ \E r \in Runners : stage[r] = "copy" /\ dir[r] = d
        /\ Overwrite(Torn, {"unfinished"})

(* import_bundle *)
ImportBundle ==
  /\ bundle # None
  /\ Overwrite(bundle, {})

-----------------------------------------------------------------------------
Next ==
  \/ Commit \/ Checkpoint \/ MinutePasses
  \/ \E r \in Runners :
       \/ MakeDirectory(r) \/ CopyDatabase(r) \/ CopyFails(r)
       \/ CopyEvents(r) \/ Rotate(r)
  \/ Restart
  \/ Export \/ ImportBundle
  \/ \E d \in Minutes : RestoreSnapshot(d)

Spec == Init /\ [][Next]_vars

-----------------------------------------------------------------------------
(* Properties. *)

(* The variables have the values the code can give them, and a copy or a   *)
(* file holds a commit that was made, a torn state, or nothing. (order     *)
(* lists directories without repetition; UsableBackupKept rests on it.)    *)
Had == 0 .. commits \cup {Torn}

TypeOK ==
  /\ minute \in Minutes
  /\ commits \in 0 .. MaxCommits
  /\ main \in Had
  /\ wal \in Had \cup {None}
  /\ copyOf \in [Minutes -> Had \cup {None}]
  /\ bundle \in Had \cup {None}
  /\ stage \in [Runners -> {"idle", "copy", "flows", "rotate"}]
  /\ dir \in [Runners -> Minutes]
  /\ faults \in 0 .. MaxFaults
  /\ since \in [Runners -> 0 .. Torn]
  /\ facts \in SUBSET {"overlap", "unusable", "backed up", "export beside a WAL",
                       "restored beside a WAL", "unfinished"}

(* Once a backup is done there is one to restore from, unless rotation     *)
(* counted the directories of failed or torn copies, or of a run that goes *)
(* on beside it, or is told to keep none.                                  *)
UsableBackupKept ==
  "backed up" \in facts /\ Keep > 0 /\ facts \cap {"overlap", "unusable"} = {}
    => \E d \in Minutes : Usable(d)

(* The database is a state it once had, unless a file was copied over it   *)
(* beside a WAL, or what was restored was torn or still being written.     *)
TornOnlyByNamedCause ==
  Content = Torn =>
    facts \cap {"restored beside a WAL", "unfinished", "unusable", "export beside a WAL"} # {}

(* A run ends with a copy that has every commit made before it began (and  *)
(* may have later ones), although commits, checkpoints and other runs go   *)
(* on beside it: backup.py:81 calls a stale copy "the worst possible       *)
(* failure mode". Only a restore during the run may take commits away.     *)
BackupIsCurrent ==
  \A r \in Runners :
    stage[r] = "rotate" /\ dir[r] \in Dirs => copyOf[dir[r]] >= since[r]
=============================================================================
