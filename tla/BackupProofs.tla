---------------------------- MODULE BackupProofs ----------------------------
(***************************************************************************)
(* Proofs about backup and restore, for every number of requests, minutes, *)
(* commits and failures: what a finished copy holds, what can tear the     *)
(* database, and what rotation keeps.                                      *)
(***************************************************************************)
EXTENDS Backup, SequenceTheorems, TLAPS

(* The database, and the copy a run has made, hold what was committed      *)
(* before the run began. A torn state counts as the latest.                *)
Ahead ==
  \A r \in Runners :
    /\ since[r] <= Content
    /\ stage[r] \in {"flows", "rotate"} => since[r] <= copyOf[dir[r]]

(* A torn file, copy or bundle has one of the named causes. *)
TornCauses == {"restored beside a WAL", "unfinished", "unusable", "export beside a WAL"}

Torned ==
  facts \cap TornCauses = {} =>
    /\ main # Torn /\ wal # Torn /\ bundle # Torn
    /\ \A d \in Minutes : copyOf[d] # Torn

IInv == TypeOK /\ Ahead /\ Torned

-----------------------------------------------------------------------------
(* States are told by numbers: no commit is torn, and torn is less than none. *)
LEMMA States ==
  ASSUME TypeOK
  PROVE  /\ commits \in Nat /\ commits <= MaxCommits /\ MaxCommits \in Nat
         /\ Torn = MaxCommits + 1 /\ None = MaxCommits + 2
         /\ main \in Nat /\ main <= Torn
         /\ wal \in Nat /\ (wal # None => wal <= Torn)
         /\ Content \in Had /\ Content \in Nat /\ Content <= Torn
         /\ Had \subseteq 0 .. Torn /\ Torn \in Had
         /\ \A d \in Minutes : copyOf[d] \in Nat /\ copyOf[d] <= None
         /\ bundle \in Nat
         /\ \A r \in Runners : since[r] \in Nat /\ dir[r] \in Minutes
<1>1. commits \in Nat /\ commits <= MaxCommits /\ MaxCommits \in Nat
  <2>1. commits \in 0 .. MaxCommits
    BY DEF TypeOK
  <2>2. MaxCommits \in Nat
    BY BackupAssumption
  <2> QED  BY <2>1, <2>2
<1>2. Torn = MaxCommits + 1 /\ None = MaxCommits + 2 /\ Torn \in Had
  BY DEF Torn, None, Had
<1>3. Had \subseteq 0 .. Torn /\ Had \cup {None} \subseteq 0 .. None
  BY <1>1, <1>2 DEF Had
<1>4. main \in Had /\ wal \in Had \cup {None} /\ bundle \in Had \cup {None}
      /\ copyOf \in [Minutes -> Had \cup {None}]
  BY DEF TypeOK
<1>5. main \in Nat /\ main <= Torn /\ wal \in Nat /\ bundle \in Nat /\ (wal # None => wal <= Torn)
  <2>1. main \in 0 .. Torn /\ wal \in 0 .. None /\ bundle \in 0 .. None
    BY <1>3, <1>4
  <2>2. wal # None => wal \in 0 .. Torn
    BY <1>3, <1>4
  <2> QED  BY <1>1, <1>2, <2>1, <2>2
<1>6. Content \in Had
  BY <1>4 DEF Content
<1>7. Content \in Nat /\ Content <= Torn
  BY <1>1, <1>2, <1>3, <1>6
<1>8. \A d \in Minutes : copyOf[d] \in Nat /\ copyOf[d] <= None
  <2>1. \A d \in Minutes : copyOf[d] \in 0 .. None
    BY <1>3, <1>4
  <2> QED  BY <1>1, <1>2, <2>1
<1>9. \A r \in Runners : since[r] \in 0 .. Torn /\ dir[r] \in Minutes
  BY DEF TypeOK
<1> QED  BY <1>1, <1>2, <1>3, <1>5, <1>6, <1>7, <1>8, <1>9

LEMMA BackupInit == Init => IInv
<1> SUFFICES ASSUME Init  PROVE IInv
  OBVIOUS
<1>1. TypeOK
  <2>1. 1 \in Minutes /\ 0 \in 0 .. MaxCommits /\ 0 \in 0 .. MaxFaults /\ 0 \in 0 .. Torn
    BY BackupAssumption DEF Minutes, Torn
  <2>2. minute \in Minutes /\ commits \in 0 .. MaxCommits /\ main \in Had /\ wal \in Had \cup {None}
    BY <2>1 DEF Init, Had
  <2>3. copyOf \in [Minutes -> Had \cup {None}] /\ bundle \in Had \cup {None}
    BY DEF Init
  <2>4. /\ stage \in [Runners -> {"idle", "copy", "flows", "rotate"}] /\ dir \in [Runners -> Minutes]
        /\ since \in [Runners -> 0 .. Torn] /\ faults \in 0 .. MaxFaults
    BY <2>1 DEF Init
  <2>5. facts = {}
    BY DEF Init
  <2> QED  BY <2>2, <2>3, <2>4, <2>5 DEF TypeOK
<1>2. Ahead
  <2>1. \A r \in Runners : stage[r] = "idle" /\ since[r] = 0
    BY DEF Init
  <2> QED  BY <1>1, <2>1, States DEF Ahead
<1>3. Torned
  BY BackupAssumption DEF Init, Torned, Torn, None
<1> QED  BY <1>1, <1>2, <1>3 DEF IInv

-----------------------------------------------------------------------------
(* The program beside the backups. *)

LEMMA CommitKeeps ==
  ASSUME IInv, Commit
  PROVE  IInv'
<1>1. /\ commits < MaxCommits /\ commits' = commits + 1
      /\ wal' = IF Content = Torn THEN Torn ELSE commits'
      /\ UNCHANGED <<minute, main, copyOf, bundle, stage, dir, since, faults, facts>>
  BY DEF Commit, snapVars, runVars
<1>2. TypeOK'
  <2>1. commits' \in 0 .. MaxCommits /\ Had \subseteq Had' /\ commits' \in Had' /\ Torn \in Had'
    BY <1>1, States DEF IInv, Had
  <2>2. /\ main \in Had' /\ bundle \in Had' \cup {None} /\ wal' \in Had' \cup {None}
        /\ copyOf \in [Minutes -> Had' \cup {None}]
    BY <1>1, <2>1 DEF IInv, TypeOK
  <2> QED  BY <1>1, <2>1, <2>2 DEF IInv, TypeOK
<1>3. Content' = IF Content = Torn THEN Torn ELSE commits'
  BY <1>1, States DEF IInv, Content
<1>4. Content <= Content'
  <2>1. Content \in 0 .. commits \cup {Torn}
    BY States DEF IInv, Had
  <2> QED  BY <1>1, <1>3, <2>1, States DEF IInv
<1>5. Ahead'
  <2>1. \A r \in Runners : since[r] <= Content'
    <3>1. Content' \in Nat
      BY <1>1, <1>3, States DEF IInv
    <3> QED  BY <1>4, <3>1, States DEF IInv, Ahead
  <2> QED  BY <1>1, <2>1 DEF IInv, Ahead
<1>6. Torned'
  <2>1. facts \cap TornCauses = {} => Content # Torn
    BY DEF IInv, Torned, Content
  <2>2. commits' # Torn
    BY <1>1, States DEF IInv
  <2> QED  BY <1>1, <2>1, <2>2 DEF IInv, Torned
<1> QED  BY <1>2, <1>5, <1>6 DEF IInv

LEMMA CheckpointKeeps ==
  ASSUME IInv, Checkpoint
  PROVE  IInv'
<1>1. /\ wal # None /\ main' = wal /\ wal' = None
      /\ UNCHANGED <<minute, commits, copyOf, bundle, stage, dir, since, faults, facts>>
  BY DEF Checkpoint, snapVars, runVars
<1>2. Content' = Content /\ Had' = Had
  BY <1>1 DEF Content, Had
<1>3. TypeOK'
  BY <1>1, <1>2 DEF IInv, TypeOK
<1>4. Ahead'
  BY <1>1, <1>2 DEF IInv, Ahead
<1>5. Torned'
  BY <1>1, States DEF IInv, Torned
<1> QED  BY <1>3, <1>4, <1>5 DEF IInv

-----------------------------------------------------------------------------
(* The runs. *)

(* What a run must have lies below what is torn, and below nothing at all. *)
LEMMA Below ==
  ASSUME IInv
  PROVE  /\ None # Torn /\ Had \cup {None} \subseteq Nat /\ 0 \in 0 .. Torn
         /\ Content \in Nat /\ 0 <= Content /\ Content <= Content
         /\ \A d \in Minutes : 0 <= copyOf[d]
         /\ \A r \in Runners : /\ since[r] \in Nat /\ since[r] <= Content
                               /\ since[r] <= Torn /\ since[r] <= None
         /\ \A n \in Had \cup {None} : 0 <= n
<1>1. /\ Torn \in Nat /\ None = Torn + 1 /\ Had \subseteq 0 .. Torn
      /\ Content \in Nat /\ Content <= Torn
  BY States DEF IInv
<1>2. Had \cup {None} \subseteq Nat
  BY <1>1
<1>3. ASSUME NEW r \in Runners
      PROVE  since[r] \in Nat /\ since[r] <= Content
  BY States DEF IInv, Ahead
<1>4. \A r \in Runners : since[r] <= Torn /\ since[r] <= None
  BY <1>1, <1>3
<1>5. 0 \in 0 .. Torn /\ None # Torn /\ 0 <= Content /\ Content <= Content
  BY <1>1
<1>6. \A d \in Minutes : 0 <= copyOf[d]
  BY States DEF IInv
<1>7. \A n \in Had \cup {None} : 0 <= n
  BY <1>2
<1> QED  BY <1>1, <1>2, <1>3, <1>4, <1>5, <1>6, <1>7

(* What a run, a failure or a restart does to the copies: none falls       *)
(* behind, and a torn one has its cause.                                   *)
LEMMA RunnersKeep ==
  ASSUME IInv, UNCHANGED <<minute, main, wal, commits, bundle>>,
         copyOf' \in [Minutes -> Had \cup {None}],
         stage' \in [Runners -> {"idle", "copy", "flows", "rotate"}],
         dir' \in [Runners -> Minutes], faults' \in 0 .. MaxFaults,
         facts \subseteq facts',
         facts' \subseteq {"overlap", "unusable", "backed up", "export beside a WAL",
                          "restored beside a WAL", "unfinished"},
         \A r \in Runners :
           \/ since'[r] = 0
           \/ since'[r] = Content /\ stage'[r] = "copy"
           \/ since'[r] = since[r]
                /\ (stage'[r] \in {"flows", "rotate"} => since[r] <= copyOf'[dir'[r]]),
         since' \in [Runners -> 0 .. Torn],
         (facts' \cap TornCauses = {} => \A d \in Minutes : copyOf'[d] # Torn)
  PROVE  IInv'
<1>1. Content' = Content /\ Had' = Had /\ Torn' = Torn
  BY DEF Content, Had, Torn
<1>2. TypeOK'
  BY <1>1 DEF IInv, TypeOK
<1>3. \A d \in Minutes : 0 <= copyOf'[d]
  BY Below
<1>4. Ahead'
  <2> SUFFICES ASSUME NEW r \in Runners
               PROVE  /\ since'[r] <= Content
                      /\ stage'[r] \in {"flows", "rotate"} => since'[r] <= copyOf'[dir'[r]]
    BY <1>1 DEF Ahead
  <2>1. 0 <= Content /\ Content <= Content
    BY Below
  <2>6. dir'[r] \in Minutes
    OBVIOUS
  <2>7. 0 <= copyOf'[dir'[r]]
    BY <1>3, <2>6
  <2>2. since[r] <= Content
    BY DEF IInv, Ahead
  <2>3. CASE since'[r] = 0
    BY <2>1, <2>3, <2>7
  <2>4. CASE since'[r] = Content /\ stage'[r] = "copy"
    BY <2>1, <2>4
  <2>5. CASE since'[r] = since[r] /\ (stage'[r] \in {"flows", "rotate"} => since[r] <= copyOf'[dir'[r]])
    BY <2>2, <2>5
  <2> QED  BY <2>3, <2>4, <2>5
<1>5. Torned'
  <2>1. facts' \cap TornCauses = {} => facts \cap TornCauses = {}
    OBVIOUS
  <2> QED  BY <2>1 DEF IInv, Torned
<1> QED  BY <1>2, <1>4, <1>5 DEF IInv

(* A run that ends, and the steps of one that goes on. *)
LEMMA Runs ==
  ASSUME IInv, NEW r \in Runners
  PROVE  /\ Ends(r) => /\ stage' \in [Runners -> {"idle", "copy", "flows", "rotate"}]
                       /\ dir' \in [Runners -> Minutes] /\ since' \in [Runners -> 0 .. Torn]
                       /\ since'[r] = 0 /\ stage'[r] = "idle"
                       /\ \A q \in Runners \ {r} : /\ stage'[q] = stage[q] /\ dir'[q] = dir[q]
                                                  /\ since'[q] = since[q]
         /\ \A s \in {"copy", "flows", "rotate"} :
              Goto(r, s) => /\ stage' \in [Runners -> {"idle", "copy", "flows", "rotate"}]
                            /\ stage'[r] = s /\ \A q \in Runners \ {r} : stage'[q] = stage[q]
<1>1. 1 \in Minutes /\ 0 \in 0 .. Torn
  BY BackupAssumption, States DEF IInv, Minutes
<1>2. /\ stage \in [Runners -> {"idle", "copy", "flows", "rotate"}]
      /\ dir \in [Runners -> Minutes] /\ since \in [Runners -> 0 .. Torn]
  BY DEF IInv, TypeOK
<1> QED  BY <1>1, <1>2 DEF Ends, Goto

LEMMA MakeKeeps ==
  ASSUME IInv, NEW r \in Runners, MakeDirectory(r)
  PROVE  IInv'
<1>1. /\ Goto(r, "copy") /\ dir' = [dir EXCEPT ![r] = minute] /\ since' = [since EXCEPT ![r] = Content]
      /\ UNCHANGED <<minute, main, wal, commits, copyOf, bundle, faults>>
      /\ facts' \in {facts, facts \cup {"overlap"}}
  BY DEF MakeDirectory, liveVars
<1>2. /\ dir' \in [Runners -> Minutes] /\ since' \in [Runners -> 0 .. Torn] /\ since'[r] = Content
      /\ \A q \in Runners \ {r} : dir'[q] = dir[q] /\ since'[q] = since[q]
  <2>1. minute \in Minutes /\ Content \in 0 .. Torn
    BY States DEF IInv, TypeOK
  <2> QED  BY <1>1, <2>1 DEF IInv, TypeOK
<1>3. /\ copyOf' \in [Minutes -> Had \cup {None}] /\ faults' \in 0 .. MaxFaults
      /\ facts \subseteq facts'
      /\ facts' \subseteq {"overlap", "unusable", "backed up", "export beside a WAL",
                          "restored beside a WAL", "unfinished"}
  BY <1>1 DEF IInv, TypeOK
<1>4. facts' \cap TornCauses = {} => \A d \in Minutes : copyOf'[d] # Torn
  BY <1>1 DEF IInv, Torned, TornCauses
<1>5. ASSUME NEW q \in Runners \ {r}
      PROVE  /\ since'[q] = since[q]
             /\ stage'[q] \in {"flows", "rotate"} => since[q] <= copyOf'[dir'[q]]
  BY <1>1, <1>2, Runs DEF IInv, Ahead
<1>6. stage' \in [Runners -> {"idle", "copy", "flows", "rotate"}] /\ stage'[r] = "copy"
  BY <1>1, Runs
<1> QED  BY <1>1, <1>2, <1>3, <1>4, <1>5, <1>6, RunnersKeep

(* The copy has what a reader sees, and so what any run must have. *)
LEMMA CopyKeeps ==
  ASSUME IInv, NEW r \in Runners, CopyDatabase(r)
  PROVE  IInv'
<1>1. /\ Goto(r, "flows") /\ copyOf' = [copyOf EXCEPT ![dir[r]] = Content]
      /\ UNCHANGED <<minute, main, wal, commits, bundle, dir, since, faults>>
      /\ facts' = IF Content = Torn THEN facts \cup {"unusable"} ELSE facts
  BY DEF CopyDatabase, OnlineCopy, liveVars
<1>2. /\ copyOf' \in [Minutes -> Had \cup {None}]
      /\ \A d \in Minutes : copyOf'[d] = copyOf[d] \/ copyOf'[d] = Content
      /\ copyOf'[dir[r]] = Content
  BY <1>1, States DEF IInv, TypeOK
<1>3. /\ dir' \in [Runners -> Minutes] /\ since' \in [Runners -> 0 .. Torn] /\ faults' \in 0 .. MaxFaults
      /\ facts \subseteq facts'
      /\ facts' \subseteq {"overlap", "unusable", "backed up", "export beside a WAL",
                          "restored beside a WAL", "unfinished"}
  BY <1>1 DEF IInv, TypeOK
<1>4. facts' \cap TornCauses = {} => \A d \in Minutes : copyOf'[d] # Torn
  BY <1>1, <1>2 DEF IInv, Torned, TornCauses
<1>5. ASSUME NEW q \in Runners
      PROVE  /\ since'[q] = since[q]
             /\ stage'[q] \in {"flows", "rotate"} => since[q] <= copyOf'[dir'[q]]
  <2>1. since'[q] = since[q] /\ dir'[q] = dir[q] /\ dir[q] \in Minutes
    BY <1>1, States DEF IInv
  <2>2. since[q] <= Content
    BY DEF IInv, Ahead
  <2>3. CASE q = r
    BY <1>2, <2>1, <2>2, <2>3
  <2>4. CASE q # r
    <3>1. stage'[q] = stage[q]
      BY <1>1, <2>4, Runs
    <3> QED  BY <1>2, <2>1, <2>2, <3>1 DEF IInv, Ahead
  <2> QED  BY <2>3, <2>4
<1>6. stage' \in [Runners -> {"idle", "copy", "flows", "rotate"}]
  BY <1>1, Runs
<1> QED  BY <1>1, <1>2, <1>3, <1>4, <1>5, <1>6, RunnersKeep

(* Copies that are spoilt or rotated away are torn or gone, not behind.    *)
LEMMA SpoilKeeps ==
  ASSUME IInv, UNCHANGED <<minute, main, wal, commits, bundle>>,
         copyOf' \in [Minutes -> Had \cup {None}],
         \A d \in Minutes : copyOf'[d] \in {copyOf[d], Torn, None},
         (\E d \in Minutes : copyOf'[d] = Torn /\ copyOf[d] # Torn) => "unusable" \in facts',
         stage' \in [Runners -> {"idle", "copy", "flows", "rotate"}],
         dir' \in [Runners -> Minutes], since' \in [Runners -> 0 .. Torn],
         \A r \in Runners :
           \/ since'[r] = 0
           \/ /\ since'[r] = since[r] /\ dir'[r] = dir[r]
              /\ stage'[r] \in {"flows", "rotate"} => stage[r] \in {"flows", "rotate"},
         faults' \in 0 .. MaxFaults,
         facts' \in {facts, facts \cup {"unusable"}, facts \cup {"backed up"}}
  PROVE  IInv'
<1>1. /\ facts \subseteq facts'
      /\ facts' \subseteq {"overlap", "unusable", "backed up", "export beside a WAL",
                          "restored beside a WAL", "unfinished"}
  BY DEF IInv, TypeOK
<1>2. facts' \cap TornCauses = {} => \A d \in Minutes : copyOf'[d] # Torn
  <2>1. "unusable" \in TornCauses
    BY DEF TornCauses
  <2>2. facts' \cap TornCauses = {} => facts \cap TornCauses = {} /\ "unusable" \notin facts'
    BY <1>1, <2>1
  <2>3. None # Torn
    BY Below
  <2> QED  BY <2>2, <2>3 DEF IInv, Torned
<1>3. ASSUME NEW r \in Runners, since'[r] # 0
      PROVE  /\ since'[r] = since[r]
             /\ stage'[r] \in {"flows", "rotate"} => since[r] <= copyOf'[dir'[r]]
  <2>1. /\ since'[r] = since[r] /\ dir'[r] = dir[r] /\ dir[r] \in Minutes
        /\ stage'[r] \in {"flows", "rotate"} => stage[r] \in {"flows", "rotate"}
    BY <1>3, States DEF IInv
  <2>2. since[r] <= Torn /\ since[r] <= None
    BY Below
  <2>3. stage[r] \in {"flows", "rotate"} => since[r] <= copyOf[dir[r]]
    BY DEF IInv, Ahead
  <2>4. copyOf'[dir[r]] \in {copyOf[dir[r]], Torn, None}
    BY <2>1
  <2> QED  BY <2>1, <2>2, <2>3, <2>4
<1> QED  BY <1>1, <1>2, <1>3, RunnersKeep

LEMMA EndsKeep ==
  ASSUME IInv, NEW r \in Runners, CopyFails(r) \/ Rotate(r)
  PROVE  IInv'
<1>1. /\ Ends(r) /\ UNCHANGED <<minute, main, wal, commits, bundle>>
      /\ facts' \in {facts \cup {"unusable"}, facts \cup {"backed up"}}
  BY DEF CopyFails, Rotate, liveVars
<1>2. faults' \in 0 .. MaxFaults
  <2>1. faults \in 0 .. MaxFaults /\ MaxFaults \in Nat
    BY BackupAssumption DEF IInv, TypeOK
  <2>2. faults' = faults \/ (faults < MaxFaults /\ faults' = faults + 1)
    BY DEF CopyFails, Rotate
  <2> QED  BY <2>1, <2>2
<1>3. /\ copyOf' \in [Minutes -> Had \cup {None}]
      /\ \A d \in Minutes : copyOf'[d] \in {copyOf[d], Torn, None}
      /\ (\E d \in Minutes : copyOf'[d] = Torn /\ copyOf[d] # Torn) => "unusable" \in facts'
  <2>1. copyOf \in [Minutes -> Had \cup {None}] /\ Torn \in Had /\ None # Torn
    BY States, Below DEF IInv, TypeOK
  <2>2. CASE CopyFails(r)
    <3>1. copyOf' = copyOf \/ \E v \in {Torn, copyOf[dir[r]]} : copyOf' = [copyOf EXCEPT ![dir[r]] = v]
      BY <2>2 DEF CopyFails, HalfCopied
    <3>2. "unusable" \in facts'
      BY <2>2 DEF CopyFails
    <3>3. dir[r] \in Minutes
      BY States DEF IInv
    <3> QED  BY <2>1, <3>1, <3>2, <3>3
  <2>3. CASE Rotate(r)
    <3>1. copyOf' = [d \in Minutes |-> IF d \in Range(Kept) THEN copyOf[d] ELSE None]
      BY <2>3 DEF Rotate
    <3> HIDE DEF Kept
    <3> QED  BY <2>1, <3>1
  <2> QED  BY <2>2, <2>3
<1>4. /\ stage' \in [Runners -> {"idle", "copy", "flows", "rotate"}]
      /\ dir' \in [Runners -> Minutes] /\ since' \in [Runners -> 0 .. Torn]
      /\ since'[r] = 0
      /\ \A q \in Runners \ {r} : stage'[q] = stage[q] /\ dir'[q] = dir[q] /\ since'[q] = since[q]
  BY <1>1, Runs
<1> QED  BY <1>1, <1>2, <1>3, <1>4, SpoilKeeps

LEMMA EventsKeep ==
  ASSUME IInv, NEW r \in Runners, CopyEvents(r)
  PROVE  IInv'
<1>1. /\ stage[r] = "flows" /\ Goto(r, "rotate")
      /\ UNCHANGED <<minute, main, wal, commits, copyOf, bundle, dir, since, faults, facts>>
  BY DEF CopyEvents, liveVars
<1>2. /\ stage' \in [Runners -> {"idle", "copy", "flows", "rotate"}]
      /\ \A q \in Runners \ {r} : stage'[q] = stage[q]
  BY <1>1, Runs
<1>3. /\ copyOf' \in [Minutes -> Had \cup {None}] /\ faults' \in 0 .. MaxFaults
      /\ dir' \in [Runners -> Minutes] /\ since' \in [Runners -> 0 .. Torn]
  BY <1>1 DEF IInv, TypeOK
<1>4. \A q \in Runners : stage'[q] \in {"flows", "rotate"} => stage[q] \in {"flows", "rotate"}
  BY <1>1, <1>2
<1> QED  BY <1>1, <1>2, <1>3, <1>4, SpoilKeeps

LEMMA RestartKeeps ==
  ASSUME IInv, Restart
  PROVE  IInv'
<1>1. /\ UNCHANGED <<minute, main, wal, commits, bundle>>
      /\ stage' = [r \in Runners |-> "idle"] /\ dir' = [r \in Runners |-> 1]
      /\ since' = [r \in Runners |-> 0] /\ facts' = facts \cup {"unusable"}
      /\ faults < MaxFaults /\ faults' = faults + 1
  BY DEF Restart, liveVars
<1>2. PICK spoilt : copyOf' = [d \in Minutes |-> IF d \in spoilt \cap Dirs THEN Torn ELSE copyOf[d]]
  BY DEF Restart
<1>3. copyOf \in [Minutes -> Had \cup {None}] /\ Torn \in Had
  BY States DEF IInv, TypeOK
<1>4. /\ copyOf' \in [Minutes -> Had \cup {None}]
      /\ \A d \in Minutes : copyOf'[d] \in {copyOf[d], Torn, None}
  <2> HIDE DEF Dirs
  <2> QED  BY <1>2, <1>3
<1>5. /\ faults' \in 0 .. MaxFaults /\ 1 \in Minutes /\ 0 \in 0 .. Torn
  <2>1. faults \in 0 .. MaxFaults /\ MaxFaults \in Nat
    BY BackupAssumption DEF IInv, TypeOK
  <2>2. 1 \in Minutes /\ 0 \in 0 .. Torn
    BY BackupAssumption, States DEF IInv, Minutes
  <2> QED  BY <1>1, <2>1, <2>2
<1>6. /\ stage' \in [Runners -> {"idle", "copy", "flows", "rotate"}]
      /\ dir' \in [Runners -> Minutes] /\ since' \in [Runners -> 0 .. Torn]
      /\ \A r \in Runners : since'[r] = 0
  BY <1>1, <1>5
<1> QED  BY <1>1, <1>4, <1>5, <1>6, SpoilKeeps

-----------------------------------------------------------------------------
(* Bundles and restores. *)

LEMMA ExportKeeps ==
  ASSUME IInv, Export
  PROVE  IInv'
<1>1. /\ UNCHANGED <<minute, main, wal, commits, copyOf, stage, dir, since, faults>>
      /\ bundle' \in {main, Torn} /\ (wal = None => bundle' = main)
      /\ facts' = IF wal = None THEN facts ELSE facts \cup {"export beside a WAL"}
  BY DEF Export, ExportCopies, liveVars, snapVars, runVars
<1>2. Had' = Had /\ Content' = Content /\ Torn \in Had
  BY <1>1, States DEF IInv, Had, Content
<1>3. TypeOK'
  BY <1>1, <1>2 DEF IInv, TypeOK
<1>4. Ahead'
  BY <1>1, <1>2 DEF IInv, Ahead
<1>5. Torned'
  BY <1>1 DEF IInv, Torned, TornCauses
<1> QED  BY <1>3, <1>4, <1>5 DEF IInv

(* What is copied over the database is torn for a named cause only, and    *)
(* beside a WAL the database is torn by it.                                *)
LEMMA OverwriteKeeps ==
  ASSUME IInv, NEW v \in Had, NEW why \in SUBSET {"unfinished"}, Overwrite(v, why),
         v = Torn => (facts \cup why) \cap TornCauses # {}
  PROVE  IInv'
<1>1. /\ UNCHANGED <<minute, commits, copyOf, bundle, stage, dir, faults>>
      /\ main' = v /\ wal' = IF wal = None THEN None ELSE Torn
      /\ since' = [r \in Runners |-> 0]
      /\ facts' = facts \cup why \cup (IF wal = None THEN {} ELSE {"restored beside a WAL"})
  BY DEF Overwrite, snapVars
<1>2. Had' = Had /\ Torn \in Had /\ 0 \in 0 .. Torn /\ None # Torn
  BY <1>1, States, Below DEF IInv, Had
<1>3. TypeOK'
  <2>1. since' \in [Runners -> 0 .. Torn]
    BY <1>1, <1>2
  <2> QED  BY <1>1, <1>2, <2>1 DEF IInv, TypeOK
<1>4. Ahead'
  <2>1. \A d \in Minutes : 0 <= copyOf'[d]
    BY <1>1, Below
  <2>2. Content' \in Nat
    <3>1. v \in Nat /\ Torn \in Nat
      BY <1>2, Below
    <3> QED  BY <1>1, <1>2, <3>1 DEF Content
  <2>3. \A r \in Runners : since'[r] = 0 /\ dir'[r] \in Minutes
    BY <1>1, States DEF IInv
  <2>4. \A r \in Runners : 0 <= Content' /\ 0 <= copyOf'[dir'[r]]
    BY <2>1, <2>2, <2>3
  <2> QED  BY <2>3, <2>4 DEF Ahead
<1>5. Torned'
  <2>1. facts' \cap TornCauses = {} =>
          facts \cap TornCauses = {} /\ wal = None /\ v # Torn
    BY <1>1 DEF TornCauses
  <2> QED  BY <1>1, <1>2, <2>1 DEF IInv, Torned
<1> QED  BY <1>3, <1>4, <1>5 DEF IInv

LEMMA RestoreKeeps ==
  ASSUME IInv, ImportBundle \/ \E d \in Minutes : RestoreSnapshot(d)
  PROVE  IInv'
<1>1. Torn \in Had /\ bundle \in Had \cup {None} /\ copyOf \in [Minutes -> Had \cup {None}]
  BY States DEF IInv, TypeOK
<1>2. /\ bundle = Torn => facts \cap TornCauses # {}
      /\ \A d \in Minutes : copyOf[d] = Torn => facts \cap TornCauses # {}
  BY DEF IInv, Torned
<1>3. CASE ImportBundle
  BY <1>1, <1>2, <1>3, OverwriteKeeps DEF ImportBundle
<1>4. ASSUME NEW d \in Minutes, RestoreSnapshot(d)  PROVE IInv'
  <2>1. CASE copyOf[d] # None /\ Overwrite(copyOf[d], {})
    BY <1>1, <1>2, <2>1, OverwriteKeeps
  <2>2. CASE Overwrite(Torn, {"unfinished"})
    BY <1>1, <2>2, OverwriteKeeps DEF TornCauses
  <2> QED  BY <1>4, <2>1, <2>2 DEF RestoreSnapshot
<1> QED  BY <1>3, <1>4

-----------------------------------------------------------------------------
(* Every step of backup and restore keeps the invariant. *)
LEMMA BackupStep == IInv /\ [Next]_vars => IInv'
<1> SUFFICES ASSUME IInv, [Next]_vars
             PROVE  IInv'
  OBVIOUS
<1>1. CASE MinutePasses \/ UNCHANGED vars
  <2>1. UNCHANGED <<main, wal, commits, copyOf, bundle, stage, dir, since, faults, facts>>
    BY <1>1 DEF MinutePasses, vars, liveVars, snapVars, runVars
  <2>2. minute' \in Minutes
    <3>1. minute \in 1 .. MaxMinutes /\ MaxMinutes \in Nat
      BY BackupAssumption DEF IInv, TypeOK, Minutes
    <3> QED  BY <1>1, <3>1 DEF MinutePasses, vars, Minutes
  <2>3. Had' = Had /\ Content' = Content
    BY <2>1 DEF Had, Content
  <2>4. TypeOK'
    BY <2>1, <2>2, <2>3 DEF IInv, TypeOK
  <2> QED  BY <2>1, <2>3, <2>4 DEF IInv, Ahead, Torned
<1>2. ASSUME NEW r \in Runners,
             \/ MakeDirectory(r) \/ CopyDatabase(r) \/ CopyFails(r)
             \/ CopyEvents(r) \/ Rotate(r)
      PROVE  IInv'
  BY <1>2, MakeKeeps, CopyKeeps, EndsKeep, EventsKeep
<1> QED
  BY <1>1, <1>2, CommitKeeps, CheckpointKeeps, RestartKeeps, ExportKeeps, RestoreKeeps DEF Next

-----------------------------------------------------------------------------
(* What rotation keeps. While runs neither overlap nor fail, the one run   *)
(* there may be writes to a directory that exists, and every other         *)
(* directory holds a usable copy.                                          *)
Unspoilt == facts \cap {"overlap", "unusable"} = {}

Usables == {d \in Dirs : copyOf[d] < Torn}

Rotated ==
  /\ order \in Seq(Minutes)
  /\ Unspoilt =>
       /\ \A q, r \in Runners : Busy(q) /\ Busy(r) => q = r
       /\ \A r \in Runners : Busy(r) => dir[r] \in Dirs
       /\ \A d \in Dirs \ Usables : \E r \in Runners : stage[r] = "copy" /\ dir[r] = d
       /\ "backed up" \in facts /\ Keep > 0 => Usables # {}

(* The directories of a part of the list. *)
LEMMA Slice ==
  ASSUME NEW S, NEW q \in Seq(S), NEW m \in Nat \ {0}, NEW n \in Nat, n <= Len(q)
  PROVE  /\ SubSeq(q, m, n) \in Seq(S)
         /\ Range(SubSeq(q, m, n)) = {q[i] : i \in m .. n}
<1>1. Len(q) \in Nat /\ \A i \in 1 .. Len(q) : q[i] \in S
  BY LenProperties, ElementOfSeq
<1>2. \A i \in m .. n : q[i] \in S
  BY <1>1
<1>3. /\ SubSeq(q, m, n) \in Seq(S)
      /\ Len(SubSeq(q, m, n)) = IF m <= n THEN n - m + 1 ELSE 0
      /\ \A i \in 1 .. n - m + 1 : SubSeq(q, m, n)[i] = q[m + i - 1]
  BY <1>2, SubSeqProperties
<1>4. Range(SubSeq(q, m, n)) = {SubSeq(q, m, n)[i] : i \in 1 .. Len(SubSeq(q, m, n))}
  BY <1>3, RangeEquality
<1> DEFINE part == SubSeq(q, m, n)
<1> HIDE DEF part
<1>5. /\ \A i \in 1 .. Len(part) : m + i - 1 \in m .. n /\ part[i] = q[m + i - 1]
      /\ \A j \in m .. n : j - m + 1 \in 1 .. Len(part) /\ part[j - m + 1] = q[j]
  BY <1>3 DEF part
<1>6. {part[i] : i \in 1 .. Len(part)} = {q[i] : i \in m .. n}
  <2> DEFINE shown == 1 .. Len(part)
             taken == m .. n
  <2>1. /\ \A i \in shown : m + i - 1 \in taken /\ part[i] = q[m + i - 1]
        /\ \A j \in taken : j - m + 1 \in shown /\ part[j - m + 1] = q[j]
    BY <1>5
  <2> HIDE DEF shown, taken
  <2>2. {part[i] : i \in shown} = {q[i] : i \in taken}
    BY <2>1
  <2> QED  BY <2>2 DEF shown, taken
<1> QED  BY <1>3, <1>4, <1>6 DEF part

(* A directory is made or touched: it is listed, and the others stay so.   *)
LEMMA Listed ==
  ASSUME order \in Seq(Minutes)
  PROVE  /\ Dirs \in SUBSET Minutes
         /\ \A d \in Minutes : /\ Append(order, d) \in Seq(Minutes)
                              /\ Range(Append(order, d)) = Dirs \cup {d}
         /\ \A d \in Dirs : Touch(d) \in Seq(Minutes) /\ Range(Touch(d)) = Dirs
<1>1. Len(order) \in Nat /\ Dirs = {order[i] : i \in 1 .. Len(order)} /\ Dirs \in SUBSET Minutes
  BY LenProperties, RangeEquality, RangeOfSeq DEF Dirs
<1>2. ASSUME NEW q \in Seq(Minutes), NEW d \in Minutes
      PROVE  Append(q, d) \in Seq(Minutes) /\ Range(Append(q, d)) = Range(q) \cup {d}
  <2>1. /\ Append(q, d) \in Seq(Minutes)
        /\ Len(Append(q, d)) = Len(q) + 1
        /\ \A i \in 1 .. Len(q) : Append(q, d)[i] = q[i]
        /\ Append(q, d)[Len(q) + 1] = d
        /\ Len(q) \in Nat
    BY AppendProperties, LenProperties
  <2>2. /\ Range(Append(q, d)) = {Append(q, d)[i] : i \in 1 .. Len(q) + 1}
        /\ Range(q) = {q[i] : i \in 1 .. Len(q)}
    BY <2>1, RangeEquality
  <2> QED  BY <2>1, <2>2
<1>3. ASSUME NEW d \in Dirs
      PROVE  Touch(d) \in Seq(Minutes) /\ Range(Touch(d)) = Dirs
  <2> DEFINE i == CHOOSE j \in 1 .. Len(order) : order[j] = d
             before == SubSeq(order, 1, i - 1)
             after == SubSeq(order, i + 1, Len(order))
  <2>1. i \in 1 .. Len(order) /\ order[i] = d
    BY <1>1, <1>3
  <2> HIDE DEF i
  <2>2. before \in Seq(Minutes) /\ Range(before) = {order[j] : j \in 1 .. i - 1}
    <3>1. i - 1 \in Nat /\ i - 1 <= Len(order)
      BY <1>1, <2>1
    <3> QED  BY <3>1, Slice
  <2>3. after \in Seq(Minutes) /\ Range(after) = {order[j] : j \in i + 1 .. Len(order)}
    <3>1. i + 1 \in Nat \ {0} /\ Len(order) <= Len(order)
      BY <1>1, <2>1
    <3> QED  BY <1>1, <3>1, Slice
  <2> HIDE DEF before, after
  <2>4. before \o after \in Seq(Minutes) /\ Range(before \o after) = Range(before) \cup Range(after)
    BY <2>2, <2>3, ConcatProperties, RangeConcatenation
  <2>5. Touch(d) = Append(before \o after, d)
    BY DEF Touch, RemoveAt, before, after, i
  <2>6. Touch(d) \in Seq(Minutes)
        /\ Range(Touch(d)) = Range(before) \cup Range(after) \cup {d}
    BY <1>1, <1>2, <1>3, <2>4, <2>5
  <2>7. Range(before) \cup Range(after) \cup {order[i]} = Dirs
    BY <1>1, <2>1, <2>2, <2>3
  <2> QED  BY <2>1, <2>6, <2>7
<1> QED  BY <1>1, <1>2, <1>3 DEF Dirs

(* Rotation keeps directories there were, and one at least unless it is    *)
(* told to keep none.                                                      *)
LEMMA RotationKeeps ==
  ASSUME order \in Seq(Minutes)
  PROVE  /\ Kept \in Seq(Minutes)
         /\ Range(Kept) \in SUBSET Dirs
         /\ Keep > 0 /\ Dirs # {} => Range(Kept) # {}
<1>1. Len(order) \in Nat /\ Dirs = {order[i] : i \in 1 .. Len(order)} /\ Keep \in Nat
  BY LenProperties, RangeEquality, BackupAssumption DEF Dirs
<1>2. CASE Len(order) > Keep
  <2> DEFINE m == Len(order) - Keep + 1
  <2>1. m \in Nat \ {0}
    BY <1>1, <1>2
  <2>2. SubSeq(order, m, Len(order)) \in Seq(Minutes)
        /\ Range(SubSeq(order, m, Len(order))) = {order[i] : i \in m .. Len(order)}
    <3> HIDE DEF m
    <3>1. Len(order) <= Len(order)
      BY <1>1
    <3> QED  BY <1>1, <2>1, <3>1, Slice
  <2>3. {order[i] : i \in m .. Len(order)} \subseteq Dirs
    BY <1>1, <2>1
  <2>4. Keep > 0 => order[Len(order)] \in {order[i] : i \in m .. Len(order)}
    BY <1>1, <1>2
  <2> QED  BY <1>2, <2>2, <2>3, <2>4 DEF Kept
<1>3. CASE ~(Len(order) > Keep)
  BY <1>1, <1>3 DEF Kept, Dirs
<1> QED  BY <1>2, <1>3

(* Initially there is no directory. *)
LEMMA RotatedInitially == Init => Rotated
<1> SUFFICES ASSUME Init  PROVE Rotated
  OBVIOUS
<1>1. order \in Seq(Minutes) /\ Dirs = {}
  <2>1. <<>> \in Seq(Minutes) /\ Range(<<>>) = {<<>>[i] : i \in 1 .. Len(<<>>)} /\ Len(<<>>) = 0
    BY EmptySeq, RangeEquality
  <2> QED  BY <2>1 DEF Init, Dirs
<1>2. \A r \in Runners : ~Busy(r)
  BY DEF Init, Busy
<1> QED  BY <1>1, <1>2 DEF Init, Rotated

(* What neither the runs nor the directories show does not matter, and     *)
(* what is spoilt stays spoilt.                                            *)
LEMMA RotatedFrame ==
  ASSUME Rotated, facts \subseteq facts',
         \/ /\ UNCHANGED <<order, copyOf, stage, dir>>
            /\ "backed up" \in facts' => "backed up" \in facts
         \/ order' \in Seq(Minutes) /\ ~Unspoilt'
  PROVE  Rotated'
<1>1. UNCHANGED <<order, copyOf, stage, dir>> => UNCHANGED <<Dirs, Usables>>
  BY DEF Dirs, Usables
<1> QED  BY <1>1 DEF Rotated, Unspoilt, Busy

(* A run begins in a directory of its own minute. *)
LEMMA MakeRotated ==
  ASSUME IInv, Rotated, NEW r \in Runners, MakeDirectory(r)
  PROVE  Rotated'
<1>1. /\ minute \in Minutes /\ stage \in [Runners -> {"idle", "copy", "flows", "rotate"}]
      /\ dir \in [Runners -> Minutes]
  BY DEF IInv, TypeOK
<1>2. /\ stage' = [stage EXCEPT ![r] = "copy"] /\ dir' = [dir EXCEPT ![r] = minute]
      /\ copyOf' = copyOf
  BY DEF MakeDirectory, Goto
<1>3. order' \in Seq(Minutes) /\ Dirs' = Dirs \cup {minute}
  BY <1>1, Listed DEF MakeDirectory, Rotated, Dirs
<1>4. CASE \E q \in Runners : Busy(q)
  <2>1. facts' = facts \cup {"overlap"}
    BY <1>4 DEF MakeDirectory
  <2> QED  BY <1>3, <2>1, RotatedFrame DEF Unspoilt
<1>5. CASE \A q \in Runners : ~Busy(q)
  <2>1. facts' = facts
    BY <1>5 DEF MakeDirectory
  <2>2. \A q \in Runners : Busy(q)' <=> q = r
    BY <1>1, <1>2, <1>5 DEF Busy
  <2>3. stage'[r] = "copy" /\ dir'[r] = minute
    BY <1>1, <1>2
  <2> SUFFICES ASSUME Unspoilt'
               PROVE  /\ \A d \in Dirs' \ Usables' :
                           \E q \in Runners : stage'[q] = "copy" /\ dir'[q] = d
                      /\ "backed up" \in facts' /\ Keep > 0 => Usables' # {}
    BY <1>3, <2>2, <2>3 DEF Rotated
  <2>4. /\ \A d \in Dirs \ Usables : \E q \in Runners : Busy(q)
        /\ "backed up" \in facts /\ Keep > 0 => Usables # {}
    BY <2>1 DEF Rotated, Unspoilt, Busy
  <2>5. Usables \subseteq Usables'
    BY <1>2, <1>3 DEF Usables
  <2>6. \A d \in Dirs' \ Usables' : d = minute
    BY <1>3, <1>5, <2>4, <2>5
  <2> QED  BY <2>1, <2>3, <2>4, <2>5, <2>6
<1> QED  BY <1>4, <1>5

(* The run that may be going on replaces the copy in its directory by a    *)
(* usable one.                                                             *)
LEMMA CopyRotated ==
  ASSUME IInv, Rotated, NEW r \in Runners, CopyDatabase(r)
  PROVE  Rotated'
<1>1. /\ stage \in [Runners -> {"idle", "copy", "flows", "rotate"}]
      /\ copyOf \in [Minutes -> Had \cup {None}] /\ Content \in Nat /\ Content <= Torn
      /\ Torn \in Nat
  <2>1. TypeOK
    BY DEF IInv
  <2>2. Torn \in Nat /\ Content \in Nat /\ Content <= Torn
    BY <2>1, States
  <2> QED  BY <2>1, <2>2 DEF TypeOK
<1>2. /\ stage[r] = "copy" /\ dir[r] \in Dirs /\ dir' = dir
      /\ stage' = [stage EXCEPT ![r] = "flows"]
      /\ copyOf' = [copyOf EXCEPT ![dir[r]] = Content]
      /\ facts' = IF Content = Torn THEN facts \cup {"unusable"} ELSE facts
  BY DEF CopyDatabase, Goto, OnlineCopy
<1>3. order' \in Seq(Minutes) /\ Dirs' = Dirs /\ Dirs \in SUBSET Minutes
  BY <1>2, Listed DEF CopyDatabase, Rotated, Dirs
<1>4. CASE Content = Torn
  BY <1>2, <1>3, <1>4, RotatedFrame DEF Unspoilt
<1>5. CASE Content # Torn
  <2>1. facts' = facts /\ Content < Torn
    BY <1>1, <1>2, <1>5
  <2> SUFFICES ASSUME Unspoilt
               PROVE  /\ \A q, p \in Runners : Busy(q)' /\ Busy(p)' => q = p
                      /\ \A q \in Runners : Busy(q)' => dir'[q] \in Dirs'
                      /\ Dirs' \subseteq Usables'
                      /\ Usables' # {}
    BY <1>3, <2>1 DEF Rotated, Unspoilt
  <2>2. \A q \in Runners : Busy(q)' <=> Busy(q)
    BY <1>1, <1>2 DEF Busy
  <2>3. \A q \in Runners : Busy(q) => q = r
    BY <1>2 DEF Rotated, Busy
  <2>4. \A d \in Dirs : copyOf'[d] = IF d = dir[r] THEN Content ELSE copyOf[d]
    BY <1>1, <1>2, <1>3
  <2>5. \A d \in Dirs \ Usables : d = dir[r]
    BY <2>3 DEF Rotated, Busy
  <2>6. Dirs' \subseteq Usables'
    BY <1>3, <2>1, <2>4, <2>5 DEF Usables
  <2> QED  BY <1>2, <1>3, <2>2, <2>3, <2>6
<1> QED  BY <1>4, <1>5

(* The export of the events touches the directory of the run. *)
LEMMA EventsRotated ==
  ASSUME IInv, Rotated, NEW r \in Runners, CopyEvents(r)
  PROVE  Rotated'
<1>1. stage \in [Runners -> {"idle", "copy", "flows", "rotate"}]
  BY DEF IInv, TypeOK
<1>2. /\ stage[r] = "flows" /\ stage' = [stage EXCEPT ![r] = "rotate"]
      /\ UNCHANGED <<dir, copyOf, facts>>
  BY DEF CopyEvents, Goto
<1>3. order' \in Seq(Minutes) /\ Dirs' = Dirs
  BY Listed DEF CopyEvents, Rotated, Dirs
<1>4. UNCHANGED Usables
  BY <1>2, <1>3 DEF Usables
<1>5. \A q \in Runners : (Busy(q)' <=> Busy(q)) /\ (stage'[q] = "copy" <=> stage[q] = "copy")
  BY <1>1, <1>2 DEF Busy
<1> QED  BY <1>2, <1>3, <1>4, <1>5 DEF Rotated, Unspoilt

(* The only run that is going on rotates: every directory is usable.       *)
LEMMA RotateRotated ==
  ASSUME IInv, Rotated, NEW r \in Runners, Rotate(r)
  PROVE  Rotated'
<1>1. stage \in [Runners -> {"idle", "copy", "flows", "rotate"}]
  BY DEF IInv, TypeOK
<1>2. /\ stage[r] = "rotate" /\ stage' = [stage EXCEPT ![r] = "idle"]
      /\ order' = Kept /\ facts' = facts \cup {"backed up"}
      /\ copyOf' = [d \in Minutes |-> IF d \in Range(Kept) THEN copyOf[d] ELSE None]
  BY DEF Rotate, Ends, Goto
<1>3. /\ order' \in Seq(Minutes) /\ Dirs' = Range(Kept) /\ Dirs' \in SUBSET Dirs
      /\ Keep > 0 /\ Dirs # {} => Dirs' # {}
      /\ Dirs \in SUBSET Minutes
  BY <1>2, RotationKeeps, Listed DEF Rotated, Dirs
<1> SUFFICES ASSUME Unspoilt'
             PROVE  /\ \A q \in Runners : ~Busy(q)'
                    /\ Dirs' \subseteq Usables'
                    /\ Keep > 0 => Usables' # {}
  BY <1>3 DEF Rotated
<1>4. /\ \A q \in Runners : Busy(q) => q = r
      /\ dir[r] \in Dirs
      /\ \A d \in Dirs \ Usables : \E q \in Runners : stage[q] = "copy"
  BY <1>2 DEF Rotated, Unspoilt, Busy
<1>5. \A q \in Runners : stage[q] # "copy"
  BY <1>2, <1>4 DEF Busy
<1>6. Dirs \subseteq Usables
  BY <1>4, <1>5
<1>7. Dirs' \subseteq Usables'
  BY <1>2, <1>3, <1>6 DEF Usables
<1>8. \A q \in Runners : ~Busy(q)'
  BY <1>1, <1>2, <1>4 DEF Busy
<1> QED  BY <1>3, <1>4, <1>7, <1>8

LEMMA RotatedStep == IInv /\ Rotated /\ [Next]_vars => Rotated'
<1> SUFFICES ASSUME IInv, Rotated, [Next]_vars
             PROVE  Rotated'
  OBVIOUS
<1>1. CASE Commit \/ Checkpoint \/ MinutePasses \/ UNCHANGED vars
  BY <1>1, RotatedFrame DEF Commit, Checkpoint, MinutePasses, vars, liveVars, snapVars, runVars
<1>2. CASE Export
  BY <1>2, RotatedFrame DEF Export, liveVars, snapVars, runVars
<1>3. ASSUME NEW v, NEW why \in SUBSET {"unfinished"}, Overwrite(v, why)
      PROVE  Rotated'
  <2>1. facts \subseteq facts' /\ ("backed up" \in facts' => "backed up" \in facts)
    BY <1>3 DEF Overwrite
  <2> QED  BY <1>3, <2>1, RotatedFrame DEF Overwrite, snapVars
<1>4. CASE ImportBundle \/ \E d \in Minutes : RestoreSnapshot(d)
  BY <1>3, <1>4 DEF ImportBundle, RestoreSnapshot
<1>5. CASE Restart
  BY <1>5, RotatedFrame DEF Restart, Unspoilt, Rotated
<1>6. ASSUME NEW r \in Runners, CopyFails(r)
      PROVE  Rotated'
  BY <1>6, RotatedFrame DEF CopyFails, Unspoilt, Rotated
<1> QED
  BY <1>1, <1>2, <1>4, <1>5, <1>6, MakeRotated, CopyRotated, EventsRotated, RotateRotated DEF Next

-----------------------------------------------------------------------------
(* The theorems. *)

(* The types, what the copies of unfinished runs hold, and the causes of   *)
(* torn files hold throughout.                                             *)
THEOREM BackupIInvHolds == Spec => []IInv
BY BackupInit, BackupStep, PTL DEF Spec

(* A run ends with a copy that has every commit made before it began.      *)
THEOREM BackupIsCurrentHolds == Spec => []BackupIsCurrent
<1>1. IInv => BackupIsCurrent
  <2> SUFFICES ASSUME IInv, NEW r \in Runners, stage[r] = "rotate"
               PROVE  copyOf[dir[r]] >= since[r]
    BY DEF BackupIsCurrent
  <2>1. since[r] <= copyOf[dir[r]]
    BY DEF IInv, Ahead
  <2>2. since[r] \in Nat /\ copyOf[dir[r]] \in Nat
    BY States DEF IInv
  <2> QED  BY <2>1, <2>2
<1> QED  BY <1>1, BackupIInvHolds, PTL

(* The database is a state it once had, but for the named causes. *)
THEOREM TornOnlyByNamedCauseHolds == Spec => []TornOnlyByNamedCause
<1>1. IInv => TornOnlyByNamedCause
  BY DEF IInv, Torned, TornCauses, Content, TornOnlyByNamedCause
<1> QED  BY <1>1, BackupIInvHolds, PTL

(* Once a backup is done there is a usable one, unless runs overlap or     *)
(* fail: rotation never takes the last.                                    *)
THEOREM UsableBackupKeptHolds == Spec => []UsableBackupKept
<1>1. Rotated => UsableBackupKept
  <2> SUFFICES ASSUME Rotated, "backed up" \in facts, Keep > 0, Unspoilt
               PROVE  \E d \in Minutes : Usable(d)
    BY DEF UsableBackupKept, Unspoilt
  <2>1. Usables # {} /\ Dirs \in SUBSET Minutes
    BY Listed DEF Rotated
  <2> QED  BY <2>1 DEF Usables, Usable
<1>2. Spec => []Rotated
  BY BackupIInvHolds, RotatedInitially, RotatedStep, PTL DEF Spec
<1> QED  BY <1>1, <1>2, PTL
=============================================================================
