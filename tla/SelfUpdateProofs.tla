-------------------------- MODULE SelfUpdateProofs --------------------------
(***************************************************************************)
(* Proofs about the self-update, for every number of pages, clicks,        *)
(* releases and failures: what can mix two releases in the installed tree, *)
(* and what can take it back to an older one.                              *)
(***************************************************************************)
EXTENDS SelfUpdate, TLAPS

Steps == 1 .. 3

Spoilt(kinds) == causes \cap kinds # {}
SwapCauses == {"overlap", "failed swap", "cut swap"}
OrderCauses == {"overlap", "slow check"}

(* Applies that run at once apply one release. *)
OneRelease ==
  ~Spoilt({"overlap"}) =>
    \A a, b \in Actors : Applying(a) /\ Applying(b) => release[a] = release[b]

(* What is missing is about to be copied, what a swap has passed is of its *)
(* release or about to be, and outside a swap the tree is whole.           *)
Tidy ==
  ~Spoilt(SwapCauses) =>
    /\ \A i \in Steps : tree[SwapOrder[i]] = 0 =>
         \E a \in Actors : stage[a] = "copy" /\ at[a] = i
    /\ \A a \in Actors, i \in Steps :
         Swapping(a) /\ i < at[a] => tree[SwapOrder[i]] \in {0, release[a]}
    /\ (\A a \in Actors : ~Swapping(a)) => Whole

(* Checks are recorded in the order of their answers, and what is applied  *)
(* was recorded.                                                           *)
Forward ==
  ~Spoilt(OrderCauses) =>
    /\ \A a, b \in Actors :
         stage[a] = "check" /\ stage[b] = "check" /\ release[a] # 0 /\ release[b] # 0
           => release[a] = release[b]
    /\ \A a \in Actors : stage[a] = "check" /\ release[a] # 0 => assets <= release[a]
    /\ tree["VERSION"] <= 1 \/ tree["VERSION"] <= assets
    /\ \A a \in Actors : Applying(a) => tree["VERSION"] <= release[a] /\ release[a] <= assets

(* An actor brings no release into a check, or to the recorded one, and    *)
(* starts with the first path.                                             *)
Forgets ==
  \A a \in Actors :
    /\ stage[a] \in {"idle", "assets"} => release[a] = 0
    /\ stage[a] \in {"idle", "check", "assets", "download"} => at[a] = 1

IInv == TypeOK /\ Forgets /\ OneRelease /\ Tidy /\ Forward

-----------------------------------------------------------------------------
(* The order of the swap names every path once. *)
LEMMA OrderOfPaths ==
  /\ Len(SwapOrder) = 3
  /\ SwapOrder[1] = "app" /\ SwapOrder[2] = "VERSION" /\ SwapOrder[3] = "dist"
  /\ Paths = {"app", "VERSION", "dist"}
BY DEF SwapOrder, Paths

(* The releases are counted from the first on. *)
LEMMA Numbers ==
  ASSUME TypeOK
  PROVE  /\ latest \in 1 .. MaxRelease /\ latest \in Nat /\ latest >= 1 /\ MaxRelease \in Nat
         /\ assets \in 0 .. latest /\ 0 \in 0 .. latest
<1>1. latest \in 1 .. MaxRelease /\ assets \in 0 .. latest
  BY DEF TypeOK
<1>2. MaxRelease \in Nat
  BY UpdateAssumption
<1> QED  BY <1>1, <1>2

LEMMA UpdateInit == Init => IInv
<1> SUFFICES ASSUME Init  PROVE IInv
  OBVIOUS
<1>1. TypeOK
  <2>1. 1 \in 1 .. MaxRelease /\ 0 \in 0 .. MaxFaults /\ 1 \in 1 .. Len(SwapOrder)
    BY UpdateAssumption, OrderOfPaths
  <2>2. /\ latest \in 1 .. MaxRelease /\ assets \in 0 .. latest /\ available \in BOOLEAN
        /\ mode \in {"manual", "auto"} /\ up \in BOOLEAN /\ exiting \in BOOLEAN
        /\ tree \in [Paths -> 0 .. latest] /\ release \in [Actors -> 0 .. latest]
    <3>1. /\ available \in BOOLEAN /\ mode \in {"manual", "auto"}
          /\ up \in BOOLEAN /\ exiting \in BOOLEAN
      BY DEF Init
    <3>2. latest \in 1 .. MaxRelease /\ assets \in 0 .. latest
      BY <2>1 DEF Init
    <3>3. latest = 1 /\ 0 \in 0 .. 1 /\ 1 \in 0 .. 1
      BY DEF Init
    <3>4. tree \in [Paths -> 0 .. latest] /\ release \in [Actors -> 0 .. latest]
      BY <3>3 DEF Init
    <3> QED  BY <3>1, <3>2, <3>4
  <2>3. /\ at \in [Actors -> 1 .. Len(SwapOrder)] /\ faults \in 0 .. MaxFaults
        /\ stage \in [Actors -> {"idle", "check", "assets", "download", "remove", "copy", "record"}]
    BY <2>1 DEF Init
  <2>4. /\ \A a \in Actors : ~Applying(a) /\ stage[a] = "idle"
        /\ causes \in SUBSET {"slow check", "overlap", "failed swap", "cut swap"}
    BY DEF Init, Applying, Swapping
  <2>5. up
    BY DEF Init
  <2> QED  BY <2>2, <2>3, <2>4, <2>5 DEF TypeOK
<1>2. OneRelease
  BY DEF Init, OneRelease, Applying, Swapping
<1>3. Tidy
  BY OrderOfPaths DEF Init, Tidy, Swapping, Steps, Whole
<1>4. Forward
  BY OrderOfPaths DEF Init, Forward, Applying, Swapping
<1>5. Forgets
  BY DEF Init, Forgets
<1> QED  BY <1>1, <1>2, <1>3, <1>4, <1>5 DEF IInv

-----------------------------------------------------------------------------
(* Steps that leave the tree, and end or leave the applies under way.      *)

LEMMA SpoiltStays ==
  ASSUME NEW kinds, causes \subseteq causes', Spoilt(kinds)
  PROVE  Spoilt(kinds)'
BY DEF Spoilt

LEMMA SameApplies ==
  ASSUME OneRelease, causes \subseteq causes',
         \A a \in Actors : Applying(a)' => Applying(a) /\ release'[a] = release[a]
  PROVE  OneRelease'
BY DEF OneRelease, Spoilt

LEMMA SameSwaps ==
  ASSUME Tidy, causes \subseteq causes', tree' = tree,
         \A a \in Actors : /\ Swapping(a)' <=> Swapping(a)
                           /\ stage[a] = "copy" => stage'[a] = "copy"
                           /\ Swapping(a) => at'[a] = at[a] /\ release'[a] = release[a]
  PROVE  Tidy'
<1> SUFFICES ASSUME ~Spoilt(SwapCauses)'
             PROVE  /\ \A i \in Steps : tree'[SwapOrder[i]] = 0 =>
                         \E a \in Actors : stage'[a] = "copy" /\ at'[a] = i
                    /\ \A a \in Actors, i \in Steps :
                         Swapping(a)' /\ i < at'[a] => tree'[SwapOrder[i]] \in {0, release'[a]}
                    /\ (\A a \in Actors : ~Swapping(a)') => Whole'
  BY DEF Tidy
<1>1. ~Spoilt(SwapCauses)
  BY DEF Spoilt, SwapCauses
<1>2. /\ \A i \in Steps : tree[SwapOrder[i]] = 0 =>
           \E a \in Actors : stage[a] = "copy" /\ at[a] = i
      /\ \A a \in Actors, i \in Steps :
           Swapping(a) /\ i < at[a] => tree[SwapOrder[i]] \in {0, release[a]}
      /\ (\A a \in Actors : ~Swapping(a)) => Whole
  BY <1>1 DEF Tidy
<1>3. \A a \in Actors : stage[a] = "copy" => Swapping(a)
  BY DEF Swapping
<1>4. (\A a \in Actors : ~Swapping(a)') => Whole'
  BY <1>2 DEF Whole
<1> QED  BY <1>2, <1>3, <1>4

LEMMA SpoiltSwap ==
  ASSUME Spoilt(SwapCauses)'
  PROVE  Tidy'
BY DEF Tidy

LEMMA SameOrder ==
  ASSUME Forward, causes \subseteq causes', UNCHANGED <<tree, assets>>,
         \A a \in Actors :
           /\ Applying(a)' => Applying(a) /\ release'[a] = release[a]
           /\ stage'[a] = "check" => stage[a] = "check" /\ release'[a] = release[a]
  PROVE  Forward'
<1>1. Spoilt(OrderCauses) => Spoilt(OrderCauses)'
  BY DEF Spoilt, OrderCauses
<1> QED  BY <1>1 DEF Forward

-----------------------------------------------------------------------------
(* Steps of GitHub, of the administrator and of systemd.                   *)

LEMMA AroundKeeps ==
  ASSUME IInv, Publish \/ (\E m \in {"manual", "auto"} : SetMode(m)) \/ RequestRestart \/ Start
  PROVE  IInv'
<1>1. UNCHANGED <<tree, assets, causes, stage, release, at, available, faults>>
  BY DEF Publish, SetMode, RequestRestart, Start, recordVars, actorVars
<1>2. TypeOK'
  <2>1. CASE Publish
    <3>1. latest' \in 1 .. MaxRelease /\ latest' = latest + 1 /\ latest \in Nat
      BY <2>1, Numbers DEF Publish, IInv
    <3>2. 0 .. latest \subseteq 0 .. latest'
      BY <3>1
    <3>3. /\ assets \in 0 .. latest' /\ tree \in [Paths -> 0 .. latest']
          /\ release \in [Actors -> 0 .. latest']
      BY <3>2 DEF IInv, TypeOK
    <3> QED
      BY <1>1, <2>1, <3>1, <3>3 DEF Publish, IInv, TypeOK, recordVars, Applying, Swapping
  <2>2. CASE ~Publish
    BY <1>1, <2>2 DEF SetMode, RequestRestart, Start, IInv, TypeOK, recordVars, Applying, Swapping
  <2> QED  BY <2>1, <2>2
<1>3. \A a \in Actors : Applying(a)' = Applying(a) /\ Swapping(a)' = Swapping(a)
  BY <1>1 DEF Applying, Swapping
<1>4. Forgets'
  BY <1>1 DEF IInv, Forgets
<1> QED  BY <1>1, <1>2, <1>3, <1>4, SameApplies, SameSwaps, SameOrder DEF IInv

(* The process goes, and everybody's stage with it. *)
LEMMA DiesKeeps ==
  ASSUME IInv, Dies, causes' = Cut, UNCHANGED <<latest, assets, mode, tree>>,
         available' \in BOOLEAN, faults' \in 0 .. MaxFaults
  PROVE  IInv'
<1>1. \A a \in Actors : stage'[a] = "idle" /\ release'[a] = 0 /\ at'[a] = 1
  BY DEF Dies
<1>2. \A a \in Actors : ~Applying(a)' /\ ~Swapping(a)'
  BY <1>1 DEF Applying, Swapping
<1>3. causes \subseteq causes' /\ causes' \in SUBSET {"slow check", "overlap", "failed swap", "cut swap"}
  BY DEF Cut, IInv, TypeOK
<1>4. TypeOK'
  <2>1. 0 \in 0 .. latest /\ 1 \in 1 .. Len(SwapOrder)
    BY Numbers, OrderOfPaths DEF IInv
  <2>2. /\ stage' \in [Actors -> {"idle", "check", "assets", "download", "remove", "copy", "record"}]
        /\ release' \in [Actors -> 0 .. latest] /\ at' \in [Actors -> 1 .. Len(SwapOrder)]
        /\ up' = FALSE /\ exiting' = FALSE
    BY <2>1 DEF Dies
  <2> QED  BY <1>1, <1>2, <1>3, <2>2 DEF IInv, TypeOK
<1>5. OneRelease' /\ Forward' /\ Forgets'
  BY <1>1, <1>2, <1>3, SameApplies, SameOrder DEF IInv, Forgets
<1>6. Tidy'
  <2>1. CASE \E a \in Actors : Swapping(a)
    BY <2>1 DEF Cut, Tidy, Spoilt, SwapCauses
  <2>2. CASE ~\E a \in Actors : Swapping(a)
    BY <1>2, <1>3, <2>2, SameSwaps DEF IInv, Swapping
  <2> QED  BY <2>1, <2>2
<1> QED  BY <1>4, <1>5, <1>6 DEF IInv

(* An actor that goes elsewhere; what it has found, and its path, are of   *)
(* their types.                                                            *)
LEMMA MovesKeepTypes ==
  ASSUME TypeOK, NEW a \in Actors,
         NEW s \in {"idle", "check", "assets", "download", "remove", "copy", "record"},
         NEW r \in 0 .. latest, NEW i \in 1 .. 3,
         stage[a] # "idle" \/ up, Goto(a, s),
         release' = [release EXCEPT ![a] = r], at' = [at EXCEPT ![a] = i],
         s \in {"download", "remove", "copy", "record"} => r # 0,
         UNCHANGED <<latest, mode, up>>, exiting' \in BOOLEAN, assets' \in 0 .. latest,
         tree' \in [Paths -> 0 .. latest], available' \in BOOLEAN, faults' \in 0 .. MaxFaults,
         exiting' # exiting => up,
         causes' \in SUBSET {"slow check", "overlap", "failed swap", "cut swap"}
  PROVE  TypeOK'
<1>1. /\ stage' \in [Actors -> {"idle", "check", "assets", "download", "remove", "copy", "record"}]
      /\ release' \in [Actors -> 0 .. latest] /\ at' \in [Actors -> 1 .. Len(SwapOrder)]
  BY OrderOfPaths DEF TypeOK, Goto
<1>2. /\ stage'[a] = s /\ release'[a] = r
      /\ \A b \in Actors \ {a} : stage'[b] = stage[b] /\ release'[b] = release[b]
  BY DEF TypeOK, Goto
<1>3. \A b \in Actors : Applying(b)' => release'[b] # 0
  BY <1>2 DEF TypeOK, Applying, Swapping
<1>4. up
  BY DEF TypeOK
<1> QED  BY <1>1, <1>3, <1>4 DEF TypeOK

(* Where an actor that moves has come to, and the others are. *)
Stages == {"idle", "check", "assets", "download", "remove", "copy", "record"}

LEMMA OneMoves ==
  ASSUME TypeOK, NEW a \in Actors, NEW s \in Stages, Goto(a, s)
  PROVE  /\ stage'[a] = s
         /\ Swapping(a)' <=> s \in {"remove", "copy"}
         /\ Applying(a)' <=> s \in {"download", "remove", "copy", "record"}
         /\ \A b \in Actors \ {a} : /\ stage'[b] = stage[b]
                                    /\ Swapping(b)' <=> Swapping(b)
                                    /\ Applying(b)' <=> Applying(b)
<1>1. stage'[a] = s /\ \A b \in Actors \ {a} : stage'[b] = stage[b]
  BY DEF TypeOK, Goto
<1> QED  BY <1>1 DEF Swapping, Applying

(* What an actor knows, and where it is, if its step leaves them. *)
LEMMA LeftAlone ==
  ASSUME TypeOK, NEW a \in Actors
  PROVE  /\ release[a] \in 0 .. latest /\ at[a] \in 1 .. 3
         /\ release = [release EXCEPT ![a] = release[a]]
         /\ at = [at EXCEPT ![a] = at[a]]
         /\ 0 \in 0 .. latest /\ 1 \in 1 .. 3
         /\ Applying(a) => release[a] # 0
<1>1. release[a] \in 0 .. latest /\ at[a] \in 1 .. 3
  BY OrderOfPaths DEF TypeOK
<1>2. release = [release EXCEPT ![a] = release[a]] /\ at = [at EXCEPT ![a] = at[a]]
  BY DEF TypeOK
<1>3. 0 \in 0 .. latest /\ 1 \in 1 .. 3
  BY Numbers
<1>4. Applying(a) => release[a] # 0
  BY DEF TypeOK
<1> QED  BY <1>1, <1>2, <1>3, <1>4

-----------------------------------------------------------------------------
(* The checks, and the hourly task. *)

LEMMA AutoKeeps ==
  ASSUME IInv, Hourly \in Actors, AutoDue
  PROVE  IInv'
<1>0. up
  BY DEF AutoDue
<1>1. /\ stage[Hourly] = "idle" /\ Goto(Hourly, "assets")
      /\ UNCHANGED <<latest, assets, available, mode, tree, up, exiting, release, at, faults, causes>>
  <2>1. stage[Hourly] = "idle" /\ Goto(Hourly, "assets")
    BY DEF AutoDue
  <2>2. UNCHANGED <<latest, recordVars, tree, up, exiting, release, at, faults, causes>>
    BY DEF AutoDue
  <2> QED  BY <2>1, <2>2 DEF recordVars
<1>2. TypeOK'
  <2>1. /\ release[Hourly] \in 0 .. latest /\ at[Hourly] \in 1 .. 3
        /\ release' = [release EXCEPT ![Hourly] = release[Hourly]]
        /\ at' = [at EXCEPT ![Hourly] = at[Hourly]]
    BY <1>1, LeftAlone DEF IInv
  <2>2. /\ exiting' \in BOOLEAN /\ assets' \in 0 .. latest /\ tree' \in [Paths -> 0 .. latest]
        /\ available' \in BOOLEAN /\ faults' \in 0 .. MaxFaults
        /\ causes' \in SUBSET {"slow check", "overlap", "failed swap", "cut swap"}
    BY <1>1 DEF IInv, TypeOK
  <2> QED  BY <1>0, <1>1, <2>1, <2>2, MovesKeepTypes DEF IInv
<1>3. \A b \in Actors : /\ Applying(b)' => Applying(b)
                        /\ (Swapping(b)' <=> Swapping(b))
                        /\ stage[b] = "copy" => stage'[b] = "copy"
                        /\ stage'[b] = "check" => stage[b] = "check"
  BY <1>1, OneMoves DEF IInv, Stages, Applying, Swapping
<1>4. Forgets'
  BY <1>1, OneMoves DEF IInv, Forgets, Stages
<1> QED  BY <1>1, <1>2, <1>3, <1>4, SameApplies, SameSwaps, SameOrder DEF IInv

(* GitHub answers with its latest release: if another check has an older   *)
(* answer in hand, it may be recorded later.                               *)
LEMMA FetchKeeps ==
  ASSUME IInv, NEW a \in Actors, Fetch(a)
  PROVE  IInv'
<1>1. /\ up /\ stage[a] = "idle" /\ Goto(a, "check")
      /\ UNCHANGED <<latest, assets, available, mode, tree, up, exiting, at>>
      /\ causes' = IF \E b \in Actors : stage[b] = "check" /\ release[b] \notin {0, latest}
                     THEN causes \cup {"slow check"} ELSE causes
  BY DEF Fetch, recordVars
<1>2. faults' \in 0 .. MaxFaults
  <2>1. faults \in 0 .. MaxFaults /\ MaxFaults \in Nat
    BY UpdateAssumption DEF IInv, TypeOK
  <2>2. faults' = faults \/ (faults < MaxFaults /\ faults' = faults + 1)
    BY DEF Fetch
  <2> QED  BY <2>1, <2>2
<1>3. PICK r \in {latest, 0} : release' = [release EXCEPT ![a] = r]
  BY <1>1, LeftAlone DEF Fetch, Answers, IInv, Forgets
<1>4. r \in 0 .. latest
  BY <1>3, Numbers DEF IInv
<1>5. /\ causes \subseteq causes'
      /\ causes' \in SUBSET {"slow check", "overlap", "failed swap", "cut swap"}
  BY <1>1 DEF IInv, TypeOK
<1>6. TypeOK'
  BY <1>1, <1>2, <1>3, <1>4, <1>5, LeftAlone, MovesKeepTypes DEF IInv, TypeOK
<1>7. \A b \in Actors : /\ (Swapping(b)' <=> Swapping(b))
                        /\ stage[b] = "copy" => stage'[b] = "copy"
                        /\ (Applying(b)' <=> Applying(b))
                        /\ Applying(b) => release'[b] = release[b]
  <2>1. \A b \in Actors \ {a} : release'[b] = release[b]
    BY <1>3 DEF IInv, TypeOK
  <2> QED  BY <1>1, <2>1, OneMoves DEF IInv, Stages, Swapping, Applying
<1>8. \A b \in Actors : Swapping(b) => Applying(b)
  BY DEF Applying
<1>9. OneRelease' /\ Tidy' /\ Forgets'
  <2>1. Forgets'
    BY <1>1, <1>3 DEF IInv, TypeOK, Forgets, Goto
  <2> QED  BY <1>1, <1>5, <1>7, <1>8, <2>1, SameApplies, SameSwaps DEF IInv
<1>10. ASSUME ~Spoilt(OrderCauses)'  PROVE Forward'
  <2>1. /\ ~Spoilt(OrderCauses)
        /\ \A b \in Actors : stage[b] = "check" => release[b] \in {0, latest}
    BY <1>1, <1>5, <1>10 DEF Spoilt, OrderCauses
  <2>2. \A b \in Actors : stage'[b] = "check" /\ release'[b] # 0 => release'[b] = latest
    BY <1>1, <1>3, <2>1 DEF IInv, TypeOK, Goto
  <2>3. assets <= latest
    BY Numbers DEF IInv
  <2> QED  BY <1>1, <1>7, <2>1, <2>2, <2>3 DEF IInv, Forward
<1> QED  BY <1>6, <1>9, <1>10 DEF IInv, Forward

(* What a check has found is recorded: it is no older than what was.       *)
LEMMA RecordKeeps ==
  ASSUME IInv, NEW a \in Actors, Record(a)
  PROVE  IInv'
<1>1. /\ stage[a] = "check"
      /\ assets' = IF release[a] = 0 THEN assets ELSE release[a]
      /\ UNCHANGED <<latest, mode, tree, up, exiting, faults, causes>>
      /\ available' \in BOOLEAN
  BY DEF Record
<1>2. PICK s \in {"idle", "assets"}, i \in {1, at[a]} :
        Goto(a, s) /\ release' = [release EXCEPT ![a] = 0] /\ at' = [at EXCEPT ![a] = i]
  <2>1. CASE a \in Clicks /\ available'
    BY <2>1, LeftAlone DEF Record, IInv
  <2>2. CASE ~(a \in Clicks /\ available')
    BY <2>2 DEF Record, Ends
  <2> QED  BY <2>1, <2>2
<1>3. TypeOK'
  <2>1. assets' \in 0 .. latest /\ i \in 1 .. 3 /\ 0 \in 0 .. latest
    BY <1>1, LeftAlone DEF IInv, TypeOK
  <2> QED  BY <1>1, <1>2, <2>1, MovesKeepTypes DEF IInv, TypeOK
<1>4. \A b \in Actors : /\ (Swapping(b)' <=> Swapping(b))
                        /\ stage[b] = "copy" => stage'[b] = "copy"
                        /\ (Applying(b)' <=> Applying(b))
                        /\ Applying(b) => release'[b] = release[b] /\ at'[b] = at[b]
                        /\ stage'[b] = "check" => b # a /\ stage[b] = "check" /\ release'[b] = release[b]
  <2>1. \A b \in Actors \ {a} : release'[b] = release[b] /\ at'[b] = at[b]
    BY <1>2 DEF IInv, TypeOK
  <2> QED  BY <1>1, <1>2, <2>1, OneMoves DEF IInv, Stages, Swapping, Applying
<1>5. Forgets' /\ OneRelease' /\ Tidy'
  <2>1. Forgets'
    BY <1>1, <1>2 DEF IInv, TypeOK, Forgets, Goto
  <2>2. \A b \in Actors : Swapping(b) => Applying(b)
    BY DEF Applying
  <2> QED  BY <1>1, <1>4, <2>1, <2>2, SameApplies, SameSwaps DEF IInv
<1>6. ASSUME ~Spoilt(OrderCauses)'  PROVE Forward'
  <2>1. ~Spoilt(OrderCauses)
    BY <1>1, <1>6 DEF Spoilt
  <2>2. /\ assets \in Nat /\ assets' \in Nat /\ assets <= assets'
        /\ tree["VERSION"] \in Nat /\ \A b \in Actors : release[b] \in Nat
    <3>1. assets \in Nat /\ \A b \in Actors : release[b] \in Nat
      BY Numbers, LeftAlone DEF IInv
    <3>2. tree["VERSION"] \in Nat
      <4>1. latest \in Nat /\ "VERSION" \in Paths /\ tree \in [Paths -> 0 .. latest]
        BY Numbers, OrderOfPaths DEF IInv, TypeOK
      <4> QED  BY <4>1
    <3>3. release[a] # 0 => assets <= release[a]
      BY <1>1, <2>1 DEF IInv, Forward
    <3> QED  BY <1>1, <3>1, <3>2, <3>3
  <2>3. \A b \in Actors : stage'[b] = "check" /\ release'[b] # 0 => assets' <= release'[b]
    BY <1>1, <1>4, <2>1, <2>2 DEF IInv, Forward
  <2> QED  BY <1>1, <1>4, <2>1, <2>2, <2>3 DEF IInv, Forward
<1> QED  BY <1>3, <1>5, <1>6 DEF IInv, Forward

-----------------------------------------------------------------------------
(* The applies. *)

(* Beside another apply of the same release, or alone. *)
LEMMA ReadKeeps ==
  ASSUME IInv, NEW a \in Actors, ReadAssets(a)
  PROVE  IInv'
<1>1. /\ stage[a] = "assets"
      /\ UNCHANGED <<latest, assets, available, mode, tree, up, exiting, faults>>
  BY DEF ReadAssets, recordVars
<1>2. CASE assets = 0
  <2>1. /\ Goto(a, "idle") /\ release' = [release EXCEPT ![a] = 0]
        /\ at' = [at EXCEPT ![a] = 1] /\ causes' = causes
    BY <1>2 DEF ReadAssets, Ends
  <2>2. TypeOK'
    BY <1>1, <2>1, LeftAlone, MovesKeepTypes DEF IInv, TypeOK
  <2>3. /\ stage'[a] = "idle" /\ ~Applying(a)' /\ ~Swapping(a)' /\ ~Applying(a) /\ ~Swapping(a)
        /\ release'[a] = 0
        /\ \A b \in Actors \ {a} : /\ stage'[b] = stage[b] /\ release'[b] = release[b]
                                   /\ at'[b] = at[b]
                                   /\ (Swapping(b)' <=> Swapping(b))
                                   /\ (Applying(b)' <=> Applying(b))
    <3>1. \A b \in Actors \ {a} : release'[b] = release[b] /\ at'[b] = at[b]
      BY <2>1 DEF IInv, TypeOK
    <3>2. release'[a] = 0
      BY <2>1 DEF IInv, TypeOK
    <3>3. ~Applying(a) /\ ~Swapping(a)
      BY <1>1 DEF Applying, Swapping
    <3> QED  BY <2>1, <3>1, <3>2, <3>3, OneMoves DEF IInv, Stages
  <2>4. Forgets'
    <3>1. at'[a] = 1
      BY <2>1 DEF IInv, TypeOK
    <3> QED  BY <2>3, <3>1 DEF IInv, Forgets
  <2> QED  BY <1>1, <2>1, <2>2, <2>3, <2>4, SameApplies, SameSwaps, SameOrder DEF IInv
<1>3. CASE assets # 0
  <2>1. /\ Goto(a, "download") /\ release' = [release EXCEPT ![a] = assets]
        /\ at' = [at EXCEPT ![a] = at[a]]
        /\ causes' = IF Overlaps(a) THEN causes \cup {"overlap"} ELSE causes
    BY <1>3, LeftAlone DEF ReadAssets, IInv
  <2>2. causes \subseteq causes' /\ causes' \in SUBSET {"slow check", "overlap", "failed swap", "cut swap"}
    BY <2>1 DEF IInv, TypeOK
  <2>3. TypeOK'
    BY <1>1, <1>3, <2>1, <2>2, LeftAlone, MovesKeepTypes DEF IInv, TypeOK
  <2>4. /\ stage'[a] = "download" /\ Applying(a)' /\ ~Swapping(a)' /\ ~Swapping(a)
        /\ release'[a] = assets
        /\ \A b \in Actors \ {a} : /\ stage'[b] = stage[b] /\ release'[b] = release[b]
                                   /\ (Swapping(b)' <=> Swapping(b))
                                   /\ (Applying(b)' <=> Applying(b))
        /\ at' = at
    <3>1. \A b \in Actors \ {a} : release'[b] = release[b]
      BY <2>1 DEF IInv, TypeOK
    <3>2. release'[a] = assets /\ at' = at
      BY <2>1, LeftAlone DEF IInv, TypeOK
    <3>3. ~Swapping(a)
      BY <1>1 DEF Swapping
    <3> QED  BY <2>1, <3>1, <3>2, <3>3, OneMoves DEF IInv, Stages
  <2>5. Forgets'
    BY <1>1, <2>4 DEF IInv, Forgets
  <2>6. OneRelease'
    <3> SUFFICES ASSUME ~Spoilt({"overlap"})'
                 PROVE  \A b, c \in Actors : Applying(b)' /\ Applying(c)' => release'[b] = release'[c]
      BY DEF OneRelease
    <3>1. ~Spoilt({"overlap"}) /\ ~Overlaps(a)
      BY <2>1 DEF Spoilt
    <3>2. \A b \in Actors \ {a} : Applying(b) => release[b] = assets
      BY <3>1 DEF Overlaps
    <3> QED  BY <2>4, <3>2
  <2>7. Tidy'
    BY <1>1, <2>2, <2>4, SameSwaps DEF IInv
  <2>8. ASSUME ~Spoilt(OrderCauses)'  PROVE Forward'
    <3>1. ~Spoilt(OrderCauses)
      BY <2>2, <2>8 DEF Spoilt
    <3>2. tree["VERSION"] <= assets /\ assets <= assets
      <4>1. assets \in Nat /\ assets >= 1
        BY <1>3, Numbers DEF IInv
      <4>2. latest \in Nat /\ "VERSION" \in Paths /\ tree \in [Paths -> 0 .. latest]
        BY Numbers, OrderOfPaths DEF IInv, TypeOK
      <4> QED  BY <3>1, <4>1, <4>2 DEF IInv, Forward
    <3> QED  BY <1>1, <2>4, <3>1, <3>2 DEF IInv, Forward
  <2> QED  BY <2>3, <2>5, <2>6, <2>7, <2>8 DEF IInv, Forward
<1> QED  BY <1>2, <1>3

(* The end of an actor that has not touched the tree, or has spoilt it. *)
LEMMA EndKeeps ==
  ASSUME IInv, NEW a \in Actors, Ends(a), stage[a] # "idle",
         UNCHANGED <<latest, assets, mode, tree, up>>,
         exiting' \in BOOLEAN, exiting' # exiting => up,
         available' \in BOOLEAN, faults' \in 0 .. MaxFaults,
         causes' = IF Swapping(a) THEN causes \cup {"failed swap"} ELSE causes
  PROVE  IInv'
<1>1. /\ Goto(a, "idle") /\ release' = [release EXCEPT ![a] = 0] /\ at' = [at EXCEPT ![a] = 1]
  BY DEF Ends
<1>2. causes \subseteq causes' /\ causes' \in SUBSET {"slow check", "overlap", "failed swap", "cut swap"}
  BY DEF IInv, TypeOK
<1>3. TypeOK'
  BY <1>1, <1>2, LeftAlone, MovesKeepTypes DEF IInv, TypeOK
<1>4. /\ stage'[a] = "idle" /\ ~Applying(a)' /\ ~Swapping(a)' /\ release'[a] = 0
      /\ \A b \in Actors \ {a} : /\ stage'[b] = stage[b] /\ release'[b] = release[b]
                                 /\ at'[b] = at[b]
                                 /\ (Swapping(b)' <=> Swapping(b))
                                 /\ (Applying(b)' <=> Applying(b))
  <2>1. \A b \in Actors \ {a} : release'[b] = release[b] /\ at'[b] = at[b]
    BY <1>1 DEF IInv, TypeOK
  <2>2. release'[a] = 0
    BY <1>1 DEF IInv, TypeOK
  <2> QED  BY <1>1, <2>1, <2>2, OneMoves DEF IInv, Stages
<1>5. Forgets'
  <2>1. at'[a] = 1
    BY <1>1 DEF IInv, TypeOK
  <2> QED  BY <1>4, <2>1 DEF IInv, Forgets
<1>6. OneRelease' /\ Forward'
  BY <1>2, <1>4, SameApplies, SameOrder DEF IInv
<1>7. Tidy'
  <2>1. CASE Swapping(a)
    BY <2>1 DEF Tidy, Spoilt, SwapCauses
  <2>2. CASE ~Swapping(a)
    <3>1. stage[a] # "copy"
      BY <2>2 DEF Swapping
    <3> QED  BY <1>2, <1>4, <2>2, <3>1, SameSwaps DEF IInv
  <2> QED  BY <2>1, <2>2
<1> QED  BY <1>3, <1>5, <1>6, <1>7 DEF IInv

(* The steps of a swap. *)
LEMMA SwapMoves ==
  ASSUME IInv, NEW a \in Actors, NEW s \in {"remove", "copy", "record"}, Goto(a, s),
         stage[a] \in {"download", "remove", "copy"}, NEW i \in 1 .. 3,
         at' = [at EXCEPT ![a] = i], tree' \in [Paths -> 0 .. latest],
         UNCHANGED <<latest, assets, available, mode, up, exiting, release, faults, causes>>
  PROVE  /\ TypeOK' /\ Forgets' /\ OneRelease'
         /\ stage'[a] = s /\ at'[a] = i /\ (Swapping(a)' <=> s \in {"remove", "copy"})
         /\ Applying(a) /\ Applying(a)'
         /\ \A b \in Actors \ {a} : /\ stage'[b] = stage[b] /\ at'[b] = at[b]
                                    /\ (Swapping(b)' <=> Swapping(b))
                                    /\ (Applying(b)' <=> Applying(b))
<1>1. Applying(a) /\ release[a] # 0
  BY LeftAlone DEF IInv, Applying, Swapping
<1>2. TypeOK'
  <2>1. /\ release[a] \in 0 .. latest
        /\ release' = [release EXCEPT ![a] = release[a]]
    BY LeftAlone DEF IInv
  <2>2. /\ exiting' \in BOOLEAN /\ assets' \in 0 .. latest
        /\ available' \in BOOLEAN /\ faults' \in 0 .. MaxFaults
        /\ causes' \in SUBSET {"slow check", "overlap", "failed swap", "cut swap"}
    BY DEF IInv, TypeOK
  <2> QED  BY <1>1, <2>1, <2>2, MovesKeepTypes DEF IInv
<1>3. /\ stage'[a] = s /\ at'[a] = i /\ (Swapping(a)' <=> s \in {"remove", "copy"})
      /\ Applying(a)'
      /\ \A b \in Actors \ {a} : /\ stage'[b] = stage[b] /\ at'[b] = at[b]
                                 /\ (Swapping(b)' <=> Swapping(b))
                                 /\ (Applying(b)' <=> Applying(b))
  <2>1. at'[a] = i /\ \A b \in Actors \ {a} : at'[b] = at[b]
    BY OrderOfPaths DEF IInv, TypeOK
  <2> QED  BY <2>1, OneMoves DEF IInv, Stages
<1>4. Forgets'
  BY <1>3 DEF IInv, Forgets
<1>5. OneRelease'
  BY <1>1, <1>3, SameApplies DEF IInv
<1> QED  BY <1>1, <1>2, <1>3, <1>4, <1>5

(* The order of what is applied is not touched unless VERSION is written.  *)
LEMMA SwapForward ==
  ASSUME IInv, UNCHANGED <<assets, release, causes>>,
         NEW a \in Actors, Applying(a), OneRelease,
         \A b \in Actors : (Applying(b)' <=> Applying(b)) /\ (stage'[b] = "check" => stage[b] = "check"),
         tree'["VERSION"] \in {tree["VERSION"], 0, release[a]}
  PROVE  Forward'
<1> SUFFICES ASSUME ~Spoilt(OrderCauses)'
             PROVE  Forward'
  BY DEF Forward
<1>1. ~Spoilt(OrderCauses) /\ ~Spoilt({"overlap"})
  BY DEF Spoilt, OrderCauses
<1>2. \A b \in Actors : release[b] \in Nat
  BY Numbers, LeftAlone DEF IInv
<1>3. \A b \in Actors : Applying(b) => release[b] = release[a] /\ tree["VERSION"] <= release[b] /\ release[b] <= assets
  BY <1>1 DEF IInv, Forward, OneRelease
<1>4. tree["VERSION"] <= 1 \/ tree["VERSION"] <= assets
  BY <1>1 DEF IInv, Forward
<1>5. tree'["VERSION"] <= 1 \/ tree'["VERSION"] <= assets
  BY <1>2, <1>3, <1>4
<1>6. \A b \in Actors : Applying(b) => tree'["VERSION"] <= release[b]
  BY <1>2, <1>3
<1> QED  BY <1>1, <1>3, <1>5, <1>6 DEF IInv, Forward

(* What Tidy says of a swap: of each path, and at the end.                 *)
LEMMA TidyBy ==
  ASSUME Tidy, causes' = causes,
         ~Spoilt(SwapCauses) =>
           /\ \A i \in Steps : tree'[SwapOrder[i]] = 0 =>
                \E b \in Actors : stage'[b] = "copy" /\ at'[b] = i
           /\ \A b \in Actors, i \in Steps :
                Swapping(b)' /\ i < at'[b] => tree'[SwapOrder[i]] \in {0, release'[b]}
           /\ (\A b \in Actors : ~Swapping(b)') => Whole'
  PROVE  Tidy'
BY DEF Tidy, Spoilt

LEMMA StageKeeps ==
  ASSUME IInv, NEW a \in Actors, Stage(a)
  PROVE  IInv'
<1>1. /\ stage[a] = "download" /\ Goto(a, "remove")
      /\ UNCHANGED <<latest, assets, available, mode, tree, up, exiting, release, at, faults, causes>>
  BY DEF Stage, recordVars
<1>2. at[a] = 1 /\ at' = [at EXCEPT ![a] = 1] /\ 1 \in 1 .. 3 /\ tree' \in [Paths -> 0 .. latest]
  BY <1>1, LeftAlone DEF IInv, TypeOK, Forgets
<1>3. /\ TypeOK' /\ Forgets' /\ OneRelease'
      /\ stage'[a] = "remove" /\ at'[a] = 1 /\ Swapping(a)'
      /\ Applying(a) /\ Applying(a)'
      /\ \A b \in Actors \ {a} : /\ stage'[b] = stage[b] /\ at'[b] = at[b]
                                 /\ (Swapping(b)' <=> Swapping(b))
                                 /\ (Applying(b)' <=> Applying(b))
  BY <1>1, <1>2, SwapMoves
<1>4. Forward'
  BY <1>1, <1>3, SwapForward DEF IInv
<1>5. Tidy'
  <2> SUFFICES ASSUME ~Spoilt(SwapCauses)
               PROVE  /\ \A i \in Steps : tree'[SwapOrder[i]] = 0 =>
                           \E b \in Actors : stage'[b] = "copy" /\ at'[b] = i
                      /\ \A b \in Actors, i \in Steps :
                           Swapping(b)' /\ i < at'[b] => tree'[SwapOrder[i]] \in {0, release'[b]}
    BY <1>1, <1>3, TidyBy DEF IInv
  <2>1. ASSUME NEW i \in Steps, tree'[SwapOrder[i]] = 0
        PROVE  \E b \in Actors : stage'[b] = "copy" /\ at'[b] = i
    <3>1. PICK b \in Actors : stage[b] = "copy" /\ at[b] = i
      BY <1>1, <2>1 DEF IInv, Tidy
    <3> QED  BY <1>1, <1>3, <3>1
  <2>2. ASSUME NEW b \in Actors, NEW i \in Steps, Swapping(b)', i < at'[b]
        PROVE  tree'[SwapOrder[i]] \in {0, release'[b]}
    <3>1. b # a
      BY <1>3, <2>2 DEF Steps
    <3> QED  BY <1>1, <1>3, <2>2, <3>1 DEF IInv, Tidy
  <2> QED  BY <2>1, <2>2
<1> QED  BY <1>3, <1>4, <1>5 DEF IInv

(* The path is missing until it is copied. *)
LEMMA RemoveKeeps ==
  ASSUME IInv, NEW a \in Actors, Remove(a)
  PROVE  IInv'
<1>1. /\ stage[a] = "remove" /\ Goto(a, "copy")
      /\ tree' = [tree EXCEPT ![SwapOrder[at[a]]] = 0]
      /\ UNCHANGED <<latest, assets, available, mode, up, exiting, release, at, faults, causes>>
  BY DEF Remove, Path, recordVars
<1>2. /\ at[a] \in 1 .. 3 /\ at' = [at EXCEPT ![a] = at[a]]
      /\ \A i \in Steps : SwapOrder[i] \in Paths
      /\ \A i, j \in Steps : SwapOrder[i] = SwapOrder[j] => i = j
  BY <1>1, LeftAlone, OrderOfPaths DEF IInv, Steps
<1>3. /\ tree' \in [Paths -> 0 .. latest] /\ tree'["VERSION"] \in {tree["VERSION"], 0}
      /\ \A i \in Steps : tree'[SwapOrder[i]] = IF i = at[a] THEN 0 ELSE tree[SwapOrder[i]]
  <2>1. tree \in [Paths -> 0 .. latest] /\ 0 \in 0 .. latest
    BY Numbers DEF IInv, TypeOK
  <2> QED  BY <1>1, <1>2, <2>1, OrderOfPaths DEF Steps
<1>4. /\ TypeOK' /\ Forgets' /\ OneRelease'
      /\ stage'[a] = "copy" /\ at'[a] = at[a] /\ Swapping(a)'
      /\ Applying(a) /\ Applying(a)'
      /\ \A b \in Actors \ {a} : /\ stage'[b] = stage[b] /\ at'[b] = at[b]
                                 /\ (Swapping(b)' <=> Swapping(b))
                                 /\ (Applying(b)' <=> Applying(b))
  BY <1>1, <1>2, <1>3, SwapMoves
<1>5. Forward'
  BY <1>1, <1>3, <1>4, SwapForward DEF IInv
<1>6. Swapping(a)
  BY <1>1 DEF Swapping
<1>7. Tidy'
  <2> SUFFICES ASSUME ~Spoilt(SwapCauses)
               PROVE  /\ \A i \in Steps : tree'[SwapOrder[i]] = 0 =>
                           \E b \in Actors : stage'[b] = "copy" /\ at'[b] = i
                      /\ \A b \in Actors, i \in Steps :
                           Swapping(b)' /\ i < at'[b] => tree'[SwapOrder[i]] \in {0, release'[b]}
    BY <1>1, <1>4, TidyBy DEF IInv
  <2>1. ASSUME NEW i \in Steps, tree'[SwapOrder[i]] = 0
        PROVE  \E b \in Actors : stage'[b] = "copy" /\ at'[b] = i
    <3>1. CASE i = at[a]
      BY <1>4, <3>1
    <3>2. CASE i # at[a]
      <4>1. PICK b \in Actors : stage[b] = "copy" /\ at[b] = i
        BY <1>3, <2>1, <3>2 DEF IInv, Tidy
      <4> QED  BY <1>1, <1>4, <4>1
    <3> QED  BY <3>1, <3>2
  <2>2. ASSUME NEW b \in Actors, NEW i \in Steps, Swapping(b)', i < at'[b]
        PROVE  tree'[SwapOrder[i]] \in {0, release'[b]}
    <3>1. Swapping(b) /\ at'[b] = at[b] /\ release'[b] = release[b]
      BY <1>1, <1>4, <1>6, <2>2
    <3>2. tree[SwapOrder[i]] \in {0, release[b]}
      BY <2>2, <3>1 DEF IInv, Tidy
    <3> QED  BY <1>3, <3>1, <3>2
  <2> QED  BY <2>1, <2>2
<1> QED  BY <1>4, <1>5, <1>7 DEF IInv

(* The path is of the release, and so is each before it: after the last,   *)
(* the whole tree, unless another swap has removed one again.              *)
LEMMA CopyKeeps ==
  ASSUME IInv, NEW a \in Actors, Copy(a)
  PROVE  IInv'
<1> DEFINE next == IF at[a] < 3 THEN at[a] + 1 ELSE at[a]
           s == IF at[a] < 3 THEN "remove" ELSE "record"
<1>1. /\ stage[a] = "copy" /\ Goto(a, s)
      /\ tree' = [tree EXCEPT ![SwapOrder[at[a]]] = release[a]]
      /\ UNCHANGED <<latest, assets, available, mode, up, exiting, release, faults, causes>>
  BY OrderOfPaths DEF Copy, Path, recordVars
<1>2. /\ at[a] \in 1 .. 3 /\ next \in 1 .. 3 /\ at' = [at EXCEPT ![a] = next]
      /\ \A i \in Steps : SwapOrder[i] \in Paths
      /\ \A i, j \in Steps : SwapOrder[i] = SwapOrder[j] => i = j
  <2>1. at[a] \in 1 .. 3 /\ at = [at EXCEPT ![a] = at[a]]
    BY LeftAlone DEF IInv
  <2>2. at' = [at EXCEPT ![a] = next]
    BY <2>1, OrderOfPaths DEF Copy
  <2> QED  BY <2>1, <2>2, OrderOfPaths DEF Steps
<1>3. /\ tree' \in [Paths -> 0 .. latest] /\ tree'["VERSION"] \in {tree["VERSION"], release[a]}
      /\ \A i \in Steps : tree'[SwapOrder[i]] = IF i = at[a] THEN release[a] ELSE tree[SwapOrder[i]]
  <2>1. tree \in [Paths -> 0 .. latest] /\ release[a] \in 0 .. latest
    BY LeftAlone DEF IInv, TypeOK
  <2> QED  BY <1>1, <1>2, <2>1, OrderOfPaths DEF Steps
<1>4. /\ TypeOK' /\ Forgets' /\ OneRelease'
      /\ stage'[a] = s /\ at'[a] = next /\ (Swapping(a)' <=> at[a] < 3)
      /\ Applying(a) /\ Applying(a)'
      /\ \A b \in Actors \ {a} : /\ stage'[b] = stage[b] /\ at'[b] = at[b]
                                 /\ (Swapping(b)' <=> Swapping(b))
                                 /\ (Applying(b)' <=> Applying(b))
  <2>1. s \in {"remove", "copy", "record"} /\ (s \in {"remove", "copy"} <=> at[a] < 3)
    OBVIOUS
  <2>2. /\ next \in 1 .. 3 /\ at' = [at EXCEPT ![a] = next] /\ tree' \in [Paths -> 0 .. latest]
        /\ stage[a] \in {"download", "remove", "copy"} /\ Goto(a, s)
        /\ UNCHANGED <<latest, assets, available, mode, up, exiting, release, faults, causes>>
    BY <1>1, <1>2, <1>3
  <2> HIDE DEF s, next
  <2> QED  BY <2>1, <2>2, SwapMoves
<1>5. Forward'
  BY <1>1, <1>3, <1>4, SwapForward DEF IInv
<1>6. Swapping(a) /\ release[a] # 0
  BY <1>1, <1>4, LeftAlone DEF Swapping, IInv
<1>7. Tidy'
  <2> SUFFICES ASSUME ~Spoilt(SwapCauses)
               PROVE  /\ \A i \in Steps : tree'[SwapOrder[i]] = 0 =>
                           \E b \in Actors : stage'[b] = "copy" /\ at'[b] = i
                      /\ \A b \in Actors, i \in Steps :
                           Swapping(b)' /\ i < at'[b] => tree'[SwapOrder[i]] \in {0, release'[b]}
                      /\ (\A b \in Actors : ~Swapping(b)') => Whole'
    BY <1>1, TidyBy DEF IInv
  <2>0. ~Spoilt({"overlap"})
    BY DEF Spoilt, SwapCauses
  <2>1. ASSUME NEW i \in Steps, tree'[SwapOrder[i]] = 0
        PROVE  \E b \in Actors : stage'[b] = "copy" /\ at'[b] = i
    <3>1. i # at[a] /\ tree[SwapOrder[i]] = 0
      BY <1>3, <1>6, <2>1
    <3>2. PICK b \in Actors : stage[b] = "copy" /\ at[b] = i
      BY <3>1 DEF IInv, Tidy
    <3> QED  BY <1>4, <3>1, <3>2
  <2>2. ASSUME NEW b \in Actors, NEW i \in Steps, Swapping(b)', i < at'[b]
        PROVE  tree'[SwapOrder[i]] \in {0, release'[b]}
    <3>1. Swapping(b) /\ release'[b] = release[b] /\ release[b] = release[a]
      BY <1>1, <1>4, <1>6, <2>0, <2>2 DEF IInv, OneRelease, Applying
    <3>2. CASE i = at[a]
      BY <1>3, <3>1, <3>2
    <3>3. CASE i # at[a]
      <4>1. i < at[b]
        BY <1>2, <1>4, <2>2, <3>3 DEF Steps
      <4>2. tree[SwapOrder[i]] \in {0, release[b]}
        BY <3>1, <4>1 DEF IInv, Tidy
      <4> QED  BY <1>3, <3>1, <3>3, <4>2
    <3> QED  BY <3>2, <3>3
  <2>3. ASSUME \A b \in Actors : ~Swapping(b)'  PROVE Whole'
    <3>1. at[a] = 3
      BY <1>2, <1>4, <2>3
    <3>2. \A i \in Steps : tree'[SwapOrder[i]] # 0
      <4>1. \A b \in Actors : stage'[b] = "copy" => Swapping(b)'
        BY DEF Swapping
      <4> QED  BY <2>1, <2>3, <4>1
    <3>3. \A i \in Steps : tree'[SwapOrder[i]] = release[a]
      <4> SUFFICES ASSUME NEW i \in Steps  PROVE tree'[SwapOrder[i]] = release[a]
        OBVIOUS
      <4>1. CASE i = 3
        BY <1>3, <3>1, <4>1
      <4>2. CASE i # 3
        <5>1. i < at[a] /\ i # at[a]
          BY <3>1, <4>2 DEF Steps
        <5>2. tree[SwapOrder[i]] \in {0, release[a]}
          BY <1>6, <5>1 DEF IInv, Tidy
        <5> QED  BY <1>3, <3>2, <5>1, <5>2
      <4> QED  BY <4>1, <4>2
    <3>4. tree'["app"] = release[a] /\ tree'["VERSION"] = release[a] /\ tree'["dist"] = release[a]
      BY <3>3, OrderOfPaths DEF Steps
    <3>5. \A p \in Paths : tree'[p] = release[a]
      BY <3>4, OrderOfPaths
    <3> QED  BY <1>6, <3>5 DEF Whole
  <2> QED  BY <2>1, <2>2, <2>3
<1> QED  BY <1>4, <1>5, <1>7 DEF IInv

(* A failure spoils the tree only during the swap. *)
LEMMA FailKeeps ==
  ASSUME IInv, NEW a \in Actors, ApplyFails(a)
  PROVE  IInv'
<1>1. /\ Ends(a) /\ stage[a] # "idle"
      /\ causes' = IF Swapping(a) THEN causes \cup {"failed swap"} ELSE causes
      /\ UNCHANGED <<latest, assets, available, mode, tree, up, exiting>>
  BY DEF ApplyFails, Applying, Swapping, recordVars
<1>2. faults' \in 0 .. MaxFaults
  <2>1. faults \in 0 .. MaxFaults /\ MaxFaults \in Nat
    BY UpdateAssumption DEF IInv, TypeOK
  <2>2. faults' = faults \/ (faults < MaxFaults /\ faults' = faults + 1)
    BY DEF ApplyFails
  <2> QED  BY <2>1, <2>2
<1>3. exiting' \in BOOLEAN /\ available' \in BOOLEAN
  BY <1>1 DEF IInv, TypeOK
<1> QED  BY <1>1, <1>2, <1>3, EndKeeps

LEMMA AppliedKeeps ==
  ASSUME IInv, NEW a \in Actors, Applied(a)
  PROVE  IInv'
<1>1. /\ stage[a] = "record" /\ available' = FALSE
      /\ UNCHANGED <<latest, assets, mode, tree, faults>>
      /\ faults \in 0 .. MaxFaults
  BY DEF Applied, IInv, TypeOK
<1>2. CASE a = Hourly
  BY <1>1, <1>2, DiesKeeps DEF Applied
<1>3. CASE a # Hourly
  <2>1. Ends(a) /\ exiting' = TRUE /\ up' = up /\ causes' = causes
    BY <1>3 DEF Applied
  <2>2. up /\ ~Swapping(a)
    BY <1>1 DEF IInv, TypeOK, Swapping
  <2> QED  BY <1>1, <2>1, <2>2, EndKeeps
<1> QED  BY <1>2, <1>3

-----------------------------------------------------------------------------
(* Every step of the self-update keeps the invariant. *)
LEMMA UpdateStep == IInv /\ [Next]_vars => IInv'
<1> SUFFICES ASSUME IInv, [Next]_vars
             PROVE  IInv'
  OBVIOUS
<1>1. CASE Publish \/ (\E m \in {"manual", "auto"} : SetMode(m)) \/ RequestRestart \/ Start
  BY <1>1, AroundKeeps
<1>2. CASE AutoDue
  BY <1>2, AutoKeeps DEF Actors
<1>3. ASSUME NEW a \in Actors, Fetch(a) \/ Record(a)  PROVE IInv'
  BY <1>3, FetchKeeps, RecordKeeps
<1>4. ASSUME NEW a \in Actors, ApplyStep(a)  PROVE IInv'
  BY <1>4, ReadKeeps, StageKeeps, RemoveKeeps, CopyKeeps, FailKeeps, AppliedKeeps DEF ApplyStep
<1>5. CASE Exit \/ Crash
  <2>1. /\ Dies /\ causes' = Cut /\ UNCHANGED <<latest, assets, available, mode, tree>>
        /\ faults' = faults \/ (faults < MaxFaults /\ faults' = faults + 1)
    BY <1>5 DEF Exit, Crash, recordVars
  <2>2. faults' \in 0 .. MaxFaults
    <3>1. faults \in 0 .. MaxFaults /\ MaxFaults \in Nat
      BY UpdateAssumption DEF IInv, TypeOK
    <3> QED  BY <2>1, <3>1
  <2>3. available' \in BOOLEAN
    BY <2>1 DEF IInv, TypeOK
  <2> QED  BY <2>1, <2>2, <2>3, DiesKeeps
<1>6. CASE UNCHANGED vars
  <2>1. UNCHANGED <<latest, assets, available, mode, tree, up, exiting, stage, release, at, faults, causes>>
    BY <1>6 DEF vars, recordVars, actorVars
  <2>2. \A a \in Actors : (Applying(a)' <=> Applying(a)) /\ (Swapping(a)' <=> Swapping(a))
    BY <2>1 DEF Applying, Swapping
  <2>3. TypeOK' /\ Forgets'
    BY <2>1, <2>2 DEF IInv, TypeOK, Forgets
  <2> QED  BY <2>1, <2>2, <2>3, SameApplies, SameSwaps, SameOrder DEF IInv
<1> QED
  BY <1>1, <1>2, <1>3, <1>4, <1>5, <1>6 DEF Next

(* The types of the self-update, what a swap has done to the tree, and the *)
(* order of the releases hold throughout.                                  *)
THEOREM UpdateIInvHolds == Spec => []IInv
BY UpdateInit, UpdateStep, PTL DEF Spec

(* Outside a swap the installed tree is one release, but for the three     *)
(* named causes.                                                           *)
THEOREM MixedOnlyByNamedCauseHolds == Spec => []MixedOnlyByNamedCause
<1>1. IInv => MixedOnlyByNamedCause
  BY DEF IInv, Tidy, Spoilt, SwapCauses, MixedOnlyByNamedCause
<1> QED  BY <1>1, UpdateIInvHolds, PTL

(* An apply takes the version back only beside another apply, or after a   *)
(* slow check.                                                             *)
THEOREM DowngradeOnlyByNamedCauseHolds == Spec => []DowngradeOnlyByNamedCause
<1>1. IInv => DowngradeOnlyByNamedCause
  <2> SUFFICES ASSUME IInv, NEW a \in Actors, stage[a] = "remove", ~Spoilt(OrderCauses)
               PROVE  release[a] >= tree["VERSION"]
    BY DEF DowngradeOnlyByNamedCause, Spoilt, OrderCauses
  <2>1. Applying(a)
    BY DEF Applying, Swapping
  <2> QED  BY <2>1 DEF IInv, Forward
<1> QED  BY <1>1, UpdateIInvHolds, PTL
=============================================================================
