--------------------------- MODULE AccountsProofs ---------------------------
(***************************************************************************)
(* Proofs about the accounts, for every set of accounts and attempts and   *)
(* every limit: how often a password can be guessed, how a permanent lock  *)
(* ends, and who can be the default administrator.                         *)
(***************************************************************************)
EXTENDS Accounts, FiniteSetTheorems, TLAPS

(* The wrong passwords that are about to be checked against an account.    *)
Checking(u) == {a \in Attempts : /\ attempt[a].at = "password"
                                 /\ attempt[a].of = u
                                 /\ ~attempt[a].right}

(* Every wrong password weighs exactly once: it is in the count, in a      *)
(* lock, or was given for an export, which weighs nothing on the account.  *)
(* From the second lock on the account is locked for good, and besides the *)
(* exports only the attempts that had read its row before can be added.    *)
Weighed(u) ==
  /\ wrong[u] = count[u] + Limit * lockouts[u] + exported[u]
  /\ lockouts[u] >= 2 =>
       /\ u \in permanent
       /\ wrong[u] + Cardinality(Checking(u)) <= 2 * Limit + Cardinality(Attempts) - 1 + exported[u]

(* The flag is on one account at most; whoever has it, or has been checked *)
(* to get it, is an active administrator or was disqualified since.        *)
Flagged ==
  /\ \A u, v \in default : u = v
  /\ \A u \in default : u \in active \cap admins \/ u \in changed
  /\ choosing \in there => choosing \in active \cap admins \/ choosing \in changed

IInv == TypeOK /\ (\A u \in Targets : Weighed(u)) /\ Flagged

-----------------------------------------------------------------------------
(* Arithmetic. *)

LEMMA OneLockMore ==
  ASSUME NEW k \in Nat, NEW n \in Nat
  PROVE  k * (n + 1) = k * n + k /\ k * 0 = 0 /\ k * 1 = k /\ k * 2 = k + k /\ k * n \in Nat
OBVIOUS

(* Attempts that run at once can be counted. *)
LEMMA CheckingIsCounted ==
  ASSUME NEW S \in SUBSET Attempts
  PROVE  /\ IsFiniteSet(S) /\ Cardinality(S) \in Nat
         /\ Cardinality(Attempts) \in Nat
         /\ \A a \in S : Cardinality(S \ {a}) = Cardinality(S) - 1
         /\ \A a \in Attempts : S \subseteq Attempts \ {a} => Cardinality(S) <= Cardinality(Attempts) - 1
<1>1. IsFiniteSet(S) /\ Cardinality(S) \in Nat /\ Cardinality(Attempts) \in Nat
  BY FS_Subset, FS_CardinalityType, AccountsAssumption
<1>2. \A a \in S : Cardinality(S \ {a}) = Cardinality(S) - 1
  BY <1>1, FS_RemoveElement
<1>3. ASSUME NEW a \in Attempts, S \subseteq Attempts \ {a}
      PROVE  Cardinality(S) <= Cardinality(Attempts) - 1
  <2>1. IsFiniteSet(Attempts \ {a}) /\ Cardinality(Attempts \ {a}) = Cardinality(Attempts) - 1
    BY FS_RemoveElement, AccountsAssumption
  <2> QED  BY <1>3, <2>1, FS_Subset
<1> QED  BY <1>1, <1>2, <1>3

LEMMA AccountsInit == Init => IInv
<1> SUFFICES ASSUME Init  PROVE IInv
  OBVIOUS
<1> USE AccountsAssumption
<1>1. TypeOK
  <2>1. /\ made \in SUBSET Users /\ there \in SUBSET made /\ {active, admins, default} \subseteq SUBSET there
        /\ choosing \in made \cup {Nobody} /\ changed \in SUBSET Users
    BY DEF Init
  <2>2. 0 \in 0 .. MaxEdits /\ 0 \in 0 .. Limit - 1 /\ 0 \in 0 .. AddressLimit - 1
    OBVIOUS
  <2>3. Idle \in Where /\ Idle.at = "idle"
    BY DEF Idle, Where
  <2>4. attempt \in [Attempts -> Where] /\ \A a \in Attempts : attempt[a].at = "idle"
    BY <2>3 DEF Init
  <2>5. blocked \in BOOLEAN
    BY DEF Init
  <2> QED  BY <2>1, <2>2, <2>4, <2>5 DEF Init, TypeOK
<1>2. ASSUME NEW u \in Targets  PROVE Weighed(u)
  BY OneLockMore DEF Init, Weighed
<1>3. Flagged
  BY DEF Init, Flagged
<1> QED  BY <1>1, <1>2, <1>3 DEF IInv

-----------------------------------------------------------------------------
(* The roster. *)

(* Steps that leave the locks and the attempts leave their weight.         *)
LEMMA SameWeight ==
  ASSUME NEW u \in Targets, Weighed(u), UNCHANGED <<lockVars, attempt>>
  PROVE  Weighed(u)'
BY DEF Weighed, Checking, lockVars

LEMMA SameRoster ==
  ASSUME Flagged, UNCHANGED rosterVars
  PROVE  Flagged'
BY DEF Flagged, rosterVars

(* Creating, changing, deactivating, activating and deleting an account,   *)
(* provisioning it, and choosing the default administrator.                *)
LEMMA RosterKeepsTypes ==
  ASSUME TypeOK, UNCHANGED <<lockVars, addressVars, attempt>>,
         made' \in SUBSET Users, there' \in SUBSET made',
         {active', admins', default'} \subseteq SUBSET there',
         choosing' \in made' \cup {Nobody}, changed' \in SUBSET Users,
         edits' \in 0 .. MaxEdits, signedIn' \in Users \cup {Nobody}
  PROVE  TypeOK'
BY DEF TypeOK, lockVars, addressVars

LEMMA EditIsCounted ==
  ASSUME TypeOK, Edit
  PROVE  edits' \in 0 .. MaxEdits /\ signedIn' \in Users \cup {Nobody}
BY AccountsAssumption DEF TypeOK, Edit

LEMMA CreateKeeps ==
  ASSUME IInv, NEW u \in Users, NEW admin \in BOOLEAN, CreateUser(u, admin)
  PROVE  IInv'
<1>1. /\ u \notin made /\ made' = made \cup {u} /\ there' = there \cup {u}
      /\ active' = active \cup {u} /\ admins' \in {admins \cup {u}, admins \ {u}}
      /\ UNCHANGED <<default, choosing, changed, lockVars, addressVars, attempt>>
      /\ Edit
  BY DEF CreateUser, SetRole, Edit
<1>2. TypeOK'
  BY <1>1, EditIsCounted, RosterKeepsTypes DEF IInv, TypeOK
<1>3. Flagged'
  BY <1>1, AccountsAssumption DEF IInv, TypeOK, Flagged
<1> QED  BY <1>1, <1>2, <1>3, SameWeight DEF IInv

(* An account that loses its role or is switched off is disqualified.      *)
LEMMA DisqualifyKeeps ==
  ASSUME IInv, NEW u \in there, Edit, UNCHANGED <<made, there, default, choosing, lockVars>>,
         \/ active' = active /\ admins' = admins \ {u} /\ Disqualifies(u)
         \/ active' = active \ {u} /\ admins' = admins /\ Disqualifies(u)
         \/ active' = active /\ admins' = admins \cup {u} /\ changed' = changed
         \/ active' = active \cup {u} /\ admins' = admins /\ changed' = changed
  PROVE  IInv'
<1>1. TypeOK'
  BY EditIsCounted, RosterKeepsTypes DEF IInv, TypeOK, Edit, Disqualifies
<1>2. Flagged'
  BY DEF IInv, TypeOK, Flagged, Disqualifies
<1> QED  BY <1>1, <1>2, SameWeight DEF IInv, Edit

LEMMA DeleteKeeps ==
  ASSUME IInv, NEW u \in Users, DeleteUser(u)
  PROVE  IInv'
<1>1. /\ there' = there \ {u} /\ active' = active \ {u} /\ admins' = admins \ {u}
      /\ default' = default \ {u} /\ Edit
      /\ UNCHANGED <<made, choosing, changed, lockVars, addressVars, attempt>>
  BY DEF DeleteUser, Edit
<1>2. TypeOK'
  BY <1>1, EditIsCounted, RosterKeepsTypes DEF IInv, TypeOK
<1>3. Flagged'
  BY <1>1 DEF IInv, Flagged
<1> QED  BY <1>1, <1>2, <1>3, SameWeight DEF IInv

(* Between the check and the flag the account may be disqualified or gone. *)
LEMMA DefaultKeeps ==
  ASSUME IInv, (\E u \in Users : CheckDefaultAdmin(u)) \/ SetDefaultAdmin
  PROVE  IInv'
<1>1. CASE SetDefaultAdmin
  <2>1. /\ choosing' = Nobody
        /\ default' = IF choosing \in there THEN {choosing} ELSE {}
        /\ UNCHANGED <<made, there, active, admins, changed, edits, lockVars, addressVars, attempt>>
        /\ signedIn' = Nobody
    BY <1>1 DEF SetDefaultAdmin, MovesFlag
  <2>2. TypeOK'
    BY <2>1, RosterKeepsTypes DEF IInv, TypeOK
  <2>3. Flagged'
    BY <2>1, AccountsAssumption DEF IInv, TypeOK, Flagged
  <2> QED  BY <2>1, <2>2, <2>3, SameWeight DEF IInv
<1>2. ASSUME NEW u \in Users, CheckDefaultAdmin(u)  PROVE IInv'
  <2>1. /\ u \in there /\ u \in active \cap admins /\ choosing' = u
        /\ changed' = changed \ ({u} \ default) /\ Edit
        /\ UNCHANGED <<made, there, active, admins, default, lockVars, addressVars, attempt>>
    BY <1>2 DEF CheckDefaultAdmin, MayBeDefault, Edit
  <2>2. TypeOK'
    BY <2>1, EditIsCounted, RosterKeepsTypes DEF IInv, TypeOK
  <2>3. Flagged'
    BY <2>1 DEF IInv, Flagged
  <2> QED  BY <2>1, <2>2, <2>3, SameWeight DEF IInv
<1> QED  BY <1>1, <1>2

LEMMA SamlKeeps ==
  ASSUME IInv, NEW u \in Users, NEW admin \in BOOLEAN, SamlCallback(u, admin)
  PROVE  IInv'
<1>1. /\ u \notin made \/ u \in active
      /\ made' = made \cup {u} /\ there' = there \cup {u} /\ active' = active \cup {u}
      /\ \/ admins' = admins \cup {u} /\ UNCHANGED changed
         \/ admins' = admins \ {u} /\ Disqualifies(u)
      /\ Edit
      /\ UNCHANGED <<default, choosing, lockVars, addressVars, attempt>>
  BY DEF SamlCallback, SetRole, Edit
<1>2. TypeOK'
  BY <1>1, EditIsCounted, RosterKeepsTypes DEF IInv, TypeOK, Disqualifies
<1>3. Flagged'
  BY <1>1, AccountsAssumption DEF IInv, TypeOK, Flagged, Disqualifies
<1> QED  BY <1>1, <1>2, <1>3, SameWeight DEF IInv

-----------------------------------------------------------------------------
(* The attempts. *)

(* An attempt that does not come to check a password adds no weight.       *)
LEMMA AttemptsOnlyLeave ==
  ASSUME TypeOK, NEW u \in Targets, Weighed(u), UNCHANGED lockVars,
         Checking(u)' \subseteq Checking(u)
  PROVE  Weighed(u)'
<1>1. Cardinality(Checking(u)') <= Cardinality(Checking(u))
  <2>1. IsFiniteSet(Checking(u))
    BY CheckingIsCounted DEF Checking
  <2> QED  BY <2>1, FS_Subset
<1>2. Cardinality(Checking(u)') \in Nat /\ Cardinality(Checking(u)) \in Nat
  <2>1. Checking(u) \in SUBSET Attempts /\ Checking(u)' \in SUBSET Attempts
    BY DEF Checking
  <2> QED  BY <2>1, CheckingIsCounted
<1>3. /\ count'[u] = count[u] /\ lockouts'[u] = lockouts[u] /\ wrong'[u] = wrong[u]
      /\ permanent' = permanent /\ exported'[u] = exported[u]
  BY DEF lockVars
<1>4. /\ wrong[u] \in Nat /\ lockouts[u] \in Nat /\ exported[u] \in Nat
      /\ Limit \in Nat /\ Cardinality(Attempts) \in Nat
  BY AccountsAssumption, CheckingIsCounted DEF TypeOK
<1>5. ASSUME lockouts'[u] >= 2
      PROVE  /\ u \in permanent'
             /\ wrong'[u] + Cardinality(Checking(u)')
               <= 2 * Limit + Cardinality(Attempts) - 1 + exported'[u]
  BY <1>1, <1>2, <1>3, <1>4, <1>5 DEF Weighed
<1> QED  BY <1>3, <1>5 DEF Weighed

(* An attempt that begins, ends, or goes to count against the address.     *)
LEMMA MovesAside ==
  ASSUME IInv, NEW a \in Attempts, UNCHANGED <<rosterVars, lockVars>>,
         failures' \in 0 .. AddressLimit - 1, blocked' \in BOOLEAN,
         signedIn' \in Users \cup {Nobody},
         NEW w \in Where, w.at # "password", attempt' = [attempt EXCEPT ![a] = w]
  PROVE  IInv'
<1>1. TypeOK'
  BY DEF IInv, TypeOK, rosterVars, lockVars
<1>2. ASSUME NEW u \in Targets  PROVE Checking(u)' \subseteq Checking(u)
  BY DEF IInv, TypeOK, Checking
<1> QED  BY <1>1, <1>2, AttemptsOnlyLeave, SameRoster DEF IInv

(* The places an attempt goes to. *)
LEMMA Places ==
  ASSUME TypeOK, NEW a \in Attempts
  PROVE  /\ Idle \in Where /\ Idle.at # "password"
         /\ [attempt[a] EXCEPT !.at = "count"] \in Where
         /\ [attempt[a] EXCEPT !.at = "count"].at # "password"
         /\ Goes(a, "count") => attempt' = [attempt EXCEPT ![a] = [attempt[a] EXCEPT !.at = "count"]]
         /\ Ends(a) => attempt' = [attempt EXCEPT ![a] = Idle]
BY DEF TypeOK, Where, Idle, Goes, Ends

LEMMA BeginKeeps ==
  ASSUME IInv, NEW a \in Attempts, NEW form \in {"login", "change"},
         NEW u \in Targets \cup {Nobody}, NEW right \in BOOLEAN, Begin(a, form, u, right)
  PROVE  IInv'
<1> DEFINE w == [at |-> "row", form |-> form, of |-> u, right |-> right]
<1>1. w \in Where /\ w.at # "password"
  BY DEF Where
<1>2. /\ attempt' = [attempt EXCEPT ![a] = w] /\ signedIn' = Nobody
      /\ UNCHANGED <<rosterVars, lockVars, failures, blocked>>
  BY DEF Begin, addressVars
<1> QED  BY <1>1, <1>2, MovesAside DEF IInv, TypeOK

(* A password comes to be checked only against an account that is not      *)
(* locked: one with less than two locks, or unlocked since.                *)
LEMMA ComesToPassword ==
  ASSUME IInv, NEW a \in Attempts, attempt[a].at = "row",
         attempt[a].of \in there, ~LockedNow(attempt[a].of), Goes(a, "password"),
         UNCHANGED <<rosterVars, lockVars, addressVars>>, signedIn' = Nobody
  PROVE  IInv'
<1>1. attempt[a].of \in Targets
  BY AccountsAssumption DEF IInv, TypeOK, Where
<1>2. TypeOK'
  <2>1. [attempt[a] EXCEPT !.at = "password"] \in Where
    BY DEF IInv, TypeOK, Where
  <2>2. attempt' \in [Attempts -> Where]
    BY <2>1 DEF IInv, TypeOK, Goes
  <2>3. \A b \in Attempts : attempt'[b].at = "password" => attempt'[b].of \in Targets
    BY <1>1 DEF IInv, TypeOK, Where, Goes
  <2> QED  BY <2>2, <2>3 DEF IInv, TypeOK, rosterVars, lockVars, addressVars
<1>3. ASSUME NEW u \in Targets  PROVE Weighed(u)'
  <2>1. CASE u = attempt[a].of
    BY <2>1 DEF IInv, Weighed, LockedNow, lockVars
  <2>2. CASE u # attempt[a].of
    <3>1. Checking(u)' \subseteq Checking(u)
      BY <2>2 DEF IInv, TypeOK, Where, Checking, Goes
    <3> QED  BY <3>1, AttemptsOnlyLeave DEF IInv
  <2> QED  BY <2>1, <2>2
<1> QED  BY <1>2, <1>3, SameRoster DEF IInv

(* The row is read: the attempt ends, is counted, or comes to its password.*)
LEMMA RowKeeps ==
  ASSUME IInv, NEW a \in Attempts, LoginReadsRow(a) \/ ChangeReadsRow(a)
  PROVE  IInv'
<1>1. /\ attempt[a].at = "row" /\ signedIn' = Nobody
      /\ UNCHANGED <<rosterVars, lockVars, addressVars>>
  BY DEF LoginReadsRow, ChangeReadsRow
<1>2. \/ Goes(a, "count") \/ Ends(a)
      \/ Goes(a, "password") /\ attempt[a].of \in there /\ ~LockedNow(attempt[a].of)
  BY DEF LoginReadsRow, ChangeReadsRow, IInv, TypeOK
<1>3. failures' \in 0 .. AddressLimit - 1 /\ blocked' \in BOOLEAN
  BY <1>1 DEF IInv, TypeOK, addressVars
<1> QED  BY <1>1, <1>2, <1>3, Places, MovesAside, ComesToPassword DEF IInv

LEMMA AddressKeeps ==
  ASSUME IInv, NEW a \in Attempts, AddressFailure(a)
  PROVE  IInv'
<1>1. failures' \in 0 .. AddressLimit - 1
  BY AccountsAssumption DEF AddressFailure, StartsAgain, IInv, TypeOK
<1>2. blocked' \in BOOLEAN
  BY DEF AddressFailure, IInv, TypeOK
<1> QED  BY <1>1, <1>2, Places, MovesAside DEF AddressFailure, IInv, TypeOK

-----------------------------------------------------------------------------
(* The checks of a password. *)

(* A wrong password: its attempt leaves, its weight stays. The second lock *)
(* is for good, and the attempts beside this one are all that can follow.  *)
LEMMA WrongAddsWeight ==
  ASSUME IInv, NEW a \in Attempts, attempt[a].at = "password", ~attempt[a].right,
         NEW u \in Targets, u = attempt[a].of, CountsFailure(u),
         wrong' = [wrong EXCEPT ![u] = @ + 1], UNCHANGED exported, Goes(a, "count")
  PROVE  Weighed(u)'
<1> USE AccountsAssumption
<1>1. /\ Checking(u) \in SUBSET Attempts /\ a \in Checking(u)
      /\ Checking(u)' = Checking(u) \ {a}
  <2>1. /\ attempt'[a].at = "count"
        /\ \A b \in Attempts \ {a} : attempt'[b] = attempt[b]
    BY DEF IInv, TypeOK, Where, Goes
  <2> QED  BY <2>1 DEF Checking
<1>2. /\ Cardinality(Checking(u)) \in Nat /\ Cardinality(Attempts) \in Nat
      /\ Cardinality(Checking(u)') = Cardinality(Checking(u)) - 1
      /\ Cardinality(Checking(u)') <= Cardinality(Attempts) - 1
  BY <1>1, CheckingIsCounted
<1>3. /\ wrong[u] \in Nat /\ lockouts[u] \in Nat /\ count[u] \in 0 .. Limit - 1 /\ Limit \in Nat
      /\ exported[u] \in Nat /\ exported'[u] = exported[u]
      /\ wrong'[u] = wrong[u] + 1 /\ wrong[u] = count[u] + Limit * lockouts[u] + exported[u]
  BY DEF IInv, TypeOK, Weighed
<1>4. CASE ReachesLimit(u)
  <2>0. count[u] + 1 = Limit
    <3>1. count[u] \in 0 .. Limit - 1 /\ Limit \in Nat
      BY <1>3
    <3>2. count[u] + 1 >= Limit
      BY <1>4 DEF ReachesLimit
    <3> QED  BY <3>1, <3>2
  <2>1. /\ count'[u] = 0 /\ lockouts'[u] = lockouts[u] + 1 /\ count[u] + 1 = Limit
        /\ lockouts[u] + 1 >= 2 => u \in permanent'
    <3>1. /\ count' = [count EXCEPT ![u] = 0] /\ lockouts' = [lockouts EXCEPT ![u] = @ + 1]
          /\ lockouts[u] + 1 >= 2 => permanent' = permanent \cup {u}
      BY <1>4 DEF CountsFailure, SecondLock
    <3> QED  BY <2>0, <3>1 DEF IInv, TypeOK
  <2>2. wrong'[u] = count'[u] + Limit * lockouts'[u] + exported'[u]
    <3>1. Limit * (lockouts[u] + 1) = Limit * lockouts[u] + Limit /\ Limit * lockouts[u] \in Nat
      BY <1>3, OneLockMore
    <3>2. Limit * lockouts'[u] = Limit * lockouts[u] + Limit
      BY <2>1, <3>1
    <3>3. wrong'[u] = count[u] + Limit * lockouts[u] + exported[u] + 1
      BY <1>3
    <3> DEFINE m == Limit * lockouts[u]
    <3>4. m \in Nat /\ wrong'[u] = count[u] + m + exported[u] + 1 /\ Limit * lockouts'[u] = m + Limit
      BY <3>1, <3>2, <3>3
    <3>5. /\ count[u] \in Nat /\ Limit \in Nat /\ count[u] + 1 = Limit /\ count'[u] = 0
          /\ exported[u] \in Nat /\ exported'[u] = exported[u]
      BY <1>3, <2>1
    <3> HIDE DEF m
    <3> QED  BY <3>4, <3>5
  <2>3. CASE lockouts[u] = 0
    BY <2>1, <2>2, <2>3 DEF Weighed
  <2>4. CASE lockouts[u] = 1
    <3>1. wrong'[u] = 2 * Limit + exported[u]
      BY <1>3, <2>1, <2>4
    <3> QED  BY <1>2, <1>3, <2>1, <2>2, <2>4, <3>1 DEF Weighed
  <2>5. CASE lockouts[u] >= 2
    <3>1. wrong[u] + Cardinality(Checking(u)) <= 2 * Limit + Cardinality(Attempts) - 1 + exported[u]
      BY <2>5 DEF IInv, Weighed
    <3>2. wrong'[u] + Cardinality(Checking(u)')
            <= 2 * Limit + Cardinality(Attempts) - 1 + exported'[u]
      <4>1. wrong'[u] = wrong[u] + 1 /\ wrong[u] \in Nat /\ exported'[u] = exported[u]
            /\ exported[u] \in Nat /\ Limit \in Nat
        BY <1>3
      <4> QED  BY <1>2, <3>1, <4>1
    <3>3. u \in permanent'
      BY <1>3, <2>1, <2>5
    <3> QED  BY <2>2, <3>2, <3>3 DEF Weighed
  <2>6. lockouts[u] = 0 \/ lockouts[u] = 1 \/ lockouts[u] >= 2
    <3>1. lockouts[u] \in Nat
      BY <1>3
    <3> QED  BY <3>1
  <2> QED  BY <2>3, <2>4, <2>5, <2>6
<1>5. CASE ~ReachesLimit(u)
  <2>1. /\ count'[u] = count[u] + 1 /\ lockouts'[u] = lockouts[u] /\ permanent' = permanent
    BY <1>5 DEF CountsFailure, IInv, TypeOK
  <2>2. wrong'[u] = count'[u] + Limit * lockouts'[u] + exported'[u]
    BY <1>3, <2>1, OneLockMore
  <2>3. CASE lockouts[u] >= 2
    <3>1. /\ u \in permanent
          /\ wrong[u] + Cardinality(Checking(u)) <= 2 * Limit + Cardinality(Attempts) - 1 + exported[u]
      BY <2>3 DEF IInv, Weighed
    <3> QED  BY <1>2, <1>3, <2>1, <2>2, <3>1 DEF Weighed
  <2>4. CASE ~(lockouts[u] >= 2)
    BY <2>1, <2>2, <2>4 DEF Weighed
  <2> QED  BY <2>3, <2>4
<1> QED  BY <1>4, <1>5

(* The other accounts are as they were. *)
LEMMA OthersKeepWeight ==
  ASSUME IInv, NEW u \in Targets, NEW v \in Targets \ {u},
         count'[v] = count[v], lockouts'[v] = lockouts[v], wrong'[v] = wrong[v],
         exported'[v] = exported[v],
         v \in permanent => v \in permanent', Checking(v)' \subseteq Checking(v)
  PROVE  Weighed(v)'
<1>1. /\ Cardinality(Checking(v)') <= Cardinality(Checking(v))
      /\ Cardinality(Checking(v)') \in Nat /\ Cardinality(Checking(v)) \in Nat
  <2>1. Checking(v) \in SUBSET Attempts /\ Checking(v)' \in SUBSET Attempts
    BY DEF Checking
  <2> QED  BY <2>1, CheckingIsCounted, FS_Subset
<1>2. wrong[v] \in Nat /\ exported[v] \in Nat /\ Limit \in Nat /\ Cardinality(Attempts) \in Nat
  BY AccountsAssumption, CheckingIsCounted DEF IInv, TypeOK
<1>3. /\ wrong[v] = count[v] + Limit * lockouts[v] + exported[v]
      /\ lockouts[v] >= 2 =>
           /\ v \in permanent
           /\ wrong[v] + Cardinality(Checking(v)) <= 2 * Limit + Cardinality(Attempts) - 1 + exported[v]
  BY DEF IInv, Weighed
<1>4. lockouts'[v] >= 2 =>
        /\ v \in permanent'
        /\ wrong'[v] + Cardinality(Checking(v)')
             <= 2 * Limit + Cardinality(Attempts) - 1 + exported'[v]
  BY <1>1, <1>2, <1>3
<1> QED  BY <1>3, <1>4 DEF Weighed

LEMMA WrongKeeps ==
  ASSUME IInv, NEW a \in Attempts, WrongPassword(a)
  PROVE  IInv'
<1> DEFINE u == attempt[a].of
<1> USE AccountsAssumption
<1>1. /\ attempt[a].at = "password" /\ ~attempt[a].right /\ u \in Targets
      /\ signedIn' = Nobody /\ UNCHANGED <<rosterVars, addressVars>>
  BY DEF WrongPassword, IInv, TypeOK
<1>2. CASE u \notin there
  <2>1. UNCHANGED lockVars /\ Ends(a)
    BY <1>2 DEF WrongPassword
  <2>2. failures' \in 0 .. AddressLimit - 1 /\ blocked' \in BOOLEAN
    BY <1>1 DEF IInv, TypeOK, addressVars
  <2> QED  BY <1>1, <2>1, <2>2, Places, MovesAside DEF IInv
<1>3. CASE u \in there
  <2>1. /\ CountsFailure(u) /\ wrong' = [wrong EXCEPT ![u] = @ + 1] /\ UNCHANGED exported
        /\ Goes(a, "count")
    BY <1>3 DEF WrongPassword
  <2>2. /\ \A v \in Targets \ {u} : /\ count'[v] = count[v] /\ lockouts'[v] = lockouts[v]
                                   /\ wrong'[v] = wrong[v] /\ exported'[v] = exported[v]
        /\ permanent \subseteq permanent'
    BY <2>1 DEF CountsFailure, IInv, TypeOK
  <2>3. \A v \in Targets : Checking(v)' \subseteq Checking(v)
    BY <2>1, Places DEF IInv, TypeOK, Checking
  <2>4. /\ count' \in [Targets -> 0 .. Limit - 1] /\ lockouts' \in [Targets -> Nat]
        /\ temporary' \in [Targets -> {"none", "running", "over"}]
        /\ permanent' \in SUBSET Targets /\ {wrong', exported'} \subseteq [Targets -> Nat]
    <3>1. CASE ReachesLimit(u)
      BY <1>1, <2>1, <3>1 DEF CountsFailure, IInv, TypeOK
    <3>2. CASE ~ReachesLimit(u)
      BY <1>1, <2>1, <3>2 DEF CountsFailure, ReachesLimit, IInv, TypeOK
    <3> QED  BY <3>1, <3>2
  <2>5. /\ attempt' \in [Attempts -> Where]
        /\ \A b \in Attempts : attempt'[b].at = "password" => attempt'[b].of \in Targets
    BY <2>1, Places DEF IInv, TypeOK
  <2>6. TypeOK'
    BY <1>1, <2>4, <2>5 DEF IInv, TypeOK, rosterVars, addressVars
  <2>7. ASSUME NEW v \in Targets  PROVE Weighed(v)'
    <3>1. CASE v = u
      BY <1>1, <2>1, <3>1, WrongAddsWeight
    <3>2. CASE v # u
      BY <1>1, <2>2, <2>3, <3>2, OthersKeepWeight
    <3> QED  BY <3>1, <3>2
  <2>8. Flagged'
    BY <1>1, SameRoster DEF IInv
  <2> QED  BY <2>6, <2>7, <2>8 DEF IInv
<1> QED  BY <1>2, <1>3

(* Success and unlock take the weight off. *)
LEMMA ClearedKeeps ==
  ASSUME IInv, NEW u \in Targets, ClearsLock(u), permanent' \in {permanent, permanent \ {u}},
         \/ UNCHANGED attempt
         \/ \E a \in Attempts : Ends(a),
         UNCHANGED <<made, there, active, admins, default, choosing, changed, addressVars>>,
         edits' \in 0 .. MaxEdits, signedIn' \in Users \cup {Nobody}
  PROVE  IInv'
<1> USE AccountsAssumption
<1>1. /\ count' \in [Targets -> 0 .. Limit - 1] /\ lockouts' \in [Targets -> Nat]
      /\ temporary' \in [Targets -> {"none", "running", "over"}]
      /\ permanent' \in SUBSET Targets /\ {wrong', exported'} \subseteq [Targets -> Nat]
      /\ count'[u] = 0 /\ lockouts'[u] = 0 /\ wrong'[u] = 0 /\ exported'[u] = 0
  BY DEF ClearsLock, IInv, TypeOK
<1>2. /\ attempt' \in [Attempts -> Where]
      /\ \A b \in Attempts : attempt'[b].at = "password" => attempt'[b].of \in Targets
  <2>1. CASE UNCHANGED attempt
    BY <2>1 DEF IInv, TypeOK
  <2>2. ASSUME NEW a \in Attempts, Ends(a)
        PROVE  /\ attempt' \in [Attempts -> Where]
               /\ \A b \in Attempts : attempt'[b].at = "password" => attempt'[b].of \in Targets
    <3>1. attempt' = [attempt EXCEPT ![a] = Idle] /\ Idle \in Where /\ Idle.at # "password"
      BY <2>2, Places DEF IInv
    <3> QED  BY <3>1 DEF IInv, TypeOK
  <2> QED  BY <2>1, <2>2
<1>3. \A v \in Targets : Checking(v)' \subseteq Checking(v)
  BY Places DEF IInv, TypeOK, Checking
<1>4. TypeOK'
  BY <1>1, <1>2 DEF IInv, TypeOK, addressVars
<1>5. Weighed(u)'
  BY <1>1, OneLockMore DEF Weighed
<1>6. ASSUME NEW v \in Targets \ {u}  PROVE Weighed(v)'
  <2>1. /\ count'[v] = count[v] /\ lockouts'[v] = lockouts[v] /\ wrong'[v] = wrong[v]
        /\ exported'[v] = exported[v]
    BY DEF ClearsLock, IInv, TypeOK
  <2>3. v \in permanent => v \in permanent'
    OBVIOUS
  <2>2. v \in Targets /\ Checking(v)' \subseteq Checking(v)
    BY <1>3
  <2> QED  BY <2>1, <2>2, <2>3, OthersKeepWeight
<1>7. Flagged'
  BY DEF IInv, Flagged
<1> QED  BY <1>4, <1>5, <1>6, <1>7 DEF IInv

LEMMA SuccessKeeps ==
  ASSUME IInv, NEW a \in Attempts, LoginSucceeds(a) \/ ChangeSucceeds(a)
  PROVE  IInv'
<1>1. /\ attempt[a].at = "password" /\ Ends(a) /\ UNCHANGED <<rosterVars, addressVars>>
      /\ signedIn' \in {attempt[a].of, Nobody}
      /\ \/ ClearsLock(attempt[a].of) /\ KeepsPermanent(attempt[a].of)
         \/ UNCHANGED lockVars
  BY DEF LoginSucceeds, ChangeSucceeds
<1>2. attempt[a].of \in Targets
  BY <1>1 DEF IInv, TypeOK
<1>3. /\ failures' \in 0 .. AddressLimit - 1 /\ blocked' \in BOOLEAN
      /\ signedIn' \in Users \cup {Nobody} /\ edits' \in 0 .. MaxEdits
  BY <1>1, <1>2, AccountsAssumption DEF IInv, TypeOK, addressVars, rosterVars
<1>4. CASE UNCHANGED lockVars
  BY <1>1, <1>3, <1>4, Places, MovesAside DEF IInv
<1>5. CASE ClearsLock(attempt[a].of) /\ KeepsPermanent(attempt[a].of)
  BY <1>1, <1>2, <1>3, <1>5, ClearedKeeps DEF KeepsPermanent, rosterVars
<1> QED  BY <1>1, <1>4, <1>5

(* A wrong password for an export is one more on either side. *)
LEMMA ExportKeeps ==
  ASSUME IInv, NEW u \in Targets, ExportRefused(u)
  PROVE  IInv'
<1>1. /\ exported' = [exported EXCEPT ![u] = @ + 1] /\ wrong' = [wrong EXCEPT ![u] = @ + 1]
      /\ UNCHANGED <<rosterVars, count, lockouts, temporary, permanent, addressVars, attempt>>
      /\ signedIn' = Nobody
  BY DEF ExportRefused
<1>2. TypeOK'
  BY <1>1 DEF IInv, TypeOK, rosterVars, addressVars
<1>3. ASSUME NEW v \in Targets  PROVE Weighed(v)'
  <2>1. /\ wrong[v] \in Nat /\ exported[v] \in Nat /\ count[v] \in Nat /\ Limit * lockouts[v] \in Nat
        /\ lockouts[v] \in Nat /\ Limit \in Nat
        /\ Cardinality(Attempts) \in Nat /\ Cardinality(Checking(v)) \in Nat
    BY AccountsAssumption, CheckingIsCounted, OneLockMore DEF IInv, TypeOK, Checking
  <2>2. \/ wrong'[v] = wrong[v] + 1 /\ exported'[v] = exported[v] + 1
        \/ wrong'[v] = wrong[v] /\ exported'[v] = exported[v]
    BY <1>1 DEF IInv, TypeOK
  <2>3. /\ count'[v] = count[v] /\ lockouts'[v] = lockouts[v] /\ permanent' = permanent
        /\ Checking(v)' = Checking(v)
    BY <1>1 DEF Checking
  <2>4. wrong'[v] = count'[v] + Limit * lockouts'[v] + exported'[v]
    <3> DEFINE m == Limit * lockouts[v]
    <3>1. wrong[v] = count[v] + m + exported[v] /\ m \in Nat
      BY <2>1 DEF IInv, Weighed
    <3> HIDE DEF m
    <3>2. wrong'[v] = count[v] + m + exported'[v]
      BY <2>1, <2>2, <3>1
    <3> QED  BY <2>3, <3>2 DEF m
  <2>5. ASSUME lockouts'[v] >= 2
        PROVE  /\ v \in permanent'
               /\ wrong'[v] + Cardinality(Checking(v)')
                   <= 2 * Limit + Cardinality(Attempts) - 1 + exported'[v]
    <3>1. /\ v \in permanent
          /\ wrong[v] + Cardinality(Checking(v)) <= 2 * Limit + Cardinality(Attempts) - 1 + exported[v]
      BY <2>3, <2>5 DEF IInv, Weighed
    <3> QED  BY <2>1, <2>2, <2>3, <3>1
  <2> QED  BY <2>4, <2>5 DEF Weighed
<1> QED  BY <1>1, <1>2, <1>3, SameRoster DEF IInv

(* Locks, blocks and counted failures run out. *)
LEMMA TimeKeeps ==
  ASSUME IInv, (\E u \in Targets : LockEnds(u)) \/ BlockEnds \/ FailureAges
  PROVE  IInv'
<1>1. /\ UNCHANGED <<rosterVars, count, lockouts, permanent, wrong, exported, attempt>>
      /\ signedIn' = Nobody
      /\ temporary' \in [Targets -> {"none", "running", "over"}]
      /\ failures' \in 0 .. AddressLimit - 1
  BY AccountsAssumption DEF LockEnds, BlockEnds, FailureAges, lockVars, addressVars, IInv, TypeOK
<1>2. blocked' \in BOOLEAN
  BY DEF LockEnds, BlockEnds, FailureAges, addressVars, IInv, TypeOK
<1>3. TypeOK'
  BY <1>1, <1>2 DEF IInv, TypeOK, rosterVars
<1>4. \A u \in Targets : Weighed(u)'
  BY <1>1 DEF IInv, Weighed, Checking
<1> QED  BY <1>1, <1>3, <1>4, SameRoster DEF IInv

-----------------------------------------------------------------------------
(* Every step of the accounts keeps the invariant. *)
LEMMA AccountsStep == IInv /\ [Next]_vars => IInv'
<1> SUFFICES ASSUME IInv, [Next]_vars
             PROVE  IInv'
  OBVIOUS
<1>1. ASSUME NEW a \in Attempts, AttemptStep(a)  PROVE IInv'
  BY <1>1, RowKeeps, WrongKeeps, AddressKeeps, SuccessKeeps DEF AttemptStep
<1>2. ASSUME NEW a \in Attempts, NEW form \in {"login", "change"},
             NEW u \in Targets \cup {Nobody}, NEW right \in BOOLEAN, Begin(a, form, u, right)
      PROVE  IInv'
  BY <1>2, BeginKeeps
<1>3. ASSUME NEW u \in Targets, Unlock(u)  PROVE IInv'
  <2>1. /\ ClearsLock(u) /\ permanent' = permanent \ {u} /\ UNCHANGED attempt
        /\ UNCHANGED <<made, there, active, admins, default, choosing, changed, addressVars>>
        /\ edits' \in 0 .. MaxEdits /\ signedIn' = Nobody
    BY <1>3, AccountsAssumption DEF Unlock, IInv, TypeOK
  <2> QED  BY <2>1, ClearedKeeps
<1>4. CASE (\E u \in Targets : LockEnds(u)) \/ BlockEnds \/ FailureAges
  BY <1>4, TimeKeeps
<1>5. ASSUME NEW u \in Users, NEW admin \in BOOLEAN,
             CreateUser(u, admin) \/ SamlCallback(u, admin)
      PROVE  IInv'
  BY <1>5, CreateKeeps, SamlKeeps
<1>6. ASSUME NEW u \in Users,
             (\E admin \in BOOLEAN : UpdateUser(u, admin)) \/ DeactivateUser(u) \/ ActivateUser(u)
      PROVE  IInv'
  BY <1>6, DisqualifyKeeps DEF UpdateUser, SetRole, DeactivateUser, ActivateUser, IInv, TypeOK
<1>7. ASSUME NEW u \in Users, DeleteUser(u)  PROVE IInv'
  BY <1>7, DeleteKeeps
<1>8. CASE (\E u \in Users : CheckDefaultAdmin(u)) \/ SetDefaultAdmin
  BY <1>8, DefaultKeeps
<1>9. CASE (\E u \in Users : AutoLogin(u)) \/ UNCHANGED vars
  <2>1. UNCHANGED <<rosterVars, lockVars, addressVars, attempt>> /\ signedIn' \in Users \cup {Nobody}
    BY <1>9 DEF AutoLogin, vars, IInv, TypeOK
  <2>2. TypeOK'
    BY <2>1 DEF IInv, TypeOK, rosterVars, lockVars, addressVars
  <2> QED  BY <2>1, <2>2, SameWeight, SameRoster DEF IInv
<1>10. ASSUME NEW u \in Targets, ExportRefused(u)  PROVE IInv'
  BY <1>10, ExportKeeps
<1> QED
  BY <1>1, <1>2, <1>3, <1>4, <1>5, <1>6, <1>7, <1>8, <1>9, <1>10 DEF Next, OwnerBegins

(* The accounts' variables keep their types, and IInv holds throughout.    *)
THEOREM AccountsIInvHolds == Spec => []IInv
BY AccountsInit, AccountsStep, PTL DEF Spec

(* Besides those given for an export, no more wrong passwords are checked  *)
(* against an account than two limits and the attempts that had read its   *)
(* row before the last lock.                                               *)
THEOREM GuessesBoundedHolds == Spec => []GuessesBounded
<1>1. IInv => GuessesBounded
  <2> SUFFICES ASSUME IInv, NEW u \in Targets
               PROVE  wrong[u] <= 2 * Limit + Cardinality(Attempts) - 1 + exported[u]
    BY DEF GuessesBounded
  <2>1. /\ wrong[u] = count[u] + Limit * lockouts[u] + exported[u] /\ exported[u] \in Nat
        /\ count[u] \in 0 .. Limit - 1 /\ lockouts[u] \in Nat /\ wrong[u] \in Nat
        /\ Limit \in Nat \ {0}
    BY AccountsAssumption DEF IInv, TypeOK, Weighed
  <2>2. Cardinality(Attempts) \in Nat /\ Cardinality(Checking(u)) \in Nat
    BY CheckingIsCounted DEF Checking
  <2>3. CASE lockouts[u] = 0
    BY <2>1, <2>2, <2>3
  <2>4. CASE lockouts[u] = 1
    BY <2>1, <2>2, <2>4
  <2>5. CASE lockouts[u] >= 2
    <3>1. wrong[u] + Cardinality(Checking(u)) <= 2 * Limit + Cardinality(Attempts) - 1 + exported[u]
      BY <2>5 DEF IInv, Weighed
    <3>2. wrong[u] \in Nat /\ exported[u] \in Nat /\ Limit \in Nat
      BY <2>1
    <3> QED  BY <2>2, <3>1, <3>2
  <2>6. lockouts[u] = 0 \/ lockouts[u] = 1 \/ lockouts[u] >= 2
    <3>1. lockouts[u] \in Nat
      BY <2>1
    <3> QED  BY <3>1
  <2> QED  BY <2>3, <2>4, <2>5, <2>6
<1> QED  BY <1>1, AccountsIInvHolds, PTL

(* One account at most is the default administrator, and it is an active   *)
(* administrator unless it was disqualified since it was checked.          *)
THEOREM DefaultIsOneAdminHolds == Spec => []DefaultIsOneAdmin
<1>1. IInv => DefaultIsOneAdmin
  <2>0. IInv => \A u \in default : u \in active \cap admins \/ u \in changed
    BY DEF IInv, Flagged
  <2> SUFFICES ASSUME IInv  PROVE Cardinality(default) <= 1
    BY <2>0 DEF DefaultIsOneAdmin
  <2>1. CASE default = {}
    BY <2>1, FS_EmptySet
  <2>2. ASSUME NEW u \in default  PROVE Cardinality(default) <= 1
    <3>1. \A v \in default : v = u
      BY <2>2 DEF IInv, Flagged
    <3>2. default \subseteq {u} /\ {u} \subseteq default
      BY <2>2, <3>1
    <3>3. default = {u}
      BY <3>2
    <3>4. Cardinality({u}) = 1
      BY FS_Singleton
    <3> QED  BY <3>3, <3>4
  <2> QED  BY <2>1, <2>2
<1> QED  BY <1>1, AccountsIInvHolds, PTL

(* A permanent lock ends with the unlock of its account only. *)
THEOREM PermanentLockIsKeptHolds == Spec => PermanentLockIsKept
<1>1. IInv /\ [Next]_vars => [\A u \in permanent : u \notin permanent' => Unlock(u)]_vars
  <2> SUFFICES ASSUME IInv, [Next]_vars, NEW u \in permanent, u \notin permanent'
               PROVE  Unlock(u)
    OBVIOUS
  <2>1. \E v \in Targets : Unlock(v)
    BY DEF Next, AttemptStep, OwnerBegins, Begin, LoginReadsRow, ChangeReadsRow, WrongPassword,
           CountsFailure, AddressFailure, LoginSucceeds, ChangeSucceeds, KeepsPermanent, LockEnds,
           BlockEnds, FailureAges, ExportRefused, CreateUser, UpdateUser, SamlCallback, DeactivateUser,
           ActivateUser, DeleteUser, CheckDefaultAdmin, AutoLogin, SetDefaultAdmin, vars, lockVars
  <2> QED  BY <2>1 DEF Unlock
<1> QED  BY <1>1, AccountsIInvHolds, PTL DEF Spec, PermanentLockIsKept
=============================================================================
