------------------------------ MODULE Accounts ------------------------------
(***************************************************************************)
(* The accounts of pktLog: signing in with a password under the account    *)
(* lockout (app/auth/lockout.py) and the throttle of the address           *)
(* (app/auth/throttle.py), in app/api/auth.py and app/api/users.py, and    *)
(* without either for the export (app/api/system.py), while administrators *)
(* edit the accounts and SAML provisions them.                             *)
(*                                                                         *)
(* Requests interleave at their awaits; a transaction is one step up to    *)
(* its commit, for its first write takes SQLite's lock. Sessions and       *)
(* tokens are left out: each request reads the account anew.               *)
(***************************************************************************)
EXTENDS Naturals, FiniteSets

CONSTANTS
  Users,         \* the accounts there may be, told by their id: none comes back
  Targets,       \* those somebody signs in to
  Attempts,      \* the password checks under way at once, from one address
  Limit,         \* login_max_failed_attempts
  AddressLimit,  \* address_max_failed_attempts
  MaxEdits,      \* bound on the edits of the accounts
  MaxExports,    \* bound on the wrong passwords given for an export
  Nobody         \* no account

ASSUME AccountsAssumption ==
  /\ IsFiniteSet(Users) /\ IsFiniteSet(Attempts)
  /\ Targets \subseteq Users
  /\ {Limit, AddressLimit} \subseteq Nat \ {0}
  /\ {MaxEdits, MaxExports} \subseteq Nat
  /\ Nobody \notin Users

VARIABLES
  made,                   \* the accounts there were so far (AUTOINCREMENT)
  there, active, admins,  \* the accounts; is_active; role = 'admin'
  default,                \* is_default_admin
  choosing,               \* the account set_default_admin has checked
  changed,                \* accounts no longer active administrators since
                          \* set_default_admin checked them (history)
  edits,
  count, lockouts,        \* failed_login_count, lockout_count
  temporary,              \* locked_until: "none", "running" or "over"
  permanent,              \* is_locked
  failures, blocked,      \* address_failures in the window, address_blocks
  attempt,                \* where each attempt is, and what it knows
  wrong,                  \* wrong passwords checked against an account since
                          \* its last success or unlock (history)
  exported,               \* those of them given for an export (history)
  signedIn                \* the account that has just signed in (history)

rosterVars  == <<made, there, active, admins, default, choosing, changed, edits>>
lockVars    == <<count, lockouts, temporary, permanent, wrong, exported>>
addressVars == <<failures, blocked>>
vars == <<rosterVars, lockVars, addressVars, attempt, signedIn>>

Idle == [at |-> "idle", form |-> "login", of |-> Nobody, right |-> FALSE]

-----------------------------------------------------------------------------
Init ==
  /\ there \in SUBSET Users
  /\ Targets \subseteq there
  /\ made = there
  /\ active = there
  /\ admins = there
  /\ default = {}
  /\ choosing = Nobody
  /\ changed = {}
  /\ edits = 0
  /\ count = [u \in Targets |-> 0]
  /\ lockouts = [u \in Targets |-> 0]
  /\ temporary = [u \in Targets |-> "none"]
  /\ permanent = {}
  /\ failures = 0
  /\ blocked = FALSE
  /\ attempt = [a \in Attempts |-> Idle]
  /\ wrong = [u \in Targets |-> 0]
  /\ exported = [u \in Targets |-> 0]
  /\ signedIn = Nobody

-----------------------------------------------------------------------------
(* One attempt: login, or change_my_password with the current password.    *)

(* blocked_seconds: an address that is blocked is refused at once. *)
Begin(a, form, u, right) ==
  /\ attempt[a] = Idle
  /\ ~blocked
  /\ attempt' = [attempt EXCEPT ![a] = [at |-> "row", form |-> form, of |-> u, right |-> right]]
  /\ signedIn' = Nobody
  /\ UNCHANGED <<rosterVars, lockVars, addressVars>>

(* describe(): the lock state of the row. *)
LockedIfSet(u) == u \in permanent \/ temporary[u] # "none" \* mutant: no clock
LockedNow(u) == u \in permanent \/ temporary[u] = "running"

Goes(a, stage) == attempt' = [attempt EXCEPT ![a].at = stage]
Ends(a) == attempt' = [attempt EXCEPT ![a] = Idle]

(* The SELECT of login: an unknown or inactive account counts against the  *)
(* address only; a locked one is refused, and not counted.                 *)
LoginReadsRow(a) ==
  /\ attempt[a].at = "row"
  /\ attempt[a].form = "login"
  /\ IF attempt[a].of \notin active THEN Goes(a, "count")
     ELSE IF LockedNow(attempt[a].of) THEN Ends(a)
     ELSE Goes(a, "password")
  /\ signedIn' = Nobody
  /\ UNCHANGED <<rosterVars, lockVars, addressVars>>

(* The SELECT of change_my_password. *)
ChangeReadsRow(a) ==
  /\ attempt[a].at = "row"
  /\ attempt[a].form = "change"
  /\ IF attempt[a].of \notin there \/ LockedNow(attempt[a].of)
       THEN Ends(a)
       ELSE Goes(a, "password")
  /\ signedIn' = Nobody
  /\ UNCHANGED <<rosterVars, lockVars, addressVars>>

(* The CASEs of lockout.record_failure: one UPDATE counts and locks. *)
SecondLock(u) == lockouts[u] + 1 >= 2

LocksAfterLimit(u) == count[u] >= Limit \* mutant: off by one
ReachesLimit(u) == count[u] + 1 >= Limit

CountsFailure(u) ==
  IF ReachesLimit(u)
    THEN /\ count' = [count EXCEPT ![u] = 0]
         /\ lockouts' = [lockouts EXCEPT ![u] = @ + 1]
         /\ IF SecondLock(u)
              THEN permanent' = permanent \cup {u} /\ UNCHANGED temporary
              ELSE temporary' = [temporary EXCEPT ![u] = "running"] /\ UNCHANGED permanent
    ELSE /\ count' = [count EXCEPT ![u] = @ + 1]
         /\ UNCHANGED <<lockouts, temporary, permanent>>

(* The password is wrong. The row of an account deleted meanwhile is not   *)
(* found again: the request ends in an error.                              *)
WrongPassword(a) ==
  LET u == attempt[a].of IN
  /\ attempt[a].at = "password"
  /\ ~attempt[a].right
  /\ IF u \in there
       THEN /\ CountsFailure(u)
            /\ wrong' = [wrong EXCEPT ![u] = @ + 1]
            /\ UNCHANGED exported
            /\ Goes(a, "count")
       ELSE UNCHANGED lockVars /\ Ends(a)
  /\ signedIn' = Nobody
  /\ UNCHANGED <<rosterVars, addressVars>>

(* throttle.record_failure. *)
StartsAgain == 0

AddressFailure(a) ==
  /\ attempt[a].at = "count"
  /\ IF failures + 1 < AddressLimit
       THEN failures' = failures + 1 /\ UNCHANGED blocked
       ELSE failures' = StartsAgain /\ blocked' = TRUE
  /\ Ends(a)
  /\ signedIn' = Nobody
  /\ UNCHANGED <<rosterVars, lockVars>>

(* record_success and unlock. *)
ClearsLock(u) ==
  /\ count' = [count EXCEPT ![u] = 0]
  /\ lockouts' = [lockouts EXCEPT ![u] = 0]
  /\ temporary' = [temporary EXCEPT ![u] = "none"]
  /\ wrong' = [wrong EXCEPT ![u] = 0]
  /\ exported' = [exported EXCEPT ![u] = 0]

SuccessUnlocks(u) == permanent' = permanent \ {u} \* mutant: unlock() on success
KeepsPermanent(u) == UNCHANGED permanent

(* The password is right, whatever has become of the account since its row *)
(* was read.                                                               *)
LoginSucceeds(a) ==
  LET u == attempt[a].of IN
  /\ attempt[a].at = "password"
  /\ attempt[a].form = "login"
  /\ attempt[a].right
  /\ IF u \in there THEN ClearsLock(u) /\ KeepsPermanent(u) ELSE UNCHANGED lockVars
  /\ signedIn' = u
  /\ Ends(a)
  /\ UNCHANGED <<rosterVars, addressVars>>

(* A new password that is too short is refused before the commit. *)
ChangeSucceeds(a) ==
  LET u == attempt[a].of IN
  /\ attempt[a].at = "password"
  /\ attempt[a].form = "change"
  /\ attempt[a].right
  /\ \/ u \in there /\ ClearsLock(u) /\ KeepsPermanent(u)
     \/ UNCHANGED lockVars
  /\ signedIn' = Nobody
  /\ Ends(a)
  /\ UNCHANGED <<rosterVars, addressVars>>

(* _verify_export_password, of the administrator who asks for an export:   *)
(* neither lock nor block is looked at, a wrong password is counted        *)
(* nowhere, and a right one clears nothing.                                *)
ExportRefused(u) ==
  /\ u \in active \cap admins
  /\ exported[u] < MaxExports
  /\ exported' = [exported EXCEPT ![u] = @ + 1]
  /\ wrong' = [wrong EXCEPT ![u] = @ + 1]
  /\ signedIn' = Nobody
  /\ UNCHANGED <<rosterVars, count, lockouts, temporary, permanent, addressVars, attempt>>

(* unlock_user, and scripts/unlock_user.py. *)
Unlock(u) ==
  /\ u \in there
  /\ LockedNow(u)
  /\ edits < MaxEdits
  /\ edits' = edits + 1
  /\ ClearsLock(u)
  /\ permanent' = permanent \ {u}
  /\ signedIn' = Nobody
  /\ UNCHANGED <<made, there, active, admins, default, choosing, changed, addressVars, attempt>>

-----------------------------------------------------------------------------
(* Time passes. *)
LockEnds(u) ==
  /\ temporary[u] = "running"
  /\ temporary' = [temporary EXCEPT ![u] = "over"]
  /\ signedIn' = Nobody
  /\ UNCHANGED <<rosterVars, count, lockouts, permanent, wrong, exported, addressVars, attempt>>

BlockEnds ==
  /\ blocked
  /\ blocked' = FALSE
  /\ signedIn' = Nobody
  /\ UNCHANGED <<rosterVars, lockVars, failures, attempt>>

FailureAges ==
  /\ failures > 0
  /\ failures' = failures - 1
  /\ signedIn' = Nobody
  /\ UNCHANGED <<rosterVars, lockVars, blocked, attempt>>

-----------------------------------------------------------------------------
(* The edits of the accounts.                                              *)
Edit ==
  /\ edits < MaxEdits
  /\ edits' = edits + 1
  /\ signedIn' = Nobody
  /\ UNCHANGED <<addressVars, attempt>>

(* Of the accounts flagged, or about to be, those an edit disqualifies. *)
Disqualifies(u) == changed' = changed \cup ({u} \cap (default \cup {choosing}))

SetRole(u, admin) == admins' = IF admin THEN admins \cup {u} ELSE admins \ {u}

CreateUser(u, admin) ==
  /\ u \notin made
  /\ made' = made \cup {u}
  /\ there' = there \cup {u}
  /\ active' = active \cup {u}
  /\ SetRole(u, admin)
  /\ Edit
  /\ UNCHANGED <<default, choosing, changed, lockVars>>

UpdateUser(u, admin) ==
  /\ u \in there
  /\ SetRole(u, admin)
  /\ IF admin THEN UNCHANGED changed ELSE Disqualifies(u)
  /\ Edit
  /\ UNCHANGED <<made, there, active, default, choosing, lockVars>>

DeactivateUser(u) ==
  /\ u \in active
  /\ active' = active \ {u}
  /\ Disqualifies(u)
  /\ Edit
  /\ UNCHANGED <<made, there, admins, default, choosing, lockVars>>

ActivateUser(u) ==
  /\ u \in there \ active
  /\ active' = active \cup {u}
  /\ Edit
  /\ UNCHANGED <<made, there, admins, default, choosing, changed, lockVars>>

(* An account of the same name that follows has an id of its own.          *)
DeleteUser(u) ==
  /\ u \in there
  /\ there' = there \ {u}
  /\ active' = active \ {u}
  /\ admins' = admins \ {u}
  /\ default' = default \ {u}
  /\ Edit
  /\ UNCHANGED <<made, choosing, changed, lockVars>>

(* set_default_admin checks the account ... *)
MayBeDefault(u) == u \in active \cap admins

CheckDefaultAdmin(u) ==
  /\ choosing = Nobody
  /\ u \in there
  /\ MayBeDefault(u)
  /\ choosing' = u
  /\ changed' = changed \ ({u} \ default)
  /\ Edit
  /\ UNCHANGED <<made, there, active, admins, default, lockVars>>

(* ... and flags it in place of the other one: one transaction.            *)
AddsFlag(u) == default' = default \cup {u} \* mutant: no UPDATE of the others
MovesFlag(u) == default' = {u}

SetDefaultAdmin ==
  /\ choosing # Nobody
  /\ IF choosing \in there THEN MovesFlag(choosing) ELSE default' = {}
  /\ choosing' = Nobody
  /\ signedIn' = Nobody
  /\ UNCHANGED <<made, there, active, admins, changed, edits, lockVars, addressVars, attempt>>

(* saml_callback: an unknown account is provisioned, an active one gets    *)
(* the role the identity provider sends. Its look-up and its update are    *)
(* one step: what happens to the account in between is left out.           *)
SamlCallback(u, admin) ==
  /\ u \notin made \/ u \in active
  /\ made' = made \cup {u}
  /\ there' = there \cup {u}
  /\ active' = active \cup {u}
  /\ SetRole(u, admin)
  /\ IF admin THEN UNCHANGED changed ELSE Disqualifies(u)
  /\ Edit
  /\ UNCHANGED <<default, choosing, lockVars>>

(* auto_login, when every method of signing in is switched off: the page   *)
(* has no form then, and no attempt is under way.                          *)
AutoLogin(u) ==
  /\ \A a \in Attempts : attempt[a] = Idle
  /\ u \in active
  /\ \/ u \in default
     \/ default \cap active = {} /\ u \in admins
  /\ signedIn' = u
  /\ UNCHANGED <<rosterVars, lockVars, addressVars, attempt>>

-----------------------------------------------------------------------------
AttemptStep(a) ==
  \/ LoginReadsRow(a) \/ ChangeReadsRow(a) \/ WrongPassword(a) \/ AddressFailure(a)
  \/ LoginSucceeds(a) \/ ChangeSucceeds(a)

(* The owner of an account signs in. *)
OwnerBegins(u) == \E a \in Attempts : Begin(a, "login", u, TRUE)

Next ==
  \/ \E a \in Attempts :
       \/ AttemptStep(a)
       \/ \E u \in Targets : Begin(a, "login", u, FALSE) \/ Begin(a, "change", u, FALSE)
       \/ \E u \in Targets : Begin(a, "change", u, TRUE)
       \/ Begin(a, "login", Nobody, FALSE)
  \/ \E u \in Targets : OwnerBegins(u) \/ ExportRefused(u) \/ Unlock(u) \/ LockEnds(u)
  \/ BlockEnds \/ FailureAges
  \/ \E u \in Users, admin \in BOOLEAN :
       CreateUser(u, admin) \/ UpdateUser(u, admin) \/ SamlCallback(u, admin)
  \/ \E u \in Users :
       \/ DeactivateUser(u) \/ ActivateUser(u) \/ DeleteUser(u)
       \/ CheckDefaultAdmin(u) \/ AutoLogin(u)
  \/ SetDefaultAdmin

Spec == Init /\ [][Next]_vars

(* Requests go on, locks and blocks run out, and the owner of an account   *)
(* keeps trying. (Strong: the model, not the server, bounds the attempts   *)
(* that run at once.)                                                      *)
Fairness ==
  /\ \A a \in Attempts : WF_vars(AttemptStep(a))
  /\ \A u \in Targets : WF_vars(LockEnds(u)) /\ SF_vars(OwnerBegins(u))
  /\ WF_vars(BlockEnds)

FairSpec == Spec /\ Fairness

-----------------------------------------------------------------------------
(* Properties. *)

Where == [at : {"idle", "row", "password", "count"}, form : {"login", "change"},
          of : Targets \cup {Nobody}, right : BOOLEAN]

(* The variables have the values the code can give them: the count starts  *)
(* again at the limit, and a password is checked against an account.       *)
TypeOK ==
  /\ made \in SUBSET Users
  /\ there \in SUBSET made
  /\ {active, admins, default} \subseteq SUBSET there
  /\ choosing \in made \cup {Nobody}
  /\ changed \in SUBSET Users
  /\ edits \in 0 .. MaxEdits
  /\ count \in [Targets -> 0 .. Limit - 1]
  /\ lockouts \in [Targets -> Nat]
  /\ temporary \in [Targets -> {"none", "running", "over"}]
  /\ permanent \in SUBSET Targets
  /\ failures \in 0 .. AddressLimit - 1
  /\ blocked \in BOOLEAN
  /\ attempt \in [Attempts -> Where]
  /\ \A a \in Attempts : attempt[a].at = "password" => attempt[a].of \in Targets
  /\ {wrong, exported} \subseteq [Targets -> Nat]
  /\ signedIn \in Users \cup {Nobody}

(* Until it is unlocked or its owner signs in, no more wrong passwords are *)
(* checked against an account than two limits, one for each other attempt  *)
(* that had read the row before the last lock, and those given for an      *)
(* export, which nothing limits (system.py:264): the two exceptions to     *)
(* "While an account is locked the password is not checked at all"         *)
(* (lockout.py:11), the second one also to "The count covers every place a *)
(* password is checked" (lockout.py:14). What is deleted, blocked or       *)
(* edited meanwhile adds none.                                             *)
GuessesBounded ==
  \A u \in Targets : wrong[u] <= 2 * Limit + Cardinality(Attempts) - 1 + exported[u]

(* A permanent lock ends with the unlock of that account and with no other *)
(* step: the success of an attempt that had read the row before the lock,  *)
(* which does lift a temporary lock, leaves it on (lockout.py:             *)
(* record_success), and so do the edits of the account and the callback of *)
(* the identity provider. An account that is deleted does not come back.   *)
PermanentLockIsKept ==
  [][\A u \in permanent : u \notin permanent' => Unlock(u)]_vars

(* One account at most is flagged as the default administrator ("Exactly   *)
(* one user can hold the flag at a time", users.py:209), and it is an      *)
(* active administrator unless it was demoted or deactivated since         *)
(* set_default_admin looked, possibly before the flag was set.             *)
DefaultIsOneAdmin ==
  /\ Cardinality(default) <= 1
  /\ \A u \in default : u \in active \cap admins \/ u \in changed

(* Once the guessing stops, the owner of an active account that is not     *)
(* locked for good gets in, through the temporary lock and the block of    *)
(* the address that others have brought about.                             *)
OwnerGetsIn ==
  \A u \in Targets :
    (/\ <>[](u \in active /\ u \notin permanent)
     /\ <>[](\A a \in Attempts : attempt[a] = Idle \/ attempt[a].right))
      => []<>(signedIn = u)
=============================================================================
