----------------------------- MODULE AdminUsers -----------------------------
(***************************************************************************)
(* Administrator accounts and their sessions: UserService and the guards   *)
(* of src/system/user.  An admin request is authorised from a snapshot of  *)
(* its session, waits for the advisory lock of the user registry and then  *)
(* runs the statements of one READ COMMITTED transaction.  Each statement  *)
(* is a step: it sees what is committed when it runs, and what it writes   *)
(* is seen by others only after Commit.                                    *)
(*                                                                         *)
(* A login is two statements that no transaction joins: the row of the     *)
(* user is read and the password compared, later the session is inserted.  *)
(* Login l inserts session l, so Logins also names the rows of `sessions`. *)
(***************************************************************************)
EXTENDS FiniteSets

CONSTANTS
    Users,      \* primary keys of `users`
    Requests,   \* concurrently served admin requests
    Logins,     \* calls of authenticate, each at most one session
    Dtos,       \* bodies that the clients send
    NoOne       \* no request, no user

Updates == [op : {"update"}, target : Users, role : {"keep", "super", "admin"},
            activity : {"keep", "on", "off"}]
Deletes == [op : {"delete"}, target : Users]
Creates == [op : {"create"}, target : Users, super : BOOLEAN, active : BOOLEAN]

ASSUME NoOneAssumption == NoOne \notin Requests /\ NoOne \notin Users
ASSUME DtosAssumption == Dtos \subseteq Updates \cup Deletes \cup Creates

VARIABLES
    rows,       \* users that have a row
    superAdmins, active, deleted,   \* is_super_admin, is_active, deleted_at # null
    login,      \* login[l]: "idle", "checked", "stored" or "expired"
    owner,      \* owner[l]: the user login l is for
    revoked,    \* sessions whose deleted_at is set
    lock,       \* holder of pg_advisory_xact_lock(780534091)
    pc,         \* pc[r]: the statement request r runs next
    dto,        \* dto[r]: what request r asks for
    read,       \* read[r]: [super, active] of the target, as r read them
    revoking,   \* revoking[r]: sessions that r has revoked but not committed
    stale,      \* history: logins that began before a committed deactivation
    late        \* history: sessions inserted after that deactivation's UPDATE

userVars == <<rows, superAdmins, active, deleted>>
loginVars == <<login, owner>>
txVars == <<lock, pc, dto, read, revoking>>
vars == <<userVars, loginVars, revoked, txVars, stale, late>>

NoDto == [op |-> "none"]
NotRead == [super |-> FALSE, active |-> FALSE]

TxStates == {"locked", "read", "counted", "written"}

TypeOK ==
    /\ rows \subseteq Users /\ superAdmins \subseteq rows
    /\ active \subseteq rows /\ deleted \subseteq rows
    /\ login \in [Logins -> {"idle", "checked", "stored", "expired"}]
    /\ owner \in [Logins -> Users \cup {NoOne}]
    /\ revoked \subseteq Logins
    /\ lock \in Requests \cup {NoOne}
    /\ pc \in [Requests -> {"idle", "authorized"} \cup TxStates]
    /\ dto \in [Requests -> Dtos \cup {NoDto}]
    /\ read \in [Requests -> [super : BOOLEAN, active : BOOLEAN]]
    /\ revoking \in [Requests -> SUBSET Logins]
    /\ stale \subseteq Logins /\ late \subseteq Logins

-----------------------------------------------------------------------------

ActiveSuperAdmins == (superAdmins \cap active) \ deleted

\* findSessionByToken: the row is live and so is its user.
Usable(l) ==
    /\ login[l] = "stored" /\ l \notin revoked
    /\ owner[l] \in active \ deleted

SessionsOf(u) == {l \in Logins : login[l] = "stored" /\ owner[l] = u}

\* What the target's row says once r's UPDATE of it is applied.
NextSuper(r) ==
    IF dto[r].op = "delete" \/ dto[r].role = "keep" THEN read[r].super ELSE dto[r].role = "super"
NextActive(r) ==
    /\ dto[r].op = "update"
    /\ IF dto[r].activity = "keep" THEN read[r].active ELSE dto[r].activity = "on"

\* The request takes an active super admin away, as far as r has read.
RemovesSuperAdmin(r) ==
    /\ read[r].super /\ read[r].active
    /\ ~(NextSuper(r) /\ NextActive(r))

Deactivates(r) == read[r].active /\ ~NextActive(r)

Init ==
    /\ rows \in SUBSET Users /\ superAdmins \in SUBSET rows
    /\ active \in SUBSET rows /\ deleted = {}
    /\ ActiveSuperAdmins # {}
    /\ login = [l \in Logins |-> "idle"] /\ owner = [l \in Logins |-> NoOne]
    /\ revoked = {} /\ stale = {} /\ late = {}
    /\ lock = NoOne
    /\ pc = [r \in Requests |-> "idle"] /\ dto = [r \in Requests |-> NoDto]
    /\ read = [r \in Requests |-> NotRead]
    /\ revoking = [r \in Requests |-> {}]

-----------------------------------------------------------------------------
(* Logins and sessions.                                                    *)

\* authenticate: the row of an active user is found, the password matches.
CheckPassword(l) ==
    /\ login[l] = "idle"
    /\ \E u \in active \ deleted :
        /\ owner' = [owner EXCEPT ![l] = u]
        /\ login' = [login EXCEPT ![l] = "checked"]
    /\ UNCHANGED <<userVars, revoked, txVars, stale, late>>

\* A transaction has passed the UPDATE of u's sessions and deactivates u.
BeingDeactivated(u) ==
    \E r \in Requests : pc[r] = "written" /\ dto[r].target = u /\ Deactivates(r)

\* generateToken: insert the session, whatever has become of its user.
CreateSession(l) ==
    /\ login[l] = "checked"
    /\ login' = [login EXCEPT ![l] = "stored"]
    /\ late' = IF l \in stale \/ BeingDeactivated(owner[l])
               THEN late \cup {l} ELSE late
    /\ UNCHANGED <<userVars, owner, revoked, txVars, stale>>

\* expire_at passes.
ExpireSession(l) ==
    /\ login[l] = "stored"
    /\ login' = [login EXCEPT ![l] = "expired"]
    /\ UNCHANGED <<userVars, owner, revoked, txVars, stale, late>>

-----------------------------------------------------------------------------
(* Admin requests.                                                         *)

\* The request ends, by COMMIT, ROLLBACK or an early error.
End(r) ==
    /\ pc' = [pc EXCEPT ![r] = "idle"]
    /\ dto' = [dto EXCEPT ![r] = NoDto]
    /\ read' = [read EXCEPT ![r] = NotRead]
    /\ revoking' = [revoking EXCEPT ![r] = {}]

\* UserGuard and SuperAdminGuard; deleting oneself is refused at once.
Authorize(r) ==
    /\ pc[r] = "idle"
    /\ \E l \in Logins, d \in Dtos :
        /\ Usable(l) /\ owner[l] \in superAdmins
        /\ d.op = "delete" => d.target # owner[l]
        /\ dto' = [dto EXCEPT ![r] = d]
        /\ pc' = [pc EXCEPT ![r] = "authorized"]
    /\ UNCHANGED <<userVars, loginVars, revoked, lock, read, revoking, stale, late>>

\* createAdminUser: one INSERT, outside the lock.
CreateAdminUser(r) ==
    /\ pc[r] = "authorized" /\ dto[r].op = "create"
    /\ dto[r].target \notin rows
    /\ rows' = rows \cup {dto[r].target}
    /\ superAdmins' = IF dto[r].super THEN superAdmins \cup {dto[r].target} ELSE superAdmins
    /\ active' = IF dto[r].active THEN active \cup {dto[r].target} ELSE active
    /\ End(r)
    /\ UNCHANGED <<deleted, loginVars, revoked, lock, stale, late>>

\* Mutation of AcquireLock: the transaction does not take the lock.
AcquireLock_None(r) ==
    /\ pc[r] = "authorized" /\ dto[r].op \in {"update", "delete"}
    /\ lock' = r
    /\ pc' = [pc EXCEPT ![r] = "locked"]
    /\ UNCHANGED <<userVars, loginVars, revoked, dto, read, revoking, stale, late>>

\* $transaction opens and waits for the advisory lock.
AcquireLock(r) ==
    /\ pc[r] = "authorized" /\ dto[r].op \in {"update", "delete"}
    /\ lock = NoOne
    /\ lock' = r
    /\ pc' = [pc EXCEPT ![r] = "locked"]
    /\ UNCHANGED <<userVars, loginVars, revoked, dto, read, revoking, stale, late>>

ReadRow(r) ==
    LET u == dto[r].target IN
    /\ read' = [read EXCEPT ![r] = [super |-> u \in superAdmins, active |-> u \in active]]
    /\ pc' = [pc EXCEPT ![r] = "read"]
    /\ UNCHANGED <<userVars, loginVars, revoked, lock, dto, revoking, stale, late>>

\* Mutations of ReadTarget: no check that the row exists, or that it is not deleted.
ReadTarget_Missing(r) == pc[r] = "locked" /\ dto[r].target \notin deleted /\ ReadRow(r)
ReadTarget_Deleted(r) == pc[r] = "locked" /\ dto[r].target \in rows /\ ReadRow(r)

\* findUnique of the target; a missing or deleted one is refused.
ReadTarget(r) == pc[r] = "locked" /\ dto[r].target \in rows \ deleted /\ ReadRow(r)

\* assertAnotherActiveSuperAdmin, when the request takes one away.
AnotherActiveSuperAdmin(r) ==
    RemovesSuperAdmin(r) => ActiveSuperAdmins \ {dto[r].target} # {}

CountOthers(r) ==
    /\ pc[r] = "read"
    /\ AnotherActiveSuperAdmin(r)
    /\ pc' = [pc EXCEPT ![r] = "counted"]
    /\ UNCHANGED <<userVars, loginVars, revoked, lock, dto, read, revoking, stale, late>>

\* Mutation of WriteRows: only deleteAdminUser revokes sessions.
WriteRows_DeleteOnly(r) ==
    /\ pc[r] = "counted"
    /\ revoking' = [revoking EXCEPT ![r] =
           IF dto[r].op = "delete" THEN SessionsOf(dto[r].target) \ revoked ELSE {}]
    /\ pc' = [pc EXCEPT ![r] = "written"]
    /\ UNCHANGED <<userVars, loginVars, revoked, lock, dto, read, stale, late>>

\* The UPDATEs of the user and of its live sessions; the latter sees the
\* sessions that are stored now.
WriteRows(r) ==
    /\ pc[r] = "counted"
    /\ revoking' = [revoking EXCEPT ![r] =
           IF dto[r].op = "delete" \/ Deactivates(r)
           THEN SessionsOf(dto[r].target) \ revoked ELSE {}]
    /\ pc' = [pc EXCEPT ![r] = "written"]
    /\ UNCHANGED <<userVars, loginVars, revoked, lock, dto, read, stale, late>>

With(S, u, b) == IF b THEN S \cup {u} ELSE S \ {u}

\* COMMIT makes the rows visible and releases the lock.
Commit(r) ==
    /\ pc[r] = "written"
    /\ LET u == dto[r].target IN
        /\ superAdmins' = IF dto[r].op = "delete" THEN superAdmins
                          ELSE With(superAdmins, u, NextSuper(r))
        /\ active' = With(active, u, NextActive(r))
        /\ deleted' = IF dto[r].op = "delete" THEN deleted \cup {u} ELSE deleted
        /\ stale' = IF Deactivates(r)
                    THEN stale \cup {l \in Logins : owner[l] = u} ELSE stale
    /\ revoked' = revoked \cup revoking[r]
    /\ lock' = NoOne
    /\ End(r)
    /\ UNCHANGED <<rows, loginVars, late>>

\* 404 for a missing target, 400 for the last super admin or a used e-mail:
\* the exception rolls the transaction back, which frees the lock.
Refuse(r) ==
    /\ \/ pc[r] = "authorized" /\ dto[r].op = "create" /\ dto[r].target \in rows
       \/ pc[r] = "locked" /\ dto[r].target \notin rows \ deleted
       \/ pc[r] = "read" /\ ~AnotherActiveSuperAdmin(r)
    /\ lock' = IF pc[r] \in TxStates THEN NoOne ELSE lock
    /\ End(r)
    /\ UNCHANGED <<userVars, loginVars, revoked, stale, late>>

\* A transaction timeout, a unique violation or a lost connection, anywhere.
Rollback(r) ==
    /\ pc[r] # "idle"
    /\ lock' = IF pc[r] \in TxStates THEN NoOne ELSE lock
    /\ End(r)
    /\ UNCHANGED <<userVars, loginVars, revoked, stale, late>>

-----------------------------------------------------------------------------

Serve(r) ==
    \/ CreateAdminUser(r) \/ ReadTarget(r) \/ CountOthers(r)
    \/ WriteRows(r) \/ Commit(r) \/ Refuse(r)

Next ==
    \/ \E l \in Logins : CheckPassword(l) \/ CreateSession(l) \/ ExpireSession(l)
    \/ \E r \in Requests : Authorize(r) \/ AcquireLock(r) \/ Serve(r) \/ Rollback(r)

Spec == Init /\ [][Next]_vars

-----------------------------------------------------------------------------
(* What must hold.                                                         *)

\* However role changes, deactivations and deletions interleave, one super
\* admin stays active (assertAnotherActiveSuperAdmin under the lock).
LastSuperAdmin == ActiveSuperAdmins # {}

\* updateAdminUser never switches a user on that a concurrent
\* deleteAdminUser has removed.
DeletedAreInactive == deleted \cap active = {}

\* is_super_admin and is_active are written back from an earlier read; still
\* a commit changes them only as the committing request asked.
CommitsWith(r, u) == pc[r] = "written" /\ pc'[r] = "idle" /\ dto[r].target = u
ChangeIsAsked(u) ==
    /\ (u \in superAdmins) # (u \in superAdmins') =>
          \E r \in Requests :
              CommitsWith(r, u) /\ dto[r].op = "update" /\ dto[r].role # "keep"
    /\ (u \in active) # (u \in active') =>
          \E r \in Requests :
              /\ CommitsWith(r, u)
              /\ dto[r].op = "update" => dto[r].activity # "keep"
FieldsChangeOnlyOnRequest == [][\A u \in rows : ChangeIsAsked(u)]_vars

\* The only sessions that outlive a deactivation of their user are those
\* inserted after the transaction's UPDATE of the sessions.
OnlyLateSessionsSurvive == \A l \in Logins : Usable(l) /\ l \in stale => l \in late

\* "invalidate sessions on deactivation": nothing that logged in before a
\* deactivation is accepted after it.  The code does not achieve this, and
\* no run checks it.
DeactivationEndsSessions == \A l \in Logins : Usable(l) => l \notin stale
=============================================================================
