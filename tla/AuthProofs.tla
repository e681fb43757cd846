----------------------------- MODULE AuthProofs -----------------------------
(***************************************************************************)
(* Who may log in, and how often: AdminUsers and LoginRateLimit.           *)
(*                                                                         *)
(* For any users, requests, logins and bodies: AdminUsers keeps its types, *)
(* one super admin stays active, and the deleted stay inactive.  What a    *)
(* transaction has read is still true when it commits, because it holds    *)
(* the lock and the only writer outside the lock, createAdminUser, touches *)
(* no row that exists.  TxInv states this; the rest follows.               *)
(*                                                                         *)
(* For any number of concurrent logins and any limits: the rows count      *)
(* every failure that no overlap of write-backs has lost, a running block  *)
(* is changed only by attempts that were let in before it, and two logins  *)
(* that overlap add no more failures than OverlapsAreBounded says.         *)
(*                                                                         *)
(* An attempt works on what it was let in for: its address and credential  *)
(* rows, with a clock that is not ahead (AttemptInv).  Whoever is inside   *)
(* and has yet to write a row has seen no block of that row begin, unless  *)
(* the history `outrun` says so (InsideInv).  For the bound the failures   *)
(* counted and those that can still come are together never more than at   *)
(* the start (BoundInv): a write-back of an old count uses that count up.  *)
(***************************************************************************)
EXTENDS AdminUsers, LoginRateLimit, Integers, FiniteSetTheorems, TLAPS

HasRead(r) == pc[r] \in {"read", "counted", "written"}
ReadIsCurrent(r) ==
    LET u == dto[r].target IN
    /\ u \in rows \ deleted
    /\ read[r] = [super |-> u \in superAdmins, active |-> u \in active]

TxInvOf(r) ==
    /\ pc[r] # "idle" => dto[r] \in Dtos
    /\ pc[r] \in TxStates => lock = r /\ dto[r].op \in {"update", "delete"}
    /\ HasRead(r) => ReadIsCurrent(r)
    /\ pc[r] \in {"counted", "written"} => AnotherActiveSuperAdmin(r)
TxInv == \A r \in Requests : TxInvOf(r)

IInv == TypeOK /\ TxInv /\ LastSuperAdmin /\ DeletedAreInactive

LEMMA DtoFields ==
    ASSUME NEW d \in Dtos
    PROVE  /\ d.target \in Users
           /\ d.op \in {"update", "delete", "create"}
           /\ d.op = "update" => /\ d.role \in {"keep", "super", "admin"}
                                 /\ d.activity \in {"keep", "on", "off"}
           /\ d.op = "create" => d.super \in BOOLEAN /\ d.active \in BOOLEAN
BY DtosAssumption DEF Updates, Deletes, Creates

LEMMA InitIInv == Init => IInv
BY DEF Init, IInv, TypeOK, TxInv, TxInvOf, TxStates, HasRead, NotRead, LastSuperAdmin,
       DeletedAreInactive, ActiveSuperAdmins

\* An action of a login leaves everything alone that TxInv speaks of.
LEMMA LoginStep ==
    ASSUME IInv, NEW l \in Logins,
           CheckPassword(l) \/ CreateSession(l) \/ ExpireSession(l)
    PROVE  IInv'
<1>1. UNCHANGED <<userVars, txVars>>
  BY DEF CheckPassword, CreateSession, ExpireSession
<1>2. TypeOK'
  BY DEF IInv, TypeOK, CheckPassword, CreateSession, ExpireSession, userVars, txVars, TxStates
<1>3. TxInv'
  BY <1>1 DEF IInv, TxInv, TxInvOf, userVars, txVars, TxStates, HasRead, ReadIsCurrent,
              AnotherActiveSuperAdmin, RemovesSuperAdmin, NextSuper, NextActive, ActiveSuperAdmins
<1>4. QED
  BY <1>1, <1>2, <1>3 DEF IInv, LastSuperAdmin, DeletedAreInactive, ActiveSuperAdmins, userVars

\* What TxInvOf(q) says depends on these only.
LEMMA TxInvOfSame ==
    ASSUME NEW q \in Requests, TxInvOf(q), UNCHANGED userVars, UNCHANGED lock,
           UNCHANGED <<pc[q], dto[q], read[q]>>
    PROVE  TxInvOf(q)'
BY DEF TxInvOf, userVars, TxStates, HasRead, ReadIsCurrent, AnotherActiveSuperAdmin,
       RemovesSuperAdmin, NextSuper, NextActive, ActiveSuperAdmins

\* Statements that only advance the transaction of r.
LEMMA TxStep ==
    ASSUME IInv, NEW r \in Requests,
           Authorize(r) \/ AcquireLock(r) \/ ReadTarget(r) \/ CountOthers(r) \/ WriteRows(r)
    PROVE  IInv'
<1> USE DEF IInv
<1>1. UNCHANGED <<userVars, loginVars, revoked, stale, late>>
  BY DEF Authorize, AcquireLock, ReadTarget, ReadRow, CountOthers, WriteRows
<1>2. LastSuperAdmin' /\ DeletedAreInactive'
  BY <1>1 DEF LastSuperAdmin, DeletedAreInactive, ActiveSuperAdmins, userVars
<1>3. TypeOK'
  <2> USE <1>1 DEF TypeOK, userVars, loginVars, TxStates
  <2>1. CASE Authorize(r)
    BY <2>1 DEF Authorize
  <2>2. CASE AcquireLock(r)
    BY <2>2 DEF AcquireLock
  <2>3. CASE ReadTarget(r)
    BY <2>3 DEF ReadTarget, ReadRow
  <2>4. CASE CountOthers(r)
    BY <2>4 DEF CountOthers
  <2>5. CASE WriteRows(r)
    BY <2>5 DEF WriteRows, SessionsOf
  <2>6. QED
    BY <2>1, <2>2, <2>3, <2>4, <2>5
<1>4. ASSUME NEW q \in Requests, q # r PROVE TxInvOf(q)'
  <2>1. UNCHANGED <<pc[q], dto[q], read[q]>>
    BY <1>4 DEF TypeOK, Authorize, AcquireLock, ReadTarget, ReadRow, CountOthers, WriteRows
  <2>2. CASE UNCHANGED lock
    BY <2>1, <2>2, <1>1, TxInvOfSame DEF TxInv
  <2>3. CASE AcquireLock(r)
    \* Nobody holds the lock, so q has not read anything yet.
    <3>1. pc[q] \notin TxStates
      BY <2>3, <1>4, NoOneAssumption DEF TxInv, TxInvOf, AcquireLock
    <3>2. QED
      BY <3>1, <2>1, <1>4 DEF TxInv, TxInvOf, TxStates, HasRead
  <2>4. QED
    BY <2>2, <2>3 DEF Authorize, ReadTarget, ReadRow, CountOthers, WriteRows
<1>5. TxInvOf(r)'
  <2> USE DEF TxInv, TxInvOf, TxStates, HasRead, TypeOK
  <2>1. CASE Authorize(r)
    BY <2>1 DEF Authorize
  <2>2. CASE AcquireLock(r)
    BY <2>2 DEF AcquireLock
  <2>3. CASE ReadTarget(r)
    BY <2>3, <1>1 DEF ReadTarget, ReadRow, ReadIsCurrent, userVars
  <2>4. CASE CountOthers(r)
    BY <2>4, <1>1 DEF CountOthers, ReadIsCurrent, userVars, AnotherActiveSuperAdmin,
       RemovesSuperAdmin, NextSuper, NextActive, ActiveSuperAdmins
  <2>5. CASE WriteRows(r)
    BY <2>5, <1>1 DEF WriteRows, ReadIsCurrent, userVars, AnotherActiveSuperAdmin,
       RemovesSuperAdmin, NextSuper, NextActive, ActiveSuperAdmins
  <2>6. QED
    BY <2>1, <2>2, <2>3, <2>4, <2>5
<1>6. QED
  BY <1>2, <1>3, <1>4, <1>5 DEF TxInv

\* A request that ends without committing writes nothing.
LEMMA EndStep ==
    ASSUME IInv, NEW r \in Requests, Refuse(r) \/ Rollback(r)
    PROVE  IInv'
<1> USE DEF IInv
<1>1. UNCHANGED <<userVars, loginVars, revoked, stale, late>> /\ End(r)
  BY DEF Refuse, Rollback
<1>2. LastSuperAdmin' /\ DeletedAreInactive'
  BY <1>1 DEF LastSuperAdmin, DeletedAreInactive, ActiveSuperAdmins, userVars
<1>3. lock' = IF pc[r] \in TxStates THEN NoOne ELSE lock
  BY DEF Refuse, Rollback
<1>4. TypeOK'
  BY <1>1, <1>3 DEF TypeOK, userVars, loginVars, TxStates, End, NotRead
<1>5. ASSUME NEW q \in Requests, q # r PROVE TxInvOf(q)'
  <2>1. UNCHANGED <<pc[q], dto[q], read[q]>>
    BY <1>1, <1>5 DEF TypeOK, End
  <2>2. CASE UNCHANGED lock
    BY <2>1, <2>2, <1>1, <1>5, TxInvOfSame DEF TxInv
  <2>3. CASE pc[r] \in TxStates
    <3>1. pc[q] \notin TxStates
      BY <2>3, <1>5 DEF TxInv, TxInvOf
    <3>2. QED
      BY <3>1, <2>1, <1>5 DEF TxInv, TxInvOf, TxStates, HasRead
  <2>4. QED
    BY <2>2, <2>3, <1>3
<1>6. TxInvOf(r)'
  BY <1>1 DEF TypeOK, TxInvOf, End, TxStates, HasRead
<1>7. QED
  BY <1>2, <1>4, <1>5, <1>6 DEF TxInv

\* createAdminUser runs beside a transaction: it adds a row that the
\* transaction has not read and takes no super admin away.
LEMMA CreateStep ==
    ASSUME IInv, NEW r \in Requests, CreateAdminUser(r)
    PROVE  IInv'
<1> USE DEF IInv
<1> DEFINE u == dto[r].target
<1>1. /\ End(r) /\ u \notin rows /\ dto[r].op = "create" /\ pc[r] = "authorized"
      /\ rows' = rows \cup {u} /\ deleted' = deleted
      /\ superAdmins' \in {superAdmins, superAdmins \cup {u}}
      /\ active' \in {active, active \cup {u}}
      /\ UNCHANGED <<loginVars, revoked, lock, stale, late>>
  BY DEF CreateAdminUser
<1>2. u \in Users
  BY <1>1, DtoFields DEF TxInv, TxInvOf
<1>3. TypeOK'
  BY <1>1, <1>2 DEF TypeOK, loginVars, TxStates, End, NotRead
<1>4. ActiveSuperAdmins \subseteq ActiveSuperAdmins'
  BY <1>1 DEF ActiveSuperAdmins
<1>5. LastSuperAdmin' /\ DeletedAreInactive'
  BY <1>1, <1>4 DEF LastSuperAdmin, DeletedAreInactive, TypeOK
<1>6. ASSUME NEW q \in Requests, q # r PROVE TxInvOf(q)'
  <2>1. UNCHANGED <<pc[q], dto[q], read[q]>>
    BY <1>1, <1>6 DEF TypeOK, End
  <2>2. HasRead(q) => ReadIsCurrent(q)'
    <3> DEFINE v == dto[q].target
    <3> SUFFICES ASSUME HasRead(q) PROVE ReadIsCurrent(q)'
      OBVIOUS
    <3>1. ReadIsCurrent(q)
      BY <1>6 DEF TxInv, TxInvOf
    <3>2. v \in rows \ deleted /\ v # u
      BY <3>1, <1>1 DEF ReadIsCurrent
    <3>3. (v \in superAdmins') = (v \in superAdmins) /\ (v \in active') = (v \in active)
      BY <3>2, <1>1
    <3>4. v \in rows' \ deleted'
      BY <3>2, <1>1
    <3>5. read'[q] = [super |-> v \in superAdmins', active |-> v \in active']
      BY <3>1, <3>3, <2>1 DEF ReadIsCurrent
    <3>6. QED
      BY <3>4, <3>5, <2>1 DEF ReadIsCurrent
  <2>3. pc[q] \in {"counted", "written"} => AnotherActiveSuperAdmin(q)'
    BY <2>1, <1>4, <1>6 DEF TxInv, TxInvOf, AnotherActiveSuperAdmin, RemovesSuperAdmin,
       NextSuper, NextActive
  <2>4. QED
    BY <2>1, <2>2, <2>3, <1>1, <1>6 DEF TxInv, TxInvOf, HasRead
<1>7. TxInvOf(r)'
  BY <1>1 DEF TypeOK, TxInvOf, End, TxStates, HasRead
<1>8. QED
  BY <1>3, <1>5, <1>6, <1>7 DEF TxInv

\* Under the lock the commit writes what it read, changed as asked.
LEMMA CommitStep ==
    ASSUME IInv, NEW r \in Requests, Commit(r)
    PROVE  IInv'
<1> USE DEF IInv
<1> DEFINE u == dto[r].target
<1>1. /\ lock = r /\ pc[r] = "written" /\ dto[r] \in Dtos
      /\ dto[r].op \in {"update", "delete"}
      /\ ReadIsCurrent(r) /\ AnotherActiveSuperAdmin(r)
  BY DEF Commit, TxInv, TxInvOf, HasRead, TxStates
<1>2. u \in rows \ deleted /\ read[r].super = (u \in superAdmins)
      /\ read[r].active = (u \in active)
  BY <1>1 DEF ReadIsCurrent
<1>3. End(r) /\ lock' = NoOne /\ rows' = rows /\ UNCHANGED <<loginVars, late>>
  BY DEF Commit
<1>4. superAdmins' = With(superAdmins, u, NextSuper(r))
  BY <1>1, <1>2 DEF Commit, With, NextSuper
<1>5. active' = With(active, u, NextActive(r))
  BY DEF Commit
<1>6. deleted' = IF dto[r].op = "delete" THEN deleted \cup {u} ELSE deleted
  BY DEF Commit
<1>7. TypeOK'
  <2>1. /\ superAdmins' \subseteq rows /\ active' \subseteq rows /\ deleted' \subseteq rows
    BY <1>2, <1>4, <1>5, <1>6 DEF TypeOK, With
  <2>2. revoked' \subseteq Logins /\ stale' \subseteq Logins
    BY DEF Commit, TypeOK
  <2>3. QED
    BY <1>3, <2>1, <2>2 DEF TypeOK, loginVars, TxStates, End, NotRead
<1>8. DeletedAreInactive'
  BY <1>2, <1>5, <1>6 DEF DeletedAreInactive, With, NextActive
<1>9. LastSuperAdmin'
  <2>1. CASE RemovesSuperAdmin(r)
    \* Another active super admin was counted, and this commit leaves it alone.
    <3>1. PICK v \in ActiveSuperAdmins : v # u
      BY <2>1, <1>1 DEF AnotherActiveSuperAdmin
    <3>2. v \in ActiveSuperAdmins'
      BY <3>1, <1>4, <1>5, <1>6 DEF ActiveSuperAdmins, With
    <3>3. QED
      BY <3>2 DEF LastSuperAdmin
  <2>2. CASE ~RemovesSuperAdmin(r)
    \* Whoever was an active super admin still is.
    <3>1. dto[r].op = "delete" => ~NextActive(r)
      BY DEF NextActive
    <3>2. ASSUME NEW v \in ActiveSuperAdmins PROVE v \in ActiveSuperAdmins'
      BY <3>1, <3>2, <2>2, <1>1, <1>2, <1>4, <1>5, <1>6
         DEF ActiveSuperAdmins, With, RemovesSuperAdmin
    <3>3. QED
      BY <3>2 DEF LastSuperAdmin
  <2>3. QED
    BY <2>1, <2>2
<1>10. ASSUME NEW q \in Requests PROVE TxInvOf(q)'
  <2>1. CASE q = r
    BY <2>1, <1>3 DEF TypeOK, TxInvOf, End, TxStates, HasRead
  <2>2. CASE q # r
    <3>1. pc[q] \notin TxStates
      BY <2>2, <1>1, <1>10 DEF TxInv, TxInvOf
    <3>2. UNCHANGED <<pc[q], dto[q], read[q]>>
      BY <2>2, <1>3, <1>10 DEF TypeOK, End
    <3>3. QED
      BY <3>1, <3>2, <1>10 DEF TxInv, TxInvOf, TxStates, HasRead
  <2>3. QED
    BY <2>1, <2>2
<1>11. QED
  BY <1>7, <1>8, <1>9, <1>10 DEF TxInv

LEMMA StepIInv == IInv /\ [Next]_vars => IInv'
<1> SUFFICES ASSUME IInv, [Next]_vars PROVE IInv'
  OBVIOUS
<1>1. CASE UNCHANGED vars
  BY <1>1 DEF IInv, TypeOK, TxInv, TxInvOf, TxStates, HasRead, ReadIsCurrent, LastSuperAdmin,
       DeletedAreInactive, AnotherActiveSuperAdmin, RemovesSuperAdmin, NextSuper, NextActive,
       ActiveSuperAdmins, vars, userVars, loginVars, txVars
<1>2. ASSUME NEW l \in Logins, CheckPassword(l) \/ CreateSession(l) \/ ExpireSession(l)
      PROVE  IInv'
  BY <1>2, LoginStep
<1>3. ASSUME NEW r \in Requests,
             Authorize(r) \/ AcquireLock(r) \/ Serve(r) \/ Rollback(r)
      PROVE  IInv'
  BY <1>3, TxStep, EndStep, CreateStep, CommitStep DEF Serve
<1>4. QED
  BY <1>1, <1>2, <1>3 DEF Next

-----------------------------------------------------------------------------

LEMMA Invariance == Spec => []IInv
BY InitIInv, StepIInv, PTL DEF Spec

\* Every reachable state is of the stated types.
THEOREM AdminUsersTypes == Spec => []TypeOK
<1>1. IInv => TypeOK
  BY DEF IInv
<1>2. QED
  BY <1>1, Invariance, PTL

\* updateAdminUser and deleteAdminUser, in whatever number and order, leave
\* an active super admin.
THEOREM OneSuperAdminStays == Spec => []LastSuperAdmin
<1>1. IInv => LastSuperAdmin
  BY DEF IInv
<1>2. QED
  BY <1>1, Invariance, PTL

\* No update that runs beside a deletion switches the deleted user on again.
THEOREM DeletedStayInactive == Spec => []DeletedAreInactive
<1>1. IInv => DeletedAreInactive
  BY DEF IInv
<1>2. QED
  BY <1>1, Invariance, PTL

LEMMA StepChangeIsAsked ==
    ASSUME IInv, Next, NEW u \in rows PROVE ChangeIsAsked(u)
<1>1. CASE UNCHANGED <<superAdmins, active>>
  BY <1>1 DEF ChangeIsAsked
<1>2. ASSUME NEW r \in Requests, CreateAdminUser(r) PROVE ChangeIsAsked(u)
  BY <1>2 DEF ChangeIsAsked, CreateAdminUser
<1>3. ASSUME NEW r \in Requests, Commit(r) PROVE ChangeIsAsked(u)
  <2>1. pc[r] = "written" /\ pc'[r] = "idle" /\ ReadIsCurrent(r)
    BY <1>3 DEF Commit, End, IInv, TypeOK, TxInv, TxInvOf, HasRead
  <2>2. read[r].super = (dto[r].target \in superAdmins)
        /\ read[r].active = (dto[r].target \in active)
    BY <2>1 DEF ReadIsCurrent
  <2>3. dto[r].op \in {"update", "delete"}
    BY <2>1 DEF IInv, TxInv, TxInvOf, TxStates
  <2>4. CASE u # dto[r].target
    BY <1>3, <2>4 DEF ChangeIsAsked, Commit, With
  <2>5. CASE u = dto[r].target
    <3>1. CommitsWith(r, u)
      BY <2>1, <2>5 DEF CommitsWith
    <3>2. (u \in superAdmins) # (u \in superAdmins') =>
              dto[r].op = "update" /\ dto[r].role # "keep"
      BY <1>3, <2>2, <2>3, <2>5 DEF Commit, With, NextSuper
    <3>3. (u \in active) # (u \in active') /\ dto[r].op = "update" =>
              dto[r].activity # "keep"
      BY <1>3, <2>2, <2>5 DEF Commit, With, NextActive
    <3>4. QED
      BY <3>1, <3>2, <3>3 DEF ChangeIsAsked
  <2>6. QED
    BY <2>4, <2>5
<1>4. QED
  BY <1>1, <1>2, <1>3 DEF Next, Serve, CheckPassword, CreateSession, ExpireSession, Authorize,
     AcquireLock, ReadTarget, ReadRow, CountOthers, WriteRows, Refuse, Rollback, userVars

\* updateAdminUser writes is_super_admin and is_active back from what it read,
\* and yet undoes no concurrent change of the field it was not asked to touch.
THEOREM NoLostFieldUpdate == Spec => FieldsChangeOnlyOnRequest
<1>1. IInv /\ [Next]_vars => [\A u \in rows : ChangeIsAsked(u)]_vars
  BY StepChangeIsAsked
<1>2. QED
  BY <1>1, Invariance, PTL DEF Spec, FieldsChangeOnlyOnRequest

-----------------------------------------------------------------------------
(* Sessions.  A deactivation is two moments: its UPDATE of the sessions and  *)
(* its COMMIT.  Before the latter, every session of its target is revoked,   *)
(* about to be, or late; after it, every session of a stale login is one of  *)
(* the first and the third.                                                  *)

RevokesAll(r) ==
    pc[r] = "written" /\ Deactivates(r) =>
        SessionsOf(dto[r].target) \subseteq revoked \cup revoking[r] \cup late
StaleAreCovered ==
    \A l \in Logins : l \in stale /\ login[l] = "stored" => l \in revoked \cup late
SessionInv == StaleAreCovered /\ \A r \in Requests : RevokesAll(r)

LEMMA InitSessionInv == Init => SessionInv
BY DEF Init, SessionInv, StaleAreCovered, RevokesAll

\* A login that stores its session beside or after a deactivation is late.
LEMMA LoginSessions ==
    ASSUME TypeOK, SessionInv, NEW l \in Logins,
           CheckPassword(l) \/ CreateSession(l) \/ ExpireSession(l)
    PROVE  SessionInv'
<1>1. UNCHANGED <<txVars, revoked, stale>> /\ late \subseteq late'
  BY DEF CheckPassword, CreateSession, ExpireSession
<1>2. ASSUME NEW k \in Logins, k # l PROVE UNCHANGED <<login[k], owner[k]>>
  BY <1>2 DEF TypeOK, CheckPassword, CreateSession, ExpireSession, loginVars
<1>3. login'[l] = "stored" =>
          CreateSession(l) /\ owner'[l] = owner[l]
  BY DEF TypeOK, CheckPassword, CreateSession, ExpireSession
<1>4. StaleAreCovered'
  BY <1>1, <1>2, <1>3 DEF SessionInv, StaleAreCovered, CreateSession
<1>5. ASSUME NEW r \in Requests PROVE RevokesAll(r)'
  <2> SUFFICES ASSUME pc[r] = "written", Deactivates(r),
                      NEW k \in Logins, login'[k] = "stored", owner'[k] = dto[r].target
               PROVE  k \in revoked \cup revoking[r] \cup late'
    BY <1>1 DEF RevokesAll, SessionsOf, Deactivates, NextActive, txVars
  <2>1. CASE k = l
    BY <2>1, <1>3 DEF CreateSession, BeingDeactivated
  <2>2. CASE k # l
    BY <2>2, <1>1, <1>2 DEF SessionInv, RevokesAll, SessionsOf
  <2>3. QED
    BY <2>1, <2>2
<1>6. QED
  BY <1>4, <1>5 DEF SessionInv

\* The UPDATE of the sessions sees those stored so far; the COMMIT, which makes
\* its logins stale, makes the update visible, too.
LEMMA RequestSessions ==
    ASSUME TypeOK, SessionInv, NEW r \in Requests,
           Authorize(r) \/ AcquireLock(r) \/ Serve(r) \/ Rollback(r)
    PROVE  SessionInv'
<1>1. UNCHANGED <<loginVars, late>> /\ revoked \subseteq revoked'
  BY DEF Authorize, AcquireLock, Serve, CreateAdminUser, ReadTarget, ReadRow, CountOthers,
     WriteRows, Commit, Refuse, Rollback
<1>2. ASSUME NEW q \in Requests, q # r PROVE RevokesAll(q)'
  <2>1. UNCHANGED <<pc[q], dto[q], read[q], revoking[q]>>
    BY <1>2 DEF TypeOK, Authorize, AcquireLock, Serve, CreateAdminUser, ReadTarget, ReadRow,
       CountOthers, WriteRows, Commit, Refuse, Rollback, End
  <2>2. QED
    BY <2>1, <1>1, <1>2 DEF SessionInv, RevokesAll, SessionsOf, Deactivates, NextActive, loginVars
<1>3. RevokesAll(r)'
  <2>1. CASE WriteRows(r)
    BY <2>1, <1>1 DEF WriteRows, TypeOK, RevokesAll, SessionsOf, Deactivates, NextActive, loginVars
  <2>2. CASE ~WriteRows(r)
    <3>1. pc'[r] # "written"
      BY <2>2 DEF TypeOK, Authorize, AcquireLock, Serve, CreateAdminUser, ReadTarget, ReadRow,
         CountOthers, Commit, Refuse, Rollback, End
    <3>2. QED
      BY <3>1 DEF RevokesAll
  <2>3. QED
    BY <2>1, <2>2
<1>4. StaleAreCovered'
  <2>1. CASE Commit(r)
    <3>1. revoked' = revoked \cup revoking[r] /\ pc[r] = "written"
      BY <2>1 DEF Commit
    <3>2. stale' = IF Deactivates(r)
                   THEN stale \cup {l \in Logins : owner[l] = dto[r].target} ELSE stale
      BY <2>1 DEF Commit
    <3>3. QED
      BY <3>1, <3>2, <1>1 DEF SessionInv, StaleAreCovered, RevokesAll, SessionsOf, loginVars
  <2>2. CASE UNCHANGED stale
    BY <2>2, <1>1 DEF SessionInv, StaleAreCovered, loginVars
  <2>3. QED
    BY <2>1, <2>2 DEF Authorize, AcquireLock, Serve, CreateAdminUser, ReadTarget, ReadRow,
       CountOthers, WriteRows, Refuse, Rollback
<1>5. QED
  BY <1>2, <1>3, <1>4 DEF SessionInv

LEMMA StepSessionInv == TypeOK /\ SessionInv /\ [Next]_vars => SessionInv'
<1>1. ASSUME SessionInv, UNCHANGED vars PROVE SessionInv'
  BY <1>1 DEF SessionInv, StaleAreCovered, RevokesAll, SessionsOf, Deactivates, NextActive,
     vars, loginVars, txVars
<1>2. QED
  BY <1>1, LoginSessions, RequestSessions DEF Next

\* A session outlives the deactivation of its user only if the login stored it
\* after the deactivation's UPDATE of the sessions.
THEOREM OnlyLateSessions == Spec => []OnlyLateSessionsSurvive
<1>1. SessionInv => OnlyLateSessionsSurvive
  BY DEF SessionInv, StaleAreCovered, OnlyLateSessionsSurvive, Usable
<1>2. QED
  BY <1>1, InitSessionInv, StepSessionInv, AdminUsersTypes, PTL DEF Spec

-----------------------------------------------------------------------------
(* The login rate limit.                                                   *)

Credential(r) == CredentialKey(who[r][1], who[r][2])

AttemptInv ==
    \A r \in Attempts :
        /\ time[r] <= now
        /\ stage[r] # "idle" =>
              /\ who[r] \in Addresses \X Names
              /\ key[r] \in KeysOf(r)
        /\ stage[r] \in {"asserting", "password", "succeeded"} => key[r] = AddressKey(who[r][1])

\* The rows that r may still change.
ToChange(r) == {key[r], Credential(r)}

InsideInv ==
    \A r \in Attempts : stage[r] \in LetIn =>
        \A k \in ToChange(r) : BlockedAt(k, now) => <<r, k>> \in outrun

Shape ==
    /\ bucket = [k \in Keys |-> bucket[k]]
    /\ seen = [r \in Attempts |-> seen[r]]

LimiterInv == LimiterTypeOK /\ Shape /\ AttemptInv /\ OnlyOverlapsLoseFailures /\ InsideInv

USE DurationsAssumption, NoneAssumption

LEMMA KeysDiffer ==
    ASSUME NEW a \in Addresses, NEW n \in Names
    PROVE  /\ AddressKey(a) # CredentialKey(a, n)
           /\ AddressKey(a) \in Keys /\ CredentialKey(a, n) \in Keys
BY DEF AddressKey, CredentialKey, Keys

\* The rows of an attempt in progress are two rows of the table.
LEMMA AttemptKeys ==
    ASSUME LimiterInv, NEW r \in Attempts, stage[r] # "idle"
    PROVE  /\ AddressKey(who[r][1]) # Credential(r)
           /\ KeysOf(r) = {AddressKey(who[r][1]), Credential(r)}
           /\ KeysOf(r) \subseteq Keys /\ ToChange(r) \subseteq KeysOf(r)
           /\ key[r] \in Keys
<1>1. who[r] \in Addresses \X Names /\ key[r] \in KeysOf(r)
  BY DEF LimiterInv, AttemptInv
<1>2. who[r][1] \in Addresses /\ who[r][2] \in Names
  BY <1>1
<1>3. QED
  BY <1>1, <1>2, KeysDiffer DEF KeysOf, Credential, ToChange

LEMMA InitLimiter == LimiterInit => LimiterInv
BY DEF LimiterInit, LimiterInv, LimiterTypeOK, Shape, AttemptInv, OnlyOverlapsLoseFailures, InsideInv, LetIn, BlockedAt

\* A step inside a login that leaves the rows and the history alone: r comes
\* to p, with who w, time t, key k and seen b.
QuietStep(r, p, w, t, k, b) ==
    /\ UNCHANGED <<now, bucket, historyVars>>
    /\ p \in LetIn \cup {"idle", "asserting"} /\ stage' = [stage EXCEPT ![r] = p]
    /\ who' = [who EXCEPT ![r] = w]
    /\ t \in 0..now /\ time' = [time EXCEPT ![r] = t]
    /\ key' = [key EXCEPT ![r] = k]
    /\ b \in Rows \cup {None} /\ seen' = [seen EXCEPT ![r] = b]
    /\ \/ p = "idle" /\ w = None /\ k = None
       \/ /\ p # "idle" /\ w \in Addresses \X Names
          /\ p \in {"asserting", "password", "succeeded"} => k = AddressKey(w[1])
          /\ k \in {AddressKey(w[1]), CredentialKey(w[1], w[2])}
          /\ p \in LetIn =>
                \A l \in {k, CredentialKey(w[1], w[2])} : BlockedAt(l, now) => <<r, l>> \in outrun

LEMMA QuietStepIInv ==
    ASSUME LimiterInv, NEW r \in Attempts, NEW p, NEW w, NEW t, NEW k, NEW b,
           QuietStep(r, p, w, t, k, b)
    PROVE  LimiterInv'
<1> USE DEF LimiterInv, QuietStep
<1>1. k \in Keys \cup {None} /\ w \in (Addresses \X Names) \cup {None}
  <2>1. CASE p = "idle"
    BY <2>1
  <2>2. CASE w \in Addresses \X Names /\ k \in {AddressKey(w[1]), CredentialKey(w[1], w[2])}
    BY <2>2, KeysDiffer
  <2>3. QED
    BY <2>1, <2>2
<1>2. LimiterTypeOK'
  BY <1>1 DEF LimiterTypeOK, historyVars
<1>3. Shape'
  BY DEF Shape
<1>4. AttemptInv'
  BY DEF AttemptInv, LimiterTypeOK, KeysOf
<1>5. OnlyOverlapsLoseFailures'
  BY DEF OnlyOverlapsLoseFailures, historyVars
<1>6. InsideInv'
  <2>1. SUFFICES ASSUME NEW q \in Attempts, stage'[q] \in LetIn, NEW l \in ToChange(q)', BlockedAt(l, now)'
                 PROVE  <<q, l>> \in outrun'
    BY DEF InsideInv
  <2>2. BlockedAt(l, now) /\ outrun' = outrun
    BY <2>1 DEF BlockedAt, historyVars
  <2>3. CASE q = r
    <3>1. stage'[r] = p /\ who'[r] = w /\ key'[r] = k
      BY DEF LimiterTypeOK
    <3>2. p \in LetIn /\ l \in {k, CredentialKey(w[1], w[2])}
      BY <2>1, <2>3, <3>1 DEF ToChange, Credential
    <3>3. QED
      BY <2>2, <2>3, <3>2 DEF LetIn
  <2>4. CASE q # r
    <3>1. stage'[q] = stage[q] /\ ToChange(q)' = ToChange(q)
      BY <2>4 DEF LimiterTypeOK, ToChange, Credential
    <3>2. QED
      BY <2>1, <2>2, <3>1 DEF InsideInv
  <2>5. QED
    BY <2>3, <2>4
<1>7. QED
  BY <1>2, <1>3, <1>4, <1>5, <1>6

LEMMA EnterStep ==
    ASSUME LimiterInv, NEW r \in Attempts,
           \/ \E a \in Addresses, n \in Names : Begin(r, a, n)
           \/ RefuseBlocked(r) \/ Admit(r) \/ RightPassword(r) \/ WrongPassword(r) \/ ReadBucket(r)
    PROVE  LimiterInv'
<1> USE DEF LimiterInv, Goto
<1>1. now \in 0..MaxTime /\ time[r] \in 0..now /\ seen[r] \in Rows \cup {None} /\ stage \in [Attempts -> LetIn \cup {"idle", "asserting"}]
  BY DEF LimiterTypeOK, AttemptInv
<1>2. ASSUME stage[r] # "idle"
      PROVE  /\ who[r] \in Addresses \X Names
             /\ key[r] \in {AddressKey(who[r][1]), Credential(r)} /\ key[r] \in Keys
  BY <1>2, AttemptKeys DEF AttemptInv
<1>3. /\ who = [who EXCEPT ![r] = who[r]] /\ time = [time EXCEPT ![r] = time[r]]
      /\ key = [key EXCEPT ![r] = key[r]] /\ seen = [seen EXCEPT ![r] = seen[r]]
  BY DEF LimiterTypeOK, Shape
<1>4. ASSUME NEW a \in Addresses, NEW n \in Names, Begin(r, a, n) PROVE LimiterInv'
  <2>1. <<a, n>> \in Addresses \X Names /\ <<a, n>>[1] = a /\ "asserting" \notin LetIn
    BY DEF LetIn
  <2>2. now \in 0..now
    BY <1>1
  <2>3. QuietStep(r, "asserting", <<a, n>>, now, AddressKey(a), seen[r])
    BY <1>1, <1>3, <1>4, <2>1, <2>2 DEF Begin, QuietStep
  <2>4. QED
    BY <2>3, QuietStepIInv
<1>5. CASE RefuseBlocked(r)
  <2>1. 0 \in 0..now /\ None \in Rows \cup {None}
    BY <1>1
  <2>2. QuietStep(r, "idle", None, 0, None, None)
    BY <1>5, <2>1 DEF RefuseBlocked, Leave, QuietStep
  <2>3. QED
    BY <2>2, QuietStepIInv
<1>6. CASE Admit(r)
  <2>1. stage[r] = "asserting" /\ \A k \in KeysOf(r) : ~BlockedAt(k, time[r])
    BY <1>6 DEF Admit
  <2>2. key[r] = AddressKey(who[r][1])
    BY <2>1 DEF AttemptInv
  <2>3. \A k \in KeysOf(r) : ~BlockedAt(k, now)
    <3>1. \A k \in KeysOf(r) : k \in Keys
      BY <2>1, AttemptKeys
    <3>2. \A k \in Keys : bucket[k] # None /\ bucket[k].until # None => bucket[k].until \in Nat
      BY DEF LimiterTypeOK, Rows
    <3>3. QED
      BY <1>1, <2>1, <3>1, <3>2 DEF BlockedAt
  <2>4. QuietStep(r, "password", who[r], time[r], key[r], seen[r])
    BY <1>1, <1>2, <1>3, <1>6, <2>1, <2>2, <2>3 DEF Admit, LetIn, KeysOf, Credential, QuietStep
  <2>5. QED
    BY <2>4, QuietStepIInv
<1>7. ASSUME stage[r] \in LetIn
      PROVE  \A l \in {key[r], CredentialKey(who[r][1], who[r][2])} :
                BlockedAt(l, now) => <<r, l>> \in outrun
  BY <1>7 DEF InsideInv, ToChange, Credential
<1>8. CASE RightPassword(r)
  <2>1. QuietStep(r, "succeeded", who[r], time[r], key[r], seen[r])
    BY <1>1, <1>2, <1>3, <1>7, <1>8 DEF RightPassword, LetIn, AttemptInv, Credential, QuietStep
  <2>2. QED
    BY <2>1, QuietStepIInv
<1>9. CASE WrongPassword(r)
  <2>1. now \in 0..now
    BY <1>1
  <2>2. QuietStep(r, "reading", who[r], now, key[r], seen[r])
    BY <1>1, <1>2, <1>3, <1>7, <1>9, <2>1 DEF WrongPassword, LetIn, Credential, QuietStep
  <2>3. QED
    BY <2>2, QuietStepIInv
<1>10. CASE ReadBucket(r)
  <2>1. bucket[key[r]] \in Rows \cup {None}
    BY <1>2, <1>10 DEF ReadBucket, LimiterTypeOK
  <2>2. QuietStep(r, "writing", who[r], time[r], key[r], bucket[key[r]])
    BY <1>1, <1>2, <1>3, <1>7, <1>10, <2>1 DEF ReadBucket, LetIn, Credential, QuietStep
  <2>3. QED
    BY <2>2, QuietStepIInv
<1>11. QED
  BY <1>4, <1>5, <1>6, <1>8, <1>9, <1>10

-----------------------------------------------------------------------------
(* The steps that change a row.                                            *)

\* r goes on to another row, or it is done: then it is inside no more.
Moves(r) ==
    \/ /\ stage' = [stage EXCEPT ![r] = "idle"] /\ who' = [who EXCEPT ![r] = None]
       /\ key' = [key EXCEPT ![r] = None] /\ time' = [time EXCEPT ![r] = 0]
    \/ /\ stage' = [stage EXCEPT ![r] = "reading"] /\ UNCHANGED who
       /\ key[r] # Credential(r)
       /\ key' = [key EXCEPT ![r] = Credential(r)] /\ time' = [time EXCEPT ![r] = now]

\* r, let in before, gives row k the value b.
LEMMA RowStep ==
    ASSUME LimiterInv, NEW r \in Attempts, stage[r] \in LetIn, Moves(r), UNCHANGED now,
           NEW k \in ToChange(r), k = key[r] \/ stage'[r] = "idle",
           NEW b \in Rows \cup {None}, bucket' = [bucket EXCEPT ![k] = b],
           seen' = [seen EXCEPT ![r] = None],
           failed' \in [Keys -> Nat], raced' \subseteq Keys, outrun' \subseteq Attempts \X Keys,
           \A l \in Keys \ {k} : failed'[l] = failed[l] /\ (l \in raced' <=> l \in raced),
           b # None /\ k \notin raced' =>
               /\ b.attempts = failed'[k]
               /\ b.until # None <=> failed'[k] > MaxAttempts,
           \A q \in Attempts \ {r} : \A l \in Keys : <<q, l>> \in outrun => <<q, l>> \in outrun',
           stage'[r] = "reading" => \A l \in Keys : <<r, l>> \in outrun => <<r, l>> \in outrun',
           b # None /\ b.until # None =>
               \A q \in Attempts \ {r} : stage[q] \in LetIn => <<q, k>> \in outrun'
    PROVE  LimiterInv'
<1> USE DEF LimiterInv
<1>1. stage[r] # "idle" /\ k \in Keys /\ Credential(r) \in Keys /\ now \in 0..MaxTime
  BY AttemptKeys DEF LetIn, LimiterTypeOK
<1>2. LimiterTypeOK'
  BY <1>1 DEF LimiterTypeOK, Moves, LetIn, Shape
<1>3. Shape'
  BY DEF Shape
<1>4. AttemptInv'
  <2>1. ASSUME NEW q \in Attempts, q # r
        PROVE  UNCHANGED <<stage[q], who[q], key[q], time[q], KeysOf(q)>>
    BY <2>1 DEF Moves, LimiterTypeOK, KeysOf
  <2>2. stage'[r] \in {"idle", "reading"} /\ time'[r] <= now
    BY <1>1 DEF Moves, LimiterTypeOK
  <2>3. ASSUME stage'[r] # "idle" PROVE who'[r] \in Addresses \X Names /\ key'[r] \in KeysOf(r)'
    BY <1>1, <2>3 DEF Moves, LimiterTypeOK, AttemptInv, KeysOf, Credential
  <2>4. QED
    BY <2>1, <2>2, <2>3 DEF AttemptInv
<1>5. OnlyOverlapsLoseFailures'
  <2>1. ASSUME NEW l \in Keys, l # k PROVE bucket'[l] = bucket[l]
    BY <2>1 DEF Shape
  <2>2. bucket'[k] = b
    BY <1>1 DEF Shape
  <2>3. QED
    BY <2>1, <2>2 DEF OnlyOverlapsLoseFailures
<1>6. InsideInv'
  <2>1. SUFFICES ASSUME NEW q \in Attempts, stage'[q] \in LetIn, NEW l \in ToChange(q)', BlockedAt(l, now)'
                 PROVE  <<q, l>> \in outrun'
    BY DEF InsideInv
  <2>2. bucket'[l] # None /\ bucket'[l].until # None
    BY <2>1 DEF BlockedAt
  <2>3. CASE q = r
    <3>1. stage'[r] = "reading" /\ ToChange(r)' = {Credential(r)} /\ key[r] # Credential(r)
      BY <2>1, <2>3 DEF Moves, LimiterTypeOK, LetIn, ToChange, Credential
    <3>2. l = Credential(r) /\ k = key[r] /\ l \in ToChange(r)
      BY <2>1, <2>3, <3>1 DEF ToChange
    <3>3. bucket'[l] = bucket[l]
      BY <3>1, <3>2, <1>1 DEF Shape
    <3>4. <<r, l>> \in outrun
      BY <2>1, <3>2, <3>3 DEF InsideInv, BlockedAt
    <3>5. QED
      BY <2>3, <3>1, <3>2, <3>4, <1>1
  <2>4. CASE q # r
    <3>1. stage[q] \in LetIn /\ l \in ToChange(q)
      BY <2>1, <2>4 DEF Moves, LimiterTypeOK, ToChange, Credential
    <3>2. l \in Keys
      BY <3>1, AttemptKeys DEF LetIn
    <3>3. CASE l = k
      BY <2>2, <2>4, <3>1, <3>3, <1>1 DEF Shape
    <3>4. CASE l # k
      <4>1. bucket'[l] = bucket[l]
        BY <3>2, <3>4 DEF Shape
      <4>2. <<q, l>> \in outrun
        BY <2>1, <3>1, <4>1 DEF InsideInv, BlockedAt
      <4>3. QED
        BY <2>4, <3>2, <4>2
    <3>5. QED
      BY <3>3, <3>4
  <2>5. QED
    BY <2>3, <2>4
<1>7. QED
  BY <1>2, <1>3, <1>4, <1>5, <1>6

LEMMA RecordSuccessStep ==
    ASSUME LimiterInv, NEW r \in Attempts, RecordSuccess(r)
    PROVE  LimiterInv'
<1> DEFINE k == Credential(r)
<1>1. stage[r] \in LetIn /\ stage[r] # "idle"
  BY DEF RecordSuccess, LetIn
<1>2. k \in ToChange(r) /\ k \in Keys /\ None \in Rows \cup {None}
  BY <1>1, AttemptKeys DEF ToChange
<1>3. /\ bucket' = [bucket EXCEPT ![k] = None] /\ failed' = [failed EXCEPT ![k] = 0]
      /\ raced' = raced \ {k} /\ outrun' = Forget(r)
      /\ Moves(r) /\ seen' = [seen EXCEPT ![r] = None] /\ UNCHANGED now
  BY DEF RecordSuccess, Credential, Leave, Goto, Moves
<1>4. stage'[r] = "idle"
  BY DEF RecordSuccess, Leave, Goto, LimiterInv, LimiterTypeOK
<1>5. failed' \in [Keys -> Nat] /\ raced' \subseteq Keys /\ outrun' \subseteq Attempts \X Keys
  BY <1>2, <1>3 DEF LimiterInv, LimiterTypeOK, Forget
<1>6. \A l \in Keys \ {k} : failed'[l] = failed[l] /\ (l \in raced' <=> l \in raced)
  BY <1>3 DEF LimiterInv, LimiterTypeOK
<1>7. \A q \in Attempts \ {r} : \A l \in Keys : <<q, l>> \in outrun => <<q, l>> \in outrun'
  BY <1>3 DEF Forget
<1>8. QED
  BY <1>1, <1>2, <1>3, <1>4, <1>5, <1>6, <1>7, RowStep

\* What is written is a row, and it counts one failure more, or starts anew.
LEMMA NewRowIsRow ==
    ASSUME LimiterInv, NEW r \in Attempts, stage[r] = "writing"
    PROVE  /\ NewRow(r) \in Rows /\ NewRow(r).attempts = Counted(r)
           /\ Counted(r) \in Nat \ {0}
           /\ NewRow(r).until # None <=> Counted(r) > MaxAttempts
<1>1. time[r] \in Nat /\ key[r] \in Keys /\ seen[r] \in Rows \cup {None}
  BY AttemptKeys DEF LimiterInv, LimiterTypeOK
<1>2. Counted(r) \in Nat \ {0}
  BY <1>1 DEF Counted, Expired, Over, Rows
<1>3. /\ BlockedUntil(r) \in Nat \cup {None}
      /\ BlockedUntil(r) # None <=> Counted(r) > MaxAttempts
  <2>1. time[r] + Block \in Nat /\ time[r] + Block # None
    BY <1>1
  <2>2. QED
    BY <2>1 DEF BlockedUntil
<1>4. (IF Expired(r) \/ bucket[key[r]] = None THEN time[r] ELSE seen[r].start) \in Nat
  BY <1>1 DEF Expired, Over, Rows
<1>5. QED
  BY <1>2, <1>3, <1>4 DEF NewRow, Rows

LEMMA WriteBucketStep ==
    ASSUME LimiterInv, NEW r \in Attempts, WriteBucket(r)
    PROVE  LimiterInv'
<1> DEFINE k == key[r]
           remembered == IF stage'[r] = "idle" THEN Forget(r) ELSE outrun
           others == {s \in Attempts \ {r} : stage[s] \in LetIn}
<1>1. stage[r] = "writing" /\ stage[r] \in LetIn /\ stage[r] # "idle" /\ UNCHANGED now
  BY DEF WriteBucket, LetIn
<1>2. k \in ToChange(r) /\ k \in Keys /\ KeysOf(r) = {AddressKey(who[r][1]), Credential(r)}
      /\ AddressKey(who[r][1]) # Credential(r) /\ k \in KeysOf(r)
  BY <1>1, AttemptKeys DEF ToChange
<1>3. Moves(r) /\ seen' = [seen EXCEPT ![r] = None]
  <2>1. CASE k = AddressKey(who[r][1])
    BY <1>2, <2>1 DEF WriteBucket, NextBucket, Goto, Moves, Credential
  <2>2. CASE k # AddressKey(who[r][1])
    BY <2>2 DEF WriteBucket, NextBucket, Leave, Goto, Moves
  <2>3. QED
    BY <2>1, <2>2
<1>4. /\ bucket' = [bucket EXCEPT ![k] = NewRow(r)]
      /\ failed' = [failed EXCEPT ![k] = IF Over(bucket[k], time[r]) THEN 1 ELSE failed[k] + 1]
      /\ raced' = IF bucket[k] # seen[r] THEN raced \cup {k}
                  ELSE IF Expired(r) THEN raced \ {k} ELSE raced
      /\ outrun' = remembered \cup IF NewRow(r).until = None THEN {} ELSE others \X {k}
  BY DEF WriteBucket
<1>5. NewRow(r) \in Rows \cup {None}
  BY <1>1, NewRowIsRow
<1>6. failed' \in [Keys -> Nat] /\ raced' \subseteq Keys /\ outrun' \subseteq Attempts \X Keys
  <2>1. others \X {k} \subseteq Attempts \X Keys /\ remembered \subseteq Attempts \X Keys
    BY <1>2 DEF Forget, LimiterInv, LimiterTypeOK
  <2>2. failed' \in [Keys -> Nat] /\ raced' \subseteq Keys
    BY <1>2, <1>4 DEF LimiterInv, LimiterTypeOK
  <2>3. QED
    BY <1>4, <2>1, <2>2
<1>7. \A l \in Keys \ {k} : failed'[l] = failed[l] /\ (l \in raced' <=> l \in raced)
  BY <1>4 DEF LimiterInv, LimiterTypeOK
<1>8. ASSUME k \notin raced'
      PROVE  /\ NewRow(r).attempts = failed'[k]
             /\ NewRow(r).until # None <=> failed'[k] > MaxAttempts
  <2>1. bucket[k] = seen[r] /\ (Expired(r) <=> Over(bucket[k], time[r]))
    BY <1>4, <1>8 DEF Expired
  <2>2. failed'[k] = IF Expired(r) THEN 1 ELSE failed[k] + 1
    BY <1>2, <1>4, <2>1 DEF LimiterInv, LimiterTypeOK
  <2>3. ASSUME ~Expired(r) PROVE seen[r].attempts = failed[k]
    <3>1. k \notin raced /\ bucket[k] # None
      BY <1>4, <1>8, <2>1, <2>3 DEF Over
    <3>2. QED
      BY <1>2, <2>1, <3>1 DEF LimiterInv, OnlyOverlapsLoseFailures
  <2>4. Counted(r) = failed'[k]
    BY <2>2, <2>3 DEF Counted
  <2>5. QED
    BY <1>1, <2>4, NewRowIsRow
<1>9. \A q \in Attempts \ {r} : \A l \in Keys : <<q, l>> \in outrun => <<q, l>> \in outrun'
  BY <1>4 DEF Forget
<1>10. stage'[r] = "reading" => \A l \in Keys : <<r, l>> \in outrun => <<r, l>> \in outrun'
  BY <1>4
<1>11. NewRow(r).until # None => \A q \in Attempts \ {r} : stage[q] \in LetIn => <<q, k>> \in outrun'
  BY <1>4
<1>12. QED
  BY <1>1, <1>2, <1>3, <1>4, <1>5, <1>6, <1>7, <1>8, <1>9, <1>10, <1>11, RowStep

LEMMA TickStep ==
    ASSUME LimiterInv, Tick
    PROVE  LimiterInv'
<1> USE DEF LimiterInv
<1>1. now \in Nat /\ now' = now + 1 /\ now' \in 0..MaxTime /\ UNCHANGED <<bucket, attemptVars, historyVars>>
  BY DEF Tick, LimiterTypeOK
<1>2. LimiterTypeOK' /\ Shape' /\ OnlyOverlapsLoseFailures'
  BY <1>1 DEF LimiterTypeOK, Shape, OnlyOverlapsLoseFailures, attemptVars, historyVars
<1>3. AttemptInv'
  BY <1>1 DEF AttemptInv, LimiterTypeOK, attemptVars, KeysOf
<1>4. ASSUME NEW k \in Keys, BlockedAt(k, now)' PROVE BlockedAt(k, now)
  <2>1. bucket[k] # None /\ bucket[k].until # None /\ bucket[k].until > now + 1
    BY <1>1, <1>4 DEF BlockedAt
  <2>2. bucket[k].until \in Nat
    BY <2>1 DEF LimiterTypeOK, Rows
  <2>3. QED
    BY <1>1, <2>1, <2>2 DEF BlockedAt
<1>5. InsideInv'
  <2>1. ASSUME NEW r \in Attempts, stage[r] \in LetIn PROVE ToChange(r) \subseteq Keys /\ ToChange(r)' = ToChange(r)
    BY <1>1, <2>1, AttemptKeys DEF LetIn, ToChange, Credential, attemptVars
  <2>2. QED
    BY <1>1, <1>4, <2>1 DEF InsideInv, attemptVars, historyVars
<1>6. QED
  BY <1>2, <1>3, <1>5

LEMMA StepLimiter == LimiterInv /\ [LimiterNext]_limiterVars => LimiterInv'
<1> SUFFICES ASSUME LimiterInv, [LimiterNext]_limiterVars PROVE LimiterInv'
  OBVIOUS
<1>1. CASE Tick
  BY <1>1, TickStep
<1>2. ASSUME NEW r \in Attempts, AttemptStep(r) PROVE LimiterInv'
  BY <1>2, EnterStep, RecordSuccessStep, WriteBucketStep DEF AttemptStep
<1>3. CASE UNCHANGED limiterVars
  <2>1. UNCHANGED <<now, bucket, stage, who, time, key, seen, outrun, failed, raced>>
    BY <1>3 DEF limiterVars, attemptVars, historyVars
  <2>2. LimiterTypeOK' /\ Shape' /\ AttemptInv' /\ OnlyOverlapsLoseFailures'
    BY <2>1 DEF LimiterInv, LimiterTypeOK, Shape, AttemptInv, KeysOf, OnlyOverlapsLoseFailures
  <2>3. InsideInv'
    BY <2>1 DEF LimiterInv, InsideInv, ToChange, Credential, BlockedAt
  <2>4. QED
    BY <2>2, <2>3 DEF LimiterInv
<1>4. QED
  BY <1>1, <1>2, <1>3 DEF LimiterNext

LEMMA LimiterInvariance == LimiterSpec => []LimiterInv
BY InitLimiter, StepLimiter, PTL DEF LimiterSpec

\* However logins interleave, a row counts the failures of its window exactly
\* and blocks after MaxAttempts, unless write-backs of it have overlapped.
THEOREM Counts == LimiterSpec => []CountsAreExact
<1>1. LimiterInv => CountsAreExact
  BY DEF LimiterInv, CountsAreExact
<1>2. QED
  BY <1>1, LimiterInvariance, PTL

\* A running block is changed only by an attempt that was let in before it was
\* written: the check at the door holds for everybody who comes later.
THEOREM BlocksHold == LimiterSpec => BlockOutrunOnlyFromInside
<1>1. ASSUME LimiterInv, [LimiterNext]_limiterVars, NEW k \in Keys, BlockedAt(k, now), bucket'[k] # bucket[k]
      PROVE  \E r \in Attempts : <<r, k>> \in outrun /\ stage'[r] # stage[r]
  <2>1. PICK r \in Attempts : RecordSuccess(r) \/ WriteBucket(r)
    BY <1>1 DEF LimiterNext, limiterVars, Tick, AttemptStep, Begin, RefuseBlocked, Admit, RightPassword, WrongPassword, ReadBucket
  <2>2. stage[r] \in LetIn /\ stage[r] # "idle"
    BY <2>1 DEF RecordSuccess, WriteBucket, LetIn
  <2>3. k \in ToChange(r)
    BY <1>1, <2>1 DEF RecordSuccess, WriteBucket, ToChange, Credential, LimiterInv, Shape
  <2>4. stage'[r] # stage[r]
    BY <2>1, <1>1 DEF RecordSuccess, WriteBucket, NextBucket, Leave, Goto, LimiterInv, LimiterTypeOK
  <2>5. QED
    BY <1>1, <2>2, <2>3, <2>4 DEF LimiterInv, InsideInv
<1>2. ASSUME LimiterInv, [LimiterNext]_limiterVars
      PROVE  \A k \in Keys : BlockedAt(k, now) /\ bucket'[k] # bucket[k] =>
                \E r \in Attempts : <<r, k>> \in outrun /\ stage'[r] # stage[r]
  BY <1>1, <1>2
<1>3. QED
  BY <1>2, LimiterInvariance, PTL DEF LimiterSpec, BlockOutrunOnlyFromInside

-----------------------------------------------------------------------------
(* What overlapping can add.  Two attempts that work on the same row with   *)
(* the counts u and v, of which one may be old, can still add Worst(u, v)   *)
(* failures (twice that number here, to have no halves): the newer one goes *)
(* up to the limit, then the older one is written back plus one, and so on. *)

Series(n) == (MaxAttempts + 1 - n) * (MaxAttempts + 4 - n)
Worst(u, v) == IF u <= v THEN Series(u) - 2 * (v - u) ELSE Series(v) - 2 * (u - v)
Levels == 0..MaxAttempts

\* The series in terms of z, the failures up to the limit.
LEMMA SeriesIs ==
    ASSUME NEW n \in Levels
    PROVE  /\ MaxAttempts - n \in Nat
           /\ Series(n) = (MaxAttempts - n) * (MaxAttempts - n) + 5 * (MaxAttempts - n) + 4
<1>1. MaxAttempts - n \in Nat
  BY DEF Levels
<1>2. ASSUME NEW z \in Nat PROVE (z + 1) * (z + 4) = z * z + 5 * z + 4
  BY Z3
<1>3. Series(n) = ((MaxAttempts - n) + 1) * ((MaxAttempts - n) + 4)
  <2>1. MaxAttempts + 1 - n = (MaxAttempts - n) + 1 /\ MaxAttempts + 4 - n = (MaxAttempts - n) + 4
    BY DEF Levels
  <2>2. QED
    BY <2>1 DEF Series
<1>4. QED
  BY <1>1, <1>2, <1>3

\* One failure more, and at most two with the last one, is always possible.
LEMMA WorstRange ==
    ASSUME NEW u \in Levels, NEW v \in Levels
    PROVE  /\ Worst(u, v) \in Int /\ Worst(u, v) = Worst(v, u)
           /\ 4 <= Worst(u, v) /\ Worst(u, v) <= Series(0)
           /\ Worst(MaxAttempts, MaxAttempts) = 4
<1>1. ASSUME NEW x \in Levels, NEW y \in Levels, x <= y
      PROVE  /\ Series(x) \in Int
             /\ 4 <= Series(x) - 2 * (y - x) /\ Series(x) - 2 * (y - x) <= Series(0)
  <2> DEFINE z == MaxAttempts - x
  <2>1. z \in Nat /\ z <= MaxAttempts /\ y - x \in Nat /\ y - x <= z
    BY <1>1 DEF Levels
  <2>2. Series(x) = z * z + 5 * z + 4 /\ Series(0) = MaxAttempts * MaxAttempts + 5 * MaxAttempts + 4
    BY SeriesIs DEF Levels
  <2>3. z * z \in Nat /\ z * z <= MaxAttempts * MaxAttempts /\ MaxAttempts * MaxAttempts \in Nat
    <3> HIDE DEF z
    <3>1. ASSUME NEW i \in Nat, NEW j \in Nat, i <= j PROVE i * i \in Nat /\ i * i <= j * j
      <4>1. i * i <= j * i /\ j * i <= j * j
        BY <3>1, Z3
      <4>2. QED
        BY <4>1, Z3
    <3>2. QED
      BY <2>1, <3>1
  <2> HIDE DEF z
  <2>4. QED
    BY <2>1, <2>2, <2>3
<1>2. Series(MaxAttempts) = 4
  BY SeriesIs DEF Levels
<1>3. u \in Int /\ v \in Int /\ MaxAttempts \in Int
  BY DEF Levels
<1>4. CASE u <= v
  BY <1>1, <1>2, <1>3, <1>4 DEF Worst
<1>5. CASE v <= u
  BY <1>1, <1>2, <1>3, <1>5 DEF Worst
<1>6. QED
  BY <1>3, <1>4, <1>5

\* An old count that is written back is gone: with a count v that stays, one
\* failure less is left; if the row is what the other one works on, two.
LEMMA WorstStep ==
    ASSUME NEW u \in Levels, NEW v \in Levels, u < MaxAttempts
    PROVE  /\ Worst(u + 1, v) <= Worst(u, v) - 2
           /\ Worst(u + 1, u + 1) <= Worst(u, v) - 4
<1> DEFINE z == MaxAttempts - u
           y == MaxAttempts - v
<1>1. /\ z \in Nat /\ y \in Nat /\ 1 <= z /\ u + 1 \in Levels
      /\ MaxAttempts - (u + 1) = z - 1 /\ v - u = z - y
      /\ u <= v <=> y <= z
  BY DEF Levels
<1>2. /\ Series(u) = z * z + 5 * z + 4 /\ Series(v) = y * y + 5 * y + 4
      /\ Series(u + 1) = (z - 1) * (z - 1) + 5 * (z - 1) + 4
  BY <1>1, SeriesIs
<1>3. /\ (z - 1) * (z - 1) = z * z - 2 * z + 1 /\ z * z \in Nat /\ y * y \in Nat
  <2> HIDE DEF z, y
  <2>1. QED
    BY <1>1, Z3
<1>4. Series(u + 1) = Series(u) - 2 * z - 4
  <2> HIDE DEF z, y
  <2>1. QED
    BY <1>2, <1>3, <1>1
<1>5. Worst(u + 1, u + 1) = Series(u + 1)
  <2>1. Series(u + 1) \in Int
    BY <1>1, <1>2, <1>3
  <2>2. QED
    BY <1>1, <2>1 DEF Worst, Levels
<1>6. CASE u < v
  <2>1. /\ Worst(u, v) = Series(u) - 2 * (z - y)
        /\ Worst(u + 1, v) = Series(u + 1) - 2 * (z - y - 1)
    BY <1>1, <1>6 DEF Worst, Levels
  <2> HIDE DEF z, y
  <2>2. QED
    BY <1>1, <1>2, <1>3, <1>4, <1>5, <2>1
<1>7. CASE v <= u
  <2>1. Worst(u + 1, v) = Series(v) - 2 * (y - z + 1)
    BY <1>1, <1>7 DEF Worst, Levels
  <2>2. Worst(u, v) = Series(v) - 2 * (y - z)
    BY <1>1, <1>7 DEF Worst, Levels
  <2>3. z <= y
    BY <1>7 DEF Levels
  <2> HIDE DEF z, y
  <2>4. z * z <= y * y
    <3>1. z * z <= y * z /\ y * z <= y * y
      BY <1>1, <2>3, Z3
    <3>2. QED
      BY <1>1, <3>1, Z3
  <2>5. QED
    BY <1>1, <1>2, <1>3, <1>4, <1>5, <2>1, <2>2, <2>3, <2>4
<1>8. QED
  BY <1>6, <1>7 DEF Levels

\* The count of a row, and the one that r would write back plus one.
Count(k) == IF bucket[k] = None THEN 0 ELSE bucket[k].attempts
Old(r) == IF seen[r] = None THEN 0 ELSE seen[r].attempts
Clip(n) == IF n <= MaxAttempts THEN n ELSE MaxAttempts

Holds(r, k) == stage[r] = "writing" /\ key[r] = k
Inside(r, k) == stage[r] \in LetIn /\ k \in ToChange(r)

Level(r, k) == Clip(IF Holds(r, k) THEN Old(r) ELSE Count(k))

\* Twice the failures that r can add no more, as the row is blocked for it.
ShutOut(r, k) == IF Count(k) > MaxAttempts /\ ~Inside(r, k) THEN 2 ELSE 0

BoundedOf(k, a, b) ==
    2 * failed[k] + Worst(Level(a, k), Level(b, k)) - ShutOut(a, k) - ShutOut(b, k) <= Series(0)

RowsInv ==
    \A k \in Keys :
        IF bucket[k] = None THEN failed[k] = 0
        ELSE /\ bucket[k].until # None <=> bucket[k].attempts > MaxAttempts
             /\ bucket[k].until # None => bucket[k].until >= Block

\* The first window runs, and blocks outlast it.
FirstWindow == Block >= Window /\ now < Window

BoundInv ==
    \A a, b \in Attempts : a # b /\ Attempts = {a, b} /\ FirstWindow =>
        \A k \in Keys : BoundedOf(k, a, b)

LEMMA LevelTypes ==
    ASSUME LimiterTypeOK, NEW r \in Attempts, NEW k \in Keys
    PROVE  /\ Count(k) \in Nat /\ Old(r) \in Nat /\ Level(r, k) \in Levels
           /\ ShutOut(r, k) \in {0, 2} /\ failed[k] \in Nat
BY DEF LimiterTypeOK, Rows, Count, Old, Level, Clip, ShutOut, Levels

LEMMA InitBound == LimiterInit => RowsInv /\ BoundInv
<1> SUFFICES ASSUME LimiterInit PROVE RowsInv /\ BoundInv
  OBVIOUS
<1>1. RowsInv
  BY DEF LimiterInit, RowsInv
<1>2. ASSUME NEW a \in Attempts, NEW b \in Attempts, NEW k \in Keys PROVE BoundedOf(k, a, b)
  <2>1. Level(a, k) = 0 /\ Level(b, k) = 0 /\ ShutOut(a, k) = 0 /\ ShutOut(b, k) = 0 /\ failed[k] = 0
    BY <1>2 DEF LimiterInit, Level, Clip, Holds, Count, ShutOut
  <2>2. Worst(0, 0) \in Int /\ Worst(0, 0) <= Series(0)
    BY WorstRange DEF Levels
  <2>3. Series(0) \in Int
    BY DEF Series
  <2> HIDE DEF Worst, Series
  <2>4. QED
    BY <2>1, <2>2, <2>3 DEF BoundedOf
<1>3. QED
  BY <1>1, <1>2 DEF BoundInv

\* The order of the two does not matter.
LEMMA BoundedSymmetric ==
    ASSUME LimiterTypeOK, NEW a \in Attempts, NEW b \in Attempts, NEW k \in Keys, BoundedOf(k, a, b)
    PROVE  BoundedOf(k, b, a)
<1>1. Worst(Level(a, k), Level(b, k)) = Worst(Level(b, k), Level(a, k))
  BY LevelTypes, WorstRange
<1>2. /\ Worst(Level(a, k), Level(b, k)) \in Int /\ failed[k] \in Nat
      /\ ShutOut(a, k) \in {0, 2} /\ ShutOut(b, k) \in {0, 2} /\ Series(0) \in Int
  BY LevelTypes, WorstRange DEF Series
<1>3. QED
  BY <1>1, <1>2 DEF BoundedOf

\* The arithmetic of a write-back of count o over a row that has count c; u and
\* v are the level and the loss of the attempt that does not write.
LEMMA WriteArithmetic ==
    ASSUME NEW f \in Nat, NEW o \in Nat, NEW u \in Levels, NEW v \in Levels,
           NEW s \in {0, 2}, NEW t \in {0, 2},
           2 * f + Worst(Clip(o), u) - 0 - s <= Series(0),
           \/ v = u /\ s = 0 /\ t = 0
           \/ v = Clip(o + 1) /\ (o + 1 > MaxAttempts => t >= s) /\ (s = 2 => u = MaxAttempts)
    PROVE  2 * (f + 1) + Worst(Clip(o + 1), v) - (IF o + 1 > MaxAttempts THEN 2 ELSE 0) - t <= Series(0)
<1>1. Clip(o) \in Levels /\ Clip(o + 1) \in Levels /\ Series(0) \in Int
  BY DEF Clip, Levels, Series
<1>2. Worst(Clip(o), u) \in Int /\ Worst(Clip(o + 1), v) \in Int /\ 4 <= Worst(Clip(o), u)
  BY <1>1, WorstRange
<1>3. CASE o < MaxAttempts
  <2>1. Clip(o) = o /\ Clip(o + 1) = o + 1 /\ o \in Levels /\ ~(o + 1 > MaxAttempts)
    BY <1>3 DEF Clip, Levels
  <2>2. Worst(o + 1, u) <= Worst(o, u) - 2 /\ Worst(o + 1, o + 1) <= Worst(o, u) - 4
    BY <1>3, <2>1, WorstStep
  <2>3. Worst(o + 1, v) <= Worst(o, u) - 2 - s
    BY <1>1, <1>2, <2>1, <2>2
  <2>4. QED
    BY <1>1, <1>2, <2>1, <2>3
<1>4. CASE o >= MaxAttempts
  <2>1. Clip(o) = MaxAttempts /\ Clip(o + 1) = MaxAttempts /\ o + 1 > MaxAttempts
    BY <1>4 DEF Clip
  <2>2. Worst(MaxAttempts, v) <= Worst(MaxAttempts, u) /\ t >= s
    <3>1. Worst(MaxAttempts, MaxAttempts) = 4
      BY <1>1, WorstRange
    <3>2. QED
      BY <1>1, <1>2, <2>1, <3>1
  <2>3. QED
    BY <1>1, <1>2, <2>1, <2>2
<1>5. QED
  BY <1>3, <1>4

LEMMA OthersStay ==
    ASSUME LimiterInv, NEW r \in Attempts, AttemptStep(r), NEW q \in Attempts \ {r}
    PROVE  UNCHANGED <<now, stage[q], who[q], key[q], seen[q]>>
<1> USE DEF LimiterInv, LimiterTypeOK, Shape, Leave, Goto
<1>1. CASE \E a \in Addresses, n \in Names : Begin(r, a, n)
  BY <1>1 DEF Begin
<1>2. CASE RefuseBlocked(r) \/ Admit(r) \/ RightPassword(r) \/ WrongPassword(r) \/ ReadBucket(r)
  BY <1>2 DEF RefuseBlocked, Admit, RightPassword, WrongPassword, ReadBucket
<1>3. CASE RecordSuccess(r)
  BY <1>3 DEF RecordSuccess
<1>4. CASE WriteBucket(r)
  <2>1. NextBucket(r) /\ UNCHANGED now
    BY <1>4 DEF WriteBucket
  <2>2. QED
    BY <2>1 DEF NextBucket
<1>5. QED
  BY <1>1, <1>2, <1>3, <1>4 DEF AttemptStep

LEMMA RowsStep ==
    ASSUME LimiterInv, RowsInv, NEW r \in Attempts, AttemptStep(r)
    PROVE  RowsInv'
<1> USE DEF LimiterInv, Shape
<1>1. CASE UNCHANGED <<bucket, failed>>
  BY <1>1 DEF RowsInv
<1>2. CASE RecordSuccess(r)
  <2>1. Credential(r) \in Keys
    BY <1>2, AttemptKeys DEF RecordSuccess, ToChange
  <2>2. QED
    BY <1>2, <2>1 DEF RecordSuccess, Credential, RowsInv, LimiterTypeOK
<1>3. CASE WriteBucket(r)
  <2> DEFINE new == NewRow(r)
             k == key[r]
  <2>1. stage[r] = "writing" /\ k \in Keys /\ time[r] \in Nat
    BY <1>3, AttemptKeys DEF WriteBucket, LimiterTypeOK
  <2>2. new \in Rows /\ (new.until # None <=> new.attempts > MaxAttempts)
    BY <2>1, NewRowIsRow
  <2>3. new.until # None => new.until >= Block
    BY <2>1 DEF NewRow, BlockedUntil
  <2>4. bucket' = [bucket EXCEPT ![k] = new] /\ \A l \in Keys \ {k} : failed'[l] = failed[l]
    <3>1. failed' = [failed EXCEPT ![k] = IF Over(bucket[k], time[r]) THEN 1 ELSE failed[k] + 1]
      BY <1>3 DEF WriteBucket
    <3>2. bucket' = [bucket EXCEPT ![k] = new]
      BY <1>3 DEF WriteBucket
    <3>3. PICK c : failed' = [failed EXCEPT ![k] = c]
      BY <3>1, Zenon
    <3>4. \A l \in Keys \ {k} : failed'[l] = failed[l]
      BY <3>3 DEF LimiterTypeOK
    <3>5. QED
      BY <3>2, <3>4
  <2>5. new # None
    BY <2>2
  <2> HIDE DEF new
  <2>6. ASSUME NEW l \in Keys
        PROVE  IF bucket'[l] = None THEN failed'[l] = 0
               ELSE /\ bucket'[l].until # None <=> bucket'[l].attempts > MaxAttempts
                    /\ bucket'[l].until # None => bucket'[l].until >= Block
    <3>1. CASE l = k
      BY <2>1, <2>2, <2>3, <2>4, <2>5, <3>1
    <3>2. CASE l # k
      BY <2>1, <2>4, <3>2 DEF RowsInv
    <3>3. QED
      BY <3>1, <3>2
  <2>7. QED
    BY <2>6 DEF RowsInv
<1>4. QED
  BY <1>1, <1>2, <1>3 DEF AttemptStep, Begin, RefuseBlocked, Admit, RightPassword, WrongPassword, ReadBucket,
                          historyVars

\* Whoever does not write k leaves what can be added as it is, or less.
LEMMA QuietBound ==
    ASSUME LimiterTypeOK, LimiterTypeOK', NEW a \in Attempts, NEW b \in Attempts \ {a}, NEW k \in Keys,
           UNCHANGED <<bucket[k], failed[k], stage[b], who[b], key[b], seen[b]>>,
           Level(a, k)' = Level(a, k), Inside(a, k)' => Inside(a, k) \/ Count(k) <= MaxAttempts,
           BoundedOf(k, a, b)
    PROVE  BoundedOf(k, a, b)'
<1>1. Count(k)' = Count(k) /\ Count(k) \in Nat
  BY LevelTypes DEF Count
<1>2. Level(b, k)' = Level(b, k)
  BY <1>1 DEF Level, Holds, Old
<1>3. ShutOut(b, k)' = ShutOut(b, k)
  BY <1>1 DEF ShutOut, Inside, ToChange, Credential
<1>4. ShutOut(a, k) \in {0, 2} /\ ShutOut(a, k)' \in {0, 2} /\ ShutOut(a, k)' >= ShutOut(a, k)
  BY <1>1 DEF ShutOut
<1>5. /\ Worst(Level(a, k), Level(b, k)) \in Int /\ failed[k] \in Nat
      /\ ShutOut(b, k) \in {0, 2} /\ Series(0) \in Int
  BY LevelTypes, WorstRange DEF Series
<1>6. Worst(Level(a, k), Level(b, k))' = Worst(Level(a, k), Level(b, k)) /\ Series(0)' = Series(0)
  BY <1>2 DEF Worst, Series
<1>7. QED
  BY <1>3, <1>4, <1>5, <1>6 DEF BoundedOf

\* While the first window runs no row that was read is over, and a block holds.
LEMMA InFirstWindow ==
    ASSUME LimiterInv, RowsInv, FirstWindow, NEW r \in Attempts
    PROVE  /\ Expired(r) <=> seen[r] = None
           /\ \A k \in Keys : Over(bucket[k], time[r]) <=> bucket[k] = None
           /\ \A k \in Keys : ~BlockedAt(k, time[r]) => Count(k) <= MaxAttempts
<1>1. time[r] \in Nat /\ time[r] <= now /\ now \in Nat
  BY DEF LimiterInv, LimiterTypeOK, AttemptInv
<1>2. time[r] < Window /\ time[r] < Block
  BY <1>1 DEF FirstWindow
<1>3. ASSUME NEW row \in Rows \cup {None} PROVE Over(row, time[r]) <=> row = None
  BY <1>1, <1>2, <1>3 DEF Over, Rows
<1>4. seen[r] \in Rows \cup {None} /\ \A k \in Keys : bucket[k] \in Rows \cup {None}
  BY DEF LimiterInv, LimiterTypeOK
<1>5. ASSUME NEW k \in Keys, ~BlockedAt(k, time[r]) PROVE Count(k) <= MaxAttempts
  <2>1. CASE bucket[k] = None
    BY <2>1 DEF Count
  <2>2. CASE bucket[k] # None
    <3>1. bucket[k].attempts \in Nat /\ bucket[k].until \in Nat \cup {None}
      BY <1>4, <2>2 DEF Rows
    <3>2. bucket[k].until = None
      BY <1>1, <1>2, <1>5, <2>2, <3>1 DEF BlockedAt, RowsInv
    <3>3. QED
      BY <2>2, <3>1, <3>2 DEF RowsInv, Count
  <2>3. QED
    BY <2>1, <2>2
<1>6. QED
  BY <1>3, <1>4, <1>5 DEF Expired

\* The failure that a writes back, of the count that it has read.
LEMMA WriteBound ==
    ASSUME LimiterInv, LimiterInv', RowsInv, FirstWindow,
           NEW a \in Attempts, NEW b \in Attempts \ {a}, WriteBucket(a),
           NEW k, k = key[a], BoundedOf(k, a, b)
    PROVE  BoundedOf(k, a, b)'
<1>1. /\ stage[a] = "writing" /\ stage[a] \in LetIn /\ stage[a] # "idle"
      /\ bucket' = [bucket EXCEPT ![k] = NewRow(a)]
      /\ failed' = [failed EXCEPT ![k] = IF Over(bucket[k], time[a]) THEN 1 ELSE failed[k] + 1]
      /\ NextBucket(a)
  BY DEF WriteBucket, LetIn
<1>2. /\ k \in Keys /\ KeysOf(a) = {AddressKey(who[a][1]), Credential(a)}
      /\ AddressKey(who[a][1]) # Credential(a) /\ k \in KeysOf(a)
  BY <1>1, AttemptKeys DEF ToChange
<1>3. UNCHANGED <<stage[b], who[b], key[b], seen[b]>>
  BY OthersStay DEF AttemptStep
<1>4. Counted(a) = Old(a) + 1 /\ Old(a) \in Nat
  BY InFirstWindow, LevelTypes, <1>2 DEF LimiterInv, Counted, Old
<1>5. Count(k)' = Old(a) + 1
  <2>1. bucket'[k] = NewRow(a)
    BY <1>1, <1>2 DEF LimiterInv, Shape
  <2>2. NewRow(a) # None /\ NewRow(a).attempts = Counted(a)
    BY <1>1, NewRowIsRow
  <2>3. QED
    BY <1>4, <2>1, <2>2 DEF Count
<1>6. failed'[k] = failed[k] + 1 /\ failed[k] \in Nat
  <2>1. bucket[k] = None => failed[k] = 0
    BY <1>2 DEF RowsInv
  <2>2. failed \in [Keys -> Nat]
    BY DEF LimiterInv, LimiterTypeOK
  <2>3. CASE bucket[k] = None
    BY <1>1, <1>2, <2>1, <2>2, <2>3, InFirstWindow
  <2>4. CASE bucket[k] # None
    BY <1>1, <1>2, <2>2, <2>4, InFirstWindow
  <2>5. QED
    BY <2>3, <2>4
<1>7. ~Holds(a, k)' /\ ~Inside(a, k)'
  <2>1. CASE k = AddressKey(who[a][1])
    <3>1. stage'[a] = "reading" /\ key'[a] = Credential(a) /\ who'[a] = who[a]
      BY <1>1, <2>1 DEF NextBucket, Goto, Credential, LimiterInv, LimiterTypeOK
    <3>2. Credential(a)' = Credential(a)
      BY <3>1 DEF Credential
    <3>3. QED
      BY <1>2, <2>1, <3>1, <3>2 DEF Holds, Inside, ToChange
  <2>2. CASE k # AddressKey(who[a][1])
    BY <1>1, <2>2 DEF NextBucket, Leave, Goto, LimiterInv, LimiterTypeOK, Holds, Inside, LetIn
  <2>3. QED
    BY <2>1, <2>2
<1>8. /\ Level(a, k)' = Clip(Old(a) + 1) /\ Level(a, k) = Clip(Old(a))
      /\ ShutOut(a, k)' = IF Old(a) + 1 > MaxAttempts THEN 2 ELSE 0
      /\ ShutOut(a, k) = 0
  BY <1>1, <1>5, <1>7 DEF Level, ShutOut, Holds, Inside, ToChange, Clip
<1>9. \/ Level(b, k)' = Level(b, k) /\ ShutOut(b, k) = 0 /\ ShutOut(b, k)' = 0
      \/ /\ Level(b, k)' = Clip(Old(a) + 1)
         /\ Old(a) + 1 > MaxAttempts => ShutOut(b, k)' >= ShutOut(b, k)
         /\ ShutOut(b, k) = 2 => Level(b, k) = MaxAttempts
  <2>1. (Holds(b, k)' <=> Holds(b, k)) /\ (Inside(b, k)' <=> Inside(b, k)) /\ Old(b)' = Old(b)
    BY <1>3 DEF Holds, Inside, ToChange, Credential, Old
  <2>2. CASE Holds(b, k)
    BY <2>1, <2>2 DEF Level, Clip, ShutOut, Holds, Inside, ToChange, LetIn
  <2>3. CASE ~Holds(b, k)
    <3>1. Level(b, k)' = Clip(Old(a) + 1) /\ Level(b, k) = Clip(Count(k)) /\ Count(k) \in Nat
      BY <1>2, <1>5, <2>1, <2>3, LevelTypes DEF Level, Clip, LimiterInv
    <3>2. Old(a) + 1 > MaxAttempts => ShutOut(b, k)' >= ShutOut(b, k)
      BY <1>5, <2>1 DEF ShutOut
    <3>3. ShutOut(b, k) = 2 => Level(b, k) = MaxAttempts
      BY <3>1 DEF ShutOut, Clip
    <3>4. QED
      BY <3>1, <3>2, <3>3
  <2>4. QED
    BY <2>2, <2>3
<1>10. /\ Level(b, k) \in Levels /\ Level(b, k)' \in Levels
       /\ ShutOut(b, k) \in {0, 2} /\ ShutOut(b, k)' \in {0, 2}
  <2>1. Level(b, k) \in Levels /\ ShutOut(b, k) \in {0, 2} /\ ShutOut(b, k)' \in {0, 2}
    BY <1>2, LevelTypes DEF LimiterInv, ShutOut
  <2>2. Clip(Old(a) + 1) \in Levels
    BY <1>4 DEF Clip, Levels
  <2>3. QED
    BY <1>9, <2>1, <2>2
<1>11. 2 * failed[k] + Worst(Clip(Old(a)), Level(b, k)) - 0 - ShutOut(b, k) <= Series(0)
  BY <1>8 DEF BoundedOf
<1>12. 2 * (failed[k] + 1) + Worst(Clip(Old(a) + 1), Level(b, k)')
          - (IF Old(a) + 1 > MaxAttempts THEN 2 ELSE 0) - ShutOut(b, k)' <= Series(0)
  BY <1>4, <1>6, <1>9, <1>10, <1>11, WriteArithmetic
<1>13. Worst(Level(a, k), Level(b, k))' = Worst(Clip(Old(a) + 1), Level(b, k)') /\ Series(0)' = Series(0)
  BY <1>8 DEF Worst, Series
<1>14. QED
  BY <1>6, <1>8, <1>12, <1>13 DEF BoundedOf

\* After a success the row counts from 0, and all is as good as at the start.
LEMMA ResetBound ==
    ASSUME LimiterTypeOK', NEW a \in Attempts, NEW b \in Attempts, NEW k \in Keys,
           failed'[k] = 0, bucket'[k] = None
    PROVE  BoundedOf(k, a, b)'
<1>1. ShutOut(a, k)' = 0 /\ ShutOut(b, k)' = 0
  BY DEF ShutOut, Count
<1>2. Level(a, k)' \in Levels /\ Level(b, k)' \in Levels
  BY DEF LimiterTypeOK, Rows, Count, Old, Level, Clip, Levels
<1>3. /\ Worst(Level(a, k)', Level(b, k)') <= Series(0)
      /\ Worst(Level(a, k)', Level(b, k)') \in Int /\ Series(0) \in Int
  BY <1>2, WorstRange DEF Series
<1>4. Worst(Level(a, k), Level(b, k))' = Worst(Level(a, k)', Level(b, k)') /\ Series(0)' = Series(0)
  BY DEF Worst, Series
<1>5. QED
  BY <1>1, <1>3, <1>4 DEF BoundedOf

LEMMA AttemptBound ==
    ASSUME LimiterInv, LimiterInv', RowsInv, FirstWindow,
           NEW a \in Attempts, NEW b \in Attempts \ {a}, AttemptStep(a),
           NEW k \in Keys, BoundedOf(k, a, b)
    PROVE  BoundedOf(k, a, b)'
<1>1. LimiterTypeOK /\ LimiterTypeOK' /\ UNCHANGED <<stage[b], who[b], key[b], seen[b]>>
  BY OthersStay DEF LimiterInv
<1>2. CASE WriteBucket(a) /\ k = key[a]
  BY <1>2, WriteBound
<1>3. CASE RecordSuccess(a) /\ k = Credential(a)
  <2>1. bucket'[k] = None /\ failed'[k] = 0
    BY <1>3 DEF RecordSuccess, Credential, LimiterInv, LimiterTypeOK, Shape
  <2>2. QED
    BY <1>1, <2>1, ResetBound
<1>4. CASE WriteBucket(a) /\ k # key[a]
  <2>1. stage[a] = "writing" /\ stage[a] \in LetIn /\ stage[a] # "idle" /\ NextBucket(a)
    BY <1>4 DEF WriteBucket, LetIn
  <2>2. /\ bucket' = [bucket EXCEPT ![key[a]] = NewRow(a)]
        /\ failed' = [failed EXCEPT ![key[a]] = IF Over(bucket[key[a]], time[a]) THEN 1 ELSE failed[key[a]] + 1]
    BY <1>4 DEF WriteBucket
  <2>3. UNCHANGED <<bucket[k], failed[k]>>
    BY <1>4, <2>2 DEF LimiterInv, LimiterTypeOK, Shape
  <2>4. stage'[a] # "writing" /\ ~Holds(a, k)
    BY <1>4, <2>1 DEF NextBucket, Leave, Goto, LimiterInv, LimiterTypeOK, Holds
  <2>5. Level(a, k)' = Level(a, k)
    BY <2>3, <2>4 DEF Level, Holds, Count, Clip
  <2>6. ASSUME Inside(a, k)' PROVE Inside(a, k)
    <3>1. key[a] = AddressKey(who[a][1])
      BY <2>1, <2>6 DEF NextBucket, Leave, Goto, LimiterInv, LimiterTypeOK, Inside, LetIn
    <3>2. key'[a] = Credential(a) /\ who'[a] = who[a]
      BY <2>1, <3>1 DEF NextBucket, Credential, LimiterInv, LimiterTypeOK
    <3>3. k = Credential(a)
      BY <2>6, <3>2 DEF Inside, ToChange, Credential
    <3>4. QED
      BY <2>1, <3>3 DEF Inside, ToChange
  <2>7. QED
    BY <1>1, <2>3, <2>5, <2>6, QuietBound
<1>5. CASE RecordSuccess(a) /\ k # Credential(a)
  <2>1. /\ bucket' = [bucket EXCEPT ![Credential(a)] = None]
        /\ failed' = [failed EXCEPT ![Credential(a)] = 0] /\ Leave(a) /\ stage[a] = "succeeded"
    BY <1>5 DEF RecordSuccess, Credential
  <2>2. UNCHANGED <<bucket[k], failed[k]>>
    BY <1>5, <2>1 DEF LimiterInv, LimiterTypeOK, Shape
  <2>3. ~Holds(a, k)' /\ ~Holds(a, k) /\ ~Inside(a, k)'
    BY <2>1 DEF Leave, Goto, LimiterInv, LimiterTypeOK, Holds, Inside, LetIn
  <2>4. Level(a, k)' = Level(a, k)
    BY <2>2, <2>3 DEF Level, Count, Clip
  <2>5. QED
    BY <1>1, <2>2, <2>3, <2>4, QuietBound
<1>6. CASE ReadBucket(a)
  <2>1. /\ stage[a] = "reading" /\ stage'[a] = "writing" /\ UNCHANGED <<bucket, failed, who, key>>
        /\ seen'[a] = bucket[key[a]]
    BY <1>6 DEF ReadBucket, Goto, historyVars, LimiterInv, LimiterTypeOK, Shape
  <2>2. Level(a, k)' = Level(a, k)
    <3>1. CASE k = key[a]
      BY <2>1, <3>1 DEF Level, Holds, Count, Old, Clip
    <3>2. CASE k # key[a]
      BY <2>1, <3>2 DEF Level, Holds, Count, Clip
    <3>3. QED
      BY <3>1, <3>2
  <2>3. Inside(a, k)' => Inside(a, k)
    BY <2>1 DEF Inside, ToChange, Credential, LetIn
  <2>4. QED
    BY <1>1, <2>1, <2>2, <2>3, QuietBound
<1>7. CASE RightPassword(a) \/ WrongPassword(a)
  <2>1. /\ stage[a] = "password" /\ stage'[a] \in {"succeeded", "reading"}
        /\ UNCHANGED <<bucket, failed, who, key>>
    BY <1>7 DEF RightPassword, WrongPassword, Goto, historyVars, LimiterInv, LimiterTypeOK
  <2>2. Level(a, k)' = Level(a, k)
    BY <2>1 DEF Level, Holds, Count, Clip
  <2>3. Inside(a, k)' => Inside(a, k)
    BY <2>1 DEF Inside, ToChange, Credential, LetIn
  <2>4. QED
    BY <1>1, <2>1, <2>2, <2>3, QuietBound
<1>8. CASE Admit(a)
  <2>1. /\ stage[a] = "asserting" /\ stage'[a] = "password" /\ UNCHANGED <<bucket, failed, who, key>>
        /\ \A l \in KeysOf(a) : ~BlockedAt(l, time[a])
    BY <1>8 DEF Admit, Goto, historyVars, LimiterInv, LimiterTypeOK
  <2>2. Level(a, k)' = Level(a, k)
    BY <2>1 DEF Level, Holds, Count, Clip
  <2>3. ASSUME Inside(a, k)' PROVE Count(k) <= MaxAttempts
    <3>1. k \in KeysOf(a)
      BY <2>1, <2>3, AttemptKeys DEF Inside, ToChange, Credential
    <3>2. QED
      BY <2>1, <3>1, InFirstWindow
  <2>4. QED
    BY <1>1, <2>1, <2>2, <2>3, QuietBound
<1>9. CASE RefuseBlocked(a) \/ \E x \in Addresses, n \in Names : Begin(a, x, n)
  <2>1. /\ stage[a] \in {"asserting", "idle"} /\ stage'[a] \in {"asserting", "idle"}
        /\ UNCHANGED <<bucket, failed>>
    BY <1>9 DEF RefuseBlocked, Begin, Leave, Goto, historyVars, LimiterInv, LimiterTypeOK
  <2>2. Level(a, k)' = Level(a, k) /\ ~Inside(a, k)'
    BY <2>1 DEF Level, Holds, Inside, LetIn, Count, Clip
  <2>3. QED
    BY <1>1, <2>1, <2>2, QuietBound
<1>10. QED
  BY <1>2, <1>3, <1>4, <1>5, <1>6, <1>7, <1>8, <1>9 DEF AttemptStep

LEMMA StepBound == LimiterInv /\ LimiterInv' /\ RowsInv /\ BoundInv /\ [LimiterNext]_limiterVars => RowsInv' /\ BoundInv'
<1> SUFFICES ASSUME LimiterInv, LimiterInv', RowsInv, BoundInv, [LimiterNext]_limiterVars PROVE RowsInv' /\ BoundInv'
  OBVIOUS
<1>1. CASE \E r \in Attempts : AttemptStep(r)
  <2>1. PICK r \in Attempts : AttemptStep(r)
    BY <1>1
  <2>2. UNCHANGED now
    BY <2>1 DEF AttemptStep, Begin, RefuseBlocked, Admit, RightPassword, RecordSuccess, WrongPassword,
                ReadBucket, WriteBucket
  <2>3. ASSUME NEW a \in Attempts, NEW b \in Attempts, a # b, Attempts = {a, b}, FirstWindow',
               NEW k \in Keys
        PROVE  BoundedOf(k, a, b)'
    <3>1. FirstWindow /\ BoundedOf(k, a, b) /\ LimiterTypeOK /\ LimiterTypeOK'
      BY <2>2, <2>3 DEF FirstWindow, BoundInv, LimiterInv
    <3>2. CASE r = a
      BY <2>1, <2>3, <3>1, <3>2, AttemptBound
    <3>3. CASE r = b
      <4>1. BoundedOf(k, b, a)
        BY <3>1, BoundedSymmetric
      <4>2. BoundedOf(k, b, a)'
        BY <2>1, <2>3, <3>1, <3>3, <4>1, AttemptBound
      <4>3. /\ Level(a, k)' \in Levels /\ Level(b, k)' \in Levels /\ failed'[k] \in Nat
            /\ ShutOut(a, k)' \in {0, 2} /\ ShutOut(b, k)' \in {0, 2} /\ Series(0) \in Int
        BY <3>1 DEF LimiterTypeOK, Rows, Count, Old, Level, Clip, Levels, ShutOut, Series
      <4>4. /\ Worst(Level(a, k)', Level(b, k)') = Worst(Level(b, k)', Level(a, k)')
            /\ Worst(Level(a, k)', Level(b, k)') \in Int
        BY <4>3, WorstRange
      <4>5. /\ Worst(Level(a, k), Level(b, k))' = Worst(Level(a, k)', Level(b, k)')
            /\ Worst(Level(b, k), Level(a, k))' = Worst(Level(b, k)', Level(a, k)')
            /\ Series(0)' = Series(0)
        BY DEF Worst, Series
      <4>6. QED
        BY <4>2, <4>3, <4>4, <4>5 DEF BoundedOf
    <3>4. QED
      BY <2>3, <3>2, <3>3
  <2>4. QED
    BY <2>1, <2>3, RowsStep DEF BoundInv
<1>2. CASE Tick \/ UNCHANGED limiterVars
  <2>1. UNCHANGED <<bucket, stage, who, key, seen, failed>> /\ (FirstWindow' => FirstWindow)
    BY <1>2 DEF Tick, limiterVars, attemptVars, historyVars, FirstWindow, LimiterInv, LimiterTypeOK
  <2>2. ASSUME NEW a \in Attempts, NEW b \in Attempts \ {a}, NEW k \in Keys, BoundedOf(k, a, b)
        PROVE  BoundedOf(k, a, b)'
    <3>1. Level(a, k)' = Level(a, k) /\ (Inside(a, k)' => Inside(a, k))
      BY <2>1 DEF Level, Holds, Count, Old, Clip, Inside, ToChange, Credential
    <3>2. QED
      BY <2>1, <2>2, <3>1, QuietBound DEF LimiterInv
  <2>3. QED
    BY <2>1, <2>2 DEF RowsInv, BoundInv
<1>3. QED
  BY <1>1, <1>2 DEF LimiterNext

\* While the first window of a row runs and its block outlasts it, two logins
\* that overlap get at most (m + 1)(m + 4) / 2 failures counted in, whatever
\* the limit m: the lost updates of updateBucket lift it no further.
THEOREM Overlaps == LimiterSpec => []OverlapsAreBounded
<1>1. ASSUME LimiterInv, BoundInv PROVE OverlapsAreBounded
  <2> SUFFICES ASSUME Cardinality(Attempts) = 2, FirstWindow, NEW k \in Keys
               PROVE  2 * failed[k] <= (MaxAttempts + 1) * (MaxAttempts + 4)
    BY DEF OverlapsAreBounded, FirstWindow
  <2>1. PICK a, b \in Attempts : a # b /\ Attempts = {a, b}
    <3>1. PICK a \in Attempts : TRUE
      BY FS_EmptySet
    <3>2. IsFiniteSet(Attempts \ {a}) /\ Cardinality(Attempts \ {a}) = 1
      BY FS_RemoveElement, AttemptsAssumption
    <3>3. PICK b : Attempts \ {a} = {b}
      BY <3>2, FS_Singleton
    <3>4. QED
      BY <3>3
  <2>2. BoundedOf(k, a, b)
    BY <1>1, <2>1 DEF BoundInv
  <2>3. Worst(Level(a, k), Level(b, k)) \in Int /\ 4 <= Worst(Level(a, k), Level(b, k))
    BY <1>1, LevelTypes, WorstRange DEF LimiterInv
  <2>4. failed[k] \in Nat /\ ShutOut(a, k) \in {0, 2} /\ ShutOut(b, k) \in {0, 2}
    BY <1>1, LevelTypes DEF LimiterInv
  <2>5. Series(0) = (MaxAttempts + 1) * (MaxAttempts + 4) /\ Series(0) \in Int
    BY DEF Series
  <2> HIDE DEF Worst, Series
  <2>6. QED
    BY <2>2, <2>3, <2>4, <2>5 DEF BoundedOf
<1>2. LimiterSpec => [](LimiterInv /\ RowsInv /\ BoundInv)
  BY InitBound, StepBound, LimiterInvariance, PTL DEF LimiterSpec
<1>3. QED
  BY <1>1, <1>2, PTL
=============================================================================
