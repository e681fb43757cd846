-------------------------- MODULE ShareLinksProofs --------------------------
(***************************************************************************)
(* For any documents, versions, links and requests: a link that is not     *)
(* revoked is the newest of its document, a file is served through no      *)
(* other, and a deleted document leaves no link.                           *)
(*                                                                         *)
(* While create holds the advisory lock no other create commits a link of  *)
(* the document, so the links it selected for revocation still contain     *)
(* every live one when it commits (RequestInvOf).  The foreign key keeps   *)
(* the insert of a link and the deletion of its version apart (PairInv).   *)
(* Nobody waits forever in a circle because locks are held only late in a  *)
(* transaction (HoldInv), and those that hold them wait for later ones.    *)
(***************************************************************************)
EXTENDS ShareLinks, TLAPS

Creating == {"checked"} \cup CreateTx

RequestInvOf(r) ==
    /\ pc[r] \in Creating =>
          /\ link[r] \in Links \ stored /\ versionOf[link[r]] \in Versions
          /\ DocumentOfLink(link[r]) = doc[r]
    /\ pc[r] \in Creating \cup DeleteTx \cup {"loaded"} => doc[r] \in Documents
    /\ pc[r] \in CreateTx => advisory[doc[r]] = r
    /\ pc[r] = "revoking" => LiveLinks(doc[r]) \subseteq selected[r]
    /\ pc[r] \in {"revoked", "inserted"} => LiveLinks(doc[r]) \subseteq touched[r]
    /\ pc[r] = "inserted" => doc[r] \in documents
    /\ pc[r] = "versionsDeleted" => AllLinks(doc[r]) \subseteq touched[r]
    /\ touched[r] \subseteq stored
RequestInv == \A r \in Requests : RequestInvOf(r)

PairInvOf(q, r) ==
    /\ pc[q] \in Creating /\ pc[r] \in Creating => link[q] # link[r]
    /\ pc[q] = "inserted" /\ pc[r] = "versionsDeleted" => doc[q] # doc[r]
    /\ touched[q] \cap touched[r] = {}
PairInv == \A q, r \in Requests : q # r => PairInvOf(q, r)

StoredInv == \A l \in stored : versionOf[l] \in Versions

IInv ==
    /\ TypeOK /\ RequestInv /\ PairInv /\ StoredInv
    /\ OnlyNewestIsLive /\ NoDanglingLink

LEMMA InitIInv == Init => IInv
BY VersionsAssumption, AttemptsAssumption
   DEF Init, IInv, TypeOK, States, RequestInv, RequestInvOf, PairInv, PairInvOf, Creating,
       CreateTx, DeleteTx, StoredInv, OnlyNewestIsLive, NoDanglingLink, DocumentOfLink

\* What RequestInvOf(q) says depends on these only, and not on other rows.
LEMMA RequestInvOfSame ==
    ASSUME NEW q \in Requests, RequestInvOf(q),
           UNCHANGED <<documents, stored, revoked, versionOf>>, UNCHANGED advisory[doc[q]],
           UNCHANGED <<pc[q], doc[q], link[q], selected[q], touched[q]>>
    PROVE  RequestInvOf(q)'
BY DEF RequestInvOf, Creating, CreateTx, DeleteTx, DocumentOfLink, LiveLinks, AllLinks

\* Steps that write no row that others can see.
Private(r) ==
    \/ AcquireLock(r) \/ SelectLive(r) \/ RevokeLive(r) \/ InsertLink(r) \/ TokenCollision(r)
    \/ FindLink(r) \/ ResolveToken(r) \/ CountAccess(r)
    \/ LoadDocument(r) \/ SelectLinks(r) \/ DeleteLinks(r) \/ UnlinkDocument(r)
    \/ DeleteVersions(r) \/ Fail(r)

LEMMA PrivateFrame ==
    ASSUME TypeOK, NEW r \in Requests, Private(r)
    PROVE  /\ UNCHANGED <<documents, stored, revoked, expired, versionOf, newest>>
           /\ \A q \in Requests \ {r} :
                UNCHANGED <<pc[q], doc[q], link[q], selected[q], touched[q]>>
<1> USE DEF TypeOK
<1>1. CASE AcquireLock(r) \/ SelectLive(r) \/ RevokeLive(r) \/ InsertLink(r)
  BY <1>1 DEF AcquireLock, SelectLive, RevokeLive, InsertLink, Advance, tableVars
<1>2. CASE TokenCollision(r)
  BY <1>2 DEF TokenCollision, tableVars
<1>3. CASE FindLink(r) \/ ResolveToken(r) \/ LoadDocument(r)
  BY <1>3 DEF FindLink, ResolveToken, LoadDocument, Begin, tableVars
<1>4. CASE CountAccess(r) \/ Fail(r)
  BY <1>4 DEF CountAccess, Account, Fail, End, tableVars
<1>5. CASE SelectLinks(r) \/ DeleteLinks(r) \/ UnlinkDocument(r) \/ DeleteVersions(r)
  BY <1>5 DEF SelectLinks, DeleteLinks, UnlinkDocument, DeleteVersions, Advance, tableVars
<1>6. QED
  BY <1>1, <1>2, <1>3, <1>4, <1>5 DEF Private

LEMMA PrivateTypes ==
    ASSUME TypeOK, StoredInv, NEW r \in Requests, Private(r)
    PROVE  TypeOK'
<1> USE AttemptsAssumption, VersionsAssumption DEF TypeOK, States, CreateTx, DeleteTx
<1>1. CASE AcquireLock(r) \/ InsertLink(r)
  BY <1>1 DEF AcquireLock, InsertLink, Advance, tableVars
<1>2. CASE SelectLive(r) \/ RevokeLive(r)
  BY <1>2 DEF SelectLive, RevokeLive, LiveLinks, Advance, tableVars
<1>3. CASE TokenCollision(r)
  BY <1>3 DEF TokenCollision, Unlock, tableVars
<1>4. CASE FindLink(r) \/ ResolveToken(r) \/ LoadDocument(r)
  BY <1>4 DEF FindLink, ResolveToken, LoadDocument, Begin, StoredInv, DocumentOfLink, tableVars
<1>5. CASE CountAccess(r) \/ Fail(r)
  <2>1. CASE CountAccess(r)
    BY <1>5, <2>1 DEF CountAccess, Account, End, Unlock
  <2>2. CASE Fail(r)
    BY <2>2 DEF Fail, End, Unlock, tableVars
  <2>3. QED
    BY <1>5, <2>1, <2>2
<1>6. CASE SelectLinks(r) \/ DeleteLinks(r) \/ UnlinkDocument(r) \/ DeleteVersions(r)
  BY <1>6 DEF SelectLinks, DeleteLinks, UnlinkDocument, DeleteVersions, Advance, AllLinks, tableVars
<1>7. QED
  BY <1>1, <1>2, <1>3, <1>4, <1>5, <1>6 DEF Private

LEMMA PrivateRequests ==
    ASSUME IInv, NEW r \in Requests, Private(r)
    PROVE  RequestInv'
<1> USE DEF IInv
<1>1. /\ UNCHANGED <<documents, stored, revoked, versionOf>>
      /\ \A q \in Requests \ {r} : UNCHANGED <<pc[q], doc[q], link[q], selected[q], touched[q]>>
  BY PrivateFrame
<1>2. ASSUME NEW q \in Requests, q # r PROVE RequestInvOf(q)'
  \* The lock moves only from None to r and from r to None.
  <2>1. UNCHANGED <<pc[q], doc[q], link[q], selected[q], touched[q]>>
    BY <1>1, <1>2
  <2>2. pc[q] \in CreateTx => advisory'[doc[q]] = q
    <3> SUFFICES ASSUME pc[q] \in CreateTx PROVE advisory'[doc[q]] = q
      OBVIOUS
    <3>1. advisory[doc[q]] = q /\ doc[q] \in Documents
      BY DEF RequestInv, RequestInvOf, Creating
    <3>2. CASE AcquireLock(r)
      BY <3>1, <3>2, NoneAssumption DEF AcquireLock, Advance, Waits, TypeOK
    <3>3. CASE Unlock(r)
      BY <3>1, <3>3, <1>2 DEF Unlock
    <3>4. CASE UNCHANGED advisory
      BY <3>1, <3>4
    <3>5. AcquireLock(r) \/ Unlock(r) \/ UNCHANGED advisory
      BY DEF Private, SelectLive, RevokeLive, InsertLink, TokenCollision, FindLink, ResolveToken,
             CountAccess, Account, LoadDocument, SelectLinks, DeleteLinks, UnlinkDocument,
             DeleteVersions, Fail, End
    <3>6. QED
      BY <3>2, <3>3, <3>4, <3>5
  <2>3. RequestInvOf(q)
    BY DEF RequestInv
  <2>4. QED
    BY <1>1, <2>1, <2>2, <2>3
       DEF RequestInvOf, Creating, CreateTx, DeleteTx, DocumentOfLink, LiveLinks, AllLinks
<1>3. RequestInvOf(r)'
  <2> USE <1>1 DEF RequestInv, RequestInvOf, Creating, CreateTx, DeleteTx, TypeOK
  <2>1. CASE AcquireLock(r)
    BY <2>1 DEF AcquireLock, Advance, DocumentOfLink
  <2>2. CASE SelectLive(r)
    BY <2>2 DEF SelectLive, Advance, DocumentOfLink, LiveLinks
  <2>3. CASE RevokeLive(r)
    BY <2>3 DEF RevokeLive, Advance, DocumentOfLink, LiveLinks
  <2>4. CASE InsertLink(r)
    BY <2>4 DEF InsertLink, Advance, DocumentOfLink, LiveLinks
  <2>5. CASE TokenCollision(r)
    BY <2>5 DEF TokenCollision, DocumentOfLink
  <2>6. CASE FindLink(r) \/ ResolveToken(r)
    BY <2>6 DEF FindLink, ResolveToken, Begin
  <2>7. CASE CountAccess(r) \/ Fail(r)
    BY <2>7 DEF CountAccess, Account, Fail, End
  <2>8. CASE LoadDocument(r)
    BY <2>8 DEF LoadDocument, Begin
  <2>9. CASE SelectLinks(r) \/ DeleteLinks(r) \/ UnlinkDocument(r)
    BY <2>9 DEF SelectLinks, DeleteLinks, UnlinkDocument, Advance, AllLinks
  <2>10. CASE DeleteVersions(r)
    BY <2>10 DEF DeleteVersions, Advance, AllLinks, DocumentOfLink
  <2>11. QED
    BY <2>1, <2>2, <2>3, <2>4, <2>5, <2>6, <2>7, <2>8, <2>9, <2>10 DEF Private
<1>4. QED
  BY <1>2, <1>3 DEF RequestInv

LEMMA PrivatePairs ==
    ASSUME IInv, NEW r \in Requests, Private(r)
    PROVE  PairInv'
<1> USE DEF IInv
<1>1. \A q \in Requests \ {r} : UNCHANGED <<pc[q], doc[q], link[q], selected[q], touched[q]>>
  BY PrivateFrame
<1>2. pc'[r] \in Creating => pc[r] \in Creating /\ link'[r] = link[r]
  BY DEF Private, AcquireLock, SelectLive, RevokeLive, InsertLink, TokenCollision, FindLink,
         ResolveToken, CountAccess, Account, LoadDocument, SelectLinks, DeleteLinks, UnlinkDocument,
         DeleteVersions, Fail, End, Begin, Advance, Creating, CreateTx, TypeOK
<1>3. ASSUME NEW q \in Requests, q # r PROVE touched'[q] \cap touched'[r] = {}
  <2>1. touched[q] \cap touched[r] = {} /\ UNCHANGED touched[q]
    BY <1>1, <1>3 DEF PairInv, PairInvOf
  <2>2. touched'[r] \subseteq touched[r] \/ touched'[r] \cap touched[q] = {}
    BY <1>3 DEF Private, AcquireLock, SelectLive, RevokeLive, InsertLink, TokenCollision, FindLink,
         ResolveToken, CountAccess, Account, LoadDocument, SelectLinks, DeleteLinks, UnlinkDocument,
         DeleteVersions, Fail, End, Begin, Advance, TypeOK, Waits, Locked
  <2>3. QED
    BY <2>1, <2>2
<1>4. ASSUME NEW q \in Requests, q # r PROVE PairInvOf(q, r)' /\ PairInvOf(r, q)'
  <2> USE <1>1, <1>3, <1>4 DEF PairInv, PairInvOf, TypeOK
  <2>1. pc'[q] \in Creating /\ pc'[r] \in Creating => link'[q] # link'[r]
    BY <1>2
  <2>2. CASE InsertLink(r)
    BY <2>1, <2>2 DEF InsertLink, Advance, Waits, Deleted
  <2>3. CASE DeleteVersions(r)
    BY <2>1, <2>3 DEF DeleteVersions, Advance, Waits, Referenced
  <2>4. CASE pc'[r] \notin {"inserted", "versionsDeleted"}
    BY <2>1, <2>4
  <2>5. InsertLink(r) \/ DeleteVersions(r) \/ pc'[r] \notin {"inserted", "versionsDeleted"}
    BY DEF Private, AcquireLock, SelectLive, RevokeLive, TokenCollision, FindLink,
           ResolveToken, CountAccess, Account, LoadDocument, SelectLinks, DeleteLinks,
           UnlinkDocument, Fail, End, Begin, Advance
  <2>6. QED
    BY <2>2, <2>3, <2>4, <2>5
<1>5. QED
  BY <1>1, <1>4 DEF PairInv, PairInvOf

LEMMA PrivateStep ==
    ASSUME IInv, NEW r \in Requests, Private(r)
    PROVE  IInv'
<1>1. UNCHANGED <<documents, stored, revoked, expired, versionOf, newest>>
  BY PrivateFrame DEF IInv
<1>2. StoredInv' /\ OnlyNewestIsLive' /\ NoDanglingLink'
  BY <1>1 DEF IInv, StoredInv, OnlyNewestIsLive, NoDanglingLink, DocumentOfLink
<1>3. QED
  BY <1>2, PrivateTypes, PrivateRequests, PrivatePairs DEF IInv

LEMMA CheckVersionStep ==
    ASSUME IInv, NEW r \in Requests, CheckVersion(r)
    PROVE  IInv'
<1> USE DEF IInv
<1>1. PICK v \in Versions, l \in Links :
        /\ DocumentOf[v] \in documents /\ Unused(l)
        /\ versionOf' = [versionOf EXCEPT ![l] = v]
        /\ Begin(r, "checked", DocumentOf[v], l)
  BY DEF CheckVersion
<1>2. /\ UNCHANGED <<documents, stored, revoked, expired, accessed, newest, advisory>>
      /\ pc[r] = "idle"
  BY DEF CheckVersion
<1>3. \A k \in Links \ {l} : versionOf'[k] = versionOf[k]
  BY <1>1 DEF TypeOK
<1>4. l \notin stored /\ \A q \in Requests : link[q] # l
  BY <1>1 DEF Unused
<1>5. \A q \in Requests \ {r} : UNCHANGED <<pc[q], doc[q], link[q], selected[q], touched[q]>>
  BY <1>1 DEF Begin, TypeOK
<1>6. TypeOK'
  BY <1>1, <1>2, VersionsAssumption DEF TypeOK, Begin, States
<1>7. ASSUME NEW q \in Requests, q # r PROVE RequestInvOf(q)'
  <2>1. RequestInvOf(q)
    BY DEF RequestInv
  <2>2. \A k \in stored : DocumentOfLink(k)' = DocumentOfLink(k)
    BY <1>3, <1>4 DEF DocumentOfLink, TypeOK
  <2>3. UNCHANGED <<LiveLinks(doc[q]), AllLinks(doc[q])>>
    BY <1>2, <1>5, <1>7, <2>2 DEF LiveLinks, AllLinks
  <2>4. pc[q] \in Creating => UNCHANGED versionOf[link[q]]
    BY <1>3, <1>4, <1>5, <1>7, <2>1 DEF RequestInvOf
  <2>5. QED
    BY <1>2, <1>5, <1>7, <2>1, <2>3, <2>4 DEF RequestInvOf, Creating, CreateTx, DocumentOfLink
<1>8. RequestInvOf(r)'
  BY <1>1, <1>2, <1>4, VersionsAssumption
     DEF RequestInv, RequestInvOf, Begin, TypeOK, Creating, CreateTx, DeleteTx, DocumentOfLink
<1>9. PairInv'
  BY <1>1, <1>4, <1>5 DEF PairInv, PairInvOf, Begin, TypeOK
<1>10. StoredInv' /\ OnlyNewestIsLive' /\ NoDanglingLink'
  BY <1>2, <1>3, <1>4 DEF StoredInv, OnlyNewestIsLive, NoDanglingLink, DocumentOfLink, TypeOK
<1>11. QED
  BY <1>6, <1>7, <1>8, <1>9, <1>10 DEF RequestInv

\* The steps that end r and write rows of the table.
Finishes(r) == CommitCreate(r) \/ RevokeLink(r) \/ CommitDelete(r)

LEMMA FinishFrame ==
    ASSUME TypeOK, NEW r \in Requests, Finishes(r)
    PROVE  /\ End(r) /\ UNCHANGED versionOf
           /\ pc'[r] = "idle"
           /\ \A q \in Requests \ {r} :
                UNCHANGED <<pc[q], doc[q], link[q], selected[q], touched[q]>>
<1>1. End(r) /\ UNCHANGED versionOf
  BY DEF Finishes, CommitCreate, RevokeLink, CommitDelete
<1>2. QED
  BY <1>1 DEF End, TypeOK

LEMMA FinishTypes ==
    ASSUME IInv, NEW r \in Requests, Finishes(r)
    PROVE  TypeOK'
<1> USE DEF IInv, TypeOK, End, Unlock, States
<1>1. CASE CommitCreate(r)
  <2>1. link[r] \in Links /\ doc[r] \in Documents
    BY <1>1 DEF CommitCreate, RequestInv, RequestInvOf, Creating, CreateTx
  <2>2. touched[r] \subseteq stored
    BY <1>1 DEF CommitCreate, RequestInv, RequestInvOf
  <2>3. QED
    BY <1>1, <2>1, <2>2, AttemptsAssumption DEF CommitCreate
<1>2. CASE RevokeLink(r)
  BY <1>2, AttemptsAssumption DEF RevokeLink
<1>3. CASE CommitDelete(r)
  <2>1. /\ documents' \subseteq Documents /\ stored' \subseteq Links
        /\ revoked' \subseteq stored' /\ expired' \subseteq stored' /\ accessed' \subseteq stored'
    BY <1>3 DEF CommitDelete
  <2>2. newest' \in [Documents -> Links \cup {None}]
    BY <1>3 DEF CommitDelete
  <2>3. versionOf' \in [Links -> Versions \cup {None}]
    BY <1>3 DEF CommitDelete
  <2>4. QED
    BY <1>3, <2>1, <2>2, <2>3, AttemptsAssumption DEF CommitDelete
<1>4. QED
  BY <1>1, <1>2, <1>3 DEF Finishes

\* A request that ends is idle: it asks nothing of RequestInv and PairInv.
LEMMA FinishRequests ==
    ASSUME IInv, NEW r \in Requests, Finishes(r)
    PROVE  RequestInv' /\ PairInv'
<1> USE DEF IInv
<1>1. /\ UNCHANGED versionOf /\ pc'[r] = "idle" /\ touched'[r] = {}
      /\ \A q \in Requests \ {r} :
            UNCHANGED <<pc[q], doc[q], link[q], selected[q], touched[q]>>
  BY FinishFrame DEF End, TypeOK
<1>2. PairInv'
  BY <1>1 DEF PairInv, PairInvOf, Creating, CreateTx
<1>3. RequestInvOf(r)'
  BY <1>1 DEF RequestInvOf, Creating, CreateTx, DeleteTx
<1>4. ASSUME NEW q \in Requests, q # r PROVE RequestInvOf(q)'
  <2> USE <1>1, <1>4
  <2>1. RequestInvOf(q) /\ RequestInvOf(r) /\ PairInvOf(q, r) /\ PairInvOf(r, q)
    BY DEF RequestInv, PairInv
  <2>2. advisory[doc[q]] = q /\ doc[q] \in Documents => advisory'[doc[q]] = q
    BY FinishFrame DEF End, Unlock
  <2>3. CASE RevokeLink(r)
    BY <2>1, <2>2, <2>3 DEF RevokeLink, RequestInvOf, Creating, CreateTx, DeleteTx, DocumentOfLink,
       LiveLinks, AllLinks
  <2>4. CASE CommitCreate(r)
    \* r holds the lock of doc[r], hence q is not creating a link of it; nor
    \* has q deleted the version.
    <3>1. DocumentOfLink(link[r]) = doc[r] /\ pc[r] = "inserted" /\ advisory[doc[r]] = r
      BY <2>1, <2>4 DEF CommitCreate, RequestInvOf, Creating, CreateTx
    <3>2. pc[q] \in CreateTx \cup {"versionsDeleted"} => doc[q] # doc[r]
      BY <3>1, <2>1 DEF RequestInvOf, PairInvOf
    <3>3. pc[q] \in CreateTx \cup {"versionsDeleted"} =>
              /\ LiveLinks(doc[q])' \subseteq LiveLinks(doc[q])
              /\ AllLinks(doc[q])' = AllLinks(doc[q])
      BY <3>1, <3>2, <2>4 DEF CommitCreate, LiveLinks, AllLinks, DocumentOfLink
    <3>4. pc[q] \in Creating => link[q] # link[r]
      BY <3>1, <2>1 DEF PairInvOf, Creating, CreateTx
    <3>5. UNCHANGED documents /\ stored' = stored \cup {link[r]}
      BY <2>4 DEF CommitCreate
    <3>6. QED
      BY <2>1, <2>2, <3>3, <3>4, <3>5 DEF RequestInvOf, Creating, CreateTx, DocumentOfLink
  <2>5. CASE CommitDelete(r)
    \* The rows that disappear are those r has locked.
    <3>1. /\ stored' = stored \ touched[r] /\ documents' = documents \ {doc[r]}
          /\ pc[r] = "versionsDeleted"
      BY <2>5 DEF CommitDelete
    <3>2. /\ LiveLinks(doc[q])' \subseteq LiveLinks(doc[q])
          /\ AllLinks(doc[q])' \subseteq AllLinks(doc[q])
      BY <2>5 DEF CommitDelete, LiveLinks, AllLinks, DocumentOfLink
    <3>3. touched[q] \subseteq stored'
      BY <2>1, <3>1 DEF RequestInvOf, PairInvOf
    <3>4. pc[q] = "inserted" => doc[q] \in documents'
      BY <2>1, <3>1 DEF RequestInvOf, PairInvOf
    <3>5. QED
      BY <2>1, <2>2, <3>1, <3>2, <3>3, <3>4 DEF RequestInvOf, Creating, CreateTx, DocumentOfLink
  <2>6. QED
    BY <2>3, <2>4, <2>5 DEF Finishes
<1>5. QED
  BY <1>2, <1>3, <1>4 DEF RequestInv

LEMMA FinishStep ==
    ASSUME IInv, NEW r \in Requests, Finishes(r)
    PROVE  IInv'
<1>1. StoredInv' /\ OnlyNewestIsLive' /\ NoDanglingLink'
  <2> USE DEF IInv, StoredInv, OnlyNewestIsLive, NoDanglingLink, DocumentOfLink
  <2>1. RequestInvOf(r) /\ UNCHANGED versionOf
    BY FinishFrame DEF RequestInv
  <2>2. CASE RevokeLink(r)
    BY <2>1, <2>2 DEF RevokeLink
  <2>3. CASE CommitCreate(r)
    <3>1. /\ DocumentOf[versionOf[link[r]]] = doc[r] /\ versionOf[link[r]] \in Versions
          /\ doc[r] \in documents /\ doc[r] \in Documents
          /\ LiveLinks(doc[r]) \subseteq touched[r]
      BY <2>1, <2>3 DEF CommitCreate, RequestInvOf, Creating, CreateTx
    <3>2. /\ stored' = stored \cup {link[r]} /\ revoked' = revoked \cup touched[r]
          /\ newest' = [newest EXCEPT ![doc[r]] = link[r]] /\ UNCHANGED documents
      BY <2>3 DEF CommitCreate
    <3>3. ASSUME NEW l \in stored' \ revoked' PROVE newest'[DocumentOf[versionOf[l]]] = l
      <4>1. CASE l = link[r]
        BY <3>1, <3>2, <4>1 DEF TypeOK
      <4>2. CASE l # link[r]
        BY <3>1, <3>2, <3>3, <4>2, VersionsAssumption DEF TypeOK, LiveLinks
      <4>3. QED
        BY <4>1, <4>2
    <3>4. QED
      BY <2>1, <3>1, <3>2, <3>3
  <2>4. CASE CommitDelete(r)
    <3>1. AllLinks(doc[r]) \subseteq touched[r]
      BY <2>1, <2>4 DEF CommitDelete, RequestInvOf
    <3>2. /\ stored' = stored \ touched[r] /\ revoked' = revoked \ touched[r]
          /\ documents' = documents \ {doc[r]} /\ newest' = [newest EXCEPT ![doc[r]] = None]
      BY <2>4 DEF CommitDelete
    <3>3. \A l \in stored' : DocumentOf[versionOf[l]] # doc[r]
      BY <3>1, <3>2 DEF AllLinks
    <3>4. QED
      BY <2>1, <3>2, <3>3, VersionsAssumption DEF TypeOK
  <2>5. QED
    BY <2>2, <2>3, <2>4 DEF Finishes
<1>2. QED
  BY <1>1, FinishTypes, FinishRequests DEF IInv

LEMMA ExpireStep ==
    ASSUME IInv, NEW l \in Links, ExpireLink(l)
    PROVE  IInv'
<1>1. UNCHANGED <<documents, stored, revoked, versionOf, newest, advisory, requestVars>>
  BY DEF ExpireLink
<1>2. TypeOK'
  BY DEF IInv, TypeOK, ExpireLink, requestVars
<1>3. \A r \in Requests : RequestInvOf(r)'
  BY <1>1, RequestInvOfSame DEF IInv, RequestInv, requestVars
<1>4. QED
  BY <1>1, <1>2, <1>3 DEF IInv, RequestInv, PairInv, PairInvOf, StoredInv, OnlyNewestIsLive,
     NoDanglingLink, DocumentOfLink, requestVars

LEMMA StutterStep == ASSUME IInv, UNCHANGED vars PROVE IInv'
<1>1. \A r \in Requests : RequestInvOf(r)'
  BY RequestInvOfSame DEF IInv, RequestInv, vars, tableVars, requestVars
<1>2. QED
  BY <1>1 DEF IInv, TypeOK, RequestInv, PairInv, PairInvOf, StoredInv, OnlyNewestIsLive,
     NoDanglingLink, DocumentOfLink, vars, tableVars, requestVars

LEMMA NextIInv == IInv /\ [Next]_vars => IInv'
<1> SUFFICES ASSUME IInv, [Next]_vars PROVE IInv'
  OBVIOUS
<1>1. CASE UNCHANGED vars
  BY <1>1, StutterStep
<1>2. ASSUME NEW r \in Requests, Receive(r) \/ Serve(r) \/ Abort(r) PROVE IInv'
  <2>1. CheckVersion(r) \/ Private(r) \/ Finishes(r)
    BY <1>2 DEF Receive, Serve, Abort, Refuse, Private, Finishes
  <2>2. QED
    BY <2>1, CheckVersionStep, PrivateStep, FinishStep
<1>3. ASSUME NEW l \in Links, ExpireLink(l) PROVE IInv'
  BY <1>3, ExpireStep
<1>4. QED
  BY <1>1, <1>2, <1>3 DEF Next

LEMMA Invariance == Spec => []IInv
BY InitIInv, NextIInv, PTL DEF Spec

-----------------------------------------------------------------------------

\* The types of TypeOK hold whatever the number of links and requests.
THEOREM ShareLinksTypes == Spec => []TypeOK
<1>1. IInv => TypeOK
  BY DEF IInv
<1>2. QED
  BY <1>1, Invariance, PTL

\* Of the links of a document only the newest can be live, for any number of
\* concurrent create, revoke and deleteDocument calls.
THEOREM NewestLinkOnly == Spec => []OnlyNewestIsLive
<1>1. IInv => OnlyNewestIsLive
  BY DEF IInv
<1>2. QED
  BY <1>1, Invariance, PTL

\* A document has at most one link that is not revoked.
AtMostOneLiveLink ==
    \A k, l \in stored \ revoked : DocumentOfLink(k) = DocumentOfLink(l) => k = l

THEOREM OneLiveLink == Spec => []AtMostOneLiveLink
<1>1. IInv => AtMostOneLiveLink
  BY DEF IInv, OnlyNewestIsLive, AtMostOneLiveLink
<1>2. QED
  BY <1>1, Invariance, PTL

\* No link refers to a deleted document, whatever was being created.
THEOREM NoLinkDangles == Spec => []NoDanglingLink
<1>1. IInv => NoDanglingLink
  BY DEF IInv
<1>2. QED
  BY <1>1, Invariance, PTL

-----------------------------------------------------------------------------
(* Waiting.  A request waits only for one that is further along.           *)

\* Locks are held only by requests in the part of a transaction that needs them.
HoldInv ==
    /\ \A d \in Documents : advisory[d] # None =>
          advisory[d] \in Requests /\ pc[advisory[d]] \in CreateTx
    /\ \A r \in Requests :
          /\ pc[r] # "idle" => doc[r] \in Documents
          /\ touched[r] # {} => pc[r] \in {"revoked", "inserted"} \cup (DeleteTx \ {"deleting"})

LEMMA InitHoldInv == Init => HoldInv
BY DEF Init, HoldInv

LEMMA NextHoldInv == IInv /\ HoldInv /\ [Next]_vars => HoldInv'
<1> SUFFICES ASSUME IInv, HoldInv, [Next]_vars PROVE HoldInv'
  OBVIOUS
<1> USE NoneAssumption DEF HoldInv, IInv, TypeOK, CreateTx, DeleteTx
<1>1. CASE UNCHANGED vars
  BY <1>1 DEF vars, tableVars, requestVars
<1>2. ASSUME NEW l \in Links, ExpireLink(l) PROVE HoldInv'
  BY <1>2 DEF ExpireLink, requestVars
<1>3. ASSUME NEW r \in Requests, End(r) PROVE HoldInv'
  BY <1>3 DEF End, Unlock
<1>4. ASSUME NEW r \in Requests, Receive(r) PROVE HoldInv'
  <2>1. \E s \in States, d \in Documents, l \in Links \cup {None} :
          pc[r] = "idle" /\ Begin(r, s, d, l) /\ UNCHANGED advisory
    BY <1>4, VersionsAssumption DEF Receive, CheckVersion, FindLink, ResolveToken, LoadDocument,
       States, StoredInv, DocumentOfLink
  <2>2. QED
    BY <2>1 DEF Begin
<1>5. ASSUME NEW r \in Requests, Serve(r) \/ Abort(r) PROVE HoldInv'
  <2>1. CASE AcquireLock(r)
    BY <2>1 DEF AcquireLock, Advance
  <2>2. CASE SelectLive(r) \/ SelectLinks(r)
    BY <2>2 DEF SelectLive, SelectLinks, Advance
  <2>3. CASE RevokeLive(r) \/ DeleteLinks(r)
    BY <2>3 DEF RevokeLive, DeleteLinks, Advance
  <2>4. CASE InsertLink(r) \/ UnlinkDocument(r) \/ DeleteVersions(r)
    BY <2>4 DEF InsertLink, UnlinkDocument, DeleteVersions, Advance
  <2>5. CASE TokenCollision(r)
    BY <2>5 DEF TokenCollision, Unlock
  <2>6. CASE End(r)
    BY <1>3, <2>6
  <2>7. QED
    BY <1>5, <2>1, <2>2, <2>3, <2>4, <2>5, <2>6
       DEF Serve, Abort, Refuse, Fail, CommitCreate, RevokeLink, CountAccess, Account, CommitDelete
<1>6. QED
  BY <1>1, <1>2, <1>4, <1>5 DEF Next

\* Of requests that all wait none could be the one furthest along: versions
\* deleted and inserted wait for nobody; the others for one of a later group.
LEMMA SomeoneGoesOn == IInv /\ HoldInv => NoWaitCycle
<1> SUFFICES ASSUME IInv, HoldInv, \A r \in Served : Waits(r), NEW q \in Served PROVE FALSE
  BY DEF NoWaitCycle
<1>1. \A r \in Requests : pc[r] = "idle" \/ Waits(r)
  BY DEF Served
<1>2. \A r \in Requests : pc[r] \notin {"locked", "inserted", "loaded", "versionsDeleted"}
  BY <1>1 DEF Waits
<1>3. \A r \in Requests : pc[r] # "unlinked"
  BY <1>1, <1>2 DEF Waits, Referenced
<1>4. \A r \in Requests : pc[r] \notin {"linksDeleted", "revoked"}
  BY <1>1, <1>2, <1>3 DEF Waits, Unlinking, Deleted
<1>5. \A r \in Requests : touched[r] = {}
  BY <1>2, <1>3, <1>4 DEF HoldInv, DeleteTx
<1>6. \A r \in Requests : pc[r] \notin {"revoking", "deleting", "found", "resolved"}
  BY <1>1, <1>5 DEF Waits, Locked
<1>7. \A r \in Requests : pc[r] # "checked"
  <2> SUFFICES ASSUME NEW r \in Requests, pc[r] = "checked" PROVE FALSE
    OBVIOUS
  <2>1. doc[r] \in Documents /\ advisory[doc[r]] # None
    BY <1>1 DEF Waits, HoldInv
  <2>2. \E p \in Requests : pc[p] \in CreateTx
    BY <2>1 DEF HoldInv
  <2>3. QED
    BY <2>2, <1>2, <1>4, <1>6 DEF CreateTx
<1>8. QED
  BY <1>2, <1>3, <1>4, <1>6, <1>7 DEF Served, IInv, TypeOK, States, CreateTx, DeleteTx

\* However creations, revocations, accesses and deletions wait for the advisory
\* lock, for rows and for foreign keys, one of the served requests can go on:
\* Postgres finds no deadlock among them, whatever their number.
THEOREM NoCycle == Spec => []NoWaitCycle
<1>1. Spec => []HoldInv
  BY InitHoldInv, NextHoldInv, Invariance, PTL DEF Spec
<1>2. QED
  BY <1>1, SomeoneGoesOn, Invariance, PTL

-----------------------------------------------------------------------------

LEMMA AccessStep ==
    ASSUME IInv, [Next]_vars, NEW l \in accessed' \ accessed
    PROVE  /\ l \in stored \ revoked /\ newest[DocumentOfLink(l)] = l
           /\ DocumentOfLink(l) \in documents
<1>1. ~UNCHANGED accessed
  OBVIOUS
<1>2. PICK r \in Requests : Receive(r) \/ Serve(r) \/ Abort(r)
  BY <1>1 DEF Next, ExpireLink, vars, tableVars
<1>3. CountAccess(r) \/ CommitDelete(r)
  BY <1>1, <1>2 DEF Receive, Serve, Abort, Refuse, Fail, CheckVersion, FindLink, ResolveToken,
     LoadDocument, AcquireLock, SelectLive, RevokeLive, InsertLink, TokenCollision, CommitCreate,
     RevokeLink, SelectLinks, DeleteLinks, UnlinkDocument, DeleteVersions, tableVars
<1>4. CountAccess(r)
  BY <1>3 DEF CommitDelete
<1>5. l \in stored \ revoked
  BY <1>4 DEF CountAccess, Account
<1>6. QED
  BY <1>5 DEF IInv, OnlyNewestIsLive, NoDanglingLink

\* A file is served through a link only while the link is live, the newest of
\* its document, and the document is there.
THEOREM AccessIsTimely == Spec => NoLateAccess
<1>1. IInv /\ [Next]_vars =>
        [\A l \in accessed' \ accessed :
            /\ l \in stored \ revoked /\ newest[DocumentOfLink(l)] = l
            /\ DocumentOfLink(l) \in documents]_vars
  BY AccessStep
<1>2. QED
  BY <1>1, Invariance, PTL DEF Spec, NoLateAccess
=============================================================================
