--------------------------- MODULE DocumentsProofs ---------------------------
(***************************************************************************)
(* For any documents, contents, storage keys and concurrent requests, with *)
(* any number of lost commits, crashes and failed file operations.         *)
(*                                                                         *)
(* Tables: version numbers have neither gaps nor doubles, and the current  *)
(* version is one of the document's own.  A request that has read a number *)
(* acts on it later; the invariant says what stays true meanwhile: all     *)
(* lower numbers are there as long as the document is (NumberInv), and     *)
(* nobody takes the number of an open insert.                              *)
(*                                                                         *)
(* Files: the causes of missing and orphaned files are complete.  A key    *)
(* that is being written belongs to one request alone (FreshInv), what a   *)
(* deletion has moved away is in the store no more (MovedInv), and nothing *)
(* is stored or moved that is neither referenced, leaked nor being written *)
(* (StrayInv).                                                             *)
(***************************************************************************)
EXTENDS Documents, FiniteSetTheorems, WellFoundedInduction, TLAPS

USE NoneAssumption, FaultsAssumption

-----------------------------------------------------------------------------
(* Largest numbers.                                                        *)

\* A set of naturals has a least element, and a bounded one a largest.
LEMMA Least ==
    ASSUME NEW S \in SUBSET Nat, S # {}
    PROVE  \E m \in S : \A k \in S : m <= k
<1> DEFINE R == OpToRel(<, Nat)
<1>1. IsWellFoundedOn(R, Nat)
  BY NatLessThanWellFounded
<1>2. \A k, m \in Nat : k < m => <<k, m>> \in R
  BY DEF OpToRel
<1> HIDE DEF R
<1>3. PICK m \in S : \A k \in S : <<k, m>> \notin R
  BY <1>1, WFMin, Zenon
<1>4. ASSUME NEW k \in S PROVE m <= k
  <2>1. <<k, m>> \notin R
    BY <1>3
  <2>2. ~(k < m)
    BY <1>2, <2>1, Zenon
  <2>3. QED
    BY <2>2
<1>5. QED
  BY <1>4

LEMMA MaxOfBounded ==
    ASSUME NEW S \in SUBSET Nat, S # {}, NEW n \in Nat, \A x \in S : x <= n
    PROVE  Max(S) \in S /\ \A y \in S : y <= Max(S)
<1> DEFINE D == {k \in Nat : k <= n /\ n - k \in S}
<1>1. PICK x \in S : TRUE
  OBVIOUS
<1>2. n - x \in D
  BY <1>1
<1>3. PICK m \in D : \A k \in D : m <= k
  BY <1>2, Least
<1>4. n - m \in S /\ \A y \in S : n - m >= y
  <2>1. SUFFICES ASSUME NEW y \in S PROVE n - m >= y
    BY <1>3
  <2>2. n - y \in D
    OBVIOUS
  <2>3. m <= n - y /\ m \in Nat
    BY <2>2, <1>3
  <2>4. QED
    BY <2>3
<1>5. QED
  BY <1>4 DEF Max

-----------------------------------------------------------------------------
(* The inductive invariant of the tables.                                  *)

HasNumber(d, n) == \E v \in versions : v.doc = d /\ v.number = n

Bounded == \E n \in Nat : \A v \in versions : v.number <= n
UniqueInv == \A v, w \in versions : v.doc = w.doc /\ v.number = w.number => v = w
BelowInv == \A v \in versions : \A i \in 1..(v.number - 1) : HasNumber(v.doc, i)
CurrentInv == \A d \in documents : HasNumber(d, current[d])

Uploads == {"prepared", "found", "dangling", "writing", "ready"} \cup UploadTx
Holding == {"ready", "cleanup"} \cup UploadTx

\* What a request r at p has in hand, m being the holder of the mutex: its
\* document, content and key.
HandAt(r, m, p, d, c, k) ==
    /\ IF p = "idle" THEN d = None ELSE d \in used
    /\ p \in Uploads => c \in Contents
    /\ p \in {"found", "dangling", "quarantining", "dropping"} \cup Holding => k \in Keys
    /\ m = r => p \in Uploads \cup {"cleanup"}
    /\ m = r /\ p \in Uploads => d \notin documents

Hand(r) == HandAt(r, mutex, pc[r], doc[r], content[r], key[r])
HandInv == \A r \in Requests : Hand(r)

\* A document that is being created is known to its creator alone.
CreationInv ==
    \A r, q \in Requests : r # q /\ Creating(r) /\ pc[r] \in Uploads => doc[q] # doc[r]

\* What the number n of a request r at p still means to document d.
NumberAt(r, m, p, d, n) ==
    /\ p \in UploadTx =>
          /\ n # 0 /\ (m = r => n = 1)
          /\ d \in documents => \A i \in 1..(n - 1) : HasNumber(d, i)
    /\ p = "inserted" => ~HasNumber(d, n) /\ (m = r \/ d \in documents)
    /\ p = "chosen" /\ d \in documents => HasNumber(d, n)

Number(r) == NumberAt(r, mutex, pc[r], doc[r], number[r])
NumberInv == \A r \in Requests : Number(r)

TableInv == Bounded /\ UniqueInv /\ BelowInv /\ CurrentInv
TInv == TypeOK /\ TableInv /\ HandInv /\ CreationInv /\ NumberInv

LEMMA InitTInv == Init => TInv
BY DEF Init, TInv, TypeOK, TableInv, Bounded, UniqueInv, BelowInv, CurrentInv, HandInv, Hand, HandAt,
       CreationInv, NumberInv, Number, NumberAt, Uploads, Holding, UploadTx, States, Creating

-----------------------------------------------------------------------------
(* Type correctness.                                                       *)


\* ON DELETE SET NULL changes nothing but `linked`.
LEMMA UnlinkedRow ==
    ASSUME NEW v \in VersionRows, NEW k
    PROVE  LET w == [v EXCEPT !.linked = v.linked /\ v.key # k]
           IN  w \in VersionRows /\ w.doc = v.doc /\ w.number = v.number /\ w.key = v.key
<1>1. ASSUME NEW b \in BOOLEAN
      PROVE  LET w == [v EXCEPT !.linked = b]
             IN  w \in VersionRows /\ w.doc = v.doc /\ w.number = v.number /\ w.key = v.key
  BY DEF VersionRows
<1>2. \E b \in BOOLEAN : b = (v.linked /\ v.key # k)
  <2>1. CASE v.linked /\ v.key # k
    <3>1. TRUE = (v.linked /\ v.key # k)
      BY <2>1
    <3>2. QED
      BY <3>1, Zenon
  <2>2. CASE ~(v.linked /\ v.key # k)
    <3>1. FALSE = (v.linked /\ v.key # k)
      BY <2>2
    <3>2. QED
      BY <3>1, Zenon
  <2>3. QED
    BY <2>1, <2>2
<1>3. QED
  BY <1>1, <1>2, Zenon

LEMMA UnlinkedRows ==
    ASSUME versions \subseteq VersionRows, NEW k
    PROVE  /\ Unlinked(k) \subseteq VersionRows
           /\ \A v \in versions : \E w \in Unlinked(k) :
                 w.doc = v.doc /\ w.number = v.number /\ w.key = v.key
           /\ \A w \in Unlinked(k) : \E v \in versions :
                 w.doc = v.doc /\ w.number = v.number /\ w.key = v.key
           /\ UniqueInv => \A v, w \in Unlinked(k) : v.doc = w.doc /\ v.number = w.number => v = w
<1> DEFINE U(v) == [v EXCEPT !.linked = v.linked /\ v.key # k]
<1>1. \A v \in versions : U(v) \in VersionRows /\ U(v).doc = v.doc /\ U(v).number = v.number /\ U(v).key = v.key
  BY UnlinkedRow
<1>2. Unlinked(k) = {U(v) : v \in versions}
  BY DEF Unlinked
<1> HIDE DEF U
<1>3. QED
  BY <1>1, <1>2 DEF UniqueInv

\* The highest number in use.
TopNumber(d) == Max({0} \cup {v.number : v \in VersionsOf(d)})

LEMMA NextNumber ==
    ASSUME TypeOK, Bounded, NEW d
    PROVE  /\ TopNumber(d) \in Nat /\ (TopNumber(d) = 0 \/ HasNumber(d, TopNumber(d)))
           /\ \A v \in VersionsOf(d) : v.number <= TopNumber(d)
<1> DEFINE S == {0} \cup {v.number : v \in VersionsOf(d)}
<1>1. PICK n \in Nat : \A v \in versions : v.number <= n
  BY DEF Bounded
<1>2. \A v \in VersionsOf(d) : v \in versions /\ v.doc = d /\ v.number \in Nat /\ v.number \in S
  BY DEF VersionsOf, TypeOK, VersionRows
<1>3. S \in SUBSET Nat /\ S # {} /\ \A x \in S : x <= n
  BY <1>1, <1>2
<1>4. \A x \in S : x = 0 \/ HasNumber(d, x)
  BY <1>2 DEF HasNumber
<1> HIDE DEF S
<1>5. Max(S) \in S /\ \A y \in S : y <= Max(S)
  BY <1>3, MaxOfBounded
<1>6. Max(S) \in Nat /\ (Max(S) = 0 \/ HasNumber(d, Max(S))) /\ \A v \in VersionsOf(d) : v.number <= Max(S)
  BY <1>2, <1>3, <1>4, <1>5
<1>7. QED
  BY <1>6 DEF S, TopNumber

NewVersion(r) == [doc |-> doc[r], number |-> number[r], key |-> key[r], linked |-> TRUE]

LEMMA TypeStep ==
    ASSUME TInv, NEW r \in Requests, Receive(r) \/ Serve(r) \/ LoseCommit(r) \/ LoseDelete(r) \/ FailUpload(r) \/ FailDelete(r) \/ GiveUp(r)
    PROVE  TypeOK'
<1> USE DEF TInv, TypeOK, HandInv, Hand, HandAt, Uploads, Holding, UploadTx, States, Advance, End, tableVars, fileVars, uploadVars, deleteVars, historyVars
<1>1. ASSUME Receive(r) PROVE TypeOK'
  <2>1. CASE TakeMutex(r)
    BY <2>1 DEF TakeMutex
  <2>2. CASE CheckVersion(r)
    BY <2>2 DEF CheckVersion
  <2>3. CASE ChooseVersion(r)
    <3>1. PICK v \in versions :
             doc' = [doc EXCEPT ![r] = v.doc] /\ number' = [number EXCEPT ![r] = v.number]
      BY <2>3 DEF ChooseVersion
    <3>2. v.doc \in DocumentIds /\ v.number \in Nat
      BY DEF VersionRows
    <3>3. QED
      BY <2>3, <3>1, <3>2 DEF ChooseVersion
  <2>4. CASE LoadDocument(r)
    <3>1. PICK d \in documents :
             /\ doc' = [doc EXCEPT ![r] = d]
             /\ todo' = [todo EXCEPT ![r] = VersionsOf(d)]
             /\ rowIds' = [rowIds EXCEPT ![r] = {v.key : v \in {w \in VersionsOf(d) : w.linked}}]
      BY <2>4 DEF LoadDocument
    <3>2. VersionsOf(d) \subseteq VersionRows /\ {v.key : v \in {w \in VersionsOf(d) : w.linked}} \subseteq Keys
      BY DEF VersionsOf, VersionRows
    <3>3. QED
      BY <2>4, <3>1, <3>2 DEF LoadDocument
  <2>5. QED
    BY <1>1, <2>1, <2>2, <2>3, <2>4 DEF Receive
<1>2. ASSUME LoseCommit(r) \/ CommitUpload(r) PROVE TypeOK'
  <2>1. pc[r] = "inserted" /\ doc[r] \in used /\ key[r] \in Keys /\ number[r] \in Nat \ {0}
    BY <1>2 DEF LoseCommit, CommitUpload, NumberInv, Number, NumberAt, Creating
  <2>2. NewVersion(r) \in VersionRows /\ NewVersion(r).doc = doc[r]
    BY <2>1 DEF NewVersion, VersionRows
  <2>3. doc[r] \in documents'
    BY <1>2, <2>1 DEF LoseCommit, CommitUpload, CommitRows, NumberInv, Number, NumberAt, Creating
  <2>4. versions' \subseteq VersionRows /\ \A v \in versions' : v.doc \in documents'
    <3>1. versions' = versions \cup {NewVersion(r)} /\ documents \subseteq documents'
      BY <1>2 DEF LoseCommit, CommitUpload, CommitRows, NewVersion
    <3>2. QED
      BY <3>1, <2>2, <2>3
  <2>5. CASE LoseCommit(r)
    BY <2>1, <2>4, <2>5 DEF LoseCommit, CommitRows
  <2>6. CASE CommitUpload(r)
    BY <2>1, <2>4, <2>6 DEF CommitUpload, CommitRows
  <2>7. QED
    BY <1>2, <2>5, <2>6
<1>3. ASSUME DropBlob(r) \/ DropStoredFile(r) PROVE TypeOK'
  <2>1. (versions' = Unlinked(key[r]) \/ versions' = versions) /\ storedFiles' \subseteq storedFiles
    BY <1>3 DEF DropBlob, DropStoredFile, DropRow
  <2>2. versions' \subseteq VersionRows /\ \A v \in versions' : v.doc \in documents
    BY <2>1, UnlinkedRows
  <2>3. CASE DropBlob(r)
    BY <2>1, <2>2, <2>3 DEF DropBlob
  <2>4. CASE DropStoredFile(r)
    BY <2>1, <2>2, <2>4 DEF DropStoredFile
  <2>5. QED
    BY <1>3, <2>3, <2>4
<1>4. ASSUME FindBlob(r) PROVE TypeOK'
  <2>1. key' \in [Requests -> Keys \cup {None}]
    BY <1>4 DEF FindBlob, BlobsOf
  <2>2. QED
    BY <1>4, <2>1 DEF FindBlob
<1>5. ASSUME CheckBlob(r) \/ WriteFile(r) \/ InsertRows(r) \/ Cleanup(r) \/ FailCleanup(r) \/ FailUpload(r) \/ GiveUp(r)
      PROVE  TypeOK'
  <2>1. CASE CheckBlob(r)
    BY <2>1 DEF CheckBlob
  <2>2. CASE WriteFile(r)
    <3>1. PICK k \in Keys : /\ sha' = [sha EXCEPT ![k] = content[r]] /\ files' = files \cup {k}
                            /\ key' = [key EXCEPT ![r] = k]
      BY <2>2 DEF WriteFile
    <3>2. content[r] \in Contents /\ pc' \in [Requests -> States]
      BY <2>2 DEF WriteFile
    <3>3. sha' \in [Keys -> Contents \cup {None}] /\ files' \subseteq Keys /\ key' \in [Requests -> Keys \cup {None}]
      BY <3>1, <3>2
    <3>4. QED
      BY <2>2, <3>2, <3>3 DEF WriteFile
  <2>3. CASE Cleanup(r)
    BY <2>3 DEF Cleanup
  <2>4. CASE InsertRows(r)
    BY <2>4 DEF InsertRows
  <2>5. CASE FailUpload(r)
    BY <2>5 DEF FailUpload
  <2>6. CASE GiveUp(r)
    BY <2>6 DEF GiveUp
  <2>7. CASE FailCleanup(r)
    BY <2>7 DEF FailCleanup
  <2>8. QED
    BY <1>5, <2>1, <2>2, <2>3, <2>4, <2>5, <2>6, <2>7
<1>6. ASSUME ReadNumber(r) PROVE TypeOK'
  <2>1. TopNumber(doc[r]) + 1 \in Nat
    BY NextNumber DEF TableInv
  <2>2. number' = [number EXCEPT ![r] = IF Creating(r) THEN 1 ELSE TopNumber(doc[r]) + 1]
    BY <1>6 DEF ReadNumber, TopNumber
  <2>3. number' \in [Requests -> Nat]
    BY <2>1, <2>2
  <2>4. QED
    BY <1>6, <2>3 DEF ReadNumber
<1>7. ASSUME MakeCurrent(r) PROVE TypeOK'
  BY <1>7 DEF MakeCurrent
<1>8. ASSUME CommitDelete(r) \/ LoseDelete(r) PROVE TypeOK'
  <2>1. versions' \subseteq VersionRows /\ \A v \in versions' : v.doc \in documents'
    BY <1>8 DEF CommitDelete, LoseDelete, DeleteRows, VersionsOf
  <2>2. leaked' \subseteq Keys
    BY <1>8 DEF CommitDelete, LoseDelete, VersionsOf, VersionRows
  <2>3. faults' \in 0..MaxFaults
    BY <1>8 DEF CommitDelete, LoseDelete
  <2>4. QED
    BY <1>8, <2>1, <2>2, <2>3 DEF CommitDelete, LoseDelete, DeleteRows
<1>9. ASSUME ScanVersion(r) \/ Quarantine(r) \/ Purge(r) \/ CountVersions(r) \/ FinishDelete(r) \/ Restore(r) \/ Rethrow(r) \/ FailDelete(r)
      PROVE  TypeOK'
  <2>1. CASE ScanVersion(r)
    BY <2>1 DEF ScanVersion, VersionRows
  <2>2. CASE Quarantine(r)
    <3>1. /\ pc' \in [Requests -> States] /\ key[r] \in Keys
          /\ todo' \in [Requests -> SUBSET VersionRows] /\ key' \in [Requests -> Keys \cup {None}]
      BY <2>2 DEF Quarantine
    <3>2. files' \subseteq Keys /\ quarantine' \subseteq Keys /\ taken' \subseteq Keys
      BY <2>2, <3>1 DEF Quarantine
    <3>3. moved' \in [Requests -> SUBSET Keys]
      BY <2>2, <3>1 DEF Quarantine
    <3>4. QED
      BY <2>2, <3>1, <3>2, <3>3 DEF Quarantine
  <2>3. CASE CountVersions(r)
    BY <2>3 DEF CountVersions
  <2>4. CASE Restore(r)
    BY <2>4 DEF Restore
  <2>5. CASE Purge(r)
    BY <2>5 DEF Purge
  <2>6. CASE FinishDelete(r)
    BY <2>6 DEF FinishDelete
  <2>7. CASE FailDelete(r)
    BY <2>7 DEF FailDelete
  <2>8. CASE Rethrow(r)
    BY <2>8 DEF Rethrow
  <2>9. QED
    BY <1>9, <2>1, <2>2, <2>3, <2>4, <2>5, <2>6, <2>7, <2>8
<1>10. QED
  BY <1>1, <1>2, <1>3, <1>4, <1>5, <1>6, <1>7, <1>8, <1>9 DEF Serve

\* A request leaves alone what the others have in hand.
Others(r) ==
    \A q \in Requests \ {r} :
        /\ pc'[q] = pc[q] /\ doc'[q] = doc[q] /\ content'[q] = content[q] /\ key'[q] = key[q]
        /\ reuse'[q] = reuse[q] /\ number'[q] = number[q] /\ todo'[q] = todo[q] /\ moved'[q] = moved[q]

RequestStep(r) ==
    Receive(r) \/ Serve(r) \/ LoseCommit(r) \/ LoseDelete(r) \/ FailUpload(r) \/ FailDelete(r) \/ GiveUp(r)

LEMMA StepOthers ==
    ASSUME TypeOK, NEW r \in Requests, RequestStep(r)
    PROVE  Others(r)
<1> USE DEF TypeOK, Others, Advance, End, tableVars, fileVars, uploadVars, deleteVars, historyVars
<1>1. CASE TakeMutex(r)
  BY <1>1 DEF TakeMutex
<1>2. CASE CheckVersion(r)
  BY <1>2 DEF CheckVersion
<1>3. CASE ChooseVersion(r)
  BY <1>3 DEF ChooseVersion
<1>4. CASE LoadDocument(r)
  BY <1>4 DEF LoadDocument
<1>5. CASE FindBlob(r)
  BY <1>5 DEF FindBlob
<1>6. CASE CheckBlob(r)
  BY <1>6 DEF CheckBlob
<1>7. CASE DropBlob(r)
  BY <1>7 DEF DropBlob
<1>8. CASE WriteFile(r)
  BY <1>8 DEF WriteFile
<1>9. CASE ReadNumber(r)
  BY <1>9 DEF ReadNumber
<1>10. CASE InsertRows(r)
  BY <1>10 DEF InsertRows
<1>11. CASE CommitUpload(r)
  BY <1>11 DEF CommitUpload
<1>12. CASE Cleanup(r)
  BY <1>12 DEF Cleanup
<1>13. CASE MakeCurrent(r)
  BY <1>13 DEF MakeCurrent
<1>14. CASE ScanVersion(r)
  BY <1>14 DEF ScanVersion
<1>15. CASE Quarantine(r)
  BY <1>15 DEF Quarantine
<1>16. CASE CommitDelete(r)
  BY <1>16 DEF CommitDelete, DeleteRows
<1>17. CASE Purge(r)
  BY <1>17 DEF Purge
<1>18. CASE CountVersions(r)
  BY <1>18 DEF CountVersions
<1>19. CASE DropStoredFile(r)
  BY <1>19 DEF DropStoredFile
<1>20. CASE FinishDelete(r)
  BY <1>20 DEF FinishDelete
<1>21. CASE Restore(r)
  BY <1>21 DEF Restore
<1>22. CASE LoseCommit(r)
  BY <1>22 DEF LoseCommit
<1>23. CASE FailUpload(r)
  BY <1>23 DEF FailUpload
<1>24. CASE FailDelete(r)
  BY <1>24 DEF FailDelete
<1>25. CASE GiveUp(r)
  BY <1>25 DEF GiveUp
<1>26. CASE FailCleanup(r)
  BY <1>26 DEF FailCleanup
<1>27. CASE LoseDelete(r)
  BY <1>27 DEF LoseDelete, DeleteRows
<1>28. CASE Rethrow(r)
  BY <1>28 DEF Rethrow
<1>29. QED
  BY <1>1, <1>2, <1>3, <1>4, <1>5, <1>6, <1>7, <1>8, <1>9, <1>10, <1>11, <1>12, <1>13, <1>14, <1>15, <1>16, <1>17, <1>18, <1>19, <1>20, <1>21, <1>22, <1>23, <1>24, <1>25, <1>26, <1>27, <1>28
     DEF RequestStep, Receive, Serve

-----------------------------------------------------------------------------
(* The tables.                                                             *)

\* Dropping a blob's row keeps the numbers of all documents.
LEMMA NumbersKept ==
    ASSUME TypeOK, TableInv, versions' = versions \/ (\E k : versions' = Unlinked(k)),
           UNCHANGED <<documents, current>>
    PROVE  TableInv' /\ \A d, n : HasNumber(d, n)' <=> HasNumber(d, n)
<1> USE DEF TypeOK, TableInv, HasNumber
<1>1. CASE versions' = versions
  BY <1>1 DEF Bounded, UniqueInv, BelowInv, CurrentInv
<1>2. ASSUME NEW k, versions' = Unlinked(k)
      PROVE  TableInv' /\ \A d, n : HasNumber(d, n)' <=> HasNumber(d, n)
  <2>1. /\ \A v \in versions : \E w \in versions' :
              w.doc = v.doc /\ w.number = v.number /\ w.key = v.key
        /\ \A w \in versions' : \E v \in versions :
              w.doc = v.doc /\ w.number = v.number /\ w.key = v.key
        /\ \A v, w \in versions' : v.doc = w.doc /\ v.number = w.number => v = w
    BY <1>2, UnlinkedRows
  <2>2. \A d, n : HasNumber(d, n)' <=> HasNumber(d, n)
    BY <2>1
  <2>3. Bounded' /\ UniqueInv'
    <3> HIDE DEF TypeOK, HasNumber
    <3>1. UniqueInv'
      BY <2>1 DEF UniqueInv
    <3>2. PICK n \in Nat : \A v \in versions : v.number =< n
      BY DEF Bounded
    <3>3. \A w \in versions' : w.number =< n
      BY <2>1, <3>2
    <3>4. QED
      BY <3>1, <3>2, <3>3 DEF Bounded
  <2>4. BelowInv'
    BY <2>1, <2>2 DEF BelowInv
  <2>5. CurrentInv'
    BY <2>1 DEF CurrentInv
  <2>6. QED
    BY <2>2, <2>3, <2>4, <2>5
<1>3. QED
  BY <1>1, <1>2

\* A step that leaves the numbers alone and gives r something to hand that
\* makes sense.
LEMMA LocalStep ==
    ASSUME TInv, NEW r \in Requests, TypeOK', Others(r),
           UNCHANGED <<documents, used, current>>,
           versions' = versions \/ (\E k : versions' = Unlinked(k)),
           mutex' = mutex \/ (mutex = r /\ mutex' = None),
           doc'[r] \in {doc[r], None} \cup documents,
           HandAt(r, mutex', pc'[r], doc'[r], content'[r], key'[r]),
           pc'[r] \in Uploads /\ mutex' = r => doc'[r] = doc[r] /\ pc[r] \in Uploads,
           NumberAt(r, mutex', pc'[r], doc'[r], number'[r])
    PROVE  TInv'
<1> USE DEF TInv
<1>1. TableInv' /\ \A d, n : HasNumber(d, n)' <=> HasNumber(d, n)
  BY NumbersKept
<1>2. ASSUME NEW q \in Requests \ {r}
      PROVE  HandAt(q, mutex', pc'[q], doc'[q], content'[q], key'[q]) /\ NumberAt(q, mutex', pc'[q], doc'[q], number'[q])
  BY <1>2 DEF Others, HandInv, NumberInv, Hand, HandAt, Number, NumberAt
<1>3. HandInv'
  BY <1>2 DEF HandInv, Hand, HandAt
<1>4. NumberInv'
  BY <1>1, <1>2 DEF NumberInv, Number, NumberAt
<1>5. CreationInv'
  <2>1. SUFFICES ASSUME NEW p \in Requests, NEW q \in Requests, p # q, mutex' = p, pc'[p] \in Uploads
                 PROVE  doc'[q] # doc'[p]
    BY DEF CreationInv, Creating
  <2>2. mutex = p /\ pc[p] \in Uploads /\ doc'[p] = doc[p]
    BY <2>1 DEF Others
  <2>3. doc[q] # doc[p] /\ doc[p] \notin documents /\ doc[p] # None
    BY <2>1, <2>2 DEF CreationInv, Creating, HandInv, Hand, HandAt, TypeOK, Uploads, UploadTx
  <2>4. QED
    BY <2>1, <2>2, <2>3 DEF Others
<1>6. QED
  BY <1>1, <1>3, <1>4, <1>5

\* Requests that come in, but for a creation.
LEMMA ReceiveTables ==
    ASSUME TInv, NEW r \in Requests, CheckVersion(r) \/ ChooseVersion(r) \/ LoadDocument(r)
    PROVE  TInv'
<1> USE DEF TInv, Uploads, Holding, UploadTx
<1>1. TypeOK' /\ Others(r)
  BY TypeStep, StepOthers DEF Receive, RequestStep
<1>2. mutex # r /\ mutex' = mutex
  BY DEF CheckVersion, ChooseVersion, LoadDocument, HandInv, Hand, HandAt
<1>3. UNCHANGED <<documents, used, current, versions>>
  BY DEF CheckVersion, ChooseVersion, LoadDocument, tableVars
<1>4. CASE CheckVersion(r)
  <2>1. doc'[r] \in documents /\ content'[r] \in Contents /\ pc'[r] = "prepared"
    BY <1>4 DEF CheckVersion, TypeOK
  <2>2. QED
    BY <1>1, <1>2, <1>3, <2>1, LocalStep DEF TypeOK, HandAt, NumberAt
<1>5. CASE ChooseVersion(r)
  <2>1. PICK v \in versions :
           doc' = [doc EXCEPT ![r] = v.doc] /\ number' = [number EXCEPT ![r] = v.number]
    BY <1>5 DEF ChooseVersion
  <2>2. doc'[r] \in documents /\ HasNumber(doc'[r], number'[r]) /\ pc'[r] = "chosen"
    BY <1>5, <2>1 DEF ChooseVersion, TypeOK, HasNumber
  <2>3. QED
    BY <1>1, <1>2, <1>3, <2>2, LocalStep DEF TypeOK, HandAt, NumberAt
<1>6. CASE LoadDocument(r)
  <2>1. doc'[r] \in documents /\ pc'[r] = "scan"
    BY <1>6 DEF LoadDocument, TypeOK
  <2>2. QED
    BY <1>1, <1>2, <1>3, <2>1, LocalStep DEF TypeOK, HandAt, NumberAt
<1>7. QED
  BY <1>4, <1>5, <1>6

\* Where a request stops, whatever it has done.
LEMMA EndTables ==
    ASSUME TInv, NEW r \in Requests, UNCHANGED tableVars,
           Cleanup(r) \/ FailCleanup(r) \/ FinishDelete(r) \/ Rethrow(r) \/ GiveUp(r)
    PROVE  TInv'
<1> USE DEF TInv
<1>1. TypeOK' /\ Others(r)
  BY TypeStep, StepOthers DEF Serve, RequestStep
<1>2. pc'[r] = "idle" /\ doc'[r] = None /\ mutex' # r /\ (mutex' = mutex \/ (mutex = r /\ mutex' = None))
  BY DEF TypeOK, Cleanup, FailCleanup, FinishDelete, Rethrow, GiveUp, End
<1>3. HandAt(r, mutex', pc'[r], doc'[r], content'[r], key'[r]) /\ NumberAt(r, mutex', pc'[r], doc'[r], number'[r])
  BY <1>2 DEF HandAt, NumberAt, Uploads, Holding, UploadTx
<1>4. UNCHANGED <<documents, used, current, versions>>
  BY DEF tableVars
<1>5. pc'[r] \notin Uploads
  BY <1>2 DEF Uploads, UploadTx
<1>6. QED
  BY <1>1, <1>2, <1>3, <1>4, <1>5, LocalStep

\* An upload before its commit.
LEMMA UploadTables ==
    ASSUME TInv, NEW r \in Requests,
           \/ FindBlob(r) \/ CheckBlob(r) \/ DropBlob(r) \/ WriteFile(r)
           \/ ReadNumber(r) \/ InsertRows(r) \/ FailUpload(r)
    PROVE  TInv'
<1> USE DEF TInv, Uploads, Holding, UploadTx
<1>1. TypeOK' /\ Others(r)
  BY TypeStep, StepOthers DEF Serve, RequestStep
<1>2. UNCHANGED <<documents, used, current, mutex>> /\ doc'[r] = doc[r] /\ content'[r] = content[r]
  BY DEF FindBlob, CheckBlob, DropBlob, WriteFile, ReadNumber, InsertRows, FailUpload, tableVars, uploadVars
<1>3. pc[r] \in Uploads /\ pc'[r] \in Uploads \cup {"cleanup"}
  BY DEF FindBlob, CheckBlob, DropBlob, WriteFile, ReadNumber, InsertRows, FailUpload, Advance, TypeOK
<1>4. HandAt(r, mutex', pc'[r], doc'[r], content'[r], key'[r])
  <2>1. pc'[r] \in {"found", "dangling", "quarantining", "dropping"} \cup Holding => key'[r] \in Keys
    <3>1. CASE FindBlob(r)
      BY <3>1 DEF FindBlob, BlobsOf, TypeOK
    <3>2. CASE WriteFile(r)
      BY <3>2 DEF WriteFile, TypeOK
    <3>3. CASE DropBlob(r)
      BY <3>3 DEF DropBlob, Advance, TypeOK
    <3>4. CASE CheckBlob(r) \/ ReadNumber(r) \/ InsertRows(r) \/ FailUpload(r)
      BY <3>4 DEF CheckBlob, ReadNumber, InsertRows, FailUpload, uploadVars, Advance, HandInv, Hand, HandAt
    <3>5. QED
      BY <3>1, <3>2, <3>3, <3>4
  <2>2. QED
    BY <1>2, <1>3, <2>1 DEF HandInv, Hand, HandAt
<1>5. NumberAt(r, mutex', pc'[r], doc'[r], number'[r])
  <2>1. CASE ReadNumber(r)
    <3>1. number'[r] = IF mutex = r THEN 1 ELSE TopNumber(doc[r]) + 1
      BY <2>1 DEF ReadNumber, TopNumber, Creating, TypeOK
    <3>2. TopNumber(doc[r]) \in Nat /\ \A i \in 1..TopNumber(doc[r]) : HasNumber(doc[r], i)
      <4>1. TopNumber(doc[r]) \in Nat /\ (TopNumber(doc[r]) = 0 \/ HasNumber(doc[r], TopNumber(doc[r])))
        BY NextNumber DEF TableInv
      <4>2. QED
        BY <4>1 DEF HasNumber, TableInv, BelowInv
    <3>3. pc'[r] = "numbered"
      BY <2>1 DEF ReadNumber, Advance, TypeOK
    <3>4. QED
      BY <1>2, <3>1, <3>2, <3>3 DEF NumberAt
  <2>2. CASE InsertRows(r)
    <3>1. number'[r] = number[r] /\ pc'[r] = "inserted" /\ pc[r] = "numbered"
      BY <2>2 DEF InsertRows, Advance, uploadVars, TypeOK
    <3>2. ~HasNumber(doc[r], number[r]) /\ (mutex = r \/ doc[r] \in documents)
      BY <2>2 DEF InsertRows, Violates, NumberTaken, Dangling, VersionsOf, HasNumber, Creating
    <3>3. QED
      BY <1>2, <3>1, <3>2 DEF NumberInv, Number, NumberAt
  <2>3. CASE FindBlob(r) \/ CheckBlob(r) \/ DropBlob(r) \/ WriteFile(r) \/ FailUpload(r)
    <3>1. pc'[r] \notin UploadTx \cup {"chosen"}
      BY <2>3 DEF FindBlob, CheckBlob, DropBlob, WriteFile, FailUpload, Advance, TypeOK
    <3>2. QED
      BY <3>1 DEF NumberAt
  <2>4. QED
    BY <2>1, <2>2, <2>3
<1>6. versions' = versions \/ (\E k : versions' = Unlinked(k))
  BY DEF FindBlob, CheckBlob, DropBlob, DropRow, WriteFile, ReadNumber, InsertRows, FailUpload, tableVars
<1>7. QED
  BY <1>1, <1>2, <1>3, <1>4, <1>5, <1>6, LocalStep

\* A deletion, but for its commit.
LEMMA DeleteTables ==
    ASSUME TInv, NEW r \in Requests,
           \/ ScanVersion(r) \/ Quarantine(r) \/ Purge(r) \/ FailDelete(r)
           \/ CountVersions(r) \/ DropStoredFile(r) \/ Restore(r)
    PROVE  TInv'
<1> USE DEF TInv, Uploads, Holding, UploadTx
<1>1. TypeOK' /\ Others(r)
  BY TypeStep, StepOthers DEF Serve, RequestStep
<1>2. UNCHANGED <<documents, used, current, mutex>> /\ doc'[r] = doc[r]
  BY DEF ScanVersion, Quarantine, Purge, FailDelete, CountVersions, DropStoredFile, Restore, tableVars, uploadVars
<1>3. /\ pc[r] \in {"scan", "quarantining", "restoring", "purging", "unlinking", "dropping"}
      /\ pc'[r] \in {"scan", "quarantining", "restoring", "unlinking", "dropping"}
  BY DEF ScanVersion, Quarantine, Purge, FailDelete, CountVersions, DropStoredFile, Restore, Advance, TypeOK
<1>4. pc'[r] \in {"quarantining", "dropping"} => key'[r] \in Keys
  <2>1. CASE ScanVersion(r)
    BY <1>3, <2>1 DEF ScanVersion, TypeOK, VersionRows
  <2>2. CASE CountVersions(r)
    BY <1>3, <2>2 DEF CountVersions, TypeOK
  <2>3. CASE Quarantine(r) \/ Purge(r) \/ FailDelete(r) \/ DropStoredFile(r) \/ Restore(r)
    BY <2>3 DEF Quarantine, Purge, FailDelete, DropStoredFile, Restore, Advance, TypeOK
  <2>4. QED
    BY <2>1, <2>2, <2>3
<1>5. HandAt(r, mutex', pc'[r], doc'[r], content'[r], key'[r]) /\ NumberAt(r, mutex', pc'[r], doc'[r], number'[r])
  BY <1>2, <1>3, <1>4 DEF HandInv, Hand, HandAt, NumberAt
<1>6. versions' = versions \/ (\E k : versions' = Unlinked(k))
  BY DEF ScanVersion, Quarantine, Purge, FailDelete, CountVersions, DropStoredFile, DropRow, Restore, tableVars
<1>7. QED
  BY <1>1, <1>2, <1>3, <1>5, <1>6, LocalStep

\* A creation begins with an id that nobody knows.
LEMMA TakeMutexTables ==
    ASSUME TInv, NEW r \in Requests, TakeMutex(r)
    PROVE  TInv'
<1> USE DEF TInv
<1>1. TypeOK' /\ Others(r)
  BY TypeStep, StepOthers DEF Receive, RequestStep
<1>2. PICK d \in DocumentIds \ used, c \in Contents :
         /\ used' = used \cup {d}
         /\ doc' = [doc EXCEPT ![r] = d] /\ content' = [content EXCEPT ![r] = c]
  BY DEF TakeMutex
<1>3. /\ mutex = None /\ mutex' = r /\ pc[r] = "idle" /\ pc'[r] = "prepared"
      /\ doc'[r] = d /\ content'[r] = c /\ UNCHANGED <<documents, versions, current>>
  BY <1>2 DEF TakeMutex, TypeOK
<1>4. d \notin documents /\ d # None /\ \A q \in Requests \ {r} : doc'[q] # d
  BY <1>2 DEF TypeOK, HandInv, Hand, HandAt, Others
<1>5. TableInv' /\ \A x, n : HasNumber(x, n)' <=> HasNumber(x, n)
  BY <1>3, NumbersKept
<1>6. ASSUME NEW q \in Requests \ {r}
      PROVE  /\ pc'[q] = pc[q] /\ doc'[q] = doc[q] /\ content'[q] = content[q]
             /\ key'[q] = key[q] /\ number'[q] = number[q] /\ mutex' # q /\ mutex # q
  BY <1>1, <1>3, <1>6 DEF Others
<1>7. HandInv'
  <2>1. ASSUME NEW q \in Requests \ {r} PROVE Hand(q)'
    <3>1. Hand(q)
      BY DEF HandInv
    <3>2. QED
      BY <1>2, <1>6, <3>1 DEF Hand, HandAt
  <2>2. Hand(r)'
    BY <1>2, <1>3, <1>4 DEF Hand, HandAt, Uploads, Holding, UploadTx
  <2>3. QED
    BY <2>1, <2>2 DEF HandInv
<1>8. CreationInv'
  BY <1>3, <1>4 DEF CreationInv, Creating
<1>9. NumberInv'
  <2>1. ASSUME NEW q \in Requests \ {r} PROVE Number(q)'
    <3>1. Number(q)
      BY DEF NumberInv
    <3>2. QED
      BY <1>3, <1>5, <1>6, <3>1 DEF Number, NumberAt
  <2>2. Number(r)'
    BY <1>3 DEF Number, NumberAt, UploadTx
  <2>3. QED
    BY <2>1, <2>2 DEF NumberInv
<1>10. QED
  BY <1>1, <1>5, <1>7, <1>8, <1>9

\* A version is committed: its number is the next one, and the lock of its
\* document has kept every other insert away.
LEMMA CommitTables ==
    ASSUME TInv, NEW r \in Requests, CommitUpload(r) \/ LoseCommit(r)
    PROVE  TInv'
<1> USE DEF TInv
<1>1. TypeOK' /\ Others(r)
  BY TypeStep, StepOthers DEF Serve, RequestStep
<1>2. /\ pc[r] = "inserted" /\ ~KeyLocked(r, doc[r]) /\ UNCHANGED used
      /\ versions' = versions \cup {NewVersion(r)}
      /\ documents' = IF mutex = r THEN documents \cup {doc[r]} ELSE documents
      /\ current' = [current EXCEPT ![doc[r]] = number[r]]
  BY DEF CommitUpload, LoseCommit, CommitRows, NewVersion, Creating, Advance
<1>3. /\ doc[r] \in used /\ doc[r] \in DocumentIds /\ key[r] \in Keys
      /\ number[r] \in Nat \ {0} /\ (mutex = r \/ doc[r] \in documents)
      /\ ~HasNumber(doc[r], number[r])
      /\ \A i \in 1..(number[r] - 1) : HasNumber(doc[r], i)
  BY <1>2 DEF TypeOK, HandInv, Hand, HandAt, NumberInv, Number, NumberAt, Holding, UploadTx
<1>4. NewVersion(r).doc = doc[r] /\ NewVersion(r).number = number[r]
  BY DEF NewVersion
<1>5. doc[r] \in documents' /\ documents \subseteq documents' /\ documents' \subseteq documents \cup {doc[r]}
  BY <1>2, <1>3
<1>6. \/ pc'[r] = "idle" /\ mutex' # r /\ (mutex' = mutex \/ (mutex = r /\ mutex' = None))
      \/ pc'[r] = "cleanup" /\ UNCHANGED <<mutex, doc, content, key>>
  BY DEF CommitUpload, LoseCommit, End, Advance, TypeOK, uploadVars
<1>7. \A d, n : HasNumber(d, n)' <=> (HasNumber(d, n) \/ (d = doc[r] /\ n = number[r]))
  BY <1>2, <1>4 DEF HasNumber
<1>8. TableInv'
  <2>1. Bounded'
    <3>1. PICK n \in Nat : \A v \in versions : v.number <= n
      BY DEF TableInv, Bounded
    <3>2. n + number[r] \in Nat /\ \A v \in versions' : v.number <= n + number[r]
      BY <1>2, <1>3, <1>4, <3>1 DEF TypeOK, VersionRows
    <3>3. QED
      BY <3>2 DEF Bounded
  <2>2. UniqueInv'
    BY <1>2, <1>3, <1>4 DEF TableInv, UniqueInv, HasNumber
  <2>3. BelowInv'
    BY <1>2, <1>3, <1>4 DEF TableInv, BelowInv, HasNumber
  <2>4. CurrentInv'
    <3>1. ASSUME NEW d \in documents' PROVE HasNumber(d, current[d])'
      <4>1. CASE d = doc[r]
        BY <1>2, <1>3, <1>4, <4>1 DEF TypeOK, HasNumber
      <4>2. CASE d # doc[r]
        BY <1>2, <1>5, <4>2 DEF TypeOK, TableInv, CurrentInv, HasNumber
      <4>3. QED
        BY <4>1, <4>2
    <3>2. QED
      BY <3>1 DEF CurrentInv, HasNumber
  <2>5. QED
    BY <2>1, <2>2, <2>3, <2>4 DEF TableInv
<1>9. ASSUME NEW q \in Requests, q # r, mutex = r PROVE doc[q] # doc[r]
  BY <1>2, <1>9 DEF CreationInv, Creating, Uploads, UploadTx
<1>10. ASSUME NEW q \in Requests, q # r
       PROVE  /\ pc'[q] = pc[q] /\ doc'[q] = doc[q] /\ content'[q] = content[q]
              /\ key'[q] = key[q] /\ number'[q] = number[q] /\ (mutex' = q <=> mutex = q)
  <2>1. q # None
    OBVIOUS
  <2>2. mutex' = q <=> mutex = q
    BY <1>6, <1>10, <2>1
  <2>3. QED
    BY <1>1, <1>10, <2>2 DEF Others
<1>11. HandInv'
  <2>1. ASSUME NEW q \in Requests, q # r PROVE Hand(q)'
    <3>1. Hand(q)
      BY DEF HandInv
    <3>2. mutex = q => documents' = documents
      BY <1>2, <2>1
    <3>3. QED
      BY <1>2, <1>10, <2>1, <3>1, <3>2 DEF Hand, HandAt
  <2>2. Hand(r)'
    <3>1. CASE pc'[r] = "idle" /\ mutex' # r
      <4>1. doc'[r] = None
        BY <3>1 DEF CommitUpload, LoseCommit, Advance, End, TypeOK
      <4>2. QED
        BY <3>1, <4>1 DEF Hand, HandAt, Uploads, Holding, UploadTx
    <3>2. CASE pc'[r] = "cleanup" /\ UNCHANGED <<mutex, doc, content, key>>
      BY <1>2, <1>3, <3>2 DEF Hand, HandAt, Uploads, Holding, UploadTx
    <3>3. QED
      BY <1>6, <3>1, <3>2
  <2>3. QED
    BY <2>1, <2>2 DEF HandInv
<1>12. CreationInv'
  <2>1. SUFFICES ASSUME NEW p \in Requests, NEW q \in Requests, p # q, mutex' = p, pc'[p] \in Uploads
                 PROVE  doc'[q] # doc'[p]
    BY DEF CreationInv, Creating
  <2>2. p # r
    BY <1>6, <2>1 DEF Uploads, UploadTx
  <2>3. mutex = p /\ doc'[p] = doc[p] /\ pc[p] \in Uploads
    BY <1>10, <2>1, <2>2
  <2>4. doc'[q] = doc[q] \/ doc'[q] = None
    <3>1. CASE q # r
      BY <1>10, <3>1
    <3>2. CASE q = r
      BY <3>2 DEF CommitUpload, LoseCommit, End, TypeOK, uploadVars
    <3>3. QED
      BY <3>1, <3>2
  <2>5. doc[q] # doc[p]
    BY <2>1, <2>3 DEF CreationInv, Creating
  <2>6. doc[p] # None
    <3>1. Hand(p) /\ pc[p] # "idle" /\ used \subseteq DocumentIds
      BY <2>3 DEF HandInv, TypeOK, Uploads, UploadTx
    <3>2. QED
      BY <3>1 DEF Hand, HandAt
  <2>7. QED
    BY <2>3, <2>4, <2>5, <2>6
<1>13. NumberInv'
  <2>1. ASSUME NEW q \in Requests, q # r
        PROVE  Number(q)'
    <3>1. pc[q] = "inserted" => doc[q] # doc[r]
      BY <1>2, <2>1 DEF KeyLocked, Inserted
    <3>2. doc[q] \in documents' => doc[q] \in documents
      BY <1>2, <1>9, <2>1
    <3>3. Number(q)
      BY DEF NumberInv
    <3>4. QED
      BY <1>5, <1>7, <1>10, <2>1, <3>1, <3>2, <3>3 DEF Number, NumberAt
  <2>2. Number(r)'
    BY <1>6 DEF Number, NumberAt, UploadTx
  <2>3. QED
    BY <2>1, <2>2 DEF NumberInv
<1>14. QED
  BY <1>1, <1>8, <1>11, <1>12, <1>13

\* What r leaves alone when it ends or keeps its place in hand.
LEMMA OthersKeepHand ==
    ASSUME TInv, NEW r \in Requests, Others(r), UNCHANGED used,
           documents' \subseteq documents, doc'[r] \in {doc[r], None},
           mutex' = mutex \/ (mutex = r /\ mutex' = None),
           pc'[r] \in Uploads /\ mutex' = r => doc'[r] = doc[r] /\ pc[r] \in Uploads
    PROVE  (\A q \in Requests \ {r} : Hand(q)') /\ CreationInv'
<1> USE DEF TInv
<1>1. ASSUME NEW q \in Requests \ {r} PROVE Hand(q)'
  <2>1. Hand(q) /\ mutex' = q => mutex = q
    BY DEF HandInv
  <2>2. Hand(q)
    BY DEF HandInv
  <2>3. QED
    BY <2>1, <2>2 DEF Others, Hand, HandAt
<1>2. CreationInv'
  <2>1. SUFFICES ASSUME NEW p \in Requests, NEW q \in Requests, p # q, mutex' = p, pc'[p] \in Uploads
                 PROVE  doc'[q] # doc'[p]
    BY DEF CreationInv, Creating
  <2>2. mutex = p /\ doc'[p] = doc[p] /\ pc[p] \in Uploads
    BY <2>1 DEF Others
  <2>3. doc[q] # doc[p]
    BY <2>1, <2>2 DEF CreationInv, Creating
  <2>4. doc[p] # None
    <3>1. Hand(p) /\ pc[p] # "idle" /\ used \subseteq DocumentIds
      BY <2>2 DEF HandInv, TypeOK, Uploads, UploadTx
    <3>2. QED
      BY <3>1 DEF Hand, HandAt
  <2>5. QED
    BY <2>1, <2>2, <2>3, <2>4 DEF Others
<1>3. QED
  BY <1>1, <1>2

LEMMA MakeCurrentTables ==
    ASSUME TInv, NEW r \in Requests, MakeCurrent(r)
    PROVE  TInv'
<1> USE DEF TInv
<1>1. TypeOK' /\ Others(r)
  BY TypeStep, StepOthers DEF Serve, RequestStep
<1>2. /\ UNCHANGED <<documents, used, versions>> /\ doc[r] \in documents /\ pc[r] = "chosen"
      /\ current' = [current EXCEPT ![doc[r]] = number[r]]
  BY DEF MakeCurrent
<1>3. pc'[r] = "idle" /\ doc'[r] = None /\ mutex' # r /\ (mutex' = mutex \/ (mutex = r /\ mutex' = None))
  BY DEF TypeOK, MakeCurrent, End
<1>4. HasNumber(doc[r], number[r])
  BY <1>2 DEF NumberInv, Number, NumberAt
<1>5. TableInv'
  <2>1. CurrentInv'
    BY <1>2, <1>4 DEF TableInv, CurrentInv, HasNumber, TypeOK
  <2>2. QED
    BY <1>2, <2>1 DEF TableInv, Bounded, UniqueInv, BelowInv, HasNumber
<1>6. Hand(r)' /\ Number(r)'
  BY <1>3 DEF Hand, HandAt, Number, NumberAt, Uploads, Holding, UploadTx
<1>7. (\A q \in Requests \ {r} : Hand(q)') /\ CreationInv'
  <2>1. pc'[r] \notin Uploads
    BY <1>3 DEF Uploads, UploadTx
  <2>2. QED
    BY <1>1, <1>2, <1>3, <2>1, OthersKeepHand
<1>8. ASSUME NEW q \in Requests \ {r} PROVE Number(q)'
  <2>1. Number(q) /\ (mutex' = q <=> mutex = q)
    BY <1>3 DEF NumberInv
  <2>2. QED
    BY <1>1, <1>2, <2>1 DEF Others, Number, NumberAt, HasNumber
<1>9. QED
  BY <1>1, <1>5, <1>6, <1>7, <1>8 DEF HandInv, NumberInv

LEMMA CommitDeleteTables ==
    ASSUME TInv, NEW r \in Requests, CommitDelete(r) \/ LoseDelete(r)
    PROVE  TInv'
<1> USE DEF TInv
<1>1. TypeOK' /\ Others(r)
  BY TypeStep, StepOthers DEF Serve, RequestStep
<1>2. /\ pc[r] = "scan" /\ pc'[r] \in {"purging", "restoring"} /\ UNCHANGED <<used, mutex, doc, key>>
      /\ documents' = documents \ {doc[r]} /\ ~KeyLocked(r, doc[r])
      /\ current' = [current EXCEPT ![doc[r]] = 0]
      /\ versions' = versions \ VersionsOf(doc[r])
  BY DEF CommitDelete, LoseDelete, DeleteRows, Advance, uploadVars, TypeOK
<1>3. \A v \in versions' : v \in versions /\ v.doc # doc[r]
  BY <1>2 DEF VersionsOf
<1>4. \A v \in versions : v.doc # doc[r] => v \in versions'
  BY <1>2 DEF VersionsOf
<1>5. TableInv'
  <2>1. Bounded' /\ UniqueInv'
    BY <1>3 DEF TableInv, Bounded, UniqueInv
  <2>2. BelowInv'
    BY <1>3, <1>4 DEF TableInv, BelowInv, HasNumber
  <2>3. CurrentInv'
    BY <1>2, <1>4 DEF TableInv, CurrentInv, HasNumber, TypeOK
  <2>4. QED
    BY <2>1, <2>2, <2>3 DEF TableInv
<1>6. pc'[r] \notin Uploads
  BY <1>2 DEF Uploads, UploadTx
<1>7. (\A q \in Requests \ {r} : Hand(q)') /\ CreationInv'
  BY <1>1, <1>2, <1>6, OthersKeepHand
<1>8. Hand(r)' /\ Number(r)'
  <2>1. Hand(r)
    BY DEF HandInv
  <2>2. QED
    BY <1>2, <2>1 DEF Hand, HandAt, Number, NumberAt, Uploads, Holding, UploadTx
<1>9. ASSUME NEW q \in Requests \ {r} PROVE Number(q)'
  <2>1. Number(q) /\ pc'[q] = pc[q] /\ doc'[q] = doc[q] /\ number'[q] = number[q]
    BY <1>1 DEF NumberInv, Others
  <2>2. \A d, n : HasNumber(d, n)' <=> HasNumber(d, n) /\ d # doc[r]
    BY <1>3, <1>4 DEF HasNumber
  <2>3. pc[q] = "inserted" => doc[q] # doc[r]
    BY <1>2 DEF KeyLocked, Inserted
  <2>4. QED
    BY <1>2, <2>1, <2>2, <2>3 DEF Number, NumberAt
<1>10. QED
  BY <1>1, <1>5, <1>7, <1>8, <1>9 DEF HandInv, NumberInv

LEMMA CrashTables ==
    ASSUME TInv, Crash
    PROVE  TInv'
<1> USE DEF TInv
<1>1. /\ UNCHANGED <<documents, used, versions, current, storedFiles, files, sha, quarantine, taken, lost>>
      /\ pc' = [r \in Requests |-> "idle"] /\ mutex' = None
      /\ doc' = [r \in Requests |-> None] /\ content' = [r \in Requests |-> None]
      /\ key' = [r \in Requests |-> None] /\ reuse' = [r \in Requests |-> FALSE]
      /\ number' = [r \in Requests |-> 0]
      /\ todo' = [r \in Requests |-> {}] /\ moved' = [r \in Requests |-> {}]
      /\ rowIds' = [r \in Requests |-> {}]
  BY DEF Crash, tableVars, fileVars
<1>2. TypeOK'
  <2>1. leaked' \subseteq Keys
    <3>1. \A q \in Requests : pc[q] \in {"ready", "cleanup"} \cup UploadTx => key[q] \in Keys
      BY DEF HandInv, Hand, HandAt, Holding
    <3>2. QED
      BY <3>1 DEF Crash, TypeOK
  <2>2. faults' \in 0..MaxFaults
    BY DEF Crash, TypeOK
  <2>3. QED
    BY <1>1, <2>1, <2>2 DEF TypeOK, States
<1>3. TableInv'
  BY <1>1 DEF TableInv, Bounded, UniqueInv, BelowInv, CurrentInv, HasNumber
<1>4. HandInv' /\ NumberInv' /\ CreationInv'
  BY <1>1 DEF HandInv, Hand, HandAt, NumberInv, Number, NumberAt, CreationInv, Creating,
              Uploads, Holding, UploadTx
<1>5. QED
  BY <1>2, <1>3, <1>4

LEMMA StepTInv == TInv /\ [Next]_vars => TInv'
<1> SUFFICES ASSUME TInv, [Next]_vars PROVE TInv'
  OBVIOUS
<1>1. ASSUME NEW r \in Requests, RequestStep(r) PROVE TInv'
  <2>1. CASE Receive(r)
    BY <2>1, ReceiveTables, TakeMutexTables DEF Receive
  <2>2. CASE MakeCurrent(r) \/ CommitDelete(r) \/ LoseDelete(r) \/ CommitUpload(r) \/ LoseCommit(r)
    BY <2>2, MakeCurrentTables, CommitDeleteTables, CommitTables
  <2>3. CASE Cleanup(r) \/ FailCleanup(r) \/ FinishDelete(r) \/ Rethrow(r) \/ GiveUp(r)
    <3>1. UNCHANGED tableVars
      BY <2>3 DEF Cleanup, FailCleanup, FinishDelete, Rethrow, GiveUp
    <3>2. QED
      BY <2>3, <3>1, EndTables
  <2>4. QED
    BY <1>1, <2>1, <2>2, <2>3, UploadTables, DeleteTables DEF RequestStep, Serve
<1>2. CASE Crash
  BY <1>2, CrashTables
<1>3. CASE UNCHANGED vars
  <2>1. UNCHANGED <<documents, used, versions, current, storedFiles, files, sha, quarantine, mutex, pc, doc,
                    content, key, reuse, number, todo, moved, rowIds, taken, lost, leaked, faults>>
    BY <1>3 DEF vars, tableVars, fileVars, uploadVars, deleteVars, historyVars
  <2>2. TypeOK'
    BY <2>1 DEF TInv, TypeOK
  <2>3. TableInv'
    BY <2>1 DEF TInv, TableInv, Bounded, UniqueInv, BelowInv, CurrentInv, HasNumber
  <2>4. HandInv' /\ CreationInv'
    BY <2>1 DEF TInv, HandInv, Hand, HandAt, CreationInv, Creating
  <2>5. NumberInv'
    BY <2>1 DEF TInv, NumberInv, Number, NumberAt, HasNumber
  <2>6. QED
    BY <2>2, <2>3, <2>4, <2>5 DEF TInv
<1>4. QED
  BY <1>1, <1>2, <1>3 DEF Next, RequestStep

LEMMA TableInvariance == Spec => []TInv
BY InitTInv, StepTInv, PTL DEF Spec

\* Distinct numbers without gaps count the versions of a document.
LEMMA Gapless ==
    ASSUME TypeOK, TableInv, NEW d
    PROVE  {v.number : v \in VersionsOf(d)} = 1..Cardinality(VersionsOf(d))
<1> DEFINE V == VersionsOf(d)
           m == TopNumber(d)
           f == [i \in 1..m |-> CHOOSE v \in V : v.number = i]
<1>1. m \in Nat /\ (m = 0 \/ HasNumber(d, m)) /\ \A v \in V : v.number <= m
  BY NextNumber DEF TableInv
<1>2. \A v \in V : v.number \in 1..m
  BY <1>1 DEF VersionsOf, TypeOK, VersionRows
<1>3. \A i \in 1..m : \E v \in V : v.number = i
  BY <1>1 DEF VersionsOf, HasNumber, TableInv, BelowInv
<1>4. \A v, w \in V : v.number = w.number => v = w
  BY DEF VersionsOf, TableInv, UniqueInv
<1>5. \A i \in 1..m : f[i] \in V /\ f[i].number = i
  BY <1>3
<1>6. f \in Injection(1..m, V)
  <2>1. f \in [1..m -> V]
    BY <1>5
  <2>2. \A i, j \in 1..m : f[i] = f[j] => i = j
    BY <1>5
  <2> HIDE DEF f, V
  <2>3. QED
    BY <2>1, <2>2 DEF Injection, IsInjective
<1>7. f \in Surjection(1..m, V)
  <2>1. f \in [1..m -> V]
    BY <1>5
  <2>2. ASSUME NEW v \in V PROVE \E i \in 1..m : f[i] = v
    BY <1>2, <1>4, <1>5
  <2> HIDE DEF f, V
  <2>3. QED
    BY <2>1, <2>2 DEF Surjection
<1>8. Cardinality(V) = m
  <2> HIDE DEF f, V, m
  <2>1. ExistsBijection(1..m, V)
    BY <1>6, <1>7 DEF ExistsBijection, Bijection
  <2>2. QED
    BY <1>1, <2>1, FS_CountingElements
<1>9. {v.number : v \in V} = 1..m
  BY <1>2, <1>3
<1>10. QED
  BY <1>8, <1>9

\* Concurrent uploads, lost commits, deletions and crashes notwithstanding, the
\* versions of a document are numbered 1, 2, ... and it has a current one.
THEOREM Tables == Spec => []TablesAreConsistent
<1>1. TInv => TablesAreConsistent
  <2>1. SUFFICES ASSUME TInv PROVE TablesAreConsistent
    OBVIOUS
  <2>2. NumbersAreGapless
    BY <2>1, Gapless DEF TInv, NumbersAreGapless
  <2>3. CurrentIsOwn
    BY <2>1 DEF TInv, TableInv, CurrentInv, CurrentIsOwn, HasNumber, VersionsOf
  <2>4. QED
    BY <2>1, <2>2, <2>3 DEF TInv, TablesAreConsistent
<1>2. QED
  BY <1>1, TableInvariance, PTL

-----------------------------------------------------------------------------
(* The files.                                                              *)

HasKey(r) == pc[r] \in {"found", "dangling", "quarantining"} \cup Holding
Inserting(r) == pc[r] \in {"ready"} \cup UploadTx

\* r has written the file of key[r], and no version of r's can refer to it yet.
Writer(r) == pc[r] \in Holding /\ ~reuse[r] /\ key[r] \notin lost
WriterKeys == {key[r] : r \in {q \in Requests : Writer(q)}}

\* A key that has been seen anywhere is not given to a new file.
Known(k) == sha[k] # None

KnownInv ==
    /\ \A k \in Referenced \cup storedFiles \cup files \cup lost : Known(k)
    /\ \A r \in Requests :
          /\ \A v \in todo[r] : Known(v.key)
          /\ \A k \in moved[r] : Known(k)
          /\ HasKey(r) => Known(key[r])
          /\ reuse[r] => pc[r] \in Holding

\* The key of a writer is its own.
FreshInv ==
    \A r \in Requests : Writer(r) =>
        /\ key[r] \notin Referenced \cup storedFiles
        /\ \A q \in Requests :
              /\ key[r] \notin moved[q]
              /\ \A v \in todo[q] : v.key # key[r]
              /\ q # r /\ HasKey(q) => key[q] # key[r]

\* Nothing that is or may be referenced has disappeared without a cause.
HeldInv ==
    /\ Referenced \subseteq files \cup taken \cup lost
    /\ \A r \in Requests : Inserting(r) => key[r] \in files \cup taken \cup lost

\* What a deletion has moved away is in nobody else's hands.
MovedInv ==
    \A r \in Requests :
        /\ moved[r] \cap files = {}
        /\ \A q \in Requests \ {r} : moved[r] \cap moved[q] = {}

\* Every file, and every file that may come back, has a cause.
StrayInv ==
    /\ files \subseteq Referenced \cup leaked \cup WriterKeys
    /\ \A r \in Requests : pc[r] # "purging" => moved[r] \subseteq Referenced \cup leaked

FInv == KnownInv /\ FreshInv /\ HeldInv /\ MovedInv /\ StrayInv

LEMMA InitFInv == Init => FInv
BY DEF Init, FInv, KnownInv, FreshInv, HeldInv, MovedInv, StrayInv, HasKey, Inserting, Writer,
       Holding, UploadTx, Referenced

\* A step that neither writes, removes nor moves a file; r may take a key from
\* the tables, or one it is about to delete.
QuietStep(r) ==
    /\ UNCHANGED <<files, sha, taken, lost>> /\ leaked \subseteq leaked'
    /\ Referenced' = Referenced /\ storedFiles' \subseteq storedFiles
    /\ moved'[r] = {} \/ (moved'[r] = moved[r] /\ pc[r] # "purging")
    /\ \A v \in todo'[r] : v \in todo[r] \/ v.key \in Referenced
    /\ Writer(r)' <=> Writer(r)
    /\ Writer(r) => key'[r] = key[r]
    /\ HasKey(r)' => \/ HasKey(r) /\ key'[r] = key[r]
                     \/ key'[r] \in storedFiles
                     \/ \E v \in todo[r] : v.key = key'[r]
    /\ Inserting(r)' => (Inserting(r) /\ key'[r] = key[r]) \/ key'[r] \in files
    /\ reuse'[r] => pc'[r] \in Holding

LEMMA QuietFiles ==
    ASSUME TInv, FInv, NEW r \in Requests, Others(r), QuietStep(r)
    PROVE  FInv'
<1> USE DEF FInv, QuietStep
<1>1. ASSUME NEW q \in Requests, q # r
      PROVE  /\ Writer(q)' <=> Writer(q)
             /\ HasKey(q)' <=> HasKey(q)
             /\ Inserting(q)' <=> Inserting(q)
             /\ pc'[q] = pc[q] /\ key'[q] = key[q] /\ reuse'[q] = reuse[q]
             /\ todo'[q] = todo[q] /\ moved'[q] = moved[q]
  BY <1>1 DEF Others, Writer, HasKey, Inserting
<1>2. \A q \in Requests : moved'[q] \subseteq moved[q] /\ \A v \in todo'[q] : v \in todo[q] \/ v.key \in Referenced
  BY <1>1
<1>3. \A q \in Requests : Writer(q)' => Writer(q) /\ key'[q] = key[q]
  BY <1>1
<1>4. \A q \in Requests :
         HasKey(q)' => \/ HasKey(q) /\ key'[q] = key[q]
                       \/ key'[q] \in storedFiles
                       \/ \E v \in todo[q] : v.key = key'[q]
  BY <1>1
<1>5. WriterKeys' = WriterKeys
  <2>1. {q \in Requests : Writer(q)'} = {q \in Requests : Writer(q)}
    BY <1>1
  <2>2. \A q \in {p \in Requests : Writer(p)} : key'[q] = key[q]
    BY <1>1
  <2>3. QED
    BY <2>1, <2>2 DEF WriterKeys
<1>6. KnownInv'
  <2>1. \A k : Known(k)' <=> Known(k)
    BY DEF Known
  <2>2. \A k \in (Referenced \cup storedFiles \cup files \cup lost)' : Known(k)'
    BY <2>1 DEF KnownInv
  <2>3. ASSUME NEW q \in Requests
        PROVE  /\ \A v \in todo'[q] : Known(v.key)'
               /\ \A k \in moved'[q] : Known(k)'
               /\ HasKey(q)' => Known(key[q])'
               /\ reuse'[q] => pc'[q] \in Holding
    <3>1. \A v \in todo'[q] : Known(v.key)
      BY <1>2 DEF KnownInv
    <3>2. \A k \in moved'[q] : Known(k)
      BY <1>2 DEF KnownInv
    <3>3. HasKey(q)' => Known(key'[q])
      BY <1>4 DEF KnownInv
    <3>4. reuse'[q] => pc'[q] \in Holding
      BY <1>1 DEF KnownInv
    <3>5. QED
      BY <3>1, <3>2, <3>3, <3>4 DEF Known
  <2>4. QED
    BY <2>2, <2>3 DEF KnownInv
<1>7. FreshInv'
  <2>1. SUFFICES ASSUME NEW p \in Requests, Writer(p)'
                 PROVE  /\ key'[p] \notin Referenced' \cup storedFiles'
                        /\ \A q \in Requests :
                              /\ key'[p] \notin moved'[q]
                              /\ \A v \in todo'[q] : v.key # key'[p]
                              /\ q # p /\ HasKey(q)' => key'[q] # key'[p]
    BY DEF FreshInv
  <2>2. Writer(p) /\ key'[p] = key[p]
    BY <1>3, <2>1
  <2>3. QED
    BY <1>2, <1>4, <2>2 DEF FreshInv
<1>8. HeldInv'
  BY <1>1 DEF HeldInv
<1>9. MovedInv'
  BY <1>2 DEF MovedInv
<1>10. StrayInv'
  BY <1>1, <1>2, <1>5 DEF StrayInv
<1>11. QED
  BY <1>6, <1>7, <1>8, <1>9, <1>10

LEMMA ReceiveIsQuiet ==
    ASSUME TInv, FInv, NEW r \in Requests, Receive(r)
    PROVE  QuietStep(r)
<1> USE DEF TInv, TypeOK, FInv, KnownInv, QuietStep, tableVars, fileVars, uploadVars, deleteVars, historyVars,
            Writer, HasKey, Inserting, Holding, UploadTx, Referenced
<1>1. CASE TakeMutex(r)
  BY <1>1 DEF TakeMutex
<1>2. CASE CheckVersion(r)
  BY <1>2 DEF CheckVersion
<1>3. CASE ChooseVersion(r)
  BY <1>3 DEF ChooseVersion
<1>4. CASE LoadDocument(r)
  BY <1>4 DEF LoadDocument, VersionsOf
<1>5. QED
  BY <1>1, <1>2, <1>3, <1>4 DEF Receive

LEMMA UploadIsQuiet ==
    ASSUME TInv, FInv, NEW r \in Requests,
           FindBlob(r) \/ CheckBlob(r) \/ DropBlob(r) \/ ReadNumber(r) \/ InsertRows(r) \/ FailUpload(r)
    PROVE  QuietStep(r)
<1> USE DEF TInv, TypeOK, FInv, KnownInv, QuietStep, tableVars, fileVars, uploadVars, deleteVars, historyVars,
            Writer, HasKey, Inserting, Holding, UploadTx, Referenced, Advance
<1>1. CASE FindBlob(r)
  BY <1>1 DEF FindBlob, BlobsOf
<1>2. CASE CheckBlob(r)
  <2>1. reuse'[r] <=> key[r] \in files
    BY <1>2, Zenon DEF CheckBlob
  <2>2. pc[r] = "found" /\ pc'[r] = (IF key[r] \in files THEN "ready" ELSE "dangling")
    BY <1>2 DEF CheckBlob
  <2>3. QED
    BY <1>2, <2>1, <2>2 DEF CheckBlob
<1>3. CASE DropBlob(r)
  <2>1. Referenced' = Referenced
    <3>1. versions' = Unlinked(key[r]) \/ versions' = versions
      BY <1>3 DEF DropBlob, DropRow
    <3>2. QED
      BY <3>1, UnlinkedRows
  <2>2. pc[r] = "dangling" /\ pc'[r] = "writing"
    BY <1>3 DEF DropBlob
  <2>3. QED
    BY <1>3, <2>1, <2>2 DEF DropBlob, DropRow
<1>4. CASE ReadNumber(r)
  BY <1>4 DEF ReadNumber
<1>5. CASE InsertRows(r)
  BY <1>5 DEF InsertRows
<1>6. CASE FailUpload(r)
  BY <1>6 DEF FailUpload
<1>7. QED
  BY <1>1, <1>2, <1>3, <1>4, <1>5, <1>6

LEMMA EndIsQuiet ==
    ASSUME TInv, FInv, NEW r \in Requests, GiveUp(r) \/ MakeCurrent(r) \/ FinishDelete(r) \/ Rethrow(r)
    PROVE  QuietStep(r)
<1> USE DEF TInv, TypeOK, FInv, KnownInv, QuietStep, tableVars, fileVars, uploadVars, deleteVars, historyVars,
            Writer, HasKey, Inserting, Holding, UploadTx, Referenced, End
<1>1. CASE GiveUp(r)
  BY <1>1 DEF GiveUp
<1>2. CASE MakeCurrent(r)
  BY <1>2 DEF MakeCurrent
<1>3. CASE FinishDelete(r)
  BY <1>3 DEF FinishDelete
<1>4. CASE Rethrow(r)
  BY <1>4 DEF Rethrow
<1>5. QED
  BY <1>1, <1>2, <1>3, <1>4

LEMMA DeleteIsQuiet ==
    ASSUME TInv, FInv, NEW r \in Requests,
           ScanVersion(r) \/ FailDelete(r) \/ Purge(r) \/ CountVersions(r) \/ DropStoredFile(r)
    PROVE  QuietStep(r)
<1> USE DEF TInv, TypeOK, FInv, KnownInv, QuietStep, tableVars, fileVars, uploadVars, deleteVars, historyVars,
            Writer, HasKey, Inserting, Holding, UploadTx, Referenced, Advance
<1>1. CASE ScanVersion(r)
  <2>1. pc[r] = "scan" /\ UNCHANGED <<tableVars, files, sha, taken, lost, leaked, moved, reuse>>
    BY <1>1 DEF ScanVersion
  <2>2. PICK v \in todo[r] :
          \/ pc'[r] = "quarantining" /\ key'[r] = v.key /\ UNCHANGED todo
          \/ pc'[r] = "scan" /\ todo'[r] = todo[r] \ {v}
    BY <1>1 DEF ScanVersion
  <2>3. QED
    BY <2>1, <2>2
<1>2. CASE FailDelete(r)
  BY <1>2 DEF FailDelete
<1>3. CASE Purge(r)
  BY <1>3 DEF Purge
<1>4. CASE CountVersions(r)
  BY <1>4 DEF CountVersions
<1>5. CASE DropStoredFile(r)
  <2>1. Referenced' = Referenced
    <3>1. versions' = Unlinked(key[r]) \/ versions' = versions
      BY <1>5 DEF DropStoredFile, DropRow
    <3>2. QED
      BY <3>1, UnlinkedRows
  <2>2. pc[r] = "dropping" /\ pc'[r] = "unlinking"
    BY <1>5 DEF DropStoredFile
  <2>3. QED
    BY <1>5, <2>1, <2>2 DEF DropStoredFile, DropRow
<1>6. QED
  BY <1>1, <1>2, <1>3, <1>4, <1>5

\* What a step of r leaves to the others, when it loses no commit.
LEMMA OthersKeepFiles ==
    ASSUME NEW r \in Requests, Others(r), UNCHANGED lost
    PROVE  \A q \in Requests \ {r} :
              /\ Writer(q)' <=> Writer(q)
              /\ HasKey(q)' <=> HasKey(q)
              /\ Inserting(q)' <=> Inserting(q)
BY DEF Others, Writer, HasKey, Inserting

\* The key of a new file is in nobody's hands.
LEMMA WriteFileFiles ==
    ASSUME TInv, FInv, NEW r \in Requests, Others(r), WriteFile(r)
    PROVE  FInv'
<1> USE DEF FInv
<1>1. PICK k \in Keys :
        /\ sha[k] = None /\ sha' = [sha EXCEPT ![k] = content[r]]
        /\ files' = files \cup {k} /\ key' = [key EXCEPT ![r] = k]
  BY DEF WriteFile
<1>2. /\ pc[r] = "writing" /\ pc'[r] = "ready" /\ content[r] \in Contents
      /\ UNCHANGED <<versions, storedFiles, reuse, todo, moved, taken, lost, leaked>>
  BY DEF WriteFile, Advance, TInv, TypeOK, HandInv, Hand, HandAt, Uploads, tableVars, deleteVars, historyVars
<1>3. key'[r] = k /\ ~reuse'[r] /\ ~Known(k) /\ Known(k)' /\ k \notin lost
  BY <1>1, <1>2 DEF TInv, TypeOK, KnownInv, Known, Holding, UploadTx
<1>4. \A x : Known(x) => Known(x)'
  BY <1>1, <1>3 DEF TInv, TypeOK, Known
<1>5. \A q \in Requests \ {r} :
         /\ Writer(q)' <=> Writer(q)
         /\ HasKey(q)' <=> HasKey(q)
         /\ Inserting(q)' <=> Inserting(q)
         /\ pc'[q] = pc[q] /\ key'[q] = key[q]
  BY <1>2, OthersKeepFiles DEF Others
<1>6. Referenced' = Referenced
  BY <1>2 DEF Referenced
<1>7. Writer(r)' /\ ~Writer(r)
  BY <1>2, <1>3 DEF Writer, Holding, UploadTx
<1>8. \A q \in Requests : Writer(q) => Known(key[q]) /\ HasKey(q)
  BY DEF KnownInv, Writer, HasKey
<1>9. KnownInv'
  <2>1. \A x \in (Referenced \cup storedFiles \cup files \cup lost)' : Known(x)'
    BY <1>1, <1>2, <1>3, <1>4, <1>6 DEF KnownInv
  <2>2. ASSUME NEW q \in Requests
        PROVE  /\ \A v \in todo'[q] : Known(v.key)'
               /\ \A x \in moved'[q] : Known(x)'
               /\ HasKey(q)' => Known(key[q])'
               /\ reuse'[q] => pc'[q] \in Holding
    <3>1. (\A v \in todo'[q] : Known(v.key)') /\ (\A x \in moved'[q] : Known(x)')
      BY <1>2, <1>4 DEF KnownInv
    <3>2. HasKey(q)' => Known(key[q])'
      <4>1. CASE q = r
        BY <1>3, <4>1 DEF Known
      <4>2. CASE q # r
        <5>1. HasKey(q)' => Known(key[q])
          BY <1>5, <4>2 DEF KnownInv
        <5>2. key'[q] = key[q]
          BY <1>5, <4>2
        <5>3. QED
          BY <1>4, <5>1, <5>2 DEF Known
      <4>3. QED
        BY <4>1, <4>2
    <3>3. reuse'[q] => pc'[q] \in Holding
      BY <1>2, <1>3, <1>5 DEF KnownInv
    <3>4. QED
      BY <3>1, <3>2, <3>3
  <2>3. QED
    BY <2>1, <2>2 DEF KnownInv
<1>10. FreshInv'
  <2>1. ASSUME NEW p \in Requests, Writer(p)'
        PROVE  /\ key'[p] \notin Referenced' \cup storedFiles'
               /\ \A q \in Requests :
                     /\ key'[p] \notin moved'[q]
                     /\ \A v \in todo'[q] : v.key # key'[p]
                     /\ q # p /\ HasKey(q)' => key'[q] # key'[p]
    <3>1. CASE p = r
      BY <1>2, <1>3, <1>5, <1>6, <3>1 DEF KnownInv
    <3>2. CASE p # r
      <4>1. Writer(p) /\ key'[p] = key[p] /\ key[p] # k
        BY <1>3, <1>5, <1>8, <2>1, <3>2
      <4>2. QED
        BY <1>2, <1>3, <1>5, <1>6, <4>1 DEF FreshInv
    <3>3. QED
      BY <3>1, <3>2
  <2>2. QED
    BY <2>1 DEF FreshInv
<1>11. HeldInv'
  BY <1>1, <1>2, <1>3, <1>5, <1>6 DEF HeldInv
<1>12. MovedInv'
  BY <1>1, <1>2, <1>3 DEF MovedInv, KnownInv
<1>13. StrayInv'
  <2>1. WriterKeys \subseteq WriterKeys' /\ k \in WriterKeys'
    BY <1>3, <1>5, <1>7 DEF WriterKeys
  <2>2. files' \subseteq (Referenced \cup leaked \cup WriterKeys)'
    BY <1>1, <1>2, <1>6, <2>1 DEF StrayInv
  <2>3. \A q \in Requests : pc'[q] # "purging" => moved'[q] \subseteq Referenced' \cup leaked'
    BY <1>2, <1>5, <1>6 DEF StrayInv
  <2>4. QED
    BY <2>2, <2>3 DEF StrayInv
<1>14. QED
  BY <1>9, <1>10, <1>11, <1>12, <1>13

\* A committed version takes its file over from the writer.
LEMMA CommitFiles ==
    ASSUME TInv, FInv, NEW r \in Requests, Others(r), CommitUpload(r) \/ LoseCommit(r)
    PROVE  FInv'
<1> USE DEF FInv
<1>1. /\ pc[r] = "inserted" /\ UNCHANGED <<files, sha, taken, leaked>>
      /\ versions' = versions \cup {NewVersion(r)} /\ storedFiles' = storedFiles \cup {key[r]}
  BY DEF CommitUpload, LoseCommit, CommitRows, Advance, NewVersion, fileVars, historyVars
<1>2. /\ todo'[r] \subseteq todo[r] /\ (moved'[r] = {} \/ moved'[r] = moved[r])
      /\ \/ pc'[r] = "idle" /\ ~reuse'[r] /\ lost' = lost
         \/ /\ pc'[r] = "cleanup" /\ key'[r] = key[r] /\ reuse'[r] = reuse[r]
            /\ lost' = IF reuse[r] THEN lost ELSE lost \cup {key[r]}
  BY <1>1 DEF CommitUpload, LoseCommit, End, Advance, TInv, TypeOK, historyVars, uploadVars, deleteVars
<1>3. Referenced' = Referenced \cup {key[r]}
  <2>1. NewVersion(r).key = key[r]
    BY DEF NewVersion
  <2>2. QED
    BY <1>1, <2>1 DEF Referenced
<1>4. HasKey(r) /\ Inserting(r)
  BY <1>1 DEF HasKey, Inserting, Holding, UploadTx
<1>5. ~Writer(r)' /\ ~Inserting(r)'
  BY <1>2 DEF Writer, Inserting, Holding, UploadTx
<1>6. HasKey(r)' => key'[r] = key[r]
  BY <1>2 DEF HasKey, Holding, UploadTx
<1>7. \A q \in Requests \ {r} :
         /\ pc'[q] = pc[q] /\ key'[q] = key[q] /\ reuse'[q] = reuse[q]
         /\ todo'[q] = todo[q] /\ moved'[q] = moved[q]
         /\ HasKey(q)' <=> HasKey(q)
         /\ Inserting(q)' <=> Inserting(q)
  BY DEF Others, HasKey, Inserting
<1>8. \A q \in Requests \ {r} : Writer(q) => key[q] # key[r]
  BY <1>4 DEF FreshInv
<1>9. \A q \in Requests \ {r} : Writer(q)' <=> Writer(q)
  BY <1>2, <1>7, <1>8 DEF Writer
<1>10. \A q \in Requests : moved'[q] \subseteq moved[q] /\ todo'[q] \subseteq todo[q]
  BY <1>2, <1>7
<1>11. \A q \in Requests : HasKey(q)' => HasKey(q) /\ key'[q] = key[q]
  BY <1>4, <1>6, <1>7
<1>12. KnownInv'
  <2>1. \A x : Known(x)' <=> Known(x)
    BY <1>1 DEF Known
  <2>2. Known(key[r])
    BY <1>4 DEF KnownInv
  <2>3. \A x \in (Referenced \cup storedFiles \cup files \cup lost)' : Known(x)
    BY <1>1, <1>2, <1>3, <2>2 DEF KnownInv
  <2>4. ASSUME NEW q \in Requests
        PROVE  /\ \A v \in todo'[q] : Known(v.key)
               /\ \A x \in moved'[q] : Known(x)
               /\ HasKey(q)' => Known(key'[q])
               /\ reuse'[q] => pc'[q] \in Holding
    BY <1>2, <1>7, <1>10, <1>11 DEF KnownInv, Holding
  <2>5. sha' = sha
    BY <1>1
  <2>6. QED
    BY <2>3, <2>4, <2>5 DEF KnownInv, Known
<1>13. FreshInv'
  <2>1. ASSUME NEW p \in Requests, Writer(p)'
        PROVE  /\ key'[p] \notin Referenced' \cup storedFiles'
               /\ \A q \in Requests :
                     /\ key'[p] \notin moved'[q]
                     /\ \A v \in todo'[q] : v.key # key'[p]
                     /\ q # p /\ HasKey(q)' => key'[q] # key'[p]
    <3>1. p # r /\ Writer(p) /\ key'[p] = key[p] /\ key[p] # key[r]
      BY <1>5, <1>7, <1>8, <1>9, <2>1
    <3>2. QED
      BY <1>1, <1>3, <1>10, <1>11, <3>1 DEF FreshInv
  <2>2. QED
    BY <2>1 DEF FreshInv
<1>14. HeldInv'
  <2>1. lost \subseteq lost'
    BY <1>2
  <2>2. key[r] \in files \cup taken \cup lost
    BY <1>4 DEF HeldInv
  <2>3. QED
    BY <1>1, <1>3, <1>5, <1>7, <2>1, <2>2 DEF HeldInv
<1>15. MovedInv'
  BY <1>1, <1>10 DEF MovedInv
<1>16. StrayInv'
  <2>1. WriterKeys \subseteq WriterKeys' \cup {key[r]}
    BY <1>7, <1>9 DEF WriterKeys
  <2>2. files' \subseteq (Referenced \cup leaked \cup WriterKeys)'
    BY <1>1, <1>3, <2>1 DEF StrayInv
  <2>3. \A q \in Requests : pc'[q] # "purging" => moved'[q] \subseteq Referenced' \cup leaked'
    <3>1. ASSUME NEW q \in Requests, pc'[q] # "purging" PROVE pc[q] # "purging"
      BY <1>1, <1>7, <3>1
    <3>2. QED
      BY <1>1, <1>3, <1>10, <3>1 DEF StrayInv
  <2>4. QED
    BY <2>2, <2>3 DEF StrayInv
<1>17. QED
  BY <1>12, <1>13, <1>14, <1>15, <1>16

\* A failed upload removes the file that it alone has written, or leaves it.
LEMMA CleanupFiles ==
    ASSUME TInv, FInv, NEW r \in Requests, Others(r), Cleanup(r) \/ FailCleanup(r)
    PROVE  FInv'
<1> USE DEF FInv
<1>1. /\ pc[r] = "cleanup" /\ pc'[r] = "idle" /\ ~reuse'[r] /\ moved'[r] = {} /\ todo'[r] = {}
      /\ UNCHANGED <<versions, storedFiles, sha, taken, lost>> /\ leaked \subseteq leaked'
      /\ \/ files' = IF reuse[r] THEN files ELSE files \ {key[r]}
         \/ ~reuse[r] /\ files' = files /\ leaked' = leaked \cup ({key[r]} \ lost)
  BY DEF Cleanup, FailCleanup, End, TInv, TypeOK, tableVars, fileVars, historyVars
<1>2. CASE reuse[r]
  <2>1. QuietStep(r)
    BY <1>1, <1>2 DEF QuietStep, Referenced, Writer, HasKey, Inserting, Holding, UploadTx
  <2>2. QED
    BY <2>1, QuietFiles
<1>3. CASE ~reuse[r]
  <2>1. /\ files \ {key[r]} \subseteq files' /\ files' \subseteq files
        /\ key[r] \in files' => key[r] \in leaked' \cup lost
        /\ Referenced' = Referenced
    BY <1>1, <1>3 DEF Referenced
  <2>2. HasKey(r) /\ ~HasKey(r)' /\ ~Writer(r)' /\ ~Inserting(r)'
    BY <1>1 DEF HasKey, Writer, Inserting, Holding, UploadTx
  <2>3. key[r] \in lost \/ Writer(r)
    BY <1>1, <1>3 DEF Writer, Holding
  <2>4. \A q \in Requests \ {r} :
           /\ pc'[q] = pc[q] /\ key'[q] = key[q] /\ reuse'[q] = reuse[q]
           /\ todo'[q] = todo[q] /\ moved'[q] = moved[q]
           /\ Writer(q)' <=> Writer(q)
           /\ HasKey(q)' <=> HasKey(q)
           /\ Inserting(q)' <=> Inserting(q)
    BY <1>1, OthersKeepFiles DEF Others
  <2>5. \A q \in Requests : moved'[q] \subseteq moved[q] /\ todo'[q] \subseteq todo[q]
    BY <1>1, <2>4
  <2>6. \A q \in Requests : HasKey(q)' => HasKey(q) /\ key'[q] = key[q]
    BY <2>2, <2>4
  <2>7. KnownInv'
    BY <1>1, <2>1, <2>4, <2>5, <2>6 DEF KnownInv, Known
  <2>8. FreshInv'
    BY <1>1, <2>1, <2>2, <2>4, <2>5, <2>6 DEF FreshInv
  <2>9. HeldInv'
    <3>1. key[r] \in Referenced => key[r] \in lost
      BY <2>3 DEF FreshInv
    <3>2. \A q \in Requests \ {r} : Inserting(q) /\ key[q] = key[r] => key[r] \in lost
      BY <2>3 DEF FreshInv, Inserting, HasKey, Holding
    <3>3. QED
      BY <1>1, <2>1, <2>2, <2>4, <3>1, <3>2 DEF HeldInv
  <2>10. MovedInv'
    BY <2>1, <2>5 DEF MovedInv
  <2>11. StrayInv'
    <3>1. WriterKeys \subseteq WriterKeys' \cup {key[r]}
      BY <2>4 DEF WriterKeys
    <3>2. key[r] \in lost => key[r] \notin WriterKeys
      BY DEF WriterKeys, Writer
    <3>3. files' \subseteq (Referenced \cup leaked \cup WriterKeys)'
      BY <1>1, <2>1, <3>1, <3>2 DEF StrayInv
    <3>4. \A q \in Requests : pc'[q] # "purging" => moved'[q] \subseteq Referenced' \cup leaked'
      BY <1>1, <2>1, <2>4 DEF StrayInv
    <3>5. QED
      BY <3>3, <3>4 DEF StrayInv
  <2>12. QED
    BY <2>7, <2>8, <2>9, <2>10, <2>11
<1>4. QED
  BY <1>2, <1>3

\* Only a file that nobody is writing is moved away.
LEMMA QuarantineFiles ==
    ASSUME TInv, FInv, NEW r \in Requests, Others(r), Quarantine(r)
    PROVE  FInv'
<1> USE DEF FInv
<1>1. /\ pc[r] = "quarantining" /\ todo'[r] \subseteq todo[r]
      /\ UNCHANGED <<versions, storedFiles, sha, reuse, lost, leaked>>
      /\ pc'[r] = "scan"
  BY DEF Quarantine, Advance, TInv, TypeOK, tableVars
<1>2. HasKey(r) /\ ~HasKey(r)' /\ ~Writer(r) /\ ~Writer(r)' /\ ~Inserting(r)' /\ ~reuse'[r]
  BY <1>1 DEF HasKey, Writer, Inserting, Holding, UploadTx, KnownInv
<1>3. Referenced' = Referenced
  BY <1>1 DEF Referenced
<1>4. key[r] \in files
  BY DEF Quarantine
<1>5. QED
  <2>1. /\ files' = files \ {key[r]} /\ taken' = taken \cup {key[r]}
        /\ moved'[r] = moved[r] \cup {key[r]}
    BY <1>4 DEF Quarantine, TInv, TypeOK
  <2>2. \A q \in Requests \ {r} :
           /\ pc'[q] = pc[q] /\ key'[q] = key[q] /\ reuse'[q] = reuse[q]
           /\ todo'[q] = todo[q] /\ moved'[q] = moved[q]
           /\ Writer(q)' <=> Writer(q)
           /\ HasKey(q)' <=> HasKey(q)
           /\ Inserting(q)' <=> Inserting(q)
    BY <1>1, OthersKeepFiles DEF Others
  <2>3. \A q \in Requests :
           /\ todo'[q] \subseteq todo[q]
           /\ HasKey(q)' => HasKey(q) /\ key'[q] = key[q]
           /\ moved'[q] \subseteq moved[q] \cup {key[r]}
    BY <1>1, <1>2, <2>1, <2>2
  <2>4. \A p \in Requests : Writer(p)' => p # r /\ Writer(p) /\ key'[p] = key[p] /\ key[p] # key[r]
    BY <1>2, <2>2 DEF FreshInv
  <2>5. key[r] \in Referenced \cup leaked
    BY <1>2, <1>4 DEF StrayInv, FreshInv, WriterKeys
  <2>6. KnownInv'
    <3>1. Known(key[r])
      BY <1>2 DEF KnownInv
    <3>2. QED
      BY <1>1, <1>2, <1>3, <2>1, <2>2, <2>3, <3>1 DEF KnownInv, Known
  <2>7. FreshInv'
    <3>1. ASSUME NEW p \in Requests, Writer(p)'
          PROVE  /\ key'[p] \notin Referenced' \cup storedFiles'
                 /\ \A q \in Requests :
                       /\ key'[p] \notin moved'[q]
                       /\ \A v \in todo'[q] : v.key # key'[p]
                       /\ q # p /\ HasKey(q)' => key'[q] # key'[p]
      BY <1>1, <1>3, <2>3, <2>4, <3>1 DEF FreshInv
    <3>2. QED
      BY <3>1 DEF FreshInv
  <2>8. HeldInv'
    BY <1>1, <1>2, <1>3, <2>1, <2>2 DEF HeldInv
  <2>9. MovedInv'
    <3>1. \A q \in Requests : key[r] \notin moved[q]
      BY <1>4 DEF MovedInv
    <3>2. \A q \in Requests \ {r} : moved'[q] = moved[q]
      BY <2>2
    <3>3. ASSUME NEW p \in Requests
          PROVE  /\ moved'[p] \cap files' = {}
                 /\ \A q \in Requests \ {p} : moved'[p] \cap moved'[q] = {}
      BY <2>1, <2>3, <3>1, <3>2 DEF MovedInv
    <3>4. QED
      BY <3>3 DEF MovedInv
  <2>10. StrayInv'
    <3>1. WriterKeys \subseteq WriterKeys'
      BY <1>2, <2>2 DEF WriterKeys
    <3>2. files' \subseteq (Referenced \cup leaked \cup WriterKeys)'
      BY <1>1, <1>3, <2>1, <3>1 DEF StrayInv
    <3>3. \A q \in Requests : pc'[q] # "purging" => moved'[q] \subseteq Referenced' \cup leaked'
      BY <1>1, <1>3, <2>1, <2>2, <2>5 DEF StrayInv
    <3>4. QED
      BY <3>2, <3>3 DEF StrayInv
  <2>11. QED
    BY <2>6, <2>7, <2>8, <2>9, <2>10

\* A deletion passes over the versions it has not moved the files of; if it does
\* not learn of its COMMIT, the others come back, too.
LEMMA CommitDeleteFiles ==
    ASSUME TInv, FInv, NEW r \in Requests, Others(r), CommitDelete(r) \/ LoseDelete(r)
    PROVE  FInv'
<1> USE DEF FInv
<1> DEFINE gone == {v.key : v \in VersionsOf(doc[r])}
<1>1. /\ pc[r] = "scan" /\ versions' = versions \ VersionsOf(doc[r])
      /\ UNCHANGED <<storedFiles, files, sha, key, reuse, todo, moved, taken, lost>>
      /\ \/ pc'[r] = "purging" /\ leaked' = leaked \cup (gone \ moved[r])
         \/ pc'[r] = "restoring" /\ leaked' = leaked \cup gone
  BY DEF CommitDelete, LoseDelete, DeleteRows, Advance, TInv, TypeOK, fileVars, uploadVars, deleteVars
<1>2. Referenced' \subseteq Referenced /\ Referenced \subseteq Referenced' \cup gone
  BY <1>1 DEF Referenced, VersionsOf
<1> HIDE DEF gone
<1>3. ~HasKey(r) /\ ~HasKey(r)' /\ ~Writer(r) /\ ~Writer(r)' /\ ~Inserting(r) /\ ~Inserting(r)' /\ ~reuse[r]
  BY <1>1 DEF HasKey, Writer, Inserting, Holding, UploadTx, KnownInv
<1>4. \A q \in Requests :
         /\ Writer(q)' <=> Writer(q)
         /\ HasKey(q)' <=> HasKey(q)
         /\ Inserting(q)' <=> Inserting(q)
  BY <1>1, <1>3, OthersKeepFiles
<1>5. \A q \in Requests \ {r} : pc'[q] = pc[q]
  BY DEF Others
<1>6. KnownInv'
  BY <1>1, <1>2, <1>3, <1>4, <1>5 DEF KnownInv, Known
<1>7. FreshInv'
  BY <1>1, <1>2, <1>4 DEF FreshInv
<1>8. HeldInv'
  BY <1>1, <1>2, <1>4 DEF HeldInv
<1>9. MovedInv'
  BY <1>1 DEF MovedInv
<1>10. StrayInv'
  <2>1. WriterKeys' = WriterKeys
    <3>1. {q \in Requests : Writer(q)'} = {q \in Requests : Writer(q)}
      BY <1>4
    <3>2. QED
      BY <1>1, <3>1 DEF WriterKeys
  <2>2. gone \ moved[r] \subseteq leaked'
    BY <1>1
  <2>3. files \cap moved[r] = {}
    BY DEF MovedInv
  <2>4. files' \subseteq (Referenced \cup leaked \cup WriterKeys)'
    BY <1>1, <1>2, <2>1, <2>2, <2>3 DEF StrayInv
  <2>5. ASSUME NEW q \in Requests, pc'[q] # "purging"
        PROVE  moved'[q] \subseteq Referenced' \cup leaked'
    <3>1. moved[q] \subseteq Referenced \cup leaked
      BY <1>1, <1>5, <2>5 DEF StrayInv
    <3>2. CASE q = r
      BY <1>1, <1>2, <2>5, <3>1, <3>2
    <3>3. CASE q # r
      <4>1. moved[q] \cap moved[r] = {}
        BY <3>3 DEF MovedInv
      <4>2. QED
        BY <1>1, <1>2, <2>2, <3>1, <4>1
    <3>4. QED
      BY <3>2, <3>3
  <2>6. QED
    BY <2>4, <2>5 DEF StrayInv
<1>11. QED
  BY <1>6, <1>7, <1>8, <1>9, <1>10

\* A failed deletion puts its files back where nobody else has one.
LEMMA RestoreFiles ==
    ASSUME TInv, FInv, NEW r \in Requests, Others(r), Restore(r)
    PROVE  FInv'
<1> USE DEF FInv
<1> DEFINE back == files' \ files
<1>1. /\ pc[r] = "restoring" /\ pc' = pc /\ key' = key /\ reuse' = reuse /\ todo' = todo
      /\ UNCHANGED <<versions, storedFiles, sha, lost, leaked>>
      /\ moved'[r] \subseteq moved[r] /\ files' = files \cup back
      /\ back \subseteq moved[r] \ moved'[r] /\ taken' = taken \ back
  BY DEF Restore, TInv, TypeOK, tableVars, uploadVars, MovedInv
<1> HIDE DEF back
<1>2. Referenced' = Referenced
  BY <1>1 DEF Referenced
<1>3. ~HasKey(r)' /\ ~Writer(r) /\ ~Writer(r)' /\ ~Inserting(r)'
  BY <1>1 DEF HasKey, Writer, Inserting, Holding, UploadTx
<1>4. \A q \in Requests \ {r} :
         /\ pc'[q] = pc[q] /\ key'[q] = key[q] /\ reuse'[q] = reuse[q]
         /\ todo'[q] = todo[q] /\ moved'[q] = moved[q]
         /\ Writer(q)' <=> Writer(q)
         /\ HasKey(q)' <=> HasKey(q)
         /\ Inserting(q)' <=> Inserting(q)
  BY <1>1, OthersKeepFiles DEF Others
<1>5. \A q \in Requests :
         /\ moved'[q] \subseteq moved[q] /\ todo'[q] \subseteq todo[q]
         /\ HasKey(q)' => HasKey(q) /\ key'[q] = key[q]
         /\ Writer(q)' => Writer(q) /\ key'[q] = key[q]
  BY <1>1, <1>3, <1>4
<1>6. KnownInv'
  BY <1>1, <1>2, <1>4, <1>5 DEF KnownInv, Known
<1>7. FreshInv'
  BY <1>1, <1>2, <1>5 DEF FreshInv
<1>8. HeldInv'
  BY <1>1, <1>2, <1>3, <1>4 DEF HeldInv
<1>9. MovedInv'
  <2>1. ASSUME NEW p \in Requests
        PROVE  /\ moved'[p] \cap files' = {}
               /\ \A q \in Requests \ {p} : moved'[p] \cap moved'[q] = {}
    BY <1>1, <1>4, <1>5 DEF MovedInv
  <2>2. QED
    BY <2>1 DEF MovedInv
<1>10. StrayInv'
  <2>1. WriterKeys \subseteq WriterKeys'
    BY <1>3, <1>4 DEF WriterKeys
  <2>2. back \subseteq Referenced \cup leaked
    BY <1>1 DEF StrayInv
  <2>3. files' \subseteq (Referenced \cup leaked \cup WriterKeys)'
    BY <1>1, <1>2, <2>1, <2>2 DEF StrayInv
  <2>4. \A q \in Requests : pc'[q] # "purging" => moved'[q] \subseteq Referenced' \cup leaked'
    BY <1>1, <1>2, <1>4 DEF StrayInv
  <2>5. QED
    BY <2>3, <2>4 DEF StrayInv
<1>11. QED
  BY <1>6, <1>7, <1>8, <1>9, <1>10

LEMMA CrashFiles ==
    ASSUME TInv, FInv, Crash
    PROVE  FInv'
<1> USE DEF FInv
<1>1. /\ UNCHANGED <<versions, storedFiles, files, sha, taken, lost>>
      /\ leaked' = leaked \cup
           ({key[r] : r \in {q \in Requests :
                               pc[q] \in {"ready", "cleanup"} \cup UploadTx /\ ~reuse[q]}} \ lost)
      /\ \A r \in Requests : pc'[r] = "idle" /\ todo'[r] = {} /\ moved'[r] = {} /\ ~reuse'[r]
  BY DEF Crash, tableVars, fileVars
<1>2. Referenced' = Referenced
  BY <1>1 DEF Referenced
<1>3. \A r \in Requests : ~HasKey(r)' /\ ~Writer(r)' /\ ~Inserting(r)'
  BY <1>1 DEF HasKey, Writer, Inserting, Holding, UploadTx
<1>4. WriterKeys \subseteq leaked'
  BY <1>1 DEF WriterKeys, Writer, Holding
<1>5. KnownInv' /\ FreshInv' /\ HeldInv' /\ MovedInv'
  BY <1>1, <1>2, <1>3 DEF KnownInv, Known, FreshInv, HeldInv, MovedInv
<1>6. StrayInv'
  BY <1>1, <1>2, <1>4 DEF StrayInv
<1>7. QED
  BY <1>5, <1>6

LEMMA StepFInv == TInv /\ FInv /\ [Next]_vars => FInv'
<1> SUFFICES ASSUME TInv, FInv, [Next]_vars PROVE FInv'
  OBVIOUS
<1>1. ASSUME NEW r \in Requests, RequestStep(r) PROVE FInv'
  <2>1. Others(r)
    BY <1>1, StepOthers DEF TInv
  <2>2. CASE Receive(r)
    BY <2>1, <2>2, ReceiveIsQuiet, QuietFiles
  <2>3. CASE FindBlob(r) \/ CheckBlob(r) \/ DropBlob(r) \/ ReadNumber(r) \/ InsertRows(r) \/ FailUpload(r)
    BY <2>1, <2>3, UploadIsQuiet, QuietFiles
  <2>4. CASE ScanVersion(r) \/ FailDelete(r) \/ Purge(r) \/ CountVersions(r) \/ DropStoredFile(r)
    BY <2>1, <2>4, DeleteIsQuiet, QuietFiles
  <2>5. CASE GiveUp(r) \/ MakeCurrent(r) \/ FinishDelete(r) \/ Rethrow(r)
    BY <2>1, <2>5, EndIsQuiet, QuietFiles
  <2>6. CASE WriteFile(r) \/ CommitUpload(r) \/ LoseCommit(r) \/ Cleanup(r) \/ FailCleanup(r)
    BY <2>1, <2>6, WriteFileFiles, CommitFiles, CleanupFiles
  <2>7. CASE Quarantine(r) \/ CommitDelete(r) \/ LoseDelete(r) \/ Restore(r)
    BY <2>1, <2>7, QuarantineFiles, CommitDeleteFiles, RestoreFiles
  <2>8. QED
    BY <1>1, <2>2, <2>3, <2>4, <2>5, <2>6, <2>7 DEF RequestStep, Serve
<1>2. CASE Crash
  BY <1>2, CrashFiles
<1>3. CASE UNCHANGED vars
  <2>1. UNCHANGED <<versions, storedFiles, files, sha, pc, key, reuse, todo, moved, taken, lost, leaked>>
    BY <1>3 DEF vars, tableVars, fileVars, uploadVars, deleteVars, historyVars
  <2>2. QED
    BY <2>1 DEF FInv, KnownInv, Known, FreshInv, HeldInv, MovedInv, StrayInv, WriterKeys, Writer,
                HasKey, Inserting, Referenced
<1>4. QED
  BY <1>1, <1>2, <1>3 DEF Next, RequestStep

\* A committed version lacks its file, and a file its version, only for the
\* listed causes: nothing else loses or leaves behind a file.
THEOREM Files == Spec => []FilesAreExplained
<1>1. Init => TInv /\ FInv
  BY InitTInv, InitFInv
<1>2. TInv /\ FInv /\ [Next]_vars => TInv' /\ FInv'
  BY StepTInv, StepFInv
<1>3. FInv => FilesAreExplained
  <2>1. SUFFICES ASSUME FInv PROVE FilesAreExplained
    OBVIOUS
  <2>2. MissingFilesWereTaken
    BY <2>1 DEF FInv, HeldInv, MissingFilesWereTaken, MissingPhysicalFiles
  <2>3. OrphansAreExplained
    <3>1. \A k \in WriterKeys : Uploading(k)
      BY DEF WriterKeys, Writer, Uploading, Holding
    <3>2. QED
      BY <2>1, <3>1 DEF FInv, StrayInv, OrphansAreExplained, UnreferencedPhysicalFiles
  <2>4. QED
    BY <2>2, <2>3 DEF FilesAreExplained
<1>4. QED
  BY <1>1, <1>2, <1>3, PTL DEF Spec
=============================================================================
