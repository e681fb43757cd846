-------------------------- MODULE PublicationProofs --------------------------
(***************************************************************************)
(* For any articles, documents and placements, and any delay of the clock  *)
(* that a command has read: no label says PUBLISHED before its time, and   *)
(* the commit of a sweep changes only labels that are still behind, to     *)
(* what readers see already.                                               *)
(*                                                                         *)
(* Four statements lie between the reading of a row and the commit.  The   *)
(* invariant says what survives in between: a pending row is what Expire   *)
(* or Activate makes of the committed one (PendingInv), because its lock   *)
(* keeps commands away, and the sweep's clock is never ahead.              *)
(*                                                                         *)
(* The second part is about the images of articles: the theorems of        *)
(* NewsMedia, whose names differ from those of Publication.                *)
(***************************************************************************)
EXTENDS Publication, NewsMedia, TLAPS

ExpiresRow(r) == Expired(row[r], sweepNow) /\ pending[r] = Expire(row[r])
ActivatesRow(r) == Due(row[r], sweepNow) /\ pending[r] = Activate(r, row[r])

PendingInv ==
    /\ sweepNow <= clock
    /\ \A r \in DOMAIN pending : ExpiresRow(r) \/ ActivatesRow(r)
    /\ sweepPc = "idle" => DOMAIN pending = {}

IInv == TypeOK /\ PublishedHasBegun /\ PendingInv

LEMMA InitIInv == Init => IInv
BY BoundsAssumption
   DEF Init, IInv, TypeOK, PublishedHasBegun, PendingInv, RowStates, Fresh, Statuses, Instants, OptInstants

\* What the ranges of the columns mean for comparisons.
LEMMA RowFields ==
    ASSUME NEW s \in RowStates
    PROVE  /\ s.status \in Statuses /\ s.pub \in BOOLEAN
           /\ s.from \in OptInstants /\ s.until \in OptInstants
           /\ s.from # NoTime => s.from \in Nat
           /\ s.until # NoTime => s.until \in Nat
BY BoundsAssumption DEF RowStates, OptInstants, Instants

\* A command may write s: a well-formed state that is not PUBLISHED ahead of
\* its time, into a row that no open sweep has updated.
MayHold(s) ==
    /\ s \in RowStates
    /\ s.status = "PUBLISHED" /\ s.from # NoTime => s.from <= clock

LEMMA WriteStep ==
    ASSUME IInv, NEW r \in Rows, NEW s, MayHold(s), r \notin DOMAIN pending,
           row' = [row EXCEPT ![r] = s], UNCHANGED <<clock, sweepVars>>,
           exists' \subseteq Rows, trashed' \subseteq exists' \cap Articles,
           DOMAIN pending \subseteq exists', UNCHANGED published
    PROVE  IInv'
<1> USE DEF IInv, sweepVars
<1>1. TypeOK'
  BY DEF TypeOK, MayHold
<1>2. PublishedHasBegun'
  BY DEF TypeOK, PublishedHasBegun, MayHold
<1>3. PendingInv'
  <2>1. ASSUME NEW q \in DOMAIN pending PROVE row'[q] = row[q]
    BY <2>1 DEF TypeOK
  <2>2. QED
    BY <2>1 DEF PendingInv, ExpiresRow, ActivatesRow
<1>4. QED
  BY <1>1, <1>2, <1>3

LEMMA FreshMayHold == MayHold(Fresh)
BY DEF MayHold, Fresh, RowStates, Statuses, OptInstants

LEMMA CommandStep ==
    ASSUME IInv, NEW r \in Rows, PublicationCommand(r)
    PROVE  IInv'
<1> USE DEF IInv
<1>1. r \in exists \ trashed
  BY DEF PublicationCommand
<1>2. PICK s : Write(r, s) /\ MayHold(s)
  <2>1. CASE Draft(r)
    BY <2>1, FreshMayHold DEF Draft
  <2>2. CASE Schedule(r)
    <3>1. PICK publishFrom \in Instants, until \in OptInstants :
              Write(r, Commanded("SCHEDULED", publishFrom, until, r))
      BY <2>2 DEF Schedule
    <3>2. MayHold(Commanded("SCHEDULED", publishFrom, until, r))
      BY DEF MayHold, Commanded, RowStates, Statuses, OptInstants
    <3>3. QED
      BY <3>1, <3>2
  <2>3. CASE Publish(r)
    <3>1. PICK now \in RecentNow, until \in OptInstants :
              Write(r, Commanded("PUBLISHED", now, until, r))
      BY <2>3 DEF Publish
    <3>2. MayHold(Commanded("PUBLISHED", now, until, r))
      BY DEF MayHold, Commanded, RowStates, Statuses, OptInstants, RecentNow
    <3>3. QED
      BY <3>1, <3>2
  <2>4. QED
    BY <2>1, <2>2, <2>3 DEF PublicationCommand
<1>3. QED
  BY <1>1, <1>2, WriteStep DEF Write, Unlocked, TypeOK

LEMMA CreateNewsStep ==
    ASSUME IInv, NEW a \in Articles, CreateNews(a)
    PROVE  IInv'
<1> USE DEF IInv
<1>1. PICK pub \in BOOLEAN, publishedAt \in OptInstants, until \in OptInstants, now \in RecentNow :
          row' = [row EXCEPT ![a] = FirstState(pub, publishedAt, until, now)]
  BY DEF CreateNews
<1>2. now \in Instants /\ now <= clock
  BY DEF RecentNow
<1>3. MayHold(FirstState(pub, publishedAt, until, now))
  BY <1>2, NoTimeAssumption, BoundsAssumption
     DEF FirstState, MayHold, RowStates, Statuses, OptInstants, Instants, TypeOK
<1>4. QED
  BY <1>1, <1>3, WriteStep DEF CreateNews, TypeOK, Rows

LEMMA PatchNewsStep ==
    ASSUME IInv, NEW a \in Articles, PatchNews(a)
    PROVE  IInv'
<1> USE DEF IInv
<1>1. PICK pub \in BOOLEAN, until \in OptInstants :
          Write(a, [row[a] EXCEPT !.pub = pub, !.until = until])
  BY DEF PatchNews
<1>2. row[a] \in RowStates
  BY DEF TypeOK, Rows
<1>3. MayHold([row[a] EXCEPT !.pub = pub, !.until = until])
  BY <1>2 DEF MayHold, RowStates, PublishedHasBegun, Rows
<1>4. QED
  BY <1>1, <1>3, WriteStep DEF Write, Unlocked, TypeOK, Rows

LEMMA PlacementStep ==
    ASSUME IInv, NEW p \in Placements, AddPlacement(p) \/ RemovePlacement(p)
    PROVE  IInv'
<1>1. p \notin DOMAIN pending /\ row' = [row EXCEPT ![p] = Fresh]
      /\ UNCHANGED <<clock, trashed, published, sweepVars>>
  BY DEF IInv, TypeOK, AddPlacement, RemovePlacement, Unlocked
<1>2. exists' \in {exists \cup {p}, exists \ {p}}
  BY DEF AddPlacement, RemovePlacement
<1>3. p \in Rows /\ p \notin Articles
  BY RowsAssumption DEF Rows
<1>4. exists' \subseteq Rows /\ trashed' \subseteq exists' \cap Articles /\ DOMAIN pending \subseteq exists'
  BY <1>1, <1>2, <1>3 DEF IInv, TypeOK
<1>5. QED
  BY <1>1, <1>3, <1>4, FreshMayHold, WriteStep

-----------------------------------------------------------------------------
(* The sweep.                                                              *)

LEMMA ExpireFields ==
    ASSUME NEW s \in RowStates
    PROVE  /\ Expire(s) \in RowStates
           /\ Expire(s).status = "DRAFT" /\ Expire(s).until = NoTime /\ ~Expire(s).pub
           /\ Expire(s).from = s.from
BY DEF Expire, RowStates, Statuses, OptInstants

LEMMA ActivateFields ==
    ASSUME NEW s \in RowStates, NEW r \in Rows
    PROVE  /\ Activate(r, s) \in RowStates
           /\ Activate(r, s).status = "PUBLISHED" /\ Activate(r, s).until = s.until
           /\ Activate(r, s).from = s.from
<1>1. ASSUME NEW b \in BOOLEAN
      PROVE  /\ [s EXCEPT !.status = "PUBLISHED", !.pub = b] \in RowStates
             /\ [s EXCEPT !.status = "PUBLISHED", !.pub = b].status = "PUBLISHED"
             /\ [s EXCEPT !.status = "PUBLISHED", !.pub = b].until = s.until
             /\ [s EXCEPT !.status = "PUBLISHED", !.pub = b].from = s.from
  BY DEF RowStates, Statuses
<1>2. \E b \in BOOLEAN : b = (r \in Articles)
  <2>1. CASE r \in Articles
    <3>1. TRUE = (r \in Articles)
      BY <2>1, Zenon
    <3>2. QED
      BY <3>1, Zenon
  <2>2. CASE r \notin Articles
    <3>1. FALSE = (r \in Articles)
      BY <2>2, SMT
    <3>2. QED
      BY <3>1, Zenon
  <2>3. QED
    BY <2>1, <2>2
<1>3. \E b \in BOOLEAN : Activate(r, s) = [s EXCEPT !.status = "PUBLISHED", !.pub = b]
  BY <1>2, Zenon DEF Activate
<1>4. QED
  BY <1>1, <1>3, Zenon

\* Expired and due exclude each other, and what a statement has made of a row
\* is neither.
LEMMA OncePerSweep ==
    ASSUME NEW s \in RowStates, NEW r \in Rows, NEW t \in Nat
    PROVE  /\ ~(Expired(s, t) /\ Due(s, t))
           /\ Expired(s, t) => ~Expired(Expire(s), t) /\ ~Due(Expire(s), t)
           /\ Due(s, t) => ~Expired(Activate(r, s), t) /\ ~Due(Activate(r, s), t)
<1>1. ~(Expired(s, t) /\ Due(s, t))
  BY DEF Expired, Due
<1>2. ASSUME Expired(s, t) PROVE ~Expired(Expire(s), t) /\ ~Due(Expire(s), t)
  BY ExpireFields DEF Expired, Due
<1>3. ASSUME Due(s, t) PROVE ~Expired(Activate(r, s), t) /\ ~Due(Activate(r, s), t)
  BY ActivateFields, <1>3 DEF Expired, Due, Ended
<1>4. QED
  BY <1>1, <1>2, <1>3

\* A statement of the sweep finds rows that it has not updated before.
LEMMA UpdateStep ==
    ASSUME IInv, NEW from, NEW to \in SweepStates, NEW data, Update(from, to, data),
           data = [r \in DOMAIN data |-> data[r]], DOMAIN data \subseteq exists,
           \A r \in DOMAIN data :
               \/ Expired(Seen(r), sweepNow) /\ data[r] = Expire(Seen(r))
               \/ Due(Seen(r), sweepNow) /\ data[r] = Activate(r, Seen(r))
    PROVE  IInv'
<1> USE DEF IInv
<1>1. sweepNow \in Nat
  BY BoundsAssumption DEF TypeOK, Instants
<1>2. \A r \in DOMAIN pending : r \in Rows /\ row[r] \in RowStates
  BY DEF TypeOK
<1>3. ASSUME NEW r \in DOMAIN data PROVE r \notin DOMAIN pending
  <2>1. SUFFICES ASSUME r \in DOMAIN pending PROVE FALSE
    OBVIOUS
  <2>2. Seen(r) = pending[r] /\ r \in Rows /\ row[r] \in RowStates
    BY <1>2, <2>1 DEF Seen
  <2>3. ~Expired(pending[r], sweepNow) /\ ~Due(pending[r], sweepNow)
    <3>1. CASE ExpiresRow(r)
      BY <3>1, <1>1, <2>2, OncePerSweep DEF ExpiresRow
    <3>2. CASE ActivatesRow(r)
      BY <3>2, <1>1, <2>2, OncePerSweep DEF ActivatesRow
    <3>3. QED
      BY <3>1, <3>2, <2>1 DEF PendingInv
  <2>4. QED
    BY <1>3, <2>2, <2>3
<1>4. DOMAIN pending' = DOMAIN pending \cup DOMAIN data
  BY DEF Update
<1>5. ASSUME NEW r \in DOMAIN pending'
      PROVE  (ExpiresRow(r) \/ ActivatesRow(r))' /\ pending'[r] \in RowStates
  <2>1. r \in Rows /\ row[r] \in RowStates /\ r \in exists
    BY <1>4 DEF TypeOK
  <2>2. CASE r \in DOMAIN data
    <3>1. Seen(r) = row[r] /\ pending'[r] = data[r]
      BY <2>2, <1>3, <1>4 DEF Seen, Update
    <3>2. QED
      BY <3>1, <2>1, <2>2, ExpireFields, ActivateFields DEF Update, adminVars, ExpiresRow, ActivatesRow
  <2>3. CASE r \notin DOMAIN data
    BY <2>3, <2>1, <1>4 DEF Update, adminVars, PendingInv, ExpiresRow, ActivatesRow, TypeOK
  <2>4. QED
    BY <2>2, <2>3
<1>6. UNCHANGED <<clock, adminVars, sweepNow, faults>>
  BY DEF Update
<1>7. pending' = [r \in DOMAIN pending' |-> pending'[r]]
  BY DEF Update
<1>8. TypeOK'
  <2>1. pending' \in [DOMAIN pending' -> RowStates]
    BY <1>5, <1>7
  <2>2. sweepPc' \in SweepStates
    BY DEF Update
  <2>3. DOMAIN pending' \subseteq exists
    BY <1>4 DEF TypeOK
  <2>4. QED
    BY <2>1, <2>2, <2>3, <1>6 DEF TypeOK, adminVars
<1>9. QED
  <2>1. sweepPc' # "idle"
    BY DEF Update, SweepStates
  <2>2. PublishedHasBegun'
    BY <1>6 DEF PublishedHasBegun, adminVars
  <2>3. PendingInv'
    BY <1>5, <1>6, <2>1 DEF PendingInv
  <2>4. QED
    BY <1>8, <2>2, <2>3

LEMMA StatementStep ==
    ASSUME IInv, ExpireNews \/ ActivateNews \/ ExpirePlacements \/ ActivatePlacements
    PROVE  IInv'
<1> USE DEF SweepStates
<1>1. ASSUME NEW T, NEW from, NEW to \in SweepStates, Update(from, to, Expiry(T)) PROVE IInv'
  <2>1. DOMAIN Expiry(T) = ExpiredIn(T) /\ ExpiredIn(T) \subseteq exists
    BY DEF Expiry, ExpiredIn
  <2>2. \A r \in ExpiredIn(T) : Expired(Seen(r), sweepNow) /\ Expiry(T)[r] = Expire(Seen(r))
    BY DEF Expiry, ExpiredIn
  <2>3. Expiry(T) = [r \in DOMAIN Expiry(T) |-> Expiry(T)[r]]
    BY DEF Expiry
  <2>4. QED
    BY <1>1, <2>1, <2>2, <2>3, UpdateStep
<1>2. ASSUME NEW T, NEW from, NEW to \in SweepStates, Update(from, to, Activation(T)) PROVE IInv'
  <2>1. DOMAIN Activation(T) = DueIn(T) /\ DueIn(T) \subseteq exists
    BY DEF Activation, DueIn
  <2>2. \A r \in DueIn(T) : Due(Seen(r), sweepNow) /\ Activation(T)[r] = Activate(r, Seen(r))
    BY DEF Activation, DueIn
  <2>3. Activation(T) = [r \in DOMAIN Activation(T) |-> Activation(T)[r]]
    BY DEF Activation
  <2>4. QED
    BY <1>2, <2>1, <2>2, <2>3, UpdateStep
<1>3. QED
  BY <1>1, <1>2 DEF ExpireNews, ActivateNews, ExpirePlacements, ActivatePlacements

\* After the commit a row that was activated has begun.
LEMMA CommitStep ==
    ASSUME IInv, CommitSweep
    PROVE  IInv'
<1> USE DEF IInv
<1>1. DOMAIN pending' = {} /\ pending' \in [{} -> RowStates]
  BY DEF CommitSweep
<1>2. UNCHANGED <<clock, exists, trashed, published, faults>> /\ sweepPc' = "idle" /\ sweepNow' = 0
  BY DEF CommitSweep
<1>3. ASSUME NEW r \in Rows
      PROVE  /\ row'[r] \in RowStates
             /\ row'[r].status = "PUBLISHED" /\ row'[r].from # NoTime => row'[r].from <= clock
  <2>1. row'[r] = Seen(r) /\ row[r] \in RowStates
    BY DEF CommitSweep, TypeOK
  <2>2. sweepNow \in Nat /\ clock \in Nat /\ sweepNow <= clock
    BY BoundsAssumption DEF TypeOK, Instants, PendingInv
  <2>3. CASE r \notin DOMAIN pending
    BY <2>1, <2>3 DEF Seen, PublishedHasBegun
  <2>4. CASE r \in DOMAIN pending /\ ExpiresRow(r)
    BY <2>1, <2>4, ExpireFields DEF Seen, ExpiresRow
  <2>5. CASE r \in DOMAIN pending /\ ActivatesRow(r)
    <3>1. row'[r] = Activate(r, row[r])
      BY <2>1, <2>5 DEF Seen, ActivatesRow
    <3>2. row'[r] \in RowStates /\ row'[r].from = row[r].from
      BY <3>1, <2>1, ActivateFields
    <3>3. row[r].from <= sweepNow /\ row[r].from \in Nat
      BY <2>1, <2>5, RowFields DEF ActivatesRow, Due
    <3>4. QED
      BY <3>2, <3>3, <2>2
  <2>6. QED
    BY <2>3, <2>4, <2>5 DEF PendingInv
<1>4. row' \in [Rows -> RowStates]
  BY <1>3 DEF CommitSweep
<1>5. TypeOK'
  BY <1>1, <1>2, <1>4, BoundsAssumption DEF TypeOK, Instants
<1>6. QED
  BY <1>1, <1>2, <1>3, <1>5, BoundsAssumption DEF PublishedHasBegun, PendingInv, TypeOK, Instants

LEMMA OtherSweepSteps ==
    ASSUME IInv, StartSweep \/ RollbackSweep \/ Tick
    PROVE  IInv'
<1> USE BoundsAssumption DEF IInv, TypeOK, PublishedHasBegun, PendingInv, SweepStates, adminVars, sweepVars, Instants
<1>1. CASE StartSweep
  <2>1. sweepPc = "idle" /\ sweepNow' = clock /\ UNCHANGED <<clock, adminVars, pending, faults>>
    BY <1>1 DEF StartSweep
  <2>2. sweepPc = "idle" /\ DOMAIN pending = {} /\ sweepPc' \in SweepStates
    BY <1>1 DEF StartSweep
  <2>3. QED
    BY <2>1, <2>2
<1>2. CASE RollbackSweep
  <2>1. DOMAIN pending' = {} /\ pending' \in [{} -> RowStates]
    BY <1>2 DEF RollbackSweep
  <2>2. QED
    BY <2>1, <1>2 DEF RollbackSweep
<1>3. CASE Tick
  <2>1. clock' \in 0..MaxTime /\ clock <= clock' /\ UNCHANGED <<adminVars, sweepVars>>
    BY <1>3 DEF Tick
  <2>2. \A r \in Rows : row[r].from # NoTime => row[r].from \in Nat
    BY RowFields
  <2>3. QED
    BY <2>1, <2>2 DEF ExpiresRow, ActivatesRow
<1>4. QED
  BY <1>1, <1>2, <1>3

LEMMA StepIInv == IInv /\ [Next]_vars => IInv'
<1> SUFFICES ASSUME IInv, [Next]_vars PROVE IInv'
  OBVIOUS
<1>1. CASE Tick \/ StartSweep \/ RollbackSweep
  BY <1>1, OtherSweepSteps
<1>2. ASSUME NEW a \in Articles, CreateNews(a) \/ PatchNews(a) \/ DeleteNews(a) PROVE IInv'
  <2>1. CASE DeleteNews(a)
    BY <2>1, RowsAssumption
       DEF DeleteNews, IInv, TypeOK, PublishedHasBegun, PendingInv, ExpiresRow, ActivatesRow, sweepVars
  <2>2. QED
    BY <1>2, <2>1, CreateNewsStep, PatchNewsStep
<1>3. ASSUME NEW p \in Placements, AddPlacement(p) \/ RemovePlacement(p) PROVE IInv'
  BY <1>3, PlacementStep
<1>4. ASSUME NEW r \in Rows, PublicationCommand(r) PROVE IInv'
  BY <1>4, CommandStep
<1>5. ASSUME NEW d \in Documents, UpdateStatus(d) PROVE IInv'
  <2>1. published' \subseteq Documents
    BY <1>5 DEF UpdateStatus, IInv, TypeOK
  <2>2. QED
    BY <1>5, <2>1
       DEF UpdateStatus, IInv, TypeOK, PublishedHasBegun, PendingInv, ExpiresRow, ActivatesRow, sweepVars
<1>6. CASE ExpireNews \/ ActivateNews \/ ExpirePlacements \/ ActivatePlacements
  BY <1>6, StatementStep
<1>7. CASE CommitSweep
  BY <1>7, CommitStep
<1>8. CASE UNCHANGED vars
  BY <1>8 DEF vars, adminVars, sweepVars, IInv, TypeOK, PublishedHasBegun, PendingInv, ExpiresRow, ActivatesRow
<1>9. QED
  BY <1>1, <1>2, <1>3, <1>4, <1>5, <1>6, <1>7, <1>8 DEF Next, SweepStep

LEMMA Invariance == Spec => []IInv
BY InitIInv, StepIInv, PTL DEF Spec

\* Whatever commands and sweeps are interleaved, the rows stay well formed and
\* no row is labelled PUBLISHED before its publish_from.
THEOREM Labels == Spec => []LabelsAreConsistent
<1>1. IInv => LabelsAreConsistent
  BY DEF IInv, LabelsAreConsistent
<1>2. QED
  BY <1>1, Invariance, PTL

-----------------------------------------------------------------------------
(* What a commit may change.                                               *)

\* Only CommitSweep ends a sweep without counting a fault.
LEMMA CommittingIsCommit ==
    ASSUME IInv, [Next]_vars, Committing
    PROVE  CommitSweep
<1>1. sweepPc' # sweepPc /\ faults' = faults /\ faults \in Nat
  BY BoundsAssumption DEF Committing, IInv, TypeOK
<1>2. sweepPc = "commit" /\ sweepPc' = "idle"
  BY DEF Committing
<1>3. ~UNCHANGED vars /\ ~Tick /\ ~RollbackSweep
  BY <1>1 DEF vars, sweepVars, Tick, RollbackSweep
<1>4. ~(\E a \in Articles : CreateNews(a) \/ PatchNews(a) \/ DeleteNews(a))
  BY <1>1 DEF sweepVars, CreateNews, PatchNews, DeleteNews, Write
<1>5. ~(\E p \in Placements : AddPlacement(p) \/ RemovePlacement(p))
  BY <1>1 DEF sweepVars, AddPlacement, RemovePlacement
<1>6. ~(\E r \in Rows : PublicationCommand(r)) /\ ~(\E d \in Documents : UpdateStatus(d))
  BY <1>1 DEF sweepVars, PublicationCommand, Draft, Schedule, Publish, Write, UpdateStatus
<1>7. ~StartSweep /\ ~ExpireNews /\ ~ActivateNews /\ ~ExpirePlacements /\ ~ActivatePlacements
  BY <1>2 DEF StartSweep, ExpireNews, ActivateNews, ExpirePlacements, ActivatePlacements, Update
<1>8. QED
  BY <1>3, <1>4, <1>5, <1>6, <1>7 DEF Next, SweepStep

\* A row of the commit: untouched, expired or activated.
LEMMA CommittedRow ==
    ASSUME IInv, CommitSweep, NEW r \in Rows
    PROVE  \/ row'[r] = row[r]
           \/ Expired(row[r], sweepNow) /\ row'[r] = Expire(row[r])
           \/ Due(row[r], sweepNow) /\ row'[r] = Activate(r, row[r])
BY DEF IInv, PendingInv, ExpiresRow, ActivatesRow, CommitSweep, Seen

\* The commit of a sweep writes only rows that are expired or due in the
\* database as committed at that very moment: it overwrites no later command.
THEOREM OverwritesNothing == Spec => SweepOverwritesNothing
<1>1. ASSUME IInv, [Next]_vars
      PROVE  Committing =>
                \A r \in Rows : row'[r] # row[r] => Expired(row[r], sweepNow) \/ Due(row[r], sweepNow)
  BY <1>1, CommittingIsCommit, CommittedRow
<1>2. QED
  BY <1>1, Invariance, PTL DEF Spec, SweepOverwritesNothing

\* An expired row was hidden, and stays so: its label is DRAFT, and its flag
\* or document is not published.
LEMMA ExpiryHidesNothing ==
    ASSUME IInv, CommitSweep, NEW r \in Rows, r \in Articles \/ DocumentOf[r] \notin published,
           Expired(row[r], sweepNow), row'[r] = Expire(row[r])
    PROVE  ~Visible(r) /\ ~Visible(r)'
<1>1. row[r] \in RowStates /\ sweepNow \in Nat /\ clock \in Nat /\ sweepNow <= clock
  BY BoundsAssumption DEF IInv, TypeOK, PendingInv, Instants
<1>2. row[r].until # NoTime /\ row[r].until \in Nat /\ row[r].until <= sweepNow
  BY <1>1, RowFields DEF Expired, Ended
<1>3. row[r].until <= clock
  BY <1>1, <1>2
<1>4. ~Visible(r)
  BY <1>2, <1>3 DEF Visible, Ended
<1>5. row'[r].status = "DRAFT" /\ ~row'[r].pub
  BY <1>1, ExpireFields
<1>6. ~PublicFlag(r)'
  BY <1>5 DEF PublicFlag, CommitSweep
<1>7. QED
  BY <1>4, <1>5, <1>6 DEF Visible

\* A due row is SCHEDULED and in its window, hence visible as it will be.
LEMMA ActivationShowsNothing ==
    ASSUME IInv, CommitSweep, NEW r \in Rows,
           Due(row[r], sweepNow), row'[r] = Activate(r, row[r])
    PROVE  Visible(r)' = Visible(r)
<1>1. row[r] \in RowStates /\ UNCHANGED <<clock, exists, trashed>>
  BY DEF IInv, TypeOK, CommitSweep
<1>2. /\ row[r].status # "DRAFT" /\ row'[r].status # "DRAFT"
      /\ row'[r].from = row[r].from /\ row'[r].until = row[r].until
  BY <1>1, ActivateFields DEF Due
<1>3. Begun(row[r])' = Begun(row[r]) /\ Ended(row[r], clock)' = Ended(row[r], clock)
  BY <1>1, <1>2 DEF Begun, Ended
<1>4. QED
  BY <1>1, <1>2, <1>3 DEF Visible

\* A sweep changes labels and nothing that a reader sees, except for placements
\* of published documents.
THEOREM OnlyRelabels == Spec => SweepOnlyRelabels
<1>1. ASSUME IInv, CommitSweep, NEW r \in Rows, r \in Articles \/ DocumentOf[r] \notin published
      PROVE  Visible(r)' = Visible(r)
  <2>1. CASE row'[r] = row[r]
    BY <1>1, <2>1 DEF CommitSweep, Visible, PublicFlag, Begun, Ended
  <2>2. CASE Expired(row[r], sweepNow) /\ row'[r] = Expire(row[r])
    <3>1. ~Visible(r) /\ ~Visible(r)'
      BY <1>1, <2>2, ExpiryHidesNothing
    <3>2. Visible(r) <=> Visible(r)'
      BY <3>1
    <3>3. Visible(r) \in BOOLEAN /\ Visible(r)' \in BOOLEAN
      BY DEF Visible
    <3>4. QED
      BY <3>2, <3>3
  <2>3. CASE Due(row[r], sweepNow) /\ row'[r] = Activate(r, row[r])
    BY <1>1, <2>3, ActivationShowsNothing
  <2>4. QED
    BY <1>1, <2>1, <2>2, <2>3, CommittedRow
<1>2. ASSUME IInv, [Next]_vars
      PROVE  Committing =>
                \A r \in Rows :
                   r \in Articles \/ DocumentOf[r] \notin published => Visible(r)' = Visible(r)
  BY <1>1, <1>2, CommittingIsCommit
<1>3. QED
  BY <1>2, Invariance, PTL DEF Spec, SweepOnlyRelabels

-----------------------------------------------------------------------------
(* Images of articles, for any table, directory, requests and passes.      *)
(*                                                                         *)
(* No removal meets a use of an image unless `overtaken` says so, hence    *)
(* what an upload, an edit of an article, a removal or a pass has read of  *)
(* an image still holds when it acts on it (RequestOK, CleanerOK).  A row  *)
(* whose file is gone is marked, and the pass of the mark will drop it; a  *)
(* file without a row belongs to a request that is about to insert the row *)
(* or to remove the file (TableOK).                                        *)

CleanerStates == {"idle", "cleaning", "selected", "marked", "checked", "unlinked"}
RequestStates == States \ {"cleaning", "marked", "checked", "unlinked"}

\* What the operations hold makes sense.
RequestInvOf(r) ==
    /\ pc[r] \in RequestStates
    /\ pc[r] \in UploadStates \cup {"selected", "unlinking", "releasing"} => key[r] \in Keys
    /\ pc[r] = "resolved" => (id[r] # 0 <=> key[r] \in Keys)
    /\ article[r] \in articles \cup {None}
    /\ pc[r] = "loaded" => article[r] # None
CleanerInvOf(c) ==
    /\ pc[c] \in CleanerStates
    /\ pc[c] \in RemovalStates => key[c] \in Keys
    /\ \A m \in todo[c] : m.id # 0
HeldInv ==
    /\ \A r \in Requests : RequestInvOf(r)
    /\ \A c \in Cleaners : CleanerInvOf(c)
    /\ \A a \in NewsIds : cover[a].id # 0 => cover[a].key \in Keys

\* Images that no fault has hit and no removal has met in use.
Untouched == Keys \ (overtaken \cup faulty)

\* A request that handles image k.
RequestOK(r, k) ==
    /\ pc[r] = "saving" => k \in files
    /\ pc[r] \in UploadStates /\ id[r] # 0 => rowId[k] = id[r]
    /\ pc[r] = "resolved" => k \in files
    /\ pc[r] = "selected" => Unreferenced(k)
    /\ pc[r] = "unlinking" => rowId[k] = 0

\* A pass that handles image k.
CleanerOK(c, k) ==
    pc[c] \in RemovalStates =>
      /\ Unattached(k)
      /\ rowId[k] # 0 => mark[k] # None
      /\ pc[c] \in {"unlinked", "selected"} => k \notin files

\* A mark is of a pass that is still about it; a row without its file is
\* marked; a file without its row is about to get one or to go.
TableOK(k) ==
    /\ mark[k] # None => /\ pc[mark[k]] \in RemovalStates /\ key[mark[k]] = k
                         /\ id[mark[k]] = rowId[k] /\ rowId[k] # 0
    /\ rowId[k] # 0 /\ k \notin files => mark[k] # None
    /\ k \in files /\ rowId[k] = 0 => \E r \in Requests : key[r] = k /\ pc[r] \in {"saving", "unlinking"}
    /\ \A a \in articles \ trashedNews : cover[a].key = k => k \in files /\ cover[a].id # 0

Peaceful(k) == ~(Removing(k) /\ Using(k))

ImageOK(k) ==
    /\ Peaceful(k)
    /\ \A r \in Requests : key[r] = k => RequestOK(r, k)
    /\ \A c \in Cleaners : key[c] = k => CleanerOK(c, k)
    /\ TableOK(k)

MediaInv == MediaTypeOK /\ HeldInv /\ \A k \in Untouched : ImageOK(k)

RequestStep(r) == Store(r) \/ EditNews(r) \/ Remove(r) \/ FailWrite(r) \/ Fail(r)
CleanerStep(c) == CleanupPending(c) \/ FailCleanup(c)

\* A step of x leaves the others where they are.
OthersSame(x) == \A y \in Actors \ {x} : pc'[y] = pc[y] /\ key'[y] = key[y] /\ id'[y] = id[y]

\* The row, the file and the mark of k are the same, and no article is given
\* k as its cover.
SameImage(k) ==
    /\ rowId'[k] = rowId[k] /\ mark'[k] = mark[k] /\ (k \in files' <=> k \in files)
    /\ trashedNews \subseteq trashedNews'
    /\ \A a \in NewsIds : cover'[a].key = k => cover'[a] = cover[a]
    /\ \A a \in articles' \ trashedNews' : cover'[a].key = k => a \in articles \ trashedNews

-----------------------------------------------------------------------------

LEMMA LocalStep ==
    ASSUME ActorsAssumption, MediaInv, articles' \subseteq NewsIds, NEW x \in Actors, OthersSame(x),
           NEW k \in Untouched, SameImage(k), Peaceful(k)',
           x \in Requests /\ key'[x] = k => RequestOK(x, k)',
           x \in Cleaners /\ key'[x] = k => CleanerOK(x, k)',
           x \in Cleaners /\ mark[k] = x => pc'[x] \in RemovalStates /\ key'[x] = k /\ id'[x] = id[x],
           x \in Requests /\ key[x] = k /\ pc[x] \in {"saving", "unlinking"} /\ k \in files => rowId[k] # 0
    PROVE  ImageOK(k)'
<1> USE DEF Actors
<1>1. ImageOK(k) /\ k \in Keys
  BY DEF MediaInv, Untouched
<1>2. /\ Unattached(k) => Unattached(k)'
      /\ Unreferenced(k) => Unreferenced(k)'
  BY DEF SameImage, Unattached, Unreferenced
<1>3. ASSUME NEW r \in Requests, key'[r] = k PROVE RequestOK(r, k)'
  <2>1. CASE r = x
    BY <1>3, <2>1
  <2>2. CASE r # x
    <3>1. pc'[r] = pc[r] /\ key[r] = k /\ id'[r] = id[r]
      BY <1>3, <2>2 DEF OthersSame
    <3>2. QED
      BY <1>1, <1>2, <3>1 DEF ImageOK, RequestOK, SameImage
  <2>3. QED
    BY <2>1, <2>2
<1>4. ASSUME NEW c \in Cleaners, key'[c] = k PROVE CleanerOK(c, k)'
  <2>1. CASE c = x
    BY <1>4, <2>1
  <2>2. CASE c # x
    <3>1. pc'[c] = pc[c] /\ key[c] = k
      BY <1>4, <2>2 DEF OthersSame
    <3>2. QED
      BY <1>1, <1>2, <3>1 DEF ImageOK, CleanerOK, SameImage
  <2>3. QED
    BY <2>1, <2>2
<1>5. mark'[k] # None => /\ pc'[mark'[k]] \in RemovalStates /\ key'[mark'[k]] = k
                         /\ id'[mark'[k]] = rowId'[k] /\ rowId'[k] # 0
  <2>1. SUFFICES ASSUME mark[k] # None
                 PROVE  /\ pc'[mark[k]] \in RemovalStates /\ key'[mark[k]] = k
                        /\ id'[mark[k]] = rowId[k] /\ rowId[k] # 0
    BY DEF SameImage
  <2>2. /\ pc[mark[k]] \in RemovalStates /\ key[mark[k]] = k /\ id[mark[k]] = rowId[k] /\ rowId[k] # 0
    BY <1>1, <2>1 DEF ImageOK, TableOK
  <2>3. mark[k] \in Cleaners
    BY <1>1, <2>1 DEF MediaInv, MediaTypeOK
  <2>4. QED
    BY <2>2, <2>3, ActorsAssumption DEF OthersSame
<1>6. k \in files' /\ rowId'[k] = 0 => \E r \in Requests : key'[r] = k /\ pc'[r] \in {"saving", "unlinking"}
  <2>1. SUFFICES ASSUME k \in files, rowId[k] = 0
                 PROVE  \E r \in Requests : key'[r] = k /\ pc'[r] \in {"saving", "unlinking"}
    BY DEF SameImage
  <2>2. PICK r \in Requests : key[r] = k /\ pc[r] \in {"saving", "unlinking"}
    BY <1>1, <2>1 DEF ImageOK, TableOK
  <2>3. r # x
    BY <2>1, <2>2
  <2>4. QED
    BY <2>2, <2>3 DEF OthersSame
<1>7. \A a \in articles' \ trashedNews' : cover'[a].key = k => k \in files' /\ cover'[a].id # 0
  BY <1>1 DEF ImageOK, TableOK, SameImage
<1>8. rowId'[k] # 0 /\ k \notin files' => mark'[k] # None
  BY <1>1 DEF ImageOK, TableOK, SameImage
<1>9. TableOK(k)'
  BY <1>5, <1>6, <1>7, <1>8 DEF TableOK
<1>10. QED
  BY <1>3, <1>4, <1>9 DEF ImageOK

-----------------------------------------------------------------------------
(* Types.                                                                  *)

\* The row of k is gone, and the covers that were attached to it are not.
RowGone(k) ==
    /\ rowId'[k] = 0 /\ mark'[k] = None
    /\ \A i \in Keys \ {k} : rowId'[i] = rowId[i] /\ mark'[i] = mark[i]
    /\ \A a \in NewsIds : /\ cover'[a].key = cover[a].key
                          /\ cover[a].key = k => cover'[a].id = 0
                          /\ cover[a].key # k => cover'[a] = cover[a]

LEMMA DeletedMedia ==
    ASSUME MediaBoundsAssumption, MediaTypeOK, HeldInv, NEW k \in Keys, DeleteMedia(k)
    PROVE  /\ rowId' \in [Keys -> Ids] /\ old' \subseteq {i \in Keys : rowId'[i] # 0}
           /\ mark' \in [Keys -> Cleaners \cup {None}]
           /\ cover' \in [NewsIds -> [key : Keys \cup {None}, id : Ids]]
           /\ \A a \in NewsIds : cover'[a].id # 0 => rowId'[cover'[a].key] = cover'[a].id /\ cover'[a].key \in Keys
           /\ RowGone(k)
<1> USE MediaBoundsAssumption DEF MediaTypeOK, HeldInv, DeleteMedia, Ids
<1>1. /\ rowId' \in [Keys -> Ids] /\ mark' \in [Keys -> Cleaners \cup {None}]
      /\ rowId'[k] = 0 /\ mark'[k] = None
      /\ \A i \in Keys \ {k} : rowId'[i] = rowId[i] /\ mark'[i] = mark[i]
  OBVIOUS
<1>2. /\ cover' \in [NewsIds -> [key : Keys \cup {None}, id : Ids]]
      /\ \A a \in NewsIds : /\ cover'[a].key = cover[a].key
                            /\ cover[a].key = k => cover'[a].id = 0
                            /\ cover[a].key # k => cover'[a] = cover[a]
  OBVIOUS
<1>3. old' \subseteq {i \in Keys : rowId'[i] # 0}
  BY <1>1
<1>4. QED
  BY <1>1, <1>2, <1>3 DEF RowGone

LEMMA ReleaseTypes ==
    ASSUME MediaBoundsAssumption, MediaTypeOK, NEW r \in Requests, NEW k, Release(r, k)
    PROVE  /\ pc' \in [Actors -> States]
           /\ article' \in [Requests -> NewsIds \cup {None}]
           /\ previous' \in [Requests -> Keys \cup {None}]
           /\ key' \in [Actors -> Keys \cup {None}] /\ id' \in [Actors -> Ids]
<1> USE MediaBoundsAssumption DEF MediaTypeOK, Actors, Ids
<1>1. CASE End(r)
  <2>1. "idle" \in States
    BY DEF States
  <2>2. QED
    BY <1>1, <2>1 DEF End, Handle
<1>2. CASE ~(previous[r] \in {None, k})
  <2>1. /\ pc' = [pc EXCEPT ![r] = "releasing"] /\ UNCHANGED <<article, previous>>
        /\ key' = [key EXCEPT ![r] = previous[r]] /\ id' = [id EXCEPT ![r] = 0]
        /\ previous[r] \in Keys
    BY <1>2 DEF Release, Handle, requestVars
  <2>2. "releasing" \in States
    BY DEF States
  <2>3. QED
    BY <2>1, <2>2
<1>3. QED
  BY <1>1, <1>2 DEF Release

LEMMA EndTypes ==
    ASSUME NoneAssumption, MediaBoundsAssumption, ActorsAssumption, MediaTypeOK, HeldInv, NEW r \in Requests, End(r),
           UNCHANGED <<mediaVars, files, newsVars, todo, faulty, mediaFaults>>, overtaken' \subseteq Keys
    PROVE  MediaTypeOK' /\ HeldInv'
<1> USE NoneAssumption, MediaBoundsAssumption, ActorsAssumption DEF Actors
<1>1. MediaTypeOK'
  BY DEF MediaTypeOK, End, Handle, mediaVars, newsVars, States, Ids
<1>2. \A q \in Requests : RequestInvOf(q)'
  BY DEF MediaTypeOK, HeldInv, RequestInvOf, End, Handle, newsVars, States, UploadStates, RemovalStates,
     RequestStates, Ids
<1>3. \A c \in Cleaners : CleanerInvOf(c)'
  BY DEF MediaTypeOK, HeldInv, CleanerInvOf, End, Handle
<1>4. QED
  BY <1>1, <1>2, <1>3 DEF HeldInv, newsVars

LEMMA RequestTypes ==
    ASSUME NoneAssumption, MediaBoundsAssumption, ActorsAssumption,
           MediaTypeOK, HeldInv, NEW r \in Requests, RequestStep(r), Track
    PROVE  MediaTypeOK' /\ HeldInv'
<1> USE NoneAssumption, MediaBoundsAssumption, ActorsAssumption DEF Actors, NoCover
<1> DEFINE T == MediaTypeOK /\ HeldInv
<1>0. overtaken' \subseteq Keys
  BY DEF MediaTypeOK, Track
<1>1. CASE FindMedia(r)
  <2>1. MediaTypeOK'
    BY <1>0, <1>1 DEF MediaTypeOK, FindMedia, Handle, mediaVars, newsVars, requestVars, States, UploadStates
  <2>2. HeldInv'
    BY <1>1 DEF MediaTypeOK, HeldInv, RequestInvOf, CleanerInvOf, FindMedia, Handle, mediaVars, newsVars,
       requestVars, States, UploadStates, RemovalStates, RequestStates
  <2>3. QED
    BY <2>1, <2>2
<1>2. CASE StatFile(r)
  <2>1. CASE End(r)
    BY <1>0, <1>2, <2>1, EndTypes DEF StatFile
  <2>2. CASE ~End(r)
    <3>1. /\ pc[r] = "stat" /\ pc' = [pc EXCEPT ![r] = "writing"]
          /\ UNCHANGED <<mediaVars, files, newsVars, requestVars, key, id, todo, faulty, mediaFaults>>
      BY <1>2, <2>2 DEF StatFile
    <3>2. QED
      BY <1>0, <3>1 DEF MediaTypeOK, HeldInv, RequestInvOf, CleanerInvOf, mediaVars, newsVars, requestVars,
         States, UploadStates, RemovalStates, RequestStates
  <2>3. QED
    BY <2>1, <2>2
<1>3. CASE WriteFile(r)
  BY <1>0, <1>3 DEF MediaTypeOK, HeldInv, RequestInvOf, CleanerInvOf, WriteFile, Advance, mediaVars,
     newsVars, requestVars, States, UploadStates, RemovalStates, RequestStates
<1>4. CASE SaveRow(r)
  <2>1. key[r] \in Keys /\ pc[r] = "saving"
    BY <1>4 DEF HeldInv, RequestInvOf, SaveRow, UploadStates
  <2>2. CASE id[r] = 0 /\ rowId[key[r]] = 0
    <3>1. CreateRow(key[r])
      BY <1>4, <2>2 DEF SaveRow
    <3>2. /\ lastId' \in [Keys -> Ids] /\ rowId' \in [Keys -> Ids] /\ lastId'[key[r]] # 0
          /\ \A k \in Keys : rowId[k] # 0 => rowId'[k] = rowId[k]
      BY <2>1, <2>2, <3>1 DEF CreateRow, MediaTypeOK, Ids
    <3>3. QED
      BY <1>0, <1>4, <2>1, <3>1, <3>2 DEF MediaTypeOK, HeldInv, RequestInvOf, CleanerInvOf, SaveRow,
         CreateRow, End, Handle, mediaVars, newsVars, requestVars, States, UploadStates, RemovalStates,
         RequestStates, Ids
  <2>3. CASE ~(id[r] = 0 /\ rowId[key[r]] = 0)
    BY <1>0, <1>4, <2>3, EndTypes DEF SaveRow
  <2>4. QED
    BY <2>2, <2>3
<1>5. CASE ReadNews(r)
  <2>1. /\ pc[r] = "idle" /\ pc' = [pc EXCEPT ![r] = "loaded"]
        /\ article' \in [Requests -> NewsIds \cup {None}] /\ previous' \in [Requests -> Keys \cup {None}]
        /\ article'[r] \in articles /\ \A q \in Requests \ {r} : article'[q] = article[q]
        /\ UNCHANGED <<mediaVars, files, newsVars, key, id, todo, faulty, mediaFaults>>
    BY <1>5 DEF ReadNews, MediaTypeOK
  <2>2. MediaTypeOK'
    BY <1>0, <2>1 DEF MediaTypeOK, mediaVars, newsVars, States
  <2>3. HeldInv'
    BY <2>1 DEF MediaTypeOK, HeldInv, RequestInvOf, CleanerInvOf, mediaVars, newsVars, States, UploadStates,
       RemovalStates, RequestStates
  <2>4. QED
    BY <2>2, <2>3
<1>6. CASE ResolveCover(r)
  <2>1. MediaTypeOK'
    BY <1>0, <1>6 DEF MediaTypeOK, ResolveCover, Handle, mediaVars, newsVars, requestVars, States,
       UploadStates, Ids
  <2>2. HeldInv'
    BY <1>6 DEF MediaTypeOK, HeldInv, RequestInvOf, CleanerInvOf, ResolveCover, Handle, mediaVars, newsVars,
       requestVars, States, UploadStates, RemovalStates, RequestStates, Ids
  <2>3. QED
    BY <2>1, <2>2
<1>7. CASE WriteNews(r)
  <2>1. PICK a \in IF article[r] = None THEN NewsIds \ articles ELSE {article[r]} :
           /\ articles' = articles \cup {a}
           /\ cover' = [cover EXCEPT ![a] = [key |-> key[r], id |-> id[r]]]
    BY <1>7 DEF WriteNews, WriteCover
  <2>2. a \in NewsIds
    BY <2>1 DEF MediaTypeOK, HeldInv, RequestInvOf
  <2>3. /\ articles' \subseteq NewsIds /\ trashedNews \subseteq articles' /\ articles \subseteq articles'
        /\ cover' \in [NewsIds -> [key : Keys \cup {None}, id : Ids]]
    BY <2>1, <2>2 DEF MediaTypeOK
  <2>4. \A b \in NewsIds : cover'[b].id # 0 => rowId[cover'[b].key] = cover'[b].id /\ cover'[b].key \in Keys
    BY <1>7, <2>1, <2>2 DEF MediaTypeOK, HeldInv, RequestInvOf, WriteNews
  <2>5. /\ UNCHANGED <<mediaVars, files, trashedNews, todo, faulty, mediaFaults>>
        /\ Release(r, key[r])
    BY <1>7 DEF WriteNews, WriteCover
  <2>6. MediaTypeOK'
    BY <1>0, <2>3, <2>4, <2>5, ReleaseTypes DEF MediaTypeOK, mediaVars
  <2>7. HeldInv'
    <3>1. CASE End(r)
      BY <2>3, <2>4, <2>5, <3>1 DEF MediaTypeOK, HeldInv, RequestInvOf, CleanerInvOf, End, Handle, mediaVars,
         newsVars, requestVars, States, UploadStates, RemovalStates, RequestStates
    <3>2. CASE previous[r] \in Keys /\ pc' = [pc EXCEPT ![r] = "releasing"] /\ Handle(r, previous[r], 0) /\ UNCHANGED requestVars
      BY <2>3, <2>4, <2>5, <3>2 DEF MediaTypeOK, HeldInv, RequestInvOf, CleanerInvOf, Handle, mediaVars,
         newsVars, requestVars, States, UploadStates, RemovalStates, RequestStates, Ids
    <3>3. QED
      BY <2>5, <3>1, <3>2 DEF Release, MediaTypeOK
  <2>8. QED
    BY <2>6, <2>7
<1>8. CASE TrashNews(r)
  <2>1. /\ UNCHANGED <<mediaVars, files, articles, cover, todo, faulty, mediaFaults>>
        /\ Release(r, None) /\ pc[r] = "loaded" /\ trashedNews' = trashedNews \cup {article[r]}
    BY <1>8 DEF TrashNews
  <2>2. trashedNews' \subseteq articles
    BY <2>1 DEF MediaTypeOK, HeldInv, RequestInvOf
  <2>3. MediaTypeOK'
    BY <1>0, <2>1, <2>2, ReleaseTypes DEF MediaTypeOK, mediaVars
  <2>4. HeldInv'
    <3>1. CASE End(r)
      BY <2>1, <3>1 DEF MediaTypeOK, HeldInv, RequestInvOf, CleanerInvOf, End, Handle, mediaVars, newsVars,
         requestVars, States, UploadStates, RemovalStates, RequestStates
    <3>2. CASE previous[r] \in Keys /\ pc' = [pc EXCEPT ![r] = "releasing"] /\ Handle(r, previous[r], 0) /\ UNCHANGED requestVars
      BY <2>1, <3>2 DEF MediaTypeOK, HeldInv, RequestInvOf, CleanerInvOf, Handle, mediaVars, newsVars,
         requestVars, States, UploadStates, RemovalStates, RequestStates, Ids
    <3>3. QED
      BY <2>1, <3>1, <3>2 DEF Release, MediaTypeOK
  <2>5. QED
    BY <2>3, <2>4
<1>9. CASE RefuseNews(r)
  BY <1>0, <1>9, EndTypes DEF RefuseNews
<1>10. CASE SelectUnreferenced(r)
  <2>1. /\ pc[r] \in {"idle", "releasing"}
        /\ UNCHANGED <<mediaVars, files, newsVars, todo, faulty, mediaFaults>>
    BY <1>10 DEF SelectUnreferenced, SelectKey
  <2>2. CASE End(r)
    BY <1>0, <2>1, <2>2, EndTypes
  <2>3. CASE ~End(r)
    <3>1. PICK k \in ToRelease(r) : SelectKey(r, k, rowId[k] # 0 /\ Unreferenced(k))
      BY <1>10 DEF SelectUnreferenced
    <3>2. /\ pc' = [pc EXCEPT ![r] = "selected"] /\ UNCHANGED requestVars
          /\ key' = [key EXCEPT ![r] = k] /\ id' = [id EXCEPT ![r] = rowId[k]]
      BY <2>3, <3>1 DEF SelectKey, Handle
    <3>3. k \in Keys
      BY <2>1 DEF ToRelease, HeldInv, RequestInvOf
    <3>4. MediaTypeOK'
      BY <1>0, <2>1, <3>2, <3>3 DEF MediaTypeOK, mediaVars, newsVars, requestVars, States, RemovalStates
    <3>5. HeldInv'
      BY <2>1, <3>2, <3>3 DEF MediaTypeOK, HeldInv, RequestInvOf, CleanerInvOf, mediaVars, newsVars,
         requestVars, States, UploadStates, RemovalStates, RequestStates
    <3>6. QED
      BY <3>4, <3>5
  <2>4. QED
    BY <2>2, <2>3
<1>11. CASE DeleteRow(r)
  <2>1. key[r] \in Keys /\ pc[r] = "selected"
    BY <1>11 DEF HeldInv, RequestInvOf, DeleteRow
  <2>2. CASE rowId[key[r]] = id[r]
    <3>1. DeleteMedia(key[r])
      BY <1>11, <2>2 DEF DeleteRow
    <3>2. /\ rowId' \in [Keys -> Ids] /\ old' \subseteq {k \in Keys : rowId'[k] # 0}
          /\ mark' \in [Keys -> Cleaners \cup {None}]
          /\ cover' \in [NewsIds -> [key : Keys \cup {None}, id : Ids]]
          /\ \A a \in NewsIds : cover'[a].id # 0 => rowId'[cover'[a].key] = cover'[a].id /\ cover'[a].key \in Keys
      BY <2>1, <3>1, DeletedMedia
    <3>3. QED
      <4>1. /\ pc' = [pc EXCEPT ![r] = "unlinking"]
            /\ UNCHANGED <<requestVars, key, id, lastId, files, articles, trashedNews, todo, faulty, mediaFaults>>
        BY <1>11, <2>2 DEF DeleteRow
      <4>2. MediaTypeOK'
        BY <1>0, <3>2, <4>1 DEF MediaTypeOK, requestVars, States, RemovalStates
      <4>3. HeldInv'
        <5>1. \A q \in Requests : RequestInvOf(q)'
          BY <2>1, <4>1 DEF MediaTypeOK, HeldInv, RequestInvOf, requestVars, States, UploadStates,
             RemovalStates, RequestStates
        <5>2. \A c \in Cleaners : CleanerInvOf(c)'
          BY <4>1 DEF MediaTypeOK, HeldInv, CleanerInvOf
        <5>3. QED
          BY <3>2, <5>1, <5>2 DEF HeldInv
      <4>4. QED
        BY <4>2, <4>3
  <2>3. CASE rowId[key[r]] # id[r]
    BY <1>0, <1>11, <2>3, EndTypes DEF DeleteRow, mediaVars, newsVars
  <2>4. QED
    BY <2>2, <2>3
<1>12. CASE RemoveFile(r)
  BY <1>0, <1>12 DEF MediaTypeOK, HeldInv, RequestInvOf, CleanerInvOf, RemoveFile, End, Handle, mediaVars,
     newsVars, requestVars, States, UploadStates, RemovalStates, RequestStates, Ids
<1>13. CASE FailWrite(r)
  BY <1>0, <1>13 DEF MediaTypeOK, HeldInv, RequestInvOf, CleanerInvOf, FailWrite, Advance, mediaVars,
     newsVars, requestVars, States, UploadStates, RemovalStates, RequestStates
<1>14. CASE Fail(r)
  BY <1>0, <1>14 DEF MediaTypeOK, HeldInv, RequestInvOf, CleanerInvOf, Fail, End, Handle, mediaVars,
     newsVars, requestVars, States, UploadStates, RemovalStates, RequestStates, Ids
<1>15. QED
  BY <1>1, <1>2, <1>3, <1>4, <1>5, <1>6, <1>7, <1>8, <1>9, <1>10, <1>11, <1>12, <1>13, <1>14 DEF RequestStep,
     Store, EditNews, Remove

LEMMA CleanerTypes ==
    ASSUME NoneAssumption, MediaBoundsAssumption, ActorsAssumption,
           MediaTypeOK, HeldInv, NEW c \in Cleaners, CleanerStep(c), Track
    PROVE  MediaTypeOK' /\ HeldInv'
<1> USE NoneAssumption, MediaBoundsAssumption, ActorsAssumption DEF Actors
<1>0. overtaken' \subseteq Keys
  BY DEF MediaTypeOK, Track
<1>1. ASSUME FindCandidates(c) PROVE MediaTypeOK' /\ HeldInv'
  <2>1. Candidates \subseteq [key : Keys, id : Ids] /\ \A m \in Candidates : m.id # 0
    BY DEF MediaTypeOK, Candidates
  <2>2. MediaTypeOK'
    BY <1>0, <1>1, <2>1 DEF MediaTypeOK, FindCandidates, Advance, newsVars, requestVars, States
  <2>3. HeldInv'
    BY <1>1, <2>1 DEF MediaTypeOK, HeldInv, RequestInvOf, CleanerInvOf, CleanerStates, RemovalStates,
       FindCandidates, Advance, newsVars, requestVars
  <2>4. QED
    BY <2>2, <2>3
<1>2. ASSUME MarkCandidate(c) PROVE MediaTypeOK' /\ HeldInv'
  <2>1. PICK m \in todo[c] :
          /\ todo' = [todo EXCEPT ![c] = @ \ {m}]
          /\ IF rowId[m.key] = m.id /\ Unattached(m.key)
             THEN /\ mark' = [mark EXCEPT ![m.key] = c]
                  /\ Handle(c, m.key, m.id)
                  /\ pc' = [pc EXCEPT ![c] = "marked"]
             ELSE UNCHANGED <<mark, pc, key, id>>
    BY <1>2 DEF MarkCandidate
  <2>2. m \in [key : Keys, id : Ids]
    BY DEF MediaTypeOK
  <2>3. UNCHANGED <<rowId, lastId, old, files, newsVars, requestVars, faulty, mediaFaults>> /\ pc[c] = "cleaning"
    BY <1>2 DEF MarkCandidate
  <2>4. MediaTypeOK'
    <3>1. /\ pc' \in [Actors -> States] /\ key' \in [Actors -> Keys \cup {None}] /\ id' \in [Actors -> Ids]
          /\ mark' \in [Keys -> Cleaners \cup {None}]
      <4>1. CASE rowId[m.key] = m.id /\ Unattached(m.key)
        <5>1. "marked" \in States
          BY DEF States, RemovalStates
        <5>2. QED
          <6>1. /\ mark' = [mark EXCEPT ![m.key] = c] /\ pc' = [pc EXCEPT ![c] = "marked"]
                /\ key' = [key EXCEPT ![c] = m.key] /\ id' = [id EXCEPT ![c] = m.id]
            BY <2>1, <4>1 DEF Handle
          <6>2. m.key \in Keys /\ m.id \in Ids
            BY <2>2
          <6>3. /\ pc \in [Actors -> States] /\ key \in [Actors -> Keys \cup {None}] /\ id \in [Actors -> Ids]
                /\ mark \in [Keys -> Cleaners \cup {None}]
            BY DEF MediaTypeOK
          <6> HIDE DEF Actors
          <6>4. QED
            BY <5>1, <6>1, <6>2, <6>3
      <4>2. CASE UNCHANGED <<mark, pc, key, id>>
        BY <4>2 DEF MediaTypeOK
      <4>3. QED
        BY <2>1, <4>1, <4>2
    <3>2. todo' \in [Cleaners -> SUBSET [key : Keys, id : Ids]]
      BY <2>1 DEF MediaTypeOK
    <3>3. QED
      BY <1>0, <2>3, <3>1, <3>2 DEF MediaTypeOK, newsVars, requestVars
  <2>5. HeldInv'
    BY <2>1, <2>2, <2>3 DEF MediaTypeOK, HeldInv, RequestInvOf, CleanerInvOf, CleanerStates, RemovalStates,
       Handle, newsVars, requestVars
  <2>6. QED
    BY <2>4, <2>5
<1>3. ASSUME CheckReferences(c) \/ SelectMarked(c) \/ RemoveBlob(c) PROVE MediaTypeOK' /\ HeldInv'
  <2>1. /\ UNCHANGED <<mediaVars, newsVars, requestVars, key, id, todo, faulty, mediaFaults>>
        /\ files' \subseteq Keys
        /\ \E to \in {"cleaning", "checked", "unlinked", "selected"} :
              pc[c] \in RemovalStates /\ pc' = [pc EXCEPT ![c] = to]
    BY <1>3 DEF CheckReferences, SelectMarked, RemoveBlob, Advance, RemovalStates, MediaTypeOK
  <2>2. MediaTypeOK'
    BY <1>0, <2>1 DEF MediaTypeOK, mediaVars, newsVars, requestVars, States, RemovalStates
  <2>3. HeldInv'
    BY <2>1 DEF MediaTypeOK, HeldInv, RequestInvOf, CleanerInvOf, CleanerStates, newsVars, requestVars
  <2>4. QED
    BY <2>2, <2>3
<1>4. ASSUME DropMarked(c) PROVE MediaTypeOK' /\ HeldInv'
  <2>1. /\ UNCHANGED <<lastId, files, articles, trashedNews, requestVars, key, id, todo, faulty, mediaFaults>>
        /\ pc[c] = "selected" /\ pc' = [pc EXCEPT ![c] = "cleaning"]
    BY <1>4 DEF DropMarked, Advance
  <2>2. key[c] \in Keys
    BY <2>1 DEF HeldInv, CleanerInvOf, RemovalStates
  <2>3. /\ rowId' \in [Keys -> Ids] /\ old' \subseteq {k \in Keys : rowId'[k] # 0}
        /\ mark' \in [Keys -> Cleaners \cup {None}]
        /\ cover' \in [NewsIds -> [key : Keys \cup {None}, id : Ids]]
        /\ \A a \in NewsIds : cover'[a].id # 0 => rowId'[cover'[a].key] = cover'[a].id /\ cover'[a].key \in Keys
    <3>1. CASE DeleteMedia(key[c])
      BY <2>2, <3>1, DeletedMedia
    <3>2. CASE UNCHANGED <<rowId, old, mark, cover>>
      BY <3>2 DEF MediaTypeOK, HeldInv
    <3>3. QED
      BY <1>4, <3>1, <3>2 DEF DropMarked
  <2>4. MediaTypeOK'
    BY <1>0, <2>1, <2>3 DEF MediaTypeOK, requestVars, States
  <2>5. HeldInv'
    BY <2>1, <2>3 DEF MediaTypeOK, HeldInv, RequestInvOf, CleanerInvOf, CleanerStates, RemovalStates,
       requestVars
  <2>6. QED
    BY <2>4, <2>5
<1>5. ASSUME EndCleanup(c) \/ FailCleanup(c) PROVE MediaTypeOK' /\ HeldInv'
  <2>1. /\ UNCHANGED <<mediaVars, files, newsVars, requestVars>>
        /\ pc' = [pc EXCEPT ![c] = "idle"] /\ Handle(c, None, 0)
        /\ faulty' \subseteq Keys /\ mediaFaults' \in 0..MaxMediaFaults
        /\ todo' \in [Cleaners -> SUBSET [key : Keys, id : Ids]]
        /\ \A d \in Cleaners : todo'[d] \subseteq todo[d]
    BY <1>5 DEF EndCleanup, FailCleanup, Advance, MediaTypeOK, HeldInv, CleanerInvOf
  <2>2. MediaTypeOK'
    BY <1>0, <2>1 DEF MediaTypeOK, Handle, mediaVars, newsVars, requestVars, States, Ids
  <2>3. HeldInv'
    BY <2>1 DEF MediaTypeOK, HeldInv, RequestInvOf, CleanerInvOf, CleanerStates, RemovalStates, Handle,
       newsVars, requestVars
  <2>4. QED
    BY <2>2, <2>3
<1>6. QED
  BY <1>1, <1>2, <1>3, <1>4, <1>5 DEF CleanerStep, CleanupPending

LEMMA CrashTypes ==
    ASSUME NoneAssumption, MediaBoundsAssumption, ActorsAssumption, MediaTypeOK, HeldInv, Crash, Track
    PROVE  MediaTypeOK' /\ HeldInv'
<1> USE NoneAssumption, MediaBoundsAssumption, ActorsAssumption DEF Actors
<1>1. overtaken' \subseteq Keys
  BY DEF MediaTypeOK, Track
<1>2. MediaTypeOK'
  BY <1>1 DEF MediaTypeOK, Crash, mediaVars, newsVars, States, Ids
<1>3. HeldInv'
  BY DEF MediaTypeOK, HeldInv, RequestInvOf, CleanerInvOf, RequestStates, CleanerStates, States,
     UploadStates, RemovalStates, Crash, newsVars
<1>4. QED
  BY <1>2, <1>3

LEMMA AgeTypes ==
    ASSUME MediaTypeOK, HeldInv, NEW k \in Keys, Age(k), Track
    PROVE  MediaTypeOK' /\ HeldInv'
<1>1. overtaken' \subseteq Keys
  BY DEF MediaTypeOK, Track
<1>2. MediaTypeOK'
  BY <1>1 DEF MediaTypeOK, Age, newsVars, requestVars
<1>3. HeldInv'
  BY DEF HeldInv, RequestInvOf, CleanerInvOf, Age, newsVars, requestVars
<1>4. QED
  BY <1>2, <1>3

-----------------------------------------------------------------------------
(* Steps.                                                                  *)

LEMMA FewerUntouched ==
    ASSUME MediaTypeOK, Track, faulty \subseteq faulty', NEW k \in Untouched'
    PROVE  k \in Untouched /\ k \in Keys /\ Peaceful(k)'
<1>1. k \in Keys /\ k \notin overtaken' /\ k \notin faulty'
  BY DEF Untouched
<1>2. k \in Untouched
  BY <1>1 DEF Untouched, Track
<1>3. Peaceful(k)'
  BY <1>1 DEF Track, Peaceful
<1>4. QED
  BY <1>1, <1>2, <1>3

LEMMA NoUse ==
    ASSUME MediaInv, NEW k \in Untouched, NEW x \in Actors, pc[x] \in RemovalStates, key[x] = k
    PROVE  \A r \in Requests : key[r] = k => pc[r] \notin UploadStates \cup {"resolved"}
BY DEF MediaInv, ImageOK, Peaceful, Removing, Using, Uploading

LEMMA NoRemoval ==
    ASSUME MediaInv, NEW k \in Untouched, NEW r \in Requests, pc[r] \in UploadStates \cup {"resolved"}, key[r] = k
    PROVE  \A x \in Actors : key[x] = k => pc[x] \notin RemovalStates
BY DEF MediaInv, ImageOK, Peaceful, Removing, Using, Uploading

LEMMA Marker ==
    ASSUME MediaInv, NEW k \in Untouched, mark[k] # None
    PROVE  /\ mark[k] \in Cleaners /\ pc[mark[k]] \in RemovalStates
           /\ key[mark[k]] = k /\ id[mark[k]] = rowId[k] /\ rowId[k] # 0
<1>1. k \in Keys /\ ImageOK(k)
  BY DEF MediaInv, Untouched
<1>2. QED
  BY <1>1 DEF MediaInv, MediaTypeOK, ImageOK, TableOK

LEMMA FaultsStay ==
    ASSUME NEW r \in Requests, RequestStep(r)
    PROVE  faulty \subseteq faulty'
BY DEF RequestStep, Store, EditNews, Remove, FailWrite, Fail, FindMedia, StatFile, WriteFile, SaveRow,
       ReadNews, ResolveCover, WriteNews, WriteCover, TrashNews, RefuseNews, SelectUnreferenced, SelectKey, DeleteRow, RemoveFile

LEMMA RequestFrame ==
    ASSUME MediaTypeOK, NEW r \in Requests, RequestStep(r)
    PROVE  OthersSame(r)
<1> USE DEF MediaTypeOK, OthersSame
<1>1. CASE End(r)
  BY <1>1 DEF End, Handle
<1>2. CASE Store(r) /\ ~End(r)
  BY <1>2 DEF Store, FindMedia, StatFile, WriteFile, SaveRow, Handle, Advance
<1>3. CASE EditNews(r) /\ ~End(r)
  BY <1>3 DEF EditNews, ReadNews, ResolveCover, WriteNews, WriteCover, TrashNews, RefuseNews, Release, Handle
<1>4. CASE Remove(r) /\ ~End(r)
  BY <1>4 DEF Remove, SelectUnreferenced, SelectKey, DeleteRow, RemoveFile, Handle
<1>5. CASE FailWrite(r) \/ Fail(r)
  BY <1>1, <1>5 DEF FailWrite, Fail, Advance
<1>6. QED
  BY <1>1, <1>2, <1>3, <1>4, <1>5 DEF RequestStep

LEMMA CleanerFrame ==
    ASSUME MediaTypeOK, NEW c \in Cleaners, CleanerStep(c)
    PROVE  OthersSame(c) /\ faulty \subseteq faulty' /\ articles' = articles
<1> USE DEF MediaTypeOK, OthersSame, newsVars, mediaVars
<1>1. CASE FindCandidates(c) \/ CheckReferences(c) \/ RemoveBlob(c) \/ SelectMarked(c) \/ DropMarked(c)
  BY <1>1 DEF FindCandidates, CheckReferences, RemoveBlob, SelectMarked, DropMarked, Advance
<1>2. CASE MarkCandidate(c)
  BY <1>2 DEF MarkCandidate, Handle
<1>3. CASE EndCleanup(c) \/ FailCleanup(c)
  BY <1>3 DEF EndCleanup, FailCleanup, Advance, Handle
<1>4. QED
  BY <1>1, <1>2, <1>3 DEF CleanerStep, CleanupPending

-----------------------------------------------------------------------------
(* Requests.                                                               *)

\* Steps that change nothing of any image, except that an article is trashed.
LEMMA StoreOnlyReads ==
    ASSUME NoneAssumption, ActorsAssumption, MediaInv, MediaTypeOK', NEW r \in Requests,
           FindMedia(r) \/ StatFile(r) \/ FailWrite(r) \/ Fail(r), Track, NEW k \in Untouched'
    PROVE  ImageOK(k)'
<1> USE NoneAssumption, ActorsAssumption DEF Actors
<1>1. RequestStep(r)
  BY DEF RequestStep, Store
<1>2. k \in Untouched /\ k \in Keys /\ Peaceful(k)' /\ OthersSame(r)
  BY <1>1, FaultsStay, FewerUntouched, RequestFrame DEF MediaInv
<1>3. UNCHANGED <<mediaVars, files, newsVars>>
  BY DEF FindMedia, StatFile, FailWrite, Fail
<1>4. SameImage(k)
  BY <1>2, <1>3 DEF SameImage, mediaVars, newsVars
<1>5. key[r] = k => RequestOK(r, k)
  BY <1>2 DEF MediaInv, ImageOK
<1>6. key'[r] = k => RequestOK(r, k)'
  <2>1. CASE FindMedia(r)
    BY <1>2, <1>3, <2>1 DEF FindMedia, Handle, RequestOK, MediaInv, MediaTypeOK, mediaVars
  <2>2. CASE StatFile(r)
    BY <1>2, <1>3, <1>5, <2>2 DEF StatFile, End, Handle, RequestOK, MediaInv, MediaTypeOK, mediaVars,
       UploadStates
  <2>3. CASE FailWrite(r)
    BY <1>2, <2>3 DEF FailWrite, Untouched
  <2>4. CASE Fail(r)
    BY <1>2, <2>4 DEF Fail, End, Handle, MediaInv, MediaTypeOK
  <2>5. QED
    BY <2>1, <2>2, <2>3, <2>4
<1>7. key[r] = k => pc[r] \notin {"saving", "unlinking"}
  BY <1>2 DEF FindMedia, StatFile, FailWrite, Advance, Fail, RemovalStates, Untouched
<1>8. articles' \subseteq NewsIds /\ r \notin Cleaners
  BY DEF MediaTypeOK
<1>9. QED
  BY <1>2, <1>4, <1>6, <1>7, <1>8, LocalStep

LEMMA NewsOnlyReads ==
    ASSUME NoneAssumption, ActorsAssumption, MediaInv, MediaTypeOK', NEW r \in Requests,
           ReadNews(r) \/ ResolveCover(r) \/ TrashNews(r) \/ RefuseNews(r) \/ SelectUnreferenced(r),
           Track, NEW k \in Untouched'
    PROVE  ImageOK(k)'
<1> USE NoneAssumption, ActorsAssumption DEF Actors
<1>1. RequestStep(r)
  BY DEF RequestStep, EditNews, Remove
<1>2. k \in Untouched /\ k \in Keys /\ Peaceful(k)' /\ OthersSame(r)
  BY <1>1, FaultsStay, FewerUntouched, RequestFrame DEF MediaInv
<1>3. UNCHANGED <<mediaVars, files, articles, cover>> /\ trashedNews \subseteq trashedNews'
  BY DEF ReadNews, ResolveCover, TrashNews, RefuseNews, SelectUnreferenced, SelectKey, newsVars
<1>4. SameImage(k)
  BY <1>2, <1>3 DEF SameImage, mediaVars
<1>5. pc[r] \in {"idle", "loaded", "resolved", "releasing"}
  BY DEF ReadNews, ResolveCover, TrashNews, RefuseNews, SelectUnreferenced
<1>6. key'[r] = k => RequestOK(r, k)'
  <2>1. CASE ResolveCover(r)
    <3>1. SUFFICES ASSUME key'[r] = k PROVE k \in files
      BY <1>3, <2>1 DEF ResolveCover, RequestOK, UploadStates, MediaInv, MediaTypeOK
    <3>2. rowId[k] # 0 /\ pc'[r] = "resolved"
      BY <1>2, <2>1, <3>1 DEF ResolveCover, Handle, MediaInv, MediaTypeOK
    <3>3. SUFFICES ASSUME k \notin files PROVE FALSE
      OBVIOUS
    <3>4. mark[k] # None
      BY <1>2, <3>2, <3>3 DEF MediaInv, ImageOK, TableOK
    <3>5. mark[k] \in Cleaners /\ pc'[mark[k]] \in RemovalStates /\ key'[mark[k]] = k
      BY <1>2, <3>4, Marker DEF OthersSame
    <3>6. Removing(k)' /\ Using(k)'
      BY <3>1, <3>2, <3>5 DEF Removing, Using
    <3>7. QED
      BY <1>2, <3>6 DEF Peaceful
  <2>2. CASE SelectUnreferenced(r)
    BY <1>2, <1>3, <2>2 DEF SelectUnreferenced, SelectKey, End, Handle, RequestOK, Unreferenced, MediaInv,
       MediaTypeOK, mediaVars, newsVars, UploadStates
  <2>3. CASE ReadNews(r)
    BY <1>2, <2>3 DEF ReadNews, RequestOK, MediaInv, MediaTypeOK, UploadStates
  <2>4. CASE TrashNews(r)
    BY <1>2, <2>4 DEF TrashNews, Release, End, Handle, RequestOK, MediaInv, MediaTypeOK, UploadStates
  <2>5. CASE RefuseNews(r)
    BY <1>2, <2>5 DEF RefuseNews, End, Handle, MediaInv, MediaTypeOK
  <2>6. QED
    BY <2>1, <2>2, <2>3, <2>4, <2>5
<1>8. articles' \subseteq NewsIds /\ r \notin Cleaners
  BY DEF MediaTypeOK
<1>9. QED
  BY <1>2, <1>4, <1>5, <1>6, <1>8, LocalStep

LEMMA WriteFileStep ==
    ASSUME NoneAssumption, ActorsAssumption, MediaInv, MediaTypeOK', NEW r \in Requests, WriteFile(r), Track, NEW k \in Untouched'
    PROVE  ImageOK(k)'
<1> USE NoneAssumption, ActorsAssumption DEF Actors
<1>1. RequestStep(r)
  BY DEF RequestStep, Store
<1>2. k \in Untouched /\ k \in Keys /\ Peaceful(k)' /\ OthersSame(r)
  BY <1>1, FaultsStay, FewerUntouched, RequestFrame DEF MediaInv
<1>3. /\ UNCHANGED <<mediaVars, newsVars, key, id>> /\ files' = files \cup {key[r]}
      /\ pc[r] = "writing" /\ pc'[r] = "saving"
  BY DEF WriteFile, Advance, MediaInv, MediaTypeOK
<1>4. CASE key[r] # k
  <2>1. SameImage(k) /\ key'[r] # k
    BY <1>2, <1>3, <1>4 DEF SameImage, mediaVars, newsVars
  <2>2. articles' \subseteq NewsIds /\ r \notin Cleaners
    BY DEF MediaTypeOK
  <2>3. QED
    BY <1>2, <1>4, <2>1, <2>2, LocalStep
<1>5. CASE key[r] = k
  <2>1. \A x \in Actors : key[x] = k => pc[x] \notin RemovalStates
    BY <1>2, <1>3, <1>5, NoRemoval DEF UploadStates
  <2>2. ImageOK(k)
    BY <1>2 DEF MediaInv
  <2>3. mark[k] = None
    BY <1>2, <2>1, Marker
  <2>4. \A q \in Requests : key'[q] = k => RequestOK(q, k)'
    BY <1>2, <1>3, <1>5, <2>1, <2>2 DEF OthersSame, ImageOK, RequestOK, UploadStates, RemovalStates, mediaVars
  <2>5. \A c \in Cleaners : key'[c] = k => CleanerOK(c, k)'
    BY <1>2, <1>3, <2>1 DEF OthersSame, CleanerOK
  <2>6. TableOK(k)'
    BY <1>3, <1>5, <2>2, <2>3 DEF ImageOK, TableOK, mediaVars, newsVars
  <2>7. QED
    BY <1>2, <2>4, <2>5, <2>6 DEF ImageOK
<1>6. QED
  BY <1>4, <1>5

LEMMA SaveRowStep ==
    ASSUME NoneAssumption, MediaBoundsAssumption, ActorsAssumption, MediaInv, MediaTypeOK', NEW r \in Requests, SaveRow(r), Track,
           NEW k \in Untouched'
    PROVE  ImageOK(k)'
<1> USE NoneAssumption, ActorsAssumption DEF Actors
<1>1. RequestStep(r)
  BY DEF RequestStep, Store
<1>2. k \in Untouched /\ k \in Keys /\ Peaceful(k)' /\ OthersSame(r)
  BY <1>1, FaultsStay, FewerUntouched, RequestFrame DEF MediaInv
<1>3. /\ UNCHANGED <<files, newsVars, mark>> /\ pc[r] = "saving" /\ key'[r] = None
      /\ key[r] \in Keys
  BY DEF SaveRow, CreateRow, End, Handle, mediaVars, MediaInv, MediaTypeOK, HeldInv, RequestInvOf, UploadStates
<1>4. ImageOK(k)
  BY <1>2 DEF MediaInv
<1>5. CASE key[r] # k \/ rowId[k] # 0 \/ id[r] # 0
  <2>1. rowId'[k] = rowId[k]
    BY <1>2, <1>3, <1>5 DEF SaveRow, CreateRow, mediaVars, MediaInv, MediaTypeOK
  <2>2. SameImage(k)
    BY <1>3, <2>1 DEF SameImage, newsVars
  <2>3. key[r] = k => rowId[k] # 0
    BY <1>3, <1>4, <1>5 DEF ImageOK, RequestOK, UploadStates
  <2>4. articles' \subseteq NewsIds /\ r \notin Cleaners
    BY DEF MediaTypeOK
  <2>5. QED
    BY <1>2, <1>3, <2>2, <2>3, <2>4, LocalStep
<1>6. CASE key[r] = k /\ rowId[k] = 0 /\ id[r] = 0
  <2>1. rowId'[k] # 0
    BY <1>2, <1>6, MediaBoundsAssumption DEF SaveRow, CreateRow, MediaInv, MediaTypeOK, Ids
  <2>2. \A x \in Actors : key[x] = k => pc[x] \notin RemovalStates
    BY <1>2, <1>3, <1>6, NoRemoval DEF UploadStates
  <2>3. k \in files /\ mark[k] = None
    BY <1>2, <1>3, <1>4, <1>6, Marker DEF ImageOK, RequestOK
  <2>4. \A q \in Requests : key'[q] = k => RequestOK(q, k)'
    BY <1>2, <1>3, <1>4, <1>6, <2>2, <2>3 DEF OthersSame, ImageOK, RequestOK, UploadStates, RemovalStates
  <2>5. \A c \in Cleaners : key'[c] = k => CleanerOK(c, k)'
    BY <1>2, <2>2 DEF OthersSame, CleanerOK
  <2>6. TableOK(k)'
    BY <1>3, <1>4, <2>1, <2>3 DEF ImageOK, TableOK, newsVars
  <2>7. QED
    BY <1>2, <2>4, <2>5, <2>6 DEF ImageOK
<1>7. QED
  BY <1>5, <1>6

LEMMA WriteNewsStep ==
    ASSUME NoneAssumption, ActorsAssumption, MediaInv, MediaTypeOK', NEW r \in Requests, WriteNews(r), Track,
           NEW k \in Untouched'
    PROVE  ImageOK(k)'
<1> USE NoneAssumption, ActorsAssumption DEF Actors
<1>1. RequestStep(r)
  BY DEF RequestStep, EditNews
<1>2. k \in Untouched /\ k \in Keys /\ Peaceful(k)' /\ OthersSame(r)
  BY <1>1, FaultsStay, FewerUntouched, RequestFrame DEF MediaInv
<1>3. PICK a \in IF article[r] = None THEN NewsIds \ articles ELSE {article[r]} :
           /\ articles' = articles \cup {a}
           /\ cover' = [cover EXCEPT ![a] = [key |-> key[r], id |-> id[r]]]
  BY DEF WriteNews, WriteCover
<1>4. a \in NewsIds
  BY <1>3 DEF MediaInv, MediaTypeOK, HeldInv, RequestInvOf
<1>5. /\ UNCHANGED <<mediaVars, files, trashedNews>> /\ pc[r] = "resolved"
      /\ (id[r] # 0 => rowId[key[r]] = id[r]) /\ (id[r] # 0 <=> key[r] \in Keys)
  BY DEF WriteNews, WriteCover, MediaInv, HeldInv, RequestInvOf
<1>6. key'[r] = k => pc'[r] = "releasing"
  BY <1>2 DEF WriteNews, WriteCover, Release, End, Handle, MediaInv, MediaTypeOK
<1>7. /\ cover'[a].key = key[r] /\ cover'[a].id = id[r]
      /\ \A b \in NewsIds \ {a} : cover'[b] = cover[b]
  BY <1>3, <1>4 DEF MediaInv, MediaTypeOK
<1>8. ImageOK(k)
  BY <1>2 DEF MediaInv
<1>9. articles' \subseteq NewsIds /\ r \notin Cleaners
  BY DEF MediaTypeOK
<1>10. CASE key[r] # k
  <2>1. SameImage(k)
    BY <1>3, <1>5, <1>7, <1>9, <1>10 DEF SameImage, mediaVars
  <2>2. key'[r] = k => RequestOK(r, k)'
    BY <1>6 DEF RequestOK, UploadStates
  <2>3. QED
    BY <1>2, <1>9, <1>10, <2>1, <2>2, LocalStep
<1>11. CASE key[r] = k
  <2>1. \A x \in Actors : key[x] = k => pc[x] \notin RemovalStates
    BY <1>2, <1>5, <1>11, NoRemoval
  <2>2. k \in files /\ mark[k] = None /\ id[r] # 0 /\ rowId[k] # 0
    BY <1>2, <1>5, <1>8, <1>11, <2>1, Marker DEF ImageOK, RequestOK
  <2>3. \A q \in Requests : key'[q] = k => RequestOK(q, k)'
    BY <1>2, <1>5, <1>6, <1>8, <2>1, <2>2 DEF OthersSame, ImageOK, RequestOK, UploadStates, RemovalStates,
       mediaVars
  <2>4. \A c \in Cleaners : key'[c] = k => CleanerOK(c, k)'
    BY <1>2, <2>1 DEF OthersSame, CleanerOK
  <2>5. \A b \in articles' \ trashedNews' : cover'[b].key = k => cover'[b].id # 0
    BY <1>3, <1>5, <1>7, <1>8, <1>9, <2>2 DEF ImageOK, TableOK
  <2>6. TableOK(k)'
    BY <1>5, <2>2, <2>5 DEF TableOK, mediaVars
  <2>7. QED
    BY <1>2, <2>3, <2>4, <2>6 DEF ImageOK
<1>12. QED
  BY <1>10, <1>11

LEMMA DeleteRowStep ==
    ASSUME NoneAssumption, MediaBoundsAssumption, ActorsAssumption, MediaInv, MediaTypeOK', NEW r \in Requests, DeleteRow(r), Track,
           NEW k \in Untouched'
    PROVE  ImageOK(k)'
<1> USE NoneAssumption, ActorsAssumption DEF Actors
<1>1. RequestStep(r)
  BY DEF RequestStep, Remove
<1>2. k \in Untouched /\ k \in Keys /\ Peaceful(k)' /\ OthersSame(r)
  BY <1>1, FaultsStay, FewerUntouched, RequestFrame DEF MediaInv
<1>3. /\ UNCHANGED <<files, articles, trashedNews>> /\ pc[r] = "selected" /\ key[r] \in Keys
  BY DEF DeleteRow, MediaInv, HeldInv, RequestInvOf
<1>4. ImageOK(k)
  BY <1>2 DEF MediaInv
<1>5. articles' \subseteq NewsIds /\ r \notin Cleaners
  BY DEF MediaTypeOK
<1>6. CASE rowId[key[r]] # id[r]
  <2>1. UNCHANGED <<rowId, mark, cover>> /\ key'[r] = None
    BY <1>6 DEF DeleteRow, End, Handle, MediaInv, MediaTypeOK
  <2>2. SameImage(k)
    BY <1>3, <2>1 DEF SameImage
  <2>3. QED
    BY <1>2, <1>3, <1>5, <2>1, <2>2, LocalStep
<1>7. CASE rowId[key[r]] = id[r]
  <2>1. DeleteMedia(key[r]) /\ UNCHANGED <<key, id>> /\ pc'[r] = "unlinking"
    BY <1>7 DEF DeleteRow, MediaInv, MediaTypeOK
  <2>2. RowGone(key[r])
    BY <1>3, <2>1, MediaBoundsAssumption, DeletedMedia DEF MediaInv
  <2>3. CASE key[r] # k
    <3>1. SameImage(k)
      BY <1>2, <1>3, <1>5, <2>2, <2>3 DEF SameImage, RowGone
    <3>2. QED
      BY <1>2, <1>5, <2>1, <2>3, <3>1, LocalStep
  <2>4. CASE key[r] = k
    <3>1. \A q \in Requests : key[q] = k => pc[q] \notin UploadStates \cup {"resolved"}
      BY <1>2, <1>3, <2>4, NoUse DEF RemovalStates
    <3>2. Unattached(k)' /\ Unreferenced(k)'
      BY <2>2, <2>4 DEF Unattached, Unreferenced, RowGone
    <3>3. \A q \in Requests : key'[q] = k => RequestOK(q, k)'
      BY <1>2, <2>1, <2>2, <2>4, <3>1, <3>2 DEF OthersSame, RequestOK, UploadStates, RowGone
    <3>4. \A c \in Cleaners : key'[c] = k => CleanerOK(c, k)'
      BY <1>2, <1>3, <1>4, <2>1, <2>2, <2>4, <3>2 DEF OthersSame, ImageOK, CleanerOK, RowGone
    <3>5. \A a \in articles \ trashedNews : cover[a].key # k
      BY <1>3, <1>4, <1>5, <2>4 DEF ImageOK, TableOK, RequestOK, Unreferenced
    <3>6. TableOK(k)'
      BY <1>3, <1>5, <2>1, <2>2, <2>4, <3>5 DEF TableOK, RowGone
    <3>7. QED
      BY <1>2, <3>3, <3>4, <3>6 DEF ImageOK
  <2>5. QED
    BY <2>3, <2>4
<1>8. QED
  BY <1>6, <1>7

LEMMA RemoveFileStep ==
    ASSUME NoneAssumption, ActorsAssumption, MediaInv, MediaTypeOK', NEW r \in Requests, RemoveFile(r), Track,
           NEW k \in Untouched'
    PROVE  ImageOK(k)'
<1> USE NoneAssumption, ActorsAssumption DEF Actors
<1>1. RequestStep(r)
  BY DEF RequestStep, Remove
<1>2. k \in Untouched /\ k \in Keys /\ Peaceful(k)' /\ OthersSame(r)
  BY <1>1, FaultsStay, FewerUntouched, RequestFrame DEF MediaInv
<1>3. /\ UNCHANGED <<mediaVars, newsVars>> /\ files' = files \ {key[r]}
      /\ pc[r] = "unlinking" /\ key'[r] = None
  BY DEF RemoveFile, End, Handle, MediaInv, MediaTypeOK
<1>4. CASE key[r] # k
  <2>1. SameImage(k)
    BY <1>2, <1>3, <1>4 DEF SameImage, mediaVars, newsVars
  <2>2. articles' \subseteq NewsIds /\ r \notin Cleaners
    BY DEF MediaTypeOK
  <2>3. QED
    BY <1>2, <1>3, <1>4, <2>1, <2>2, LocalStep
<1>5. CASE key[r] = k
  <2>1. ImageOK(k)
    BY <1>2 DEF MediaInv
  <2>2. rowId[k] = 0
    BY <1>3, <1>5, <2>1 DEF ImageOK, RequestOK
  <2>3. \A q \in Requests : key[q] = k => pc[q] \notin UploadStates \cup {"resolved"}
    BY <1>2, <1>3, <1>5, NoUse DEF RemovalStates
  <2>4. \A q \in Requests : key'[q] = k => RequestOK(q, k)'
    BY <1>2, <1>3, <2>1, <2>2, <2>3 DEF OthersSame, ImageOK, RequestOK, UploadStates, Unreferenced,
       mediaVars, newsVars
  <2>5. \A c \in Cleaners : key'[c] = k => CleanerOK(c, k)'
    BY <1>2, <1>3, <1>5, <2>1, <2>2 DEF OthersSame, ImageOK, CleanerOK, Unattached, mediaVars, newsVars
  <2>6. mark[k] = None
    BY <1>2, <2>2, Marker
  <2>7. \A a \in articles \ trashedNews : cover[a].key # k
    BY <1>2, <2>1, <2>2 DEF MediaInv, MediaTypeOK, ImageOK, TableOK
  <2>8. TableOK(k)'
    BY <1>3, <1>5, <2>2, <2>6, <2>7 DEF TableOK, mediaVars, newsVars
  <2>9. QED
    BY <1>2, <2>4, <2>5, <2>8 DEF ImageOK
<1>6. QED
  BY <1>4, <1>5

-----------------------------------------------------------------------------
(* Passes of the cleanup.                                                  *)

\* Steps that change nothing of image k.
LEMMA CleanerOnlyReads ==
    ASSUME NoneAssumption, ActorsAssumption, MediaInv, MediaTypeOK', NEW c \in Cleaners,
           FindCandidates(c) \/ CheckReferences(c) \/ SelectMarked(c) \/ EndCleanup(c) \/ FailCleanup(c),
           Track, NEW k \in Untouched'
    PROVE  ImageOK(k)'
<1> USE NoneAssumption, ActorsAssumption DEF Actors
<1>1. CleanerStep(c)
  BY DEF CleanerStep, CleanupPending
<1>2. k \in Untouched /\ k \in Keys /\ Peaceful(k)' /\ OthersSame(c) /\ articles' \subseteq NewsIds
  BY <1>1, FewerUntouched, CleanerFrame DEF MediaInv, MediaTypeOK
<1>3. UNCHANGED <<rowId, files, newsVars>>
  BY DEF FindCandidates, CheckReferences, SelectMarked, EndCleanup, FailCleanup, mediaVars
<1>4. ImageOK(k)
  BY <1>2 DEF MediaInv
<1>5. mark[k] = c => pc[c] \in RemovalStates /\ key[c] = k /\ id[c] = rowId[k]
  BY <1>2, Marker
<1>6. key[c] = k => CleanerOK(c, k)
  BY <1>4 DEF ImageOK
<1>7. /\ SameImage(k)
      /\ key'[c] = k => CleanerOK(c, k)'
      /\ mark[k] = c => pc'[c] \in RemovalStates /\ key'[c] = k /\ id'[c] = id[c]
  <2>1. CASE FindCandidates(c)
    <3>1. mark[k] # c /\ pc'[c] = "cleaning" /\ mark'[k] = mark[k]
      BY <1>2, <1>5, <2>1 DEF FindCandidates, Advance, RemovalStates, MediaInv, MediaTypeOK
    <3>2. QED
      BY <1>3, <3>1 DEF SameImage, CleanerOK, RemovalStates, newsVars
  <2>2. CASE CheckReferences(c)
    <3>1. mark' = mark /\ key' = key /\ id' = id /\ pc[c] = "marked"
      BY <2>2 DEF CheckReferences, Advance, mediaVars
    <3>2. key[c] = k => pc'[c] = "checked"
      BY <1>6, <2>2, <3>1 DEF CheckReferences, Advance, CleanerOK, RemovalStates, MediaInv, MediaTypeOK
    <3>3. QED
      BY <1>3, <1>5, <1>6, <3>1, <3>2 DEF SameImage, CleanerOK, RemovalStates, Unattached, newsVars
  <2>3. CASE SelectMarked(c)
    <3>1. mark' = mark /\ key' = key /\ id' = id /\ pc[c] = "unlinked" /\ pc'[c] \in {"selected", "cleaning"}
      BY <2>3 DEF SelectMarked, Advance, mediaVars, MediaInv, MediaTypeOK
    <3>2. mark[k] = c => pc'[c] = "selected"
      BY <1>5, <1>6, <2>3, <3>1 DEF SelectMarked, Advance, Marked, CleanerOK, RemovalStates, MediaInv,
         MediaTypeOK
    <3>3. QED
      BY <1>3, <1>5, <1>6, <3>1, <3>2 DEF SameImage, CleanerOK, RemovalStates, Unattached, newsVars
  <2>4. CASE EndCleanup(c) \/ FailCleanup(c)
    <3>1. mark' = mark /\ key'[c] = None
      BY <2>4 DEF EndCleanup, FailCleanup, Handle, mediaVars, MediaInv, MediaTypeOK
    <3>2. mark[k] # c
      BY <1>2, <1>5, <2>4 DEF EndCleanup, FailCleanup, Advance, RemovalStates, Untouched
    <3>3. QED
      BY <1>2, <1>3, <3>1, <3>2 DEF SameImage, newsVars
  <2>5. QED
    BY <2>1, <2>2, <2>3, <2>4
<1>8. QED
  BY <1>2, <1>7, LocalStep

LEMMA MarkCandidateStep ==
    ASSUME NoneAssumption, ActorsAssumption, MediaInv, MediaTypeOK', NEW c \in Cleaners, MarkCandidate(c),
           Track, NEW k \in Untouched'
    PROVE  ImageOK(k)'
<1> USE NoneAssumption, ActorsAssumption DEF Actors
<1>1. CleanerStep(c)
  BY DEF CleanerStep, CleanupPending
<1>2. k \in Untouched /\ k \in Keys /\ Peaceful(k)' /\ OthersSame(c) /\ articles' \subseteq NewsIds
  BY <1>1, FewerUntouched, CleanerFrame DEF MediaInv, MediaTypeOK
<1>3. UNCHANGED <<rowId, files, newsVars>> /\ pc[c] = "cleaning"
  BY DEF MarkCandidate
<1>4. ImageOK(k)
  BY <1>2 DEF MediaInv
<1>5. mark[k] # c
  BY <1>2, <1>3, Marker DEF RemovalStates
<1>6. PICK m \in todo[c] :
         IF rowId[m.key] = m.id /\ Unattached(m.key)
         THEN /\ mark' = [mark EXCEPT ![m.key] = c]
              /\ Handle(c, m.key, m.id)
              /\ pc' = [pc EXCEPT ![c] = "marked"]
         ELSE UNCHANGED <<mark, pc, key, id>>
  BY DEF MarkCandidate
<1>7. m.key \in Keys /\ m.id # 0
  BY DEF MediaInv, MediaTypeOK, HeldInv, CleanerInvOf
<1>8. CASE ~(rowId[m.key] = m.id /\ Unattached(m.key))
  <2>1. UNCHANGED <<mark, pc, key, id>>
    BY <1>6, <1>8
  <2>2. SameImage(k)
    BY <1>3, <2>1 DEF SameImage, newsVars
  <2>3. QED
    BY <1>2, <1>3, <1>5, <2>1, <2>2, LocalStep DEF CleanerOK, RemovalStates
<1>9. CASE rowId[m.key] = m.id /\ Unattached(m.key)
  <2>1. /\ mark' = [mark EXCEPT ![m.key] = c]
        /\ pc'[c] = "marked" /\ key'[c] = m.key /\ id'[c] = m.id
    BY <1>6, <1>9 DEF Handle, MediaInv, MediaTypeOK
  <2>2. CASE m.key # k
    <3>1. SameImage(k)
      BY <1>2, <1>3, <2>1, <2>2 DEF SameImage, newsVars, MediaInv, MediaTypeOK
    <3>2. QED
      BY <1>2, <1>5, <2>1, <2>2, <3>1, LocalStep
  <2>3. CASE m.key = k
    <3>1. mark'[k] = c /\ c # None /\ rowId'[k] # 0
      BY <1>2, <1>3, <1>7, <1>9, <2>1, <2>3 DEF MediaInv, MediaTypeOK
    <3>2. \A q \in Requests : key'[q] = k => RequestOK(q, k)'
      BY <1>2, <1>3, <1>4 DEF OthersSame, ImageOK, RequestOK, Unreferenced, newsVars
    <3>3. \A d \in Cleaners : key'[d] = k => CleanerOK(d, k)'
      <4>1. Unattached(k)'
        BY <1>3, <1>9, <2>3 DEF Unattached, newsVars
      <4>2. ASSUME NEW d \in Cleaners, key'[d] = k, d # c PROVE CleanerOK(d, k)'
        BY <1>2, <1>3, <1>4, <3>1, <4>1, <4>2 DEF OthersSame, ImageOK, CleanerOK
      <4>3. CleanerOK(c, k)'
        BY <2>1, <3>1, <4>1 DEF CleanerOK
      <4>4. QED
        BY <4>2, <4>3
    <3>4. TableOK(k)'
      BY <1>3, <1>4, <1>9, <2>1, <2>3, <3>1 DEF ImageOK, TableOK, RemovalStates, newsVars
    <3>5. QED
      BY <1>2, <3>2, <3>3, <3>4 DEF ImageOK
  <2>4. QED
    BY <2>2, <2>3
<1>10. QED
  BY <1>8, <1>9

LEMMA RemoveBlobStep ==
    ASSUME NoneAssumption, ActorsAssumption, MediaInv, MediaTypeOK', NEW c \in Cleaners, RemoveBlob(c),
           Track, NEW k \in Untouched'
    PROVE  ImageOK(k)'
<1> USE NoneAssumption, ActorsAssumption DEF Actors
<1>1. CleanerStep(c)
  BY DEF CleanerStep, CleanupPending
<1>2. k \in Untouched /\ k \in Keys /\ Peaceful(k)' /\ OthersSame(c) /\ articles' \subseteq NewsIds
  BY <1>1, FewerUntouched, CleanerFrame DEF MediaInv, MediaTypeOK
<1>3. /\ UNCHANGED <<mediaVars, newsVars, key, id>> /\ files' = files \ {key[c]}
      /\ pc[c] = "checked" /\ pc'[c] = "unlinked"
  BY DEF RemoveBlob, Advance, MediaInv, MediaTypeOK
<1>4. ImageOK(k)
  BY <1>2 DEF MediaInv
<1>5. CASE key[c] # k
  <2>1. SameImage(k) /\ mark[k] # c
    BY <1>2, <1>3, <1>5, Marker DEF SameImage, mediaVars, newsVars
  <2>2. QED
    BY <1>2, <1>3, <1>5, <2>1, LocalStep
<1>6. CASE key[c] = k
  <2>1. Unattached(k) /\ (rowId[k] # 0 => mark[k] # None)
    BY <1>3, <1>4, <1>6 DEF ImageOK, CleanerOK, RemovalStates
  <2>2. \A q \in Requests : key[q] = k => pc[q] \notin UploadStates \cup {"resolved"}
    BY <1>2, <1>3, <1>6, NoUse DEF RemovalStates
  <2>3. \A q \in Requests : key'[q] = k => RequestOK(q, k)'
    BY <1>2, <1>3, <1>4, <2>2 DEF OthersSame, ImageOK, RequestOK, UploadStates, Unreferenced, mediaVars,
       newsVars
  <2>4. \A d \in Cleaners : key'[d] = k => CleanerOK(d, k)'
    BY <1>3, <1>6, <2>1 DEF CleanerOK, Unattached, mediaVars, newsVars
  <2>5. mark[k] # None => pc'[mark[k]] \in RemovalStates
    BY <1>2, <1>3, Marker DEF OthersSame, RemovalStates
  <2>6. \A a \in articles \ trashedNews : cover[a].key # k
    BY <1>4, <2>1 DEF ImageOK, TableOK, Unattached, MediaInv, MediaTypeOK
  <2>7. TableOK(k)'
    BY <1>3, <1>4, <1>6, <2>1, <2>5, <2>6 DEF ImageOK, TableOK, mediaVars, newsVars
  <2>8. QED
    BY <1>2, <2>3, <2>4, <2>7 DEF ImageOK
<1>7. QED
  BY <1>5, <1>6

LEMMA DropMarkedStep ==
    ASSUME NoneAssumption, MediaBoundsAssumption, ActorsAssumption, MediaInv, MediaTypeOK', NEW c \in Cleaners, DropMarked(c),
           Track, NEW k \in Untouched'
    PROVE  ImageOK(k)'
<1> USE NoneAssumption, ActorsAssumption DEF Actors
<1>1. CleanerStep(c)
  BY DEF CleanerStep, CleanupPending
<1>2. k \in Untouched /\ k \in Keys /\ Peaceful(k)' /\ OthersSame(c) /\ articles' \subseteq NewsIds
  BY <1>1, FewerUntouched, CleanerFrame DEF MediaInv, MediaTypeOK
<1>3. /\ UNCHANGED <<files, articles, trashedNews, key, id>>
      /\ pc[c] = "selected" /\ pc'[c] = "cleaning" /\ key[c] \in Keys
  BY DEF DropMarked, Advance, MediaInv, MediaTypeOK, HeldInv, CleanerInvOf, RemovalStates
<1>4. ImageOK(k)
  BY <1>2 DEF MediaInv
<1>5. mark[k] = c => key[c] = k /\ id[c] = rowId[k]
  BY <1>2, Marker
<1>6. CASE ~Marked(c)
  <2>1. UNCHANGED <<rowId, mark, cover>>
    BY <1>6 DEF DropMarked
  <2>2. mark[k] # c
    BY <1>5, <1>6 DEF Marked
  <2>3. SameImage(k)
    BY <1>3, <2>1 DEF SameImage
  <2>4. QED
    BY <1>2, <1>3, <2>2, <2>3, LocalStep DEF CleanerOK, RemovalStates
<1>7. CASE Marked(c)
  <2>1. RowGone(key[c])
    BY <1>3, <1>7, MediaBoundsAssumption, DeletedMedia DEF DropMarked, MediaInv
  <2>2. CASE key[c] # k
    <3>1. SameImage(k)
      BY <1>2, <1>3, <2>1, <2>2 DEF SameImage, RowGone
    <3>2. QED
      BY <1>2, <1>3, <1>5, <2>2, <3>1, LocalStep
  <2>3. CASE key[c] = k
    <3>1. \A q \in Requests : key[q] = k => pc[q] \notin UploadStates \cup {"resolved"}
      BY <1>2, <1>3, <2>3, NoUse DEF RemovalStates
    <3>2. Unattached(k)' /\ Unreferenced(k)'
      BY <2>1, <2>3 DEF Unattached, Unreferenced, RowGone
    <3>3. Unattached(k) /\ k \notin files
      BY <1>3, <1>4, <2>3 DEF ImageOK, CleanerOK, RemovalStates
    <3>4. \A q \in Requests : key'[q] = k => RequestOK(q, k)'
      BY <1>2, <2>1, <2>3, <1>3, <3>1, <3>2 DEF OthersSame, RequestOK, UploadStates, RowGone
    <3>5. \A d \in Cleaners : key'[d] = k => CleanerOK(d, k)'
      BY <1>3, <2>1, <2>3, <3>2, <3>3 DEF CleanerOK, RowGone
    <3>6. \A a \in articles \ trashedNews : cover[a].key # k
      BY <1>4, <3>3 DEF ImageOK, TableOK
    <3>7. TableOK(k)'
      BY <1>2, <1>3, <2>1, <2>3, <3>3, <3>6 DEF TableOK, RowGone
    <3>8. QED
      BY <1>2, <3>4, <3>5, <3>7 DEF ImageOK
  <2>4. QED
    BY <2>2, <2>3
<1>8. QED
  BY <1>6, <1>7

-----------------------------------------------------------------------------

LEMMA CrashStep ==
    ASSUME NoneAssumption, ActorsAssumption, MediaInv, MediaTypeOK', Crash, Track, NEW k \in Untouched'
    PROVE  ImageOK(k)'
<1> USE NoneAssumption, ActorsAssumption DEF Actors
<1>1. k \in Untouched /\ k \in Keys /\ Peaceful(k)' /\ k \notin faulty'
  BY FewerUntouched DEF Crash, MediaInv, Untouched
<1>2. ImageOK(k) /\ ~Removing(k) /\ ~Uploading(k)
  BY <1>1 DEF MediaInv, Crash
<1>3. UNCHANGED <<mediaVars, files, newsVars>> /\ \A x \in Actors : key'[x] = None
  BY DEF Crash
<1>4. mark[k] = None
  BY <1>1, <1>2, Marker DEF Removing
<1>5. ~(k \in files /\ rowId[k] = 0)
  BY <1>2 DEF ImageOK, TableOK, Removing, Uploading, RemovalStates, UploadStates
<1>6. TableOK(k)'
  BY <1>2, <1>3, <1>4, <1>5 DEF ImageOK, TableOK, mediaVars, newsVars
<1>7. QED
  BY <1>1, <1>3, <1>6 DEF ImageOK

LEMMA AgeStep ==
    ASSUME MediaInv, NEW i \in Keys, Age(i), Track, NEW k \in Untouched'
    PROVE  ImageOK(k)'
<1>1. k \in Untouched /\ k \in Keys /\ Peaceful(k)'
  BY FewerUntouched DEF Age, MediaInv
<1>2. ImageOK(k)
  BY <1>1 DEF MediaInv
<1>3. QED
  BY <1>1, <1>2 DEF ImageOK, RequestOK, CleanerOK, TableOK, Unattached, Unreferenced, Age, newsVars

LEMMA RequestImages ==
    ASSUME NoneAssumption, MediaBoundsAssumption, ActorsAssumption, MediaInv, MediaTypeOK', NEW r \in Requests, RequestStep(r), Track,
           NEW k \in Untouched'
    PROVE  ImageOK(k)'
BY StoreOnlyReads, NewsOnlyReads, WriteFileStep, SaveRowStep, WriteNewsStep, DeleteRowStep, RemoveFileStep
   DEF RequestStep, Store, EditNews, Remove

LEMMA CleanerImages ==
    ASSUME NoneAssumption, MediaBoundsAssumption, ActorsAssumption, MediaInv, MediaTypeOK', NEW c \in Cleaners, CleanerStep(c), Track,
           NEW k \in Untouched'
    PROVE  ImageOK(k)'
BY CleanerOnlyReads, MarkCandidateStep, RemoveBlobStep, DropMarkedStep
   DEF CleanerStep, CleanupPending

LEMMA InitMediaInv ==
    ASSUME NoneAssumption, MediaBoundsAssumption, ActorsAssumption, MediaInit
    PROVE  MediaInv
<1> USE NoneAssumption, MediaBoundsAssumption, ActorsAssumption DEF MediaInit, Actors
<1>1. MediaTypeOK
  BY DEF MediaTypeOK, States, NoCover, Ids
<1>2. HeldInv
  BY DEF HeldInv, RequestInvOf, CleanerInvOf, RequestStates, CleanerStates, States, UploadStates,
     RemovalStates, NoCover
<1>3. ASSUME NEW k \in Untouched PROVE ImageOK(k)
  <2>1. k \in Keys /\ k # None
    BY DEF Untouched
  <2>2. Peaceful(k) /\ TableOK(k)
    BY <2>1 DEF Peaceful, Removing, TableOK, RemovalStates
  <2>3. QED
    BY <2>1, <2>2 DEF ImageOK
<1>4. QED
  BY <1>1, <1>2, <1>3 DEF MediaInv

LEMMA StutterMediaInv ==
    ASSUME MediaInv, UNCHANGED imageVars
    PROVE  MediaInv'
BY DEF MediaInv, imageVars, mediaVars, newsVars, requestVars, MediaTypeOK, HeldInv, RequestInvOf,
   CleanerInvOf, Untouched, ImageOK,
       Peaceful, Removing, Using, Uploading, RequestOK, CleanerOK, TableOK, Unattached, Unreferenced

LEMMA NextMediaInv ==
    ASSUME NoneAssumption, MediaBoundsAssumption, ActorsAssumption, MediaInv, MediaNext
    PROVE  MediaInv'
<1>1. Track /\ MediaTypeOK /\ HeldInv
  BY DEF MediaNext, MediaInv
<1>2. ASSUME NEW r \in Requests, RequestStep(r) PROVE MediaInv'
  <2>1. MediaTypeOK' /\ HeldInv'
    BY <1>1, <1>2, RequestTypes, NoneAssumption, MediaBoundsAssumption, ActorsAssumption
  <2>2. \A k \in Untouched' : ImageOK(k)'
    BY <1>1, <1>2, <2>1, RequestImages, NoneAssumption, MediaBoundsAssumption, ActorsAssumption
  <2>3. QED
    BY <2>1, <2>2 DEF MediaInv
<1>3. ASSUME NEW c \in Cleaners, CleanerStep(c) PROVE MediaInv'
  <2>1. MediaTypeOK' /\ HeldInv'
    BY <1>1, <1>3, CleanerTypes, NoneAssumption, MediaBoundsAssumption, ActorsAssumption
  <2>2. \A k \in Untouched' : ImageOK(k)'
    BY <1>1, <1>3, <2>1, CleanerImages, NoneAssumption, MediaBoundsAssumption, ActorsAssumption
  <2>3. QED
    BY <2>1, <2>2 DEF MediaInv
<1>4. ASSUME NEW k \in Keys, Age(k) PROVE MediaInv'
  <2>1. MediaTypeOK' /\ HeldInv'
    BY <1>1, <1>4, AgeTypes
  <2>2. \A i \in Untouched' : ImageOK(i)'
    BY <1>1, <1>4, AgeStep
  <2>3. QED
    BY <2>1, <2>2 DEF MediaInv
<1>5. CASE Crash
  <2>1. MediaTypeOK' /\ HeldInv'
    BY <1>1, <1>5, CrashTypes, NoneAssumption, MediaBoundsAssumption, ActorsAssumption
  <2>2. \A k \in Untouched' : ImageOK(k)'
    BY <1>1, <1>5, <2>1, CrashStep, NoneAssumption, ActorsAssumption
  <2>3. QED
    BY <2>1, <2>2 DEF MediaInv
<1>6. QED
  BY <1>2, <1>3, <1>4, <1>5 DEF MediaNext, RequestStep, CleanerStep

LEMMA MediaInvImplies ==
    ASSUME MediaInv
    PROVE  ImagesAreExplained /\ LiveCoversAreServed
<1> USE DEF MediaInv, Untouched
<1>1. ASSUME NEW k \in Untouched PROVE ImageOK(k) /\ k \in Keys
  OBVIOUS
<1>2. MissingImagesAreExplained
  <2>1. SUFFICES ASSUME NEW k \in Untouched, rowId[k] # 0, k \notin files PROVE Removing(k)
    BY DEF MissingImagesAreExplained
  <2>2. mark[k] # None
    BY <1>1, <2>1 DEF ImageOK, TableOK
  <2>3. QED
    BY <2>2, Marker DEF Removing, Actors
<1>3. OrphansAreExplained
  <2>1. SUFFICES ASSUME NEW k \in Untouched, k \in files, rowId[k] = 0 PROVE Uploading(k) \/ Removing(k)
    BY DEF OrphansAreExplained, MediaTypeOK
  <2>2. PICK r \in Requests : key[r] = k /\ pc[r] \in {"saving", "unlinking"}
    BY <1>1, <2>1 DEF ImageOK, TableOK
  <2>3. QED
    BY <2>2 DEF Uploading, Removing, Actors, UploadStates, RemovalStates
<1>4. LiveCoversAreServed
  <2>1. SUFFICES ASSUME NEW a \in articles \ trashedNews, cover[a].key # None, cover[a].key \in Untouched
                 PROVE  cover[a].key \in files /\ cover[a].id # 0
    BY DEF LiveCoversAreServed, MediaTypeOK
  <2>2. QED
    BY <1>1, <2>1 DEF ImageOK, TableOK
<1>5. QED
  BY <1>2, <1>3, <1>4 DEF ImagesAreExplained

LEMMA MediaInvariance == MediaSpec => []MediaInv
<1>1. MediaInit => MediaInv
  BY InitMediaInv, NoneAssumption, MediaBoundsAssumption, ActorsAssumption
<1>2. MediaInv /\ [MediaNext]_imageVars => MediaInv'
  BY NextMediaInv, StutterMediaInv, NoneAssumption, MediaBoundsAssumption, ActorsAssumption
<1>3. QED
  BY <1>1, <1>2, PTL DEF MediaSpec

\* ImagesAreExplained: a row without its file is being removed, a file without
\* its row is being uploaded or removed, and otherwise a fault has left the
\* image in the middle or a removal has met a use of it.
THEOREM Images == MediaSpec => []ImagesAreExplained
<1>1. MediaInv => ImagesAreExplained
  BY MediaInvImplies
<1>2. QED
  BY <1>1, MediaInvariance, PTL

\* LiveCoversAreServed: whatever requests, cleanups and crashes do, a live
\* article keeps the image and the row of its cover, unless a removal of the
\* image has met a use of it or a fault has left it in the middle.
THEOREM LiveCovers == MediaSpec => []LiveCoversAreServed
<1>1. MediaInv => LiveCoversAreServed
  BY MediaInvImplies
<1>2. QED
  BY <1>1, MediaInvariance, PTL
=============================================================================
