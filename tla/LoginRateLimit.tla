--------------------------- MODULE LoginRateLimit ---------------------------
(***************************************************************************)
(* AdminAuthRateLimitService and the login that calls it                   *)
(* (src/system/user).  Failed attempts are counted in two rows: one of the *)
(* address, one of the address and the login name.  A failure reads a row, *)
(* counts in memory and writes the row back, without transaction or lock;  *)
(* `new Date()` is taken before the statement it is for is sent.  So every *)
(* statement is a step, and time[r] was fixed at the step before it.       *)
(***************************************************************************)
EXTENDS Naturals, FiniteSets

CONSTANTS
    Attempts,     \* logins served at the same time
    Addresses, Names,
    MaxAttempts,  \* ADMIN_AUTH_RATE_LIMIT_MAX_ATTEMPTS
    Window,       \* ..._WINDOW_SECONDS, in instants
    Block,        \* ..._BLOCK_SECONDS, in instants
    MaxTime,      \* bound of the clock
    None

ASSUME AttemptsAssumption == IsFiniteSet(Attempts)
ASSUME DurationsAssumption ==
    /\ MaxAttempts \in Nat \ {0} /\ Window \in Nat \ {0} /\ Block \in Nat \ {0}
    /\ MaxTime \in Nat

AddressKey(a) == <<a>>
CredentialKey(a, n) == <<a, n>>
Keys == {AddressKey(a) : a \in Addresses}
            \cup {CredentialKey(a, n) : a \in Addresses, n \in Names}

Rows == [start : Nat, attempts : Nat \ {0}, until : Nat \cup {None}]

ASSUME NoneAssumption == None \notin Nat \cup Keys \cup Rows

VARIABLES
    now,     \* the clock
    bucket,  \* bucket[k]: row of admin_auth_rate_limit_buckets, or None
    stage,   \* stage[r]: what attempt r does next
    who,     \* who[r]: address and name attempt r is for
    time,    \* time[r]: the `now` of the function r is in
    key,     \* key[r]: the row r counts in
    seen,    \* seen[r]: the row as r read it, or None
    outrun,  \* history: <<r, k>> if a block was written to k after r was let in
    failed,  \* history: failures counted in k since its window was opened
    raced    \* history: keys where a write-back overlapped another since then

attemptVars == <<stage, who, time, key, seen>>
historyVars == <<outrun, failed, raced>>
limiterVars == <<now, bucket, attemptVars, historyVars>>

LetIn == {"password", "succeeded", "reading", "writing"}

LimiterTypeOK ==
    /\ now \in 0..MaxTime
    /\ \A k \in Keys : bucket[k] \in Rows \cup {None}
    /\ stage \in [Attempts -> LetIn \cup {"idle", "asserting"}]
    /\ who \in [Attempts -> (Addresses \X Names) \cup {None}]
    /\ time \in [Attempts -> 0..MaxTime]
    /\ key \in [Attempts -> Keys \cup {None}]
    /\ \A r \in Attempts : seen[r] \in Rows \cup {None}
    /\ outrun \subseteq Attempts \X Keys
    /\ failed \in [Keys -> Nat]
    /\ raced \subseteq Keys

LimiterInit ==
    /\ now = 0
    /\ bucket = [k \in Keys |-> None]
    /\ stage = [r \in Attempts |-> "idle"]
    /\ who = [r \in Attempts |-> None]
    /\ time = [r \in Attempts |-> 0]
    /\ key = [r \in Attempts |-> None]
    /\ seen = [r \in Attempts |-> None]
    /\ outrun = {} /\ raced = {}
    /\ failed = [k \in Keys |-> 0]

Tick ==
    /\ now < MaxTime
    /\ now' = now + 1
    /\ UNCHANGED <<bucket, attemptVars, historyVars>>

-----------------------------------------------------------------------------
(* A login *)

Goto(r, state) == stage' = [stage EXCEPT ![r] = state]

Leave(r) ==
    /\ Goto(r, "idle")
    /\ who' = [who EXCEPT ![r] = None]
    /\ key' = [key EXCEPT ![r] = None]
    /\ seen' = [seen EXCEPT ![r] = None]
    /\ time' = [time EXCEPT ![r] = 0]

Forget(r) == {p \in outrun : p[1] # r}

Begin(r, a, n) ==
    /\ stage[r] = "idle"
    /\ Goto(r, "asserting")
    /\ who' = [who EXCEPT ![r] = <<a, n>>]
    /\ time' = [time EXCEPT ![r] = now]
    /\ key' = [key EXCEPT ![r] = AddressKey(a)]
    /\ UNCHANGED <<now, bucket, seen, historyVars>>

\* Mutation of KeysOf: the row of the credential is not looked at.
KeysOf_Address(r) == {AddressKey(who[r][1])}

\* findMany reads both rows in one statement.
KeysOf(r) == {AddressKey(who[r][1]), CredentialKey(who[r][1], who[r][2])}

BlockedAt(k, t) == bucket[k] # None /\ bucket[k].until # None /\ bucket[k].until > t

\* 429, with the seconds until the row that was found lets the next attempt in.
RefuseBlocked(r) ==
    /\ stage[r] = "asserting"
    /\ \E k \in KeysOf(r) : BlockedAt(k, time[r])
    /\ Leave(r)
    /\ UNCHANGED <<now, bucket, historyVars>>

Admit(r) ==
    /\ stage[r] = "asserting"
    /\ \A k \in KeysOf(r) : ~BlockedAt(k, time[r])
    /\ Goto(r, "password")
    /\ UNCHANGED <<now, bucket, who, time, key, seen, historyVars>>

RightPassword(r) ==
    /\ stage[r] = "password"
    /\ Goto(r, "succeeded")
    /\ UNCHANGED <<now, bucket, who, time, key, seen, historyVars>>

RecordSuccess(r) ==
    LET credential == CredentialKey(who[r][1], who[r][2]) IN
    /\ stage[r] = "succeeded"
    /\ bucket' = [bucket EXCEPT ![credential] = None]
    /\ failed' = [failed EXCEPT ![credential] = 0]
    /\ raced' = raced \ {credential}
    /\ outrun' = Forget(r)
    /\ Leave(r)
    /\ UNCHANGED now

WrongPassword(r) ==
    /\ stage[r] = "password"
    /\ Goto(r, "reading")
    /\ time' = [time EXCEPT ![r] = now]
    /\ UNCHANGED <<now, bucket, who, key, seen, historyVars>>

-----------------------------------------------------------------------------
(* updateBucket, for the address and then for the credential *)

ReadBucket(r) ==
    /\ stage[r] = "reading"
    /\ Goto(r, "writing")
    /\ seen' = [seen EXCEPT ![r] = bucket[key[r]]]
    /\ UNCHANGED <<now, bucket, who, time, key, historyVars>>

Over(row, t) == row = None \/ t >= row.start + Window

Expired(r) == Over(seen[r], time[r])

\* Mutation of Counted: an expired row keeps counting.
Counted_On(r) == IF seen[r] = None THEN 1 ELSE seen[r].attempts + 1

Counted(r) == IF Expired(r) THEN 1 ELSE seen[r].attempts + 1

\* Mutation of BlockedUntil: the block comes one failure late.
BlockedUntil_Late(r) ==
    IF Counted(r) > MaxAttempts + 1 THEN time[r] + Block ELSE None

BlockedUntil(r) == IF Counted(r) > MaxAttempts THEN time[r] + Block ELSE None

\* The `create` branch of the upsert opens a window even when a row was read.
NewRow(r) ==
    [start    |-> IF Expired(r) \/ bucket[key[r]] = None THEN time[r] ELSE seen[r].start,
     attempts |-> Counted(r),
     until    |-> BlockedUntil(r)]

\* After the row of the address comes the row of the credential.
NextBucket(r) ==
    IF key[r] = AddressKey(who[r][1])
    THEN /\ Goto(r, "reading")
         /\ key' = [key EXCEPT ![r] = CredentialKey(who[r][1], who[r][2])]
         /\ time' = [time EXCEPT ![r] = now]
         /\ seen' = [seen EXCEPT ![r] = None]
         /\ UNCHANGED who
    ELSE Leave(r)

WriteBucket(r) ==
    LET k == key[r]
        overlapped == bucket[k] # seen[r]
        others == {s \in Attempts \ {r} : stage[s] \in LetIn}
        remembered == IF stage'[r] = "idle" THEN Forget(r) ELSE outrun
    IN /\ stage[r] = "writing"
       /\ bucket' = [bucket EXCEPT ![k] = NewRow(r)]
       /\ NextBucket(r)
       /\ failed' = [failed EXCEPT ![k] = IF Over(bucket[k], time[r]) THEN 1 ELSE @ + 1]
       /\ raced' = IF overlapped THEN raced \cup {k}
                   ELSE IF Expired(r) THEN raced \ {k} ELSE raced
       /\ outrun' = remembered \cup
                        IF NewRow(r).until = None THEN {} ELSE others \X {k}
       /\ UNCHANGED now

AttemptStep(r) ==
    \/ \E a \in Addresses, n \in Names : Begin(r, a, n)
    \/ RefuseBlocked(r) \/ Admit(r)
    \/ RightPassword(r) \/ RecordSuccess(r)
    \/ WrongPassword(r) \/ ReadBucket(r) \/ WriteBucket(r)

LimiterNext == Tick \/ \E r \in Attempts : AttemptStep(r)

LimiterSpec == LimiterInit /\ [][LimiterNext]_limiterVars

-----------------------------------------------------------------------------
(* Properties *)

\* Failures that do not overlap are all counted: the row says how many there
\* were since its window was opened, and blocks from the one after MaxAttempts
\* on.  Only a write-back over a row that another attempt has changed since it
\* was read loses failures (updateBucket).
OnlyOverlapsLoseFailures ==
    \A k \in Keys : bucket[k] # None /\ k \notin raced =>
        /\ bucket[k].attempts = failed[k]
        /\ bucket[k].until # None <=> failed[k] > MaxAttempts

\* The rows are well-formed and count exactly but for such overlaps.
CountsAreExact == LimiterTypeOK /\ OnlyOverlapsLoseFailures

\* While a block runs, its row is changed, prolonged or lifted only by an
\* attempt that was let in before the block was written; nobody who comes
\* later gets as far as the password, not even with a clock read before a
\* slow findMany (assertAllowed against updateBucket and recordSuccess).
BlockOutrunOnlyFromInside ==
    [][\A k \in Keys : BlockedAt(k, now) /\ bucket'[k] # bucket[k] =>
          \E r \in Attempts : <<r, k>> \in outrun /\ stage'[r] # stage[r]]_limiterVars

\* What overlapping can add while the first window of a row runs and its block
\* outlasts it: of two logins at a time, each write-back of an old count takes
\* back at most what the other has counted since, so (m + 1)(m + 4) / 2
\* failures get through in all, where m + 1 would if none overlapped.
OverlapsAreBounded ==
    Cardinality(Attempts) = 2 /\ Block >= Window /\ now < Window =>
        \A k \in Keys : 2 * failed[k] <= (MaxAttempts + 1) * (MaxAttempts + 4)
=============================================================================
