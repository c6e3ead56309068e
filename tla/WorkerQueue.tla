---------------------------- MODULE WorkerQueue ----------------------------
(* The durable worker queue of packages/core/src/runtime/worker.ts and the  *)
(* row store of sqlite.ts behind it: jobs, leases, fencing tokens and       *)
(* two-phase cancellation.  Every operation is one store transaction, so    *)
(* one action.  The callers are as free as the store leaves them: a claim   *)
(* ever handed out may be used again at any time, which covers workers that *)
(* crashed, paused, retried, or run next to their successor.                *)
EXTENDS Integers

CONSTANTS
    Jobs,         \* proposed jobs; each has a fresh id, so an id is never reused
    KeyOf,        \* the idempotencyKey of a proposed job
    TypeOf,       \* its type
    MaxAttempts,  \* its maxAttempts
    Types,        \* job types
    Owners,       \* worker ids
    NoOwner,      \* the absent leaseOwner
    RowStore      \* TRUE: claimJob of the SQL store; FALSE: the document stores

ASSUME OwnersAssumption == NoOwner \notin Owners
ASSUME AttemptsAssumption == MaxAttempts \in [Jobs -> Nat \ {0}]
ASSUME TypesAssumption == TypeOf \in [Jobs -> Types]
ASSUME StoreAssumption == RowStore \in BOOLEAN

VARIABLES
    status,    \* WorkerJobStatus, or "absent" (no row yet) and "pruned" (row deleted)
    rowid,     \* the insertion order claim follows
    nextRow,   \* the rowid of the next insertion
    attempts,  \* attempts
    token,     \* fencingToken
    owner,     \* leaseOwner
    live,      \* leaseExpiresAt > now
    result,    \* fencing token of the attempt whose result is stored, 0 for none
    claims,    \* history: every claim handed out
    ended      \* history: the claims whose lease lapsed or was given back

queueVars ==
    <<status, rowid, nextRow, attempts, token, owner, live, result, claims, ended>>

Terminal == {"succeeded", "failed", "cancelled"}
Status == {"absent", "queued", "leased", "cancellation_requested", "pruned"} \cup Terminal
Claims == [job : Jobs, owner : Owners, token : Nat]

Present(j) == status[j] \notin {"absent", "pruned"}

\* The claim a job's row names as the holder of its lease.
Holder(j) == [job |-> j, owner |-> owner[j], token |-> token[j]]

----------------------------------------------------------------------------
QueueInit ==
    /\ status = [j \in Jobs |-> "absent"]
    /\ rowid = [j \in Jobs |-> 0]
    /\ nextRow = 1
    /\ attempts = [j \in Jobs |-> 0]
    /\ token = [j \in Jobs |-> 0]
    /\ owner = [j \in Jobs |-> NoOwner]
    /\ live = [j \in Jobs |-> FALSE]
    /\ result = [j \in Jobs |-> 0]
    /\ claims = {}
    /\ ended = {}

\* enqueue: a row with the same idempotency key is returned instead of inserted.
Enqueue(j) ==
    /\ status[j] = "absent"
    /\ \A i \in Jobs : Present(i) => KeyOf[i] # KeyOf[j]
    /\ status' = [status EXCEPT ![j] = "queued"]
    /\ rowid' = [rowid EXCEPT ![j] = nextRow]
    /\ nextRow' = nextRow + 1
    /\ UNCHANGED <<attempts, token, owner, live, result, claims, ended>>

----------------------------------------------------------------------------
\* claim.  A lease that is not live has expired.

\* Mutant: a claim that takes leased jobs without comparing leaseExpiresAt.
ExpiredAtOnce(j, s) == status[j] = s

Expired(j, s) == status[j] = s /\ ~live[j]

\* cancellation_requested jobs whose acknowledgement lease expired.
Abandoned == {j \in Jobs : Expired(j, "cancellation_requested")}

\* Mutant: one attempt too many.
SpentLate(j) == attempts[j] > MaxAttempts[j]

Spent(j) == attempts[j] >= MaxAttempts[j]

\* Jobs of the given types that wait for a worker or lost theirs.
Candidates(T) ==
    {j \in Jobs : TypeOf[j] \in T /\ (status[j] = "queued" \/ Expired(j, "leased"))}

\* The first of a set of jobs in row order (empty for the empty set).
First(S) == {j \in S : \A i \in S : rowid[j] <= rowid[i]}

\* What claim writes: the picked job is leased to o under the next fencing
\* token, the failed ones become terminal, the cleared ones lose their owner.
Dispense(o, picked, failed, cleared) ==
    /\ status' = [j \in Jobs |-> IF j \in picked THEN "leased"
                                 ELSE IF j \in failed THEN "failed" ELSE status[j]]
    /\ attempts' = [j \in Jobs |-> IF j \in picked THEN attempts[j] + 1 ELSE attempts[j]]
    /\ token' = [j \in Jobs |-> IF j \in picked THEN token[j] + 1 ELSE token[j]]
    /\ owner' = [j \in Jobs |-> IF j \in picked THEN o
                                ELSE IF j \in cleared THEN NoOwner ELSE owner[j]]
    /\ live' = [j \in Jobs |-> j \in picked \/ (live[j] /\ j \notin cleared)]
    /\ claims' = claims \cup {[job |-> j, owner |-> o, token |-> token[j] + 1] : j \in picked}
    /\ UNCHANGED <<rowid, nextRow, result, ended>>

\* The jobs claim hands out: at most one.  The document store gives up when
\* the first candidate has no attempt left, even if others wait behind it.
Offered(T) ==
    IF RowStore
    THEN First({j \in Candidates(T) : ~Spent(j)})
    ELSE {j \in First(Candidates(T)) : ~Spent(j)}

\* Mutant: a claim that passes over the jobs it can no longer lease.
ClaimRowSkipping(o, T) == Dispense(o, Offered(T), Abandoned, Abandoned)

\* claimJob of the SQL store fails every expired job it can no longer lease.
ClaimRow(o, T) ==
    LET spent == {j \in Jobs : Expired(j, "leased") /\ Spent(j)}
    IN  Dispense(o, Offered(T), Abandoned \cup spent, Abandoned \cup spent)

\* claim of the document stores fails only the first candidate, and leaves the
\* owner of a job it fails that way in place.
ClaimDocument(o, T) ==
    LET spent == {j \in First(Candidates(T)) : Spent(j)}
    IN  Dispense(o, Offered(T), Abandoned \cup spent, Abandoned)

ClaimJob(o, T) == IF RowStore THEN ClaimRow(o, T) ELSE ClaimDocument(o, T)

----------------------------------------------------------------------------
\* The holder's operations.  None of them looks at leaseExpiresAt: a worker
\* whose lease expired keeps the job until another one claims it.

\* Mutant: ownership by worker id alone, without the fencing token.
OwnsById(c, s) == status[c.job] = s /\ owner[c.job] = c.owner

Owns(c, s) == status[c.job] = s /\ owner[c.job] = c.owner /\ token[c.job] = c.token

GiveBack(c, s) ==
    /\ status' = [status EXCEPT ![c.job] = s]
    /\ owner' = [owner EXCEPT ![c.job] = NoOwner]
    /\ live' = [live EXCEPT ![c.job] = FALSE]
    /\ ended' = ended \cup {c}
    /\ UNCHANGED <<rowid, nextRow, attempts, token, claims>>

Heartbeat(c) ==
    /\ Owns(c, "leased")
    /\ live' = [live EXCEPT ![c.job] = TRUE]
    /\ ended' = ended \ {c}
    /\ UNCHANGED <<status, rowid, nextRow, attempts, token, owner, result, claims>>

Finish(c) ==
    /\ Owns(c, "leased")
    /\ result' = [result EXCEPT ![c.job] = c.token]
    /\ GiveBack(c, "succeeded")

Fail(c, retry) ==
    /\ Owns(c, "leased")
    /\ GiveBack(c, IF retry /\ ~Spent(c.job) THEN "queued" ELSE "failed")
    /\ UNCHANGED result

AcknowledgeCancellation(c) ==
    /\ Owns(c, "cancellation_requested")
    /\ GiveBack(c, "cancelled")
    /\ UNCHANGED result

\* requestCancellation: a queued job is cancelled at once, a leased one only
\* marked; every other answer leaves the row as it is.
RequestCancellation(j) ==
    /\ status[j] \in {"queued", "leased"}
    /\ status' = [status EXCEPT ![j] =
                    IF @ = "queued" THEN "cancelled" ELSE "cancellation_requested"]
    /\ UNCHANGED <<rowid, nextRow, attempts, token, owner, live, result, claims, ended>>

\* prune deletes terminal rows past their retention; only the SQL store has it.
Prune(j) ==
    /\ RowStore
    /\ status[j] \in Terminal
    /\ status' = [status EXCEPT ![j] = "pruned"]
    /\ UNCHANGED <<rowid, nextRow, attempts, token, owner, live, result, claims, ended>>

\* The clock passes leaseExpiresAt.
LeaseExpires(j) ==
    /\ live[j]
    /\ live' = [live EXCEPT ![j] = FALSE]
    /\ ended' = ended \cup {Holder(j)}
    /\ UNCHANGED <<status, rowid, nextRow, attempts, token, owner, result, claims>>

----------------------------------------------------------------------------
QueueNext ==
    \/ \E j \in Jobs :
         Enqueue(j) \/ RequestCancellation(j) \/ Prune(j) \/ LeaseExpires(j)
    \/ \E o \in Owners, T \in SUBSET Types : ClaimJob(o, T)
    \/ \E c \in claims :
         \/ Heartbeat(c) \/ Finish(c) \/ AcknowledgeCancellation(c)
         \/ \E retry \in BOOLEAN : Fail(c, retry)

QueueSpec == QueueInit /\ [][QueueNext]_queueVars

----------------------------------------------------------------------------
\* The rows, the claims and the lease histories have the types of the source.
QueueTypeOK ==
    /\ status \in [Jobs -> Status]
    /\ rowid \in [Jobs -> Nat]
    /\ nextRow \in Nat \ {0}
    /\ attempts \in [Jobs -> Nat]
    /\ token \in [Jobs -> Nat]
    /\ owner \in [Jobs -> Owners \cup {NoOwner}]
    /\ live \in [Jobs -> BOOLEAN]
    /\ result \in [Jobs -> Nat]
    /\ claims \subseteq Claims
    /\ ended \subseteq claims

\* Lease exclusivity: of all the claims ever handed out for a job, at most one
\* has a lease that has neither expired nor been given back, and while the job
\* is running under a live lease that one is the holder its row names.
LeaseExclusive ==
    /\ \A c, d \in claims \ ended : c.job = d.job => c = d
    /\ \A j \in Jobs : live[j] => Holder(j) \in claims \ ended

\* Fencing: the stored result is the one of the job's last claim, however many
\* earlier holders woke up and tried to deliver theirs.
ResultOfLastClaim ==
    \A j \in Jobs : status[j] = "succeeded" =>
        /\ result[j] = token[j]
        /\ \A c \in claims : c.job = j => c.token <= result[j]

\* The attempts budget: however leases expire and workers retry, a job is never
\* handed out more often than its maxAttempts, each time under a token of its own.
AttemptsBudget ==
    /\ \A c \in claims : c.token \in 1..MaxAttempts[c.job]
    /\ \A c, d \in claims : c.job = d.job /\ c.token = d.token => c = d

\* The inductive core of the queue: every claim has a token its job issued, no
\* two the same, and the token counts the attempts; a running job's row names a
\* claim that is open exactly while the lease is live; no other claim is open;
\* a queued job has an attempt left.
TokensIssued == \A c \in claims : c.token \in 1..token[c.job]
TokensUnique == \A c, d \in claims : c.job = d.job /\ c.token = d.token => c = d
TokensCount == \A j \in Jobs : token[j] = attempts[j] /\ attempts[j] <= MaxAttempts[j]
HolderClaimed ==
    \A j \in Jobs : status[j] \in {"leased", "cancellation_requested"} =>
        Holder(j) \in claims /\ (live[j] <=> Holder(j) \notin ended)
LiveIsRunning == \A j \in Jobs : live[j] => status[j] \in {"leased", "cancellation_requested"}
OpenIsHolder == \A c \in claims \ ended : c = Holder(c.job) /\ live[c.job]
ResultFenced == \A j \in Jobs : status[j] = "succeeded" => result[j] = token[j]
AttemptLeft ==
    \A j \in Jobs : /\ status[j] = "absent" => attempts[j] = 0
                    /\ status[j] = "queued" => ~Spent(j)

RowsMatchClaims ==
    /\ AttemptLeft /\ TokensIssued /\ TokensUnique /\ TokensCount
    /\ HolderClaimed /\ LiveIsRunning /\ OpenIsHolder /\ ResultFenced

\* Cancellation sticks: once a request was answered with cancelled or
\* cancellation_requested, no later step makes the job claimable or successful.
CancellationSticks ==
    [][\A j \in Jobs : status[j] \in {"cancellation_requested", "cancelled"} =>
           status'[j] \in {"cancellation_requested", "cancelled", "failed", "pruned"}]_queueVars

\* A terminal outcome is final: late heartbeats, commits, retries and sweeps
\* neither revive a settled job nor replace its stored result.
OutcomeIsFinal ==
    [][\A j \in Jobs : status[j] \in Terminal \cup {"pruned"} =>
           status'[j] \in {status[j], "pruned"} /\ result'[j] = result[j]]_queueVars

\* Idempotent enqueue: two present rows never carry the same key.
OneRowPerKey ==
    \A i, j \in Jobs : Present(i) /\ Present(j) /\ KeyOf[i] = KeyOf[j] => i = j
----------------------------------------------------------------------------
\* The queue as its producers see it: leases and retries are not visible.
Phase(s) == IF s \in {"queued", "leased"} THEN "open"
            ELSE IF s = "cancellation_requested" THEN "cancelling"
            ELSE IF s = "pruned" THEN "forgotten" ELSE s

phaseOf == [j \in Jobs |-> Phase(status[j])]

Contract == INSTANCE JobContract WITH phase <- phaseOf, tries <- token, winner <- result

\* The queue implements the contract: every claim sweep, late settlement and
\* cancellation is, job by job, a step the contract allows.
ImplementsContract == Contract!Spec
============================================================================
