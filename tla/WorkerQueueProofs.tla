------------------------- MODULE WorkerQueueProofs -------------------------
(* Theorems about the worker queue, for every set of jobs, owners and types. *)
EXTENDS WorkerQueue, TLAPS

Inv == QueueTypeOK /\ RowsMatchClaims

USE DEF Claims, Holder

LEMMA InitInv == QueueInit => Inv
  BY AttemptsAssumption DEF QueueInit, Inv, QueueTypeOK, RowsMatchClaims, Status, Terminal,
     TokensIssued, TokensUnique, TokensCount, HolderClaimed, LiveIsRunning, OpenIsHolder,
     ResultFenced, AttemptLeft

\* What claim offers is waiting or expired, and has an attempt left.
LEMMA OfferedJobs ==
    ASSUME NEW T, NEW j \in Offered(T)
    PROVE  /\ j \in Jobs
           /\ ~Spent(j)
           /\ status[j] = "queued" \/ Expired(j, "leased")
  BY DEF Offered, First, Candidates

\* Claim writes the rows it picked, fails expired ones, and leaves the others.
LEMMA DispenseStep ==
    ASSUME NEW o \in Owners, NEW picked, NEW failed, NEW cleared,
           Inv, Dispense(o, picked, failed, cleared),
           cleared \subseteq failed,
           \A j \in picked : j \in Jobs /\ ~Spent(j) /\ (status[j] = "queued" \/ Expired(j, "leased")),
           \A j \in failed : j \in Jobs /\ (Expired(j, "leased") \/ Expired(j, "cancellation_requested"))
    PROVE  Inv'
  <1> USE AttemptsAssumption, OwnersAssumption
  <1> USE DEF Inv, QueueTypeOK, RowsMatchClaims, Dispense
  <1> DEFINE new(j) == [job |-> j, owner |-> o, token |-> token[j] + 1]
  <1>0. /\ \A j \in picked : new(j) \in Claims
        /\ claims' = claims \cup {new(j) : j \in picked}
        /\ ended' = ended /\ result' = result
    OBVIOUS
  <1>a. \A j \in picked : \A c \in claims : c.job = j => c.token <= token[j]
    BY DEF TokensIssued
  <1>1. QueueTypeOK'
    <2>1. status' \in [Jobs -> Status]
      BY DEF Status, Terminal
    <2>2. attempts' \in [Jobs -> Nat] /\ token' \in [Jobs -> Nat]
      OBVIOUS
    <2>3. owner' \in [Jobs -> Owners \cup {NoOwner}]
      OBVIOUS
    <2>4. live' \in [Jobs -> BOOLEAN]
      OBVIOUS
    <2>5. claims' \subseteq Claims /\ ended' \subseteq claims'
      BY <1>0
    <2>6. QED
      BY <2>1, <2>2, <2>3, <2>4, <2>5
  <1>2. TokensIssued'
    BY DEF TokensIssued
  <1>3. TokensUnique'
    BY <1>a, <1>0 DEF TokensUnique
  <1>4. TokensCount'
    BY DEF TokensCount, Spent
  <1>5. HolderClaimed'
    <2> SUFFICES ASSUME NEW j \in Jobs, status'[j] \in {"leased", "cancellation_requested"}
                 PROVE  Holder(j)' \in claims' /\ (live'[j] <=> Holder(j)' \notin ended')
      BY DEF HolderClaimed
    <2>1. CASE j \in picked
      <3>1. Holder(j)' = new(j) /\ live'[j]
        BY <2>1
      <3>2. new(j) \notin claims
        BY <2>1, <1>a
      <3>3. QED
        BY <2>1, <3>1, <3>2, <1>0
    <2>2. CASE j \notin picked
      <3>1. j \notin failed /\ status[j] \in {"leased", "cancellation_requested"}
        BY <2>2
      <3>2. Holder(j)' = Holder(j) /\ live'[j] = live[j]
        BY <2>2, <3>1
      <3>3. QED
        BY <3>1, <3>2, <1>0 DEF HolderClaimed
    <2>3. QED
      BY <2>1, <2>2
  <1>6. LiveIsRunning'
    BY DEF LiveIsRunning, Expired
  <1>7. OpenIsHolder'
    <2> SUFFICES ASSUME NEW c \in claims', c \notin ended'
                 PROVE  c = Holder(c.job)' /\ live'[c.job]
      BY DEF OpenIsHolder
    <2>1. CASE \E j \in picked : c = new(j)
      <3>1. PICK j \in picked : c = new(j)
        BY <2>1
      <3>2. j \in Jobs /\ c.job = j /\ Holder(j)' = new(j) /\ live'[j]
        BY <3>1
      <3>3. QED
        BY <3>1, <3>2
    <2>2. CASE c \in claims
      <3>1. c.job \in Jobs /\ c = Holder(c.job) /\ live[c.job]
        BY <2>2, <1>0 DEF OpenIsHolder
      <3>2. c.job \notin picked /\ c.job \notin failed
        BY <3>1 DEF LiveIsRunning, Expired
      <3>3. Holder(c.job)' = Holder(c.job) /\ live'[c.job]
        BY <3>1, <3>2
      <3>4. QED
        BY <3>1, <3>3
    <2>3. QED
      BY <2>1, <2>2, <1>0
  <1>8. ResultFenced'
    BY DEF ResultFenced, Expired
  <1>9. AttemptLeft'
    BY DEF AttemptLeft, Spent, Expired
  <1>10. QED
    BY <1>1, <1>2, <1>3, <1>4, <1>5, <1>6, <1>7, <1>8, <1>9

\* Every holder operation that gives the job back keeps the invariant.
LEMMA GiveBackStep ==
    ASSUME NEW c \in claims, NEW s \in Status, Inv,
           Owns(c, "leased") \/ Owns(c, "cancellation_requested"),
           GiveBack(c, s),
           s \notin {"leased", "cancellation_requested", "absent"},
           s = "queued" => ~Spent(c.job),
           result' \in [Jobs -> Nat],
           \A j \in Jobs : j # c.job => result'[j] = result[j],
           s = "succeeded" => result'[c.job] = c.token
    PROVE  Inv'
  <1> USE DEF Inv, QueueTypeOK, RowsMatchClaims, GiveBack
  <1>0. c \in Claims /\ c = Holder(c.job)
    BY DEF Owns
  <1>1. QueueTypeOK'
    BY <1>0
  <1>2. TokensIssued' /\ TokensUnique' /\ TokensCount'
    BY DEF TokensIssued, TokensUnique, TokensCount
  <1>3. HolderClaimed'
    <2> SUFFICES ASSUME NEW j \in Jobs, status'[j] \in {"leased", "cancellation_requested"}
                 PROVE  Holder(j)' \in claims' /\ (live'[j] <=> Holder(j)' \notin ended')
      BY DEF HolderClaimed
    <2>1. j # c.job
      BY <1>0
    <2>2. Holder(j)' = Holder(j) /\ live'[j] = live[j] /\ status[j] = status'[j] /\ Holder(j) # c
      BY <1>0, <2>1
    <2>3. QED
      BY <2>2 DEF HolderClaimed
  <1>4. LiveIsRunning'
    BY <1>0 DEF LiveIsRunning
  <1>5. OpenIsHolder'
    <2> SUFFICES ASSUME NEW d \in claims, d \notin ended, d # c
                 PROVE  d = Holder(d.job)' /\ live'[d.job]
      BY DEF OpenIsHolder
    <2>1. d = Holder(d.job) /\ live[d.job] /\ d.job \in Jobs
      BY DEF OpenIsHolder
    <2>2. d.job # c.job
      BY <1>0, <2>1
    <2>3. QED
      BY <2>1, <2>2
  <1>6. ResultFenced'
    BY <1>0 DEF ResultFenced
  <1>7. AttemptLeft'
    BY <1>0 DEF AttemptLeft, Spent
  <1>8. QED
    BY <1>1, <1>2, <1>3, <1>4, <1>5, <1>6, <1>7

LEMMA EnqueueStep == ASSUME NEW j \in Jobs, Inv, Enqueue(j) PROVE Inv'
  <1> USE DEF Inv, QueueTypeOK, RowsMatchClaims, Enqueue
  <1>1. QueueTypeOK'
    BY DEF Status
  <1>2. TokensIssued' /\ TokensUnique' /\ TokensCount' /\ OpenIsHolder' /\ ResultFenced'
    BY DEF TokensIssued, TokensUnique, TokensCount, OpenIsHolder, ResultFenced
  <1>a. AttemptLeft'
    <2>1. attempts[j] = 0 /\ MaxAttempts[j] \in Nat \ {0}
      BY AttemptsAssumption DEF AttemptLeft
    <2>2. ~Spent(j)
      BY <2>1 DEF Spent
    <2>3. QED
      BY <2>2 DEF AttemptLeft, Spent
  <1>3. HolderClaimed' /\ LiveIsRunning'
    BY DEF HolderClaimed, LiveIsRunning
  <1>4. QED
    BY <1>1, <1>2, <1>3, <1>a

LEMMA RequestCancellationStep == ASSUME NEW j \in Jobs, Inv, RequestCancellation(j) PROVE Inv'
  <1> USE DEF Inv, QueueTypeOK, RowsMatchClaims, RequestCancellation
  <1>1. QueueTypeOK'
    BY DEF Status, Terminal
  <1>2. TokensIssued' /\ TokensUnique' /\ TokensCount' /\ OpenIsHolder' /\ ResultFenced'
    BY DEF TokensIssued, TokensUnique, TokensCount, OpenIsHolder, ResultFenced
  <1>a. AttemptLeft'
    BY AttemptsAssumption DEF AttemptLeft, Spent, Terminal
  <1>3. HolderClaimed' /\ LiveIsRunning'
    BY DEF HolderClaimed, LiveIsRunning
  <1>4. QED
    BY <1>1, <1>2, <1>3, <1>a

LEMMA PruneStep == ASSUME NEW j \in Jobs, Inv, Prune(j) PROVE Inv'
  <1> USE DEF Inv, QueueTypeOK, RowsMatchClaims, Prune
  <1>1. QueueTypeOK'
    BY DEF Status
  <1>2. TokensIssued' /\ TokensUnique' /\ TokensCount' /\ OpenIsHolder' /\ ResultFenced'
    BY DEF TokensIssued, TokensUnique, TokensCount, OpenIsHolder, ResultFenced
  <1>a. AttemptLeft'
    BY AttemptsAssumption DEF AttemptLeft, Spent, Terminal
  <1>3. HolderClaimed' /\ LiveIsRunning'
    BY DEF HolderClaimed, LiveIsRunning, Terminal
  <1>4. QED
    BY <1>1, <1>2, <1>3, <1>a

LEMMA LeaseExpiresStep == ASSUME NEW j \in Jobs, Inv, LeaseExpires(j) PROVE Inv'
  <1> USE DEF Inv, QueueTypeOK, RowsMatchClaims, LeaseExpires
  <1>0. Holder(j) \in claims
    BY DEF HolderClaimed, LiveIsRunning
  <1>1. QueueTypeOK'
    BY <1>0
  <1>2. TokensIssued' /\ TokensUnique' /\ TokensCount' /\ ResultFenced' /\ LiveIsRunning'
    BY DEF TokensIssued, TokensUnique, TokensCount, ResultFenced, LiveIsRunning
  <1>a. AttemptLeft'
    BY DEF AttemptLeft, Spent
  <1>3. HolderClaimed'
    BY DEF HolderClaimed
  <1>4. OpenIsHolder'
    BY DEF OpenIsHolder
  <1>5. QED
    BY <1>1, <1>2, <1>3, <1>4, <1>a

LEMMA HeartbeatStep == ASSUME NEW c \in claims, Inv, Heartbeat(c) PROVE Inv'
  <1> USE DEF Inv, QueueTypeOK, RowsMatchClaims, Heartbeat
  <1>0. c \in Claims /\ c = Holder(c.job) /\ status[c.job] = "leased"
    BY DEF Owns
  <1>1. QueueTypeOK'
    OBVIOUS
  <1>2. TokensIssued' /\ TokensUnique' /\ TokensCount' /\ ResultFenced' /\ LiveIsRunning'
    BY <1>0 DEF TokensIssued, TokensUnique, TokensCount, ResultFenced, LiveIsRunning
  <1>a. AttemptLeft'
    BY DEF AttemptLeft, Spent
  <1>3. HolderClaimed'
    <2> SUFFICES ASSUME NEW j \in Jobs, status[j] \in {"leased", "cancellation_requested"}
                 PROVE  Holder(j) \in claims /\ (live'[j] <=> Holder(j) \notin ended')
      BY DEF HolderClaimed
    <2>1. CASE j = c.job
      BY <1>0, <2>1 DEF HolderClaimed
    <2>2. CASE j # c.job
      BY <1>0, <2>2 DEF HolderClaimed
    <2>3. QED
      BY <2>1, <2>2
  <1>4. OpenIsHolder'
    BY <1>0 DEF OpenIsHolder
  <1>5. QED
    BY <1>1, <1>2, <1>3, <1>4, <1>a

LEMMA ClaimJobStep == ASSUME NEW o \in Owners, NEW T, Inv, ClaimJob(o, T) PROVE Inv'
  <1> DEFINE lost == {j \in Jobs : Expired(j, "leased") /\ Spent(j)}
  <1> DEFINE firstLost == {j \in First(Candidates(T)) : Spent(j)}
  <1>1. \A j \in Offered(T) :
           j \in Jobs /\ ~Spent(j) /\ (status[j] = "queued" \/ Expired(j, "leased"))
    BY OfferedJobs
  <1>2. CASE RowStore
    <2>1. Dispense(o, Offered(T), Abandoned \cup lost, Abandoned \cup lost)
      BY <1>2 DEF ClaimJob, ClaimRow
    <2>2. \A j \in Abandoned \cup lost :
             j \in Jobs /\ (Expired(j, "leased") \/ Expired(j, "cancellation_requested"))
      BY DEF Abandoned
    <2>3. QED
      BY <1>1, <2>1, <2>2, DispenseStep
  <1>3. CASE ~RowStore
    <2>1. Dispense(o, Offered(T), Abandoned \cup firstLost, Abandoned)
      BY <1>3 DEF ClaimJob, ClaimDocument
    <2>2. \A j \in firstLost : j \in Jobs /\ Expired(j, "leased")
      \* A queued job has an attempt left: Fail requeues only such jobs.
      BY DEF First, Candidates, Expired, Inv, RowsMatchClaims, AttemptLeft
    <2>3. QED
      BY <1>1, <2>1, <2>2, DispenseStep DEF Abandoned
  <1>4. QED
    BY <1>2, <1>3

LEMMA FinishStep == ASSUME NEW c \in claims, Inv, Finish(c) PROVE Inv'
  <1>1. c.job \in Jobs /\ c.token \in Nat
    BY DEF Inv, QueueTypeOK
  <1>2. /\ result' \in [Jobs -> Nat]
        /\ \A j \in Jobs : j # c.job => result'[j] = result[j]
        /\ result'[c.job] = c.token
    BY <1>1 DEF Finish, Inv, QueueTypeOK
  <1>3. Owns(c, "leased") /\ GiveBack(c, "succeeded") /\ "succeeded" \in Status
    BY DEF Finish, Status, Terminal
  <1>4. QED
    BY <1>2, <1>3, GiveBackStep

LEMMA FailStep == ASSUME NEW c \in claims, NEW retry, Inv, Fail(c, retry) PROVE Inv'
  <1> DEFINE s == IF retry /\ ~Spent(c.job) THEN "queued" ELSE "failed"
  <1>1. Owns(c, "leased") /\ GiveBack(c, s) /\ UNCHANGED result
    BY DEF Fail
  <1>2. s \in Status /\ s \notin {"leased", "cancellation_requested", "absent"}
        /\ s # "succeeded" /\ (s = "queued" => ~Spent(c.job))
    BY DEF Status, Terminal
  <1>3. result' \in [Jobs -> Nat] /\ \A j \in Jobs : result'[j] = result[j]
    BY <1>1 DEF Inv, QueueTypeOK
  <1> HIDE DEF s
  <1>4. QED
    BY <1>1, <1>2, <1>3, GiveBackStep

LEMMA AcknowledgeStep == ASSUME NEW c \in claims, Inv, AcknowledgeCancellation(c) PROVE Inv'
  <1>1. Owns(c, "cancellation_requested") /\ GiveBack(c, "cancelled") /\ UNCHANGED result
    BY DEF AcknowledgeCancellation
  <1>2. "cancelled" \in Status
    BY DEF Status, Terminal
  <1>3. result' \in [Jobs -> Nat] /\ \A j \in Jobs : result'[j] = result[j]
    BY <1>1 DEF Inv, QueueTypeOK
  <1>4. QED
    BY <1>1, <1>2, <1>3, GiveBackStep

LEMMA NextInv == Inv /\ [QueueNext]_queueVars => Inv'
  <1> SUFFICES ASSUME Inv, [QueueNext]_queueVars PROVE Inv'
    OBVIOUS
  <1>1. ASSUME NEW j \in Jobs,
               Enqueue(j) \/ RequestCancellation(j) \/ Prune(j) \/ LeaseExpires(j)
        PROVE  Inv'
    BY <1>1, EnqueueStep, RequestCancellationStep, PruneStep, LeaseExpiresStep
  <1>2. ASSUME NEW o \in Owners, NEW T \in SUBSET Types, ClaimJob(o, T) PROVE Inv'
    BY <1>2, ClaimJobStep
  <1>3. ASSUME NEW c \in claims,
               Heartbeat(c) \/ Finish(c) \/ AcknowledgeCancellation(c)
                 \/ \E retry \in BOOLEAN : Fail(c, retry)
        PROVE  Inv'
    BY <1>3, HeartbeatStep, FinishStep, AcknowledgeStep, FailStep
  <1>4. CASE UNCHANGED queueVars
    BY <1>4 DEF queueVars, Inv, QueueTypeOK, RowsMatchClaims, AttemptLeft, TokensIssued,
       TokensUnique, TokensCount, HolderClaimed, LiveIsRunning, OpenIsHolder, ResultFenced, Spent
  <1>5. QED
    BY <1>1, <1>2, <1>3, <1>4 DEF QueueNext

\* The invariant that carries the queue: in every reachable state the rows, the
\* claims handed out and the open leases agree (claim, heartbeat, settlement,
\* cancellation and retention of the store, in any order).
THEOREM QueueInvariant == QueueSpec => []Inv
  <1>1. QED
    BY InitInv, NextInv, PTL DEF QueueSpec

\* The queue's state keeps its types.
THEOREM TypeCorrect == QueueSpec => []QueueTypeOK
  <1>1. Inv => QueueTypeOK
    BY DEF Inv
  <1>2. QED
    BY <1>1, QueueInvariant, PTL

\* At most one claim of a job has a lease that neither expired nor was given
\* back, for any number of workers and any pattern of expiry and heartbeat.
THEOREM LeaseIsExclusive == QueueSpec => []LeaseExclusive
  <1>1. Inv => LeaseExclusive
    BY DEF Inv, QueueTypeOK, RowsMatchClaims, LeaseExclusive, OpenIsHolder, HolderClaimed, LiveIsRunning
  <1>2. QED
    BY <1>1, QueueInvariant, PTL

\* A stored result is always the one of the job's last claim.
THEOREM ResultIsFenced == QueueSpec => []ResultOfLastClaim
  <1>1. Inv => ResultOfLastClaim
    BY DEF Inv, QueueTypeOK, RowsMatchClaims, ResultOfLastClaim, TokensIssued, ResultFenced
  <1>2. QED
    BY <1>1, QueueInvariant, PTL

\* A job is handed out at most maxAttempts times, each time under a new token.
THEOREM AttemptsAreBounded == QueueSpec => []AttemptsBudget
  <1>1. Inv => AttemptsBudget
    BY AttemptsAssumption DEF Inv, QueueTypeOK, RowsMatchClaims, AttemptsBudget,
       TokensIssued, TokensUnique, TokensCount
  <1>2. QED
    BY <1>1, QueueInvariant, PTL

\* What one step may do to a job that is being cancelled or is settled.
SettledStep(j) ==
    /\ status[j] = "cancellation_requested" =>
         status'[j] \in {"cancellation_requested", "cancelled", "failed"}
    /\ status[j] \in Terminal \cup {"pruned"} =>
         status'[j] \in {status[j], "pruned"} /\ result'[j] = result[j]

LEMMA DispenseSettles ==
    ASSUME Inv, NEW j \in Jobs, NEW o, NEW picked, NEW failed, NEW cleared,
           Dispense(o, picked, failed, cleared),
           \A i \in picked : status[i] \in {"queued", "leased"},
           \A i \in failed : status[i] \in {"queued", "leased", "cancellation_requested"}
    PROVE  SettledStep(j)
  BY DEF Dispense, SettledStep, Terminal, Inv, QueueTypeOK

LEMMA ClaimSettles ==
    ASSUME Inv, NEW j \in Jobs, NEW o, NEW T, ClaimJob(o, T)
    PROVE  SettledStep(j)
  <1> DEFINE lost == {i \in Jobs : Expired(i, "leased") /\ Spent(i)}
  <1> DEFINE firstLost == {i \in First(Candidates(T)) : Spent(i)}
  <1>1. \A i \in Offered(T) : status[i] \in {"queued", "leased"}
    BY OfferedJobs DEF Expired
  <1>2. \A i \in Abandoned \cup lost \cup firstLost :
           status[i] \in {"queued", "leased", "cancellation_requested"}
    BY DEF Abandoned, First, Candidates, Expired
  <1>3. \/ Dispense(o, Offered(T), Abandoned \cup lost, Abandoned \cup lost)
        \/ Dispense(o, Offered(T), Abandoned \cup firstLost, Abandoned)
    BY DEF ClaimJob, ClaimRow, ClaimDocument
  <1> HIDE DEF lost, firstLost
  <1>4. QED
    BY <1>1, <1>2, <1>3, DispenseSettles

LEMMA EveryStepSettles ==
    ASSUME Inv, [QueueNext]_queueVars, NEW j \in Jobs
    PROVE  SettledStep(j)
  <1> USE DEF SettledStep, Terminal, Inv, QueueTypeOK
  <1>1. ASSUME NEW i \in Jobs,
               Enqueue(i) \/ RequestCancellation(i) \/ Prune(i) \/ LeaseExpires(i)
        PROVE  SettledStep(j)
    BY <1>1 DEF Enqueue, RequestCancellation, Prune, LeaseExpires
  <1>2. ASSUME NEW o, NEW T, ClaimJob(o, T) PROVE SettledStep(j)
    BY <1>2, ClaimSettles
  <1>3. ASSUME NEW c \in claims,
               Heartbeat(c) \/ Finish(c) \/ AcknowledgeCancellation(c)
                 \/ \E retry \in BOOLEAN : Fail(c, retry)
        PROVE  SettledStep(j)
    BY <1>3 DEF Heartbeat, Finish, AcknowledgeCancellation, Fail, GiveBack, Owns
  <1>4. CASE UNCHANGED queueVars
    BY <1>4 DEF queueVars
  <1>5. QED
    BY <1>1, <1>2, <1>3, <1>4 DEF QueueNext

\* A cancellation that was accepted is never undone by a claim, a commit or a retry.
THEOREM CancellationIsKept == QueueSpec => CancellationSticks
  <1>1. Inv /\ [QueueNext]_queueVars =>
           \A j \in Jobs : status[j] \in {"cancellation_requested", "cancelled"} =>
             status'[j] \in {"cancellation_requested", "cancelled", "failed", "pruned"}
    BY EveryStepSettles DEF SettledStep, Terminal
  <1>2. QED
    BY <1>1, QueueInvariant, PTL DEF QueueSpec, CancellationSticks

\* A settled job keeps its status and its result until retention deletes the row.
THEOREM OutcomesAreFinal == QueueSpec => OutcomeIsFinal
  <1>1. Inv /\ [QueueNext]_queueVars =>
           \A j \in Jobs : status[j] \in Terminal \cup {"pruned"} =>
             status'[j] \in {status[j], "pruned"} /\ result'[j] = result[j]
    BY EveryStepSettles DEF SettledStep
  <1>2. QED
    BY <1>1, QueueInvariant, PTL DEF QueueSpec, OutcomeIsFinal

----------------------------------------------------------------------------
\* The refinement: every step of the queue is, job by job, a contract step.

LEMMA Phases ==
    /\ Phase("absent") = "absent" /\ Phase("queued") = "open" /\ Phase("leased") = "open"
    /\ Phase("cancellation_requested") = "cancelling" /\ Phase("succeeded") = "succeeded"
    /\ Phase("failed") = "failed" /\ Phase("cancelled") = "cancelled" /\ Phase("pruned") = "forgotten"
    /\ \A s \in Status : Phase(s) = "absent" <=> s = "absent"
    /\ \A s \in Status : Phase(s) = "forgotten" <=> s = "pruned"
  BY DEF Phase, Status, Terminal

\* A job whose row a step leaves alone takes the contract's stuttering step.
LEMMA Unmoved ==
    ASSUME NEW j \in Jobs, status'[j] = status[j], token'[j] = token[j], result'[j] = result[j]
    PROVE  Contract!JobStep(j)
  BY DEF Contract!JobStep, Contract!Stay, Contract!Becomes, phaseOf

\* A step that submits nothing meets the contract's one-submission condition.
NoneSubmitted == \A j \in Jobs : status[j] = "absent" => status'[j] = "absent"

LEMMA NoSubmission ==
    ASSUME Inv, NoneSubmitted, \A j \in Jobs : Contract!JobStep(j)
    PROVE  Contract!Next
  BY Phases DEF Contract!Next, NoneSubmitted, Inv, QueueTypeOK, phaseOf

LEMMA EnqueueContract == ASSUME Inv, NEW j \in Jobs, Enqueue(j) PROVE Contract!Next
  <1> USE DEF Enqueue, Inv, QueueTypeOK
  <1>1. \A i \in Jobs : i # j => status'[i] = status[i] /\ token'[i] = token[i] /\ result'[i] = result[i]
    OBVIOUS
  <1>2. Contract!JobStep(j)
    <2>1. phaseOf[j] = "absent" /\ phaseOf'[j] = "open" /\ token'[j] = token[j] /\ result'[j] = result[j]
      BY Phases DEF phaseOf
    <2>2. \A i \in Jobs : phaseOf[i] \notin {"absent", "forgotten"} => KeyOf[i] # KeyOf[j]
      BY Phases DEF phaseOf, Present
    <2>3. QED
      BY <2>1, <2>2 DEF Contract!JobStep, Contract!Submit, Contract!Becomes
  <1>3. \A i \in Jobs : Contract!JobStep(i)
    BY <1>1, <1>2, Unmoved
  <1>4. \A i \in Jobs : phaseOf[i] = "absent" /\ phaseOf'[i] = "open" => i = j
    BY <1>1, Phases DEF phaseOf
  <1>5. QED
    BY <1>3, <1>4 DEF Contract!Next

\* The job steps of claim: a try, giving up, or nothing.
LEMMA DispenseContract ==
    ASSUME Inv, NEW o, NEW picked, NEW failed, NEW cleared,
           Dispense(o, picked, failed, cleared),
           \A j \in picked : j \in Jobs /\ ~Spent(j) /\ (status[j] = "queued" \/ Expired(j, "leased")),
           \A j \in failed : j \in Jobs /\ (Expired(j, "leased") \/ Expired(j, "cancellation_requested"))
    PROVE  Contract!Next
  <1> USE DEF Dispense, Inv, QueueTypeOK
  <1> SUFFICES ASSUME NEW j \in Jobs PROVE Contract!JobStep(j)
    <2>1. NoneSubmitted
      BY DEF NoneSubmitted, Expired
    <2>2. QED
      BY <2>1, NoSubmission
  <1>1. CASE j \in picked
    <2>1. phaseOf[j] = "open" /\ phaseOf'[j] = "open" /\ token'[j] = token[j] + 1 /\ result'[j] = result[j]
      BY <1>1, Phases DEF phaseOf, Expired
    <2>2. token[j] < MaxAttempts[j]
      BY <1>1, AttemptsAssumption DEF Spent, RowsMatchClaims, TokensCount
    <2>3. QED
      BY <2>1, <2>2 DEF Contract!JobStep, Contract!Try
  <1>2. CASE j \in failed /\ j \notin picked
    <2>1. /\ phaseOf[j] \in {"open", "cancelling"} /\ phaseOf'[j] = "failed"
          /\ token'[j] = token[j] /\ result'[j] = result[j]
      BY <1>2, Phases DEF phaseOf, Expired
    <2>2. token[j] > 0
      <3>1. status[j] \in {"leased", "cancellation_requested"}
        BY <1>2 DEF Expired
      <3>2. Holder(j) \in claims
        BY <3>1 DEF RowsMatchClaims, HolderClaimed
      <3>3. QED
        BY <3>2 DEF RowsMatchClaims, TokensIssued
    <2>3. QED
      BY <2>1, <2>2 DEF Contract!JobStep, Contract!GiveUp, Contract!Becomes
  <1>3. CASE j \notin picked /\ j \notin failed
    BY <1>3, Unmoved
  <1>4. QED
    BY <1>1, <1>2, <1>3

LEMMA ClaimContract == ASSUME Inv, NEW o, NEW T, ClaimJob(o, T) PROVE Contract!Next
  <1> DEFINE lost == {i \in Jobs : Expired(i, "leased") /\ Spent(i)}
  <1> DEFINE firstLost == {i \in First(Candidates(T)) : Spent(i)}
  <1>1. \A j \in Offered(T) :
           j \in Jobs /\ ~Spent(j) /\ (status[j] = "queued" \/ Expired(j, "leased"))
    BY OfferedJobs
  <1>2. \A j \in Abandoned \cup lost \cup firstLost :
           j \in Jobs /\ (Expired(j, "leased") \/ Expired(j, "cancellation_requested"))
    BY DEF Abandoned, First, Candidates, Expired, Inv, RowsMatchClaims, AttemptLeft
  <1>3. \/ Dispense(o, Offered(T), Abandoned \cup lost, Abandoned \cup lost)
        \/ Dispense(o, Offered(T), Abandoned \cup firstLost, Abandoned)
    BY DEF ClaimJob, ClaimRow, ClaimDocument
  <1> HIDE DEF lost, firstLost
  <1>4. QED
    BY <1>1, <1>2, <1>3, DispenseContract

LEMMA HolderContract ==
    ASSUME Inv, NEW c \in claims,
           Finish(c) \/ AcknowledgeCancellation(c) \/ \E retry \in BOOLEAN : Fail(c, retry)
    PROVE  Contract!Next
  <1> USE DEF Finish, AcknowledgeCancellation, Fail, GiveBack, Owns, Inv, QueueTypeOK
  <1>0. c.job \in Jobs /\ token[c.job] = c.token /\ c.token > 0
    BY DEF RowsMatchClaims, TokensIssued
  <1>1. \A i \in Jobs : i # c.job =>
           status'[i] = status[i] /\ token'[i] = token[i] /\ result'[i] = result[i]
    BY <1>0
  <1>2. Contract!JobStep(c.job)
    <2>1. CASE Finish(c)
      <3>1. /\ phaseOf[c.job] = "open" /\ phaseOf'[c.job] = "succeeded"
            /\ token'[c.job] = token[c.job] /\ result'[c.job] = token[c.job]
        BY <1>0, <2>1, Phases DEF phaseOf
      <3>2. QED
        BY <1>0, <3>1 DEF Contract!JobStep, Contract!Succeed, Contract!Becomes
    <2>2. CASE AcknowledgeCancellation(c)
      <3>1. /\ phaseOf[c.job] = "cancelling" /\ phaseOf'[c.job] = "cancelled"
            /\ token'[c.job] = token[c.job] /\ result'[c.job] = result[c.job]
        BY <1>0, <2>2, Phases DEF phaseOf
      <3>2. QED
        BY <3>1 DEF Contract!JobStep, Contract!Cancel, Contract!Becomes
    <2>3. CASE \E retry \in BOOLEAN : Fail(c, retry)
      <3>1. /\ phaseOf[c.job] = "open" /\ phaseOf'[c.job] \in {"open", "failed"}
            /\ token'[c.job] = token[c.job] /\ result'[c.job] = result[c.job]
        BY <1>0, <2>3, Phases DEF phaseOf
      <3>2. QED
        BY <1>0, <3>1 DEF Contract!JobStep, Contract!Stay, Contract!GiveUp, Contract!Becomes
    <2>4. QED
      BY <2>1, <2>2, <2>3
  <1>3. \A i \in Jobs : Contract!JobStep(i)
    BY <1>1, <1>2, Unmoved
  <1>4. NoneSubmitted
    BY <1>0, <1>1 DEF NoneSubmitted
  <1>5. QED
    BY <1>3, <1>4, NoSubmission

LEMMA CancelContract ==
    ASSUME Inv, NEW j \in Jobs, RequestCancellation(j) \/ Prune(j)
    PROVE  Contract!Next
  <1> USE DEF RequestCancellation, Prune, Inv, QueueTypeOK
  <1>1. \A i \in Jobs : i # j => status'[i] = status[i] /\ token'[i] = token[i] /\ result'[i] = result[i]
    OBVIOUS
  <1>2. Contract!JobStep(j)
    <2>1. CASE RequestCancellation(j) /\ status[j] = "queued"
      BY <2>1, Phases DEF Contract!JobStep, Contract!Cancel, Contract!Becomes, phaseOf
    <2>2. CASE RequestCancellation(j) /\ status[j] = "leased"
      <3>1. Holder(j) \in claims
        BY <2>2 DEF RowsMatchClaims, HolderClaimed
      <3>2. token[j] > 0
        BY <3>1 DEF RowsMatchClaims, TokensIssued
      <3>3. QED
        BY <2>2, <3>2, Phases DEF Contract!JobStep, Contract!Cancel, Contract!Becomes, phaseOf
    <2>3. CASE Prune(j)
      BY <2>3, Phases DEF Contract!JobStep, Contract!Forget, Contract!Becomes, Contract!Settled, phaseOf, Terminal
    <2>4. QED
      BY <2>1, <2>2, <2>3 DEF RequestCancellation
  <1>3. \A i \in Jobs : Contract!JobStep(i)
    BY <1>1, <1>2, Unmoved
  <1>4. NoneSubmitted
    BY <1>1 DEF NoneSubmitted, Terminal
  <1>5. QED
    BY <1>3, <1>4, NoSubmission

LEMMA StepContract == Inv /\ [QueueNext]_queueVars => [Contract!Next]_(Contract!contractVars)
  <1> SUFFICES ASSUME Inv, [QueueNext]_queueVars PROVE [Contract!Next]_(Contract!contractVars)
    OBVIOUS
  <1>1. ASSUME NEW j \in Jobs, LeaseExpires(j) PROVE UNCHANGED Contract!contractVars
    BY <1>1 DEF LeaseExpires, Contract!contractVars, phaseOf
  <1>2. ASSUME NEW c \in claims, Heartbeat(c) PROVE UNCHANGED Contract!contractVars
    BY <1>2 DEF Heartbeat, Contract!contractVars, phaseOf
  <1>3. CASE UNCHANGED queueVars
    BY <1>3 DEF queueVars, Contract!contractVars, phaseOf
  <1>4. QED
    BY <1>1, <1>2, <1>3, EnqueueContract, ClaimContract, HolderContract, CancelContract DEF QueueNext

\* The queue implements the contract it gives its producers, for all constants.
THEOREM QueueImplementsContract == QueueSpec => ImplementsContract
  <1>1. QueueInit => Contract!Init
    BY Phases DEF QueueInit, Contract!Init, phaseOf
  <1>2. QED
    BY <1>1, StepContract, QueueInvariant, PTL DEF QueueSpec, ImplementsContract, Contract!Spec
============================================================================
