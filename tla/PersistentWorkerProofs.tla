----------------------- MODULE PersistentWorkerProofs -----------------------
(* The persistent worker for every number of workers, loops, jobs, stops and *)
(* crashes: it uses the queue only as the queue allows, so that what is      *)
(* proved of the queue holds for it, and its handlers exclude each other.    *)
EXTENDS PersistentWorker, WorkerQueueProofs

Places == {"idle", "claiming"} \cup InRun

LoopTypes ==
    /\ pc \in [Activities -> Places]
    /\ held \in [Activities -> claims \cup {NoClaim}]
    /\ beat \in [Activities -> claims \cup {NoClaim}]

\* A loop works with a claim exactly while it is in runOnce, and no two with one.
ClaimsInHand ==
    /\ \A p \in Activities : held[p] # NoClaim <=> pc[p] \in InRun
    /\ \A p, q \in Activities : held[p] = held[q] /\ held[p] # NoClaim => p = q

\* Only its own loop, which then lets go, settles the last claim of a job: until
\* then the job runs, or was failed because the lease had expired.
Unsettled(c) ==
    c.token = token[c.job] =>
        status[c.job] \in {"leased", "cancellation_requested", "failed", "pruned"}

StillUnsettled(c) ==
    c.token = token'[c.job] =>
        status'[c.job] \in {"leased", "cancellation_requested", "failed", "pruned"}

LastClaimUnsettled == \A p \in Activities : held[p] # NoClaim => Unsettled(held[p])

WorkerInv == Inv /\ LoopTypes /\ ClaimsInHand /\ LastClaimUnsettled

----------------------------------------------------------------------------
(* Every step is a step of the queue, or leaves it alone. *)

LEMMA StepOfQueue ==
    ASSUME WorkerInv, [Next]_vars
    PROVE  [QueueNext]_queueVars
<1> USE ActivitiesAssumption DEF WorkerInv, LoopTypes, ClaimsInHand
<1>1. CASE UNCHANGED vars
  BY <1>1 DEF vars
<1>2. CASE Outside
  BY <1>2 DEF Outside, QueueNext
<1>3. ASSUME NEW p \in Activities, LoopStep(p) PROVE [QueueNext]_queueVars
  <2>1. CASE ClaimLands(p)
    <3>1. WorkerOf[p] \in Owners /\ Handles[WorkerOf[p]] \in SUBSET Types
      OBVIOUS
    <3> QED BY <2>1, <3>1 DEF ClaimLands, QueueNext
  <2>2. ASSUME pc[p] \in InRun PROVE held[p] \in claims
    BY <2>2
  <2>3. CASE FinishLands(p)
    <3>1. held[p] \in claims
      BY <2>2, <2>3 DEF FinishLands, InRun
    <3> QED BY <2>3, <3>1 DEF FinishLands, QueueNext
  <2>4. CASE AcknowledgeLands(p)
    <3>1. held[p] \in claims
      BY <2>2, <2>4 DEF AcknowledgeLands, InRun
    <3> QED BY <2>4, <3>1 DEF AcknowledgeLands, QueueNext
  <2>5. CASE FailLands(p)
    <3>1. held[p] \in claims
      BY <2>2, <2>5 DEF FailLands, InRun
    <3> QED BY <2>5, <3>1 DEF FailLands, QueueNext
  <2>6. CASE HeartbeatLands(p)
    <3>1. beat[p] \in claims
      BY <2>6 DEF HeartbeatLands
    <3> QED BY <2>6, <3>1 DEF HeartbeatLands, QueueNext
  <2>7. CASE \/ RunOnce(p) \/ HandlerReturns(p) \/ HandlerThrows(p) \/ CatchReads(p)
             \/ HeartbeatTick(p) \/ PollCancellation(p)
    BY <2>7 DEF RunOnce, HandlerReturns, HandlerThrows, CatchReads, HeartbeatTick, PollCancellation
  <2> QED BY <1>3, <2>1, <2>3, <2>4, <2>5, <2>6, <2>7 DEF LoopStep
<1>4. ASSUME NEW o \in Owners, Stop(o) \/ Crash(o) \/ Run(o) PROVE [QueueNext]_queueVars
  BY <1>4 DEF Stop, Crash, Run
<1> QED BY <1>1, <1>2, <1>3, <1>4 DEF Next

LEMMA QueueInvKept ==
    ASSUME WorkerInv, [Next]_vars
    PROVE  Inv'
BY StepOfQueue, NextInv DEF WorkerInv

----------------------------------------------------------------------------
(* What the queue does to the claims in hand. *)

LEMMA ClaimDispenses ==
    ASSUME NEW o, NEW T, ClaimJob(o, T)
    PROVE  \E failed, cleared : Dispense(o, Offered(T), failed, cleared)
BY DEF ClaimJob, ClaimRow, ClaimDocument

\* No step but the settlement of a claim makes it settled.
LEMMA OthersUnsettled ==
    ASSUME Inv, NEW c \in claims, Unsettled(c),
           \/ \E j \in Jobs : Enqueue(j) \/ RequestCancellation(j) \/ Prune(j) \/ LeaseExpires(j)
           \/ \E o, T : ClaimJob(o, T)
           \/ \E d \in claims : \/ Heartbeat(d)
                                \/ d # c /\ \/ Finish(d) \/ AcknowledgeCancellation(d) \/ Fail(d, TRUE)
    PROVE  StillUnsettled(c) /\ c \in claims'
<1> USE DEF Inv, QueueTypeOK, Unsettled, StillUnsettled
<1>1. c.job \in Jobs /\ c.token \in Nat /\ c.token >= 1 /\ c.token <= token[c.job]
  BY DEF RowsMatchClaims, TokensIssued, Claims
<1>2. ASSUME NEW j \in Jobs, Enqueue(j) PROVE StillUnsettled(c) /\ c \in claims'
  <2>1. j # c.job
    BY <1>1, <1>2 DEF Enqueue, RowsMatchClaims, AttemptLeft, TokensCount
  <2> QED BY <1>1, <1>2, <2>1 DEF Enqueue
<1>3. ASSUME NEW j \in Jobs, RequestCancellation(j) PROVE StillUnsettled(c) /\ c \in claims'
  BY <1>1, <1>3 DEF RequestCancellation
<1>4. ASSUME NEW j \in Jobs, Prune(j) \/ LeaseExpires(j) PROVE StillUnsettled(c) /\ c \in claims'
  BY <1>1, <1>4 DEF Prune, LeaseExpires
<1>5. ASSUME NEW o, NEW T, ClaimJob(o, T) PROVE StillUnsettled(c) /\ c \in claims'
  <2>1. PICK failed, cleared : Dispense(o, Offered(T), failed, cleared)
    BY <1>5, ClaimDispenses
  <2>2. c \in claims'
    BY <2>1 DEF Dispense
  <2>3. CASE c.job \in Offered(T)
    <3>1. token'[c.job] = token[c.job] + 1
      BY <1>1, <2>1, <2>3 DEF Dispense
    <3> QED BY <1>1, <2>2, <3>1
  <2>4. CASE c.job \notin Offered(T)
    <3>1. token'[c.job] = token[c.job] /\ status'[c.job] \in {"failed", status[c.job]}
      BY <1>1, <2>1, <2>4 DEF Dispense
    <3> QED BY <1>1, <2>2, <3>1
  <2> QED BY <2>3, <2>4
<1>6. ASSUME NEW d \in claims, Heartbeat(d) PROVE StillUnsettled(c) /\ c \in claims'
  BY <1>6 DEF Heartbeat
<1>7. ASSUME NEW d \in claims, d # c, Finish(d) \/ AcknowledgeCancellation(d) \/ Fail(d, TRUE)
      PROVE  StillUnsettled(c) /\ c \in claims'
  <2>1. /\ token' = token /\ claims' = claims /\ d.token = token[d.job] /\ d.job \in Jobs
        /\ \E s : status' = [status EXCEPT ![d.job] = s]
    BY <1>7 DEF Finish, AcknowledgeCancellation, Fail, GiveBack, Owns, Claims
  <2>2. c.token = token[c.job] => c.job # d.job
    BY <1>7, <2>1 DEF RowsMatchClaims, TokensUnique
  <2> QED BY <1>1, <2>1, <2>2
<1> QED BY <1>2, <1>3, <1>4, <1>5, <1>6, <1>7

\* A claim that is handed out was never handed out before.
LEMMA ClaimsAreFresh ==
    ASSUME Inv, NEW j \in Jobs, NEW o
    PROVE  [job |-> j, owner |-> o, token |-> token[j] + 1] \notin claims
<1> DEFINE c == [job |-> j, owner |-> o, token |-> token[j] + 1]
<1>1. c.job = j /\ c.token = token[j] + 1 /\ token[j] \in Nat
  BY DEF Inv, QueueTypeOK
<1> HIDE DEF c
<1>2. c \notin claims
  BY <1>1 DEF Inv, RowsMatchClaims, TokensIssued
<1> QED BY <1>2 DEF c

----------------------------------------------------------------------------
(* What the loops do with their claims. *)

OthersKept(p) ==
    claims \subseteq claims' /\ \A q \in Activities \ {p} : held[q] # NoClaim => StillUnsettled(held[q])

\* A loop that goes on works with the claim it had.
LEMMA GoesOn ==
    ASSUME WorkerInv, Inv', claims \subseteq claims', UNCHANGED held,
           pc' \in [Activities -> Places], beat' \in [Activities -> claims' \cup {NoClaim}],
           \A p \in Activities : pc'[p] \in InRun <=> pc[p] \in InRun,
           \A p \in Activities : held[p] # NoClaim => StillUnsettled(held[p])
    PROVE  WorkerInv'
<1>1. LoopTypes'
  BY DEF WorkerInv, LoopTypes
<1>2. ClaimsInHand'
  BY DEF WorkerInv, ClaimsInHand
<1>3. LastClaimUnsettled'
  BY DEF LastClaimUnsettled, Unsettled, StillUnsettled
<1> QED BY <1>1, <1>2, <1>3 DEF WorkerInv

LEMMA Leaves ==
    ASSUME WorkerInv, Inv', NEW p \in Activities, Leave(p), OthersKept(p)
    PROVE  WorkerInv'
<1>1. LoopTypes'
  BY DEF WorkerInv, LoopTypes, Leave, Places, OthersKept
<1>2. \A q \in Activities : held'[q] = IF q = p THEN NoClaim ELSE held[q]
  BY DEF WorkerInv, LoopTypes, Leave
<1>3. \A q \in Activities : pc'[q] = IF q = p THEN "idle" ELSE pc[q]
  BY DEF WorkerInv, LoopTypes, Leave
<1>4. ClaimsInHand'
  BY <1>2, <1>3 DEF WorkerInv, ClaimsInHand, InRun
<1>5. LastClaimUnsettled'
  BY <1>2 DEF LastClaimUnsettled, Unsettled, StillUnsettled, OthersKept
<1> QED BY <1>1, <1>4, <1>5 DEF WorkerInv

LEMMA HeldClaims ==
    ASSUME WorkerInv, NEW p \in Activities, held[p] # NoClaim
    PROVE  held[p] \in claims /\ Unsettled(held[p])
BY DEF WorkerInv, LoopTypes, LastClaimUnsettled

LEMMA QueueUnchanged ==
    ASSUME WorkerInv, UNCHANGED queueVars
    PROVE  /\ claims' = claims
           /\ \A p \in Activities : held[p] # NoClaim => StillUnsettled(held[p])
BY DEF WorkerInv, LastClaimUnsettled, Unsettled, StillUnsettled, queueVars

LEMMA ClaimLandsKeeps ==
    ASSUME WorkerInv, Inv', NEW p \in Activities, ClaimLands(p)
    PROVE  WorkerInv'
<1> DEFINE o == WorkerOf[p]
           offered == Offered(Handles[o])
<1>1. /\ pc[p] = "claiming" /\ held[p] = NoClaim /\ ClaimJob(o, Handles[o]) /\ beat' = beat
  BY DEF ClaimLands, WorkerInv, ClaimsInHand, InRun
<1>2. PICK failed, cleared : Dispense(o, offered, failed, cleared)
  BY <1>1, ClaimDispenses
<1>3. claims \subseteq claims'
  BY <1>2 DEF Dispense
<1>4. \A q \in Activities : held[q] # NoClaim => StillUnsettled(held[q])
  BY <1>1, HeldClaims, OthersUnsettled DEF WorkerInv
<1>5. beat' \in [Activities -> claims' \cup {NoClaim}]
  BY <1>1, <1>3 DEF WorkerInv, LoopTypes
<1>6. CASE pc' = [pc EXCEPT ![p] = "idle"] /\ held' = held
  <2>1. pc' \in [Activities -> Places]
    BY <1>6 DEF WorkerInv, LoopTypes, Places
  <2>2. \A q \in Activities : pc'[q] \in InRun <=> pc[q] \in InRun
    BY <1>1, <1>6 DEF WorkerInv, LoopTypes, InRun
  <2> QED BY <1>3, <1>4, <1>5, <1>6, <2>1, <2>2, GoesOn
<1>7. ASSUME NEW j \in offered, pc' = [pc EXCEPT ![p] = "handler"],
             held' = [held EXCEPT ![p] = [job |-> j, owner |-> o, token |-> token[j] + 1]]
      PROVE  WorkerInv'
  <2> DEFINE c == [job |-> j, owner |-> o, token |-> token[j] + 1]
  <2>1. c \in claims' /\ c.job = j /\ j \in Jobs
    BY <1>2, OfferedJobs DEF Dispense
  <2>2. c \notin claims /\ c # NoClaim
    BY <2>1, ClaimsAreFresh, ActivitiesAssumption DEF WorkerInv, Inv, QueueTypeOK, Claims
  <2>3. status'[j] = "leased"
    BY <1>2, <2>1 DEF Dispense
  <2> HIDE DEF c
  <2>4. \A q \in Activities : held'[q] = IF q = p THEN c ELSE held[q]
    BY <1>7 DEF WorkerInv, LoopTypes, c
  <2>5. \A q \in Activities : pc'[q] = IF q = p THEN "handler" ELSE pc[q]
    BY <1>7 DEF WorkerInv, LoopTypes
  <2>6. LoopTypes'
    <3>1. pc' \in [Activities -> Places]
      BY <1>7 DEF WorkerInv, LoopTypes, Places, InRun
    <3>2. held' \in [Activities -> claims' \cup {NoClaim}]
      BY <1>3, <1>7, <2>1 DEF WorkerInv, LoopTypes, c
    <3> QED BY <1>5, <3>1, <3>2 DEF LoopTypes
  <2>7. ClaimsInHand'
    <3>1. \A q \in Activities : held[q] # c
      BY <2>2 DEF WorkerInv, LoopTypes
    <3> QED BY <2>2, <2>4, <2>5, <3>1 DEF WorkerInv, ClaimsInHand, InRun
  <2>8. LastClaimUnsettled'
    BY <1>4, <2>1, <2>3, <2>4 DEF LastClaimUnsettled, Unsettled, StillUnsettled
  <2> QED BY <2>6, <2>7, <2>8 DEF WorkerInv
<1> QED BY <1>6, <1>7 DEF ClaimLands

LEMMA SettlingKeeps ==
    ASSUME WorkerInv, Inv', NEW p \in Activities, pc[p] \in InRun, Leave(p),
           \/ Finish(held[p]) \/ AcknowledgeCancellation(held[p]) \/ Fail(held[p], TRUE)
           \/ UNCHANGED queueVars
    PROVE  WorkerInv'
<1>1. held[p] \in claims /\ held[p] # NoClaim
  BY HeldClaims DEF WorkerInv, ClaimsInHand
<1>2. claims \subseteq claims'
  BY QueueUnchanged DEF Finish, AcknowledgeCancellation, Fail, GiveBack
<1>3. ASSUME NEW q \in Activities \ {p}, held[q] # NoClaim PROVE StillUnsettled(held[q])
  <2>1. held[q] \in claims /\ Unsettled(held[q]) /\ held[p] # held[q]
    BY <1>1, <1>3, HeldClaims DEF WorkerInv, ClaimsInHand
  <2>2. CASE UNCHANGED queueVars
    BY <1>3, <2>2, QueueUnchanged
  <2>3. CASE Finish(held[p]) \/ AcknowledgeCancellation(held[p]) \/ Fail(held[p], TRUE)
    BY <1>1, <2>1, <2>3, OthersUnsettled DEF WorkerInv
  <2> QED BY <2>2, <2>3
<1> QED BY <1>2, <1>3, Leaves DEF OthersKept

LEMMA LoopStepKeeps ==
    ASSUME WorkerInv, Inv', NEW p \in Activities, LoopStep(p)
    PROVE  WorkerInv'
<1> USE DEF InRun
<1>1. CASE ClaimLands(p)
  BY <1>1, ClaimLandsKeeps
<1>2. CASE (FinishLands(p) \/ CatchReads(p) \/ AcknowledgeLands(p) \/ FailLands(p)) /\ Leave(p)
  <2>1. pc[p] \in InRun
    BY <1>2 DEF FinishLands, CatchReads, AcknowledgeLands, FailLands
  <2>2. \/ Finish(held[p]) \/ AcknowledgeCancellation(held[p]) \/ Fail(held[p], TRUE)
        \/ UNCHANGED queueVars
    BY <1>2 DEF FinishLands, CatchReads, AcknowledgeLands, FailLands
  <2> QED BY <1>2, <2>1, <2>2, SettlingKeeps
<1>3. ASSUME NEW there \in Places, Goto(p, there), pc[p] \in InRun <=> there \in InRun,
             UNCHANGED queueVars
      PROVE  WorkerInv'
  <2>1. pc' \in [Activities -> Places] /\ UNCHANGED <<held, beat>>
    BY <1>3 DEF Goto, WorkerInv, LoopTypes
  <2>2. \A q \in Activities : pc'[q] \in InRun <=> pc[q] \in InRun
    BY <1>3 DEF Goto, WorkerInv, LoopTypes
  <2>3. beat' \in [Activities -> claims' \cup {NoClaim}]
    BY <1>3, <2>1, QueueUnchanged DEF WorkerInv, LoopTypes
  <2> QED BY <1>3, <2>1, <2>2, <2>3, QueueUnchanged, GoesOn
<1>4. CASE \/ HandlerReturns(p) \/ HandlerThrows(p)
           \/ (FinishLands(p) \/ CatchReads(p)) /\ ~Leave(p)
  BY <1>3, <1>4 DEF HandlerReturns, HandlerThrows, FinishLands, CatchReads, Places
<1>5. CASE RunOnce(p)
  <2>1. /\ pc' = [pc EXCEPT ![p] = "claiming"] /\ pc[p] = "idle"
        /\ UNCHANGED <<queueVars, held, beat>>
    BY <1>5 DEF RunOnce
  <2>2. pc' \in [Activities -> Places]
    BY <2>1 DEF WorkerInv, LoopTypes, Places
  <2>3. \A q \in Activities : pc'[q] \in InRun <=> pc[q] \in InRun
    BY <2>1 DEF WorkerInv, LoopTypes
  <2>4. beat' \in [Activities -> claims' \cup {NoClaim}]
    BY <2>1, QueueUnchanged DEF WorkerInv, LoopTypes
  <2> QED BY <2>1, <2>2, <2>3, <2>4, QueueUnchanged, GoesOn
<1>6. CASE HeartbeatTick(p) \/ PollCancellation(p)
  <2>1. UNCHANGED <<queueVars, pc, held>> /\ (beat' = beat \/ beat' = [beat EXCEPT ![p] = held[p]])
    BY <1>6 DEF HeartbeatTick, PollCancellation
  <2>2. beat' \in [Activities -> claims' \cup {NoClaim}]
    BY <2>1, QueueUnchanged DEF WorkerInv, LoopTypes
  <2>3. pc' \in [Activities -> Places]
    BY <2>1 DEF WorkerInv, LoopTypes
  <2> QED BY <2>1, <2>2, <2>3, QueueUnchanged, GoesOn
<1>7. CASE HeartbeatLands(p)
  <2>1. /\ UNCHANGED <<pc, held>> /\ beat' = [beat EXCEPT ![p] = NoClaim] /\ beat[p] \in claims
        /\ Heartbeat(beat[p]) \/ UNCHANGED queueVars
    BY <1>7 DEF HeartbeatLands, WorkerInv, LoopTypes
  <2>2. claims' = claims /\ \A q \in Activities : held[q] # NoClaim => StillUnsettled(held[q])
    <3>1. CASE Heartbeat(beat[p])
      <4>1. claims' = claims
        BY <3>1 DEF Heartbeat
      <4> QED BY <2>1, <3>1, <4>1, HeldClaims, OthersUnsettled DEF WorkerInv
    <3>2. CASE UNCHANGED queueVars
      BY <3>2, QueueUnchanged
    <3> QED BY <2>1, <3>1, <3>2
  <2>3. beat' \in [Activities -> claims' \cup {NoClaim}] /\ pc' \in [Activities -> Places]
    BY <2>1, <2>2 DEF WorkerInv, LoopTypes
  <2> QED BY <2>1, <2>2, <2>3, GoesOn
<1> QED BY <1>1, <1>2, <1>4, <1>5, <1>6, <1>7 DEF LoopStep, FinishLands, CatchReads,
           AcknowledgeLands, FailLands

LEMMA OutsideKeeps ==
    ASSUME WorkerInv, Inv', Outside
    PROVE  WorkerInv'
<1>1. PICK j \in Jobs : Enqueue(j) \/ RequestCancellation(j) \/ Prune(j) \/ LeaseExpires(j)
  BY DEF Outside
<1>2. claims' = claims /\ UNCHANGED <<pc, held, beat>>
  BY <1>1 DEF Outside, loopVars, Enqueue, RequestCancellation, Prune, LeaseExpires
<1>3. \A q \in Activities : held[q] # NoClaim => StillUnsettled(held[q])
  BY <1>1, HeldClaims, OthersUnsettled DEF WorkerInv
<1>4. pc' \in [Activities -> Places] /\ beat' \in [Activities -> claims' \cup {NoClaim}]
  BY <1>2 DEF WorkerInv, LoopTypes
<1> QED BY <1>2, <1>3, <1>4, GoesOn

LEMMA ProcessKeeps ==
    ASSUME WorkerInv, Inv', NEW o \in Owners, Stop(o) \/ Crash(o) \/ Run(o)
    PROVE  WorkerInv'
<1>1. CASE Stop(o) \/ Run(o)
  <2>1. UNCHANGED <<queueVars, pc, held, beat>>
    BY <1>1 DEF Stop, Run
  <2>2. pc' \in [Activities -> Places] /\ beat' \in [Activities -> claims' \cup {NoClaim}]
    BY <2>1, QueueUnchanged DEF WorkerInv, LoopTypes
  <2> QED BY <2>1, <2>2, QueueUnchanged, GoesOn
<1>2. CASE Crash(o)
  <2>1. \A q \in Activities :
           /\ pc'[q] = IF q \in LoopsOf(o) THEN "idle" ELSE pc[q]
           /\ held'[q] = IF q \in LoopsOf(o) THEN NoClaim ELSE held[q]
    BY <1>2 DEF Crash
  <2>2. claims' = claims /\ \A q \in Activities : held[q] # NoClaim => StillUnsettled(held[q])
    BY <1>2, QueueUnchanged DEF Crash
  <2>3. LoopTypes'
    BY <1>2, <2>2 DEF Crash, WorkerInv, LoopTypes, Places
  <2>4. ClaimsInHand'
    BY <2>1 DEF WorkerInv, ClaimsInHand, InRun
  <2>5. LastClaimUnsettled'
    BY <2>1, <2>2 DEF LastClaimUnsettled, Unsettled, StillUnsettled
  <2> QED BY <2>3, <2>4, <2>5 DEF WorkerInv
<1> QED BY <1>1, <1>2

LEMMA WorkerStep ==
    ASSUME WorkerInv, [Next]_vars
    PROVE  WorkerInv'
<1>1. Inv'
  BY QueueInvKept
<1>2. CASE UNCHANGED vars
  <2>1. UNCHANGED <<queueVars, pc, held, beat>>
    BY <1>2 DEF vars, loopVars
  <2>2. pc' \in [Activities -> Places] /\ beat' \in [Activities -> claims' \cup {NoClaim}]
    BY <2>1, QueueUnchanged DEF WorkerInv, LoopTypes
  <2> QED BY <1>1, <2>1, <2>2, QueueUnchanged, GoesOn
<1>3. CASE Next
  BY <1>1, <1>3, OutsideKeeps, LoopStepKeeps, ProcessKeeps DEF Next
<1> QED BY <1>2, <1>3

LEMMA WorkerInit == Init => WorkerInv
<1> SUFFICES ASSUME Init PROVE WorkerInv
  OBVIOUS
<1>1. Inv
  BY InitInv DEF Init
<1>2. LoopTypes
  BY DEF Init, LoopTypes, Places
<1>3. ClaimsInHand /\ LastClaimUnsettled
  BY DEF Init, ClaimsInHand, LastClaimUnsettled, InRun
<1> QED BY <1>1, <1>2, <1>3 DEF WorkerInv

----------------------------------------------------------------------------
(* The theorems. *)

\* What the loops hold, the rows and the claims agree in every reachable state
\* (PersistentWorker.runOnce over the queue).
THEOREM WorkerInvariant == Spec => []WorkerInv
BY WorkerInit, WorkerStep, PTL DEF Spec

\* The worker is one of the callers the queue allows: a claim is used only after
\* it was handed out (runOnce passes the id, owner and token of its job on).
THEOREM WorkerUsesQueue == Spec => QueueSpec
<1>1. Init => QueueInit
  BY DEF Init
<1>2. WorkerInv /\ [Next]_vars => [QueueNext]_queueVars
  BY StepOfQueue
<1> QED BY <1>1, <1>2, WorkerInvariant, PTL DEF Spec, QueueSpec

\* Of the claims of a job one has an open lease (claimJob, heartbeat).
THEOREM WorkerLeaseIsExclusive == Spec => []LeaseExclusive
BY WorkerUsesQueue, LeaseIsExclusive, PTL

\* No job is handed out more often than maxAttempts (claimJob, fail).
THEOREM WorkerAttemptsAreBounded == Spec => []AttemptsBudget
BY WorkerUsesQueue, AttemptsAreBounded, PTL

\* Composed with its loops, timers, stops and crashes the queue still keeps the
\* contract of its producers (WorkerQueue).
THEOREM WorkerImplementsContract == Spec => ImplementsContract
BY WorkerUsesQueue, QueueImplementsContract, PTL

\* Of two handlers of one job one has lost its lease (runOnce, claim, heartbeat).
THEOREM HandlersExclude == Spec => []HandlerExclusive
<1>1. WorkerInv => HandlerExclusive
  <2> SUFFICES ASSUME WorkerInv, NEW p \in Activities, NEW q \in Activities,
                      pc[p] = "handler", pc[q] = "handler", p # q, held[p].job = held[q].job,
                      held[p] \notin ended, held[q] \notin ended
               PROVE  FALSE
    BY DEF HandlerExclusive
  <2>1. held[p] # NoClaim /\ held[q] # NoClaim
    BY DEF WorkerInv, ClaimsInHand, InRun
  <2>2. held[p] \in claims /\ held[q] \in claims
    BY <2>1, HeldClaims
  <2>3. held[p] = held[q]
    BY <2>2 DEF WorkerInv, Inv, RowsMatchClaims, OpenIsHolder
  <2> QED BY <2>1, <2>3 DEF WorkerInv, ClaimsInHand
<1> QED BY <1>1, WorkerInvariant, PTL

\* A job is cancelled only after the handler of its last claim stopped
\* (acknowledgeCancellation, called in the catch block of runOnce).
THEOREM CancelledHolderStopped == Spec => []CancelledMeansHolderStopped
<1>1. WorkerInv => CancelledMeansHolderStopped
  <2> SUFFICES ASSUME WorkerInv, NEW p \in Activities,
                      pc[p] = "handler", status[held[p].job] = "cancelled"
               PROVE  held[p].token < token[held[p].job]
    BY DEF CancelledMeansHolderStopped
  <2>1. held[p] \in claims /\ Unsettled(held[p])
    BY HeldClaims DEF WorkerInv, ClaimsInHand, InRun
  <2>2. held[p].token # token[held[p].job]
    BY <2>1 DEF Unsettled
  <2>3. /\ held[p].token \in Nat /\ token[held[p].job] \in Nat
        /\ held[p].token <= token[held[p].job]
    BY <2>1 DEF WorkerInv, Inv, QueueTypeOK, RowsMatchClaims, TokensIssued, Claims
  <2> QED BY <2>2, <2>3
<1> QED BY <1>1, WorkerInvariant, PTL

=============================================================================
