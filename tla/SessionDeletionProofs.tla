----------------------- MODULE SessionDeletionProofs -----------------------
(* Proofs about the lifecycle store and the deletion of a session, for any   *)
(* managers, operations, collectors and content stores.  First the store:    *)
(* its inductive invariant, the drained tombstone, the permanent fence.      *)
(* Then the deletion: purges are drained, a deleted session holds only       *)
(* content that is owed, and an active session is never purged.              *)
EXTENDS SessionDeletion, TLAPS

----------------------------------------------------------------------------
(* The lifecycle store. *)


\* The initial row satisfies the inductive invariant.
LEMMA LifecycleInitInv == LifecycleInit => LifecycleInv
<1> SUFFICES ASSUME LifecycleInit PROVE LifecycleInv
  OBVIOUS
<1> USE DEF LifecycleInit
<1>1. LifecycleTypeOK
  BY DEF LifecycleTypeOK, States
<1>2. ClaimNamesRow /\ DeletedIsDrained
  BY DEF ClaimNamesRow, DeletedIsDrained
<1>3. LeasesPredateFence /\ LeasesOfThisEpoch
  BY DEF LeasesPredateFence, LeasesOfThisEpoch
<1> QED BY <1>1, <1>2, <1>3 DEF LifecycleInv

\* acquireOperation preserves the inductive invariant.
LEMMA AcquireKeeps ==
  ASSUME NEW o \in Operations, LifecycleInv, AcquireOperation(o)
  PROVE  LifecycleInv'
  BY ManagersAssumption DEF LifecycleInv, LifecycleTypeOK, ClaimNamesRow, DeletedIsDrained,
         LeasesPredateFence, LeasesOfThisEpoch, Drained, States, AcquireOperation, Accepts

\* So does releaseOperation.
LEMMA ReleaseKeeps ==
  ASSUME NEW o \in Operations, LifecycleInv, ReleaseOperation(o)
  PROVE  LifecycleInv'
  BY ManagersAssumption DEF LifecycleInv, LifecycleTypeOK, ClaimNamesRow, DeletedIsDrained,
         LeasesPredateFence, LeasesOfThisEpoch, Drained, States, ReleaseOperation

\* So does the expiry of a lease.
LEMMA ExpiryKeeps ==
  ASSUME NEW o \in Operations, LifecycleInv, OperationExpires(o)
  PROVE  LifecycleInv'
  BY ManagersAssumption DEF LifecycleInv, LifecycleTypeOK, ClaimNamesRow, DeletedIsDrained,
         LeasesPredateFence, LeasesOfThisEpoch, Drained, States, OperationExpires

\* claimDeletion preserves it: raising the fence makes every lease one of an
\* older epoch.
LEMMA ClaimKeeps ==
  ASSUME NEW m \in Managers, LifecycleInv, ClaimDeletion(m)
  PROVE  LifecycleInv'
<1> USE DEF LifecycleInv, LifecycleTypeOK, ClaimNamesRow, DeletedIsDrained, LeasesPredateFence,
            LeasesOfThisEpoch, Drained, States, ClaimDeletion, ClaimFree, Reentrant
<1>0. CASE Reentrant(m) /\ UNCHANGED <<deleteOwner, deleteToken, claimLive, tokens>>
  <2>1. state' = state /\ epoch' = epoch
    BY <1>0
  <2> QED BY <1>0, <2>1
<1>1. CASE /\ ClaimFree
           /\ tokens' = tokens + 1
           /\ deleteOwner' = m
           /\ deleteToken' = tokens'
           /\ claimLive' = TRUE
  <2>1. epoch' \in Nat /\ tokens' \in Nat /\ tokens' > 0
    BY <1>1
  <2>2. LifecycleTypeOK' /\ ClaimNamesRow' /\ DeletedIsDrained' /\ LeasesOfThisEpoch'
    BY <1>1, <2>1
  <2>3. LeasesPredateFence'
    <3>1. CASE state = "deleting"
      BY <3>1
    <3>2. CASE state # "deleting"
      BY <3>2
    <3> QED BY <3>1, <3>2
  <2> QED BY <2>2, <2>3
<1> QED BY <1>0, <1>1

\* completeDeletion preserves it.
LEMMA CompleteKeeps ==
  ASSUME NEW m \in Managers, NEW t, LifecycleInv, CompleteDeletion(m, t)
  PROVE  LifecycleInv'
  BY ManagersAssumption DEF LifecycleInv, LifecycleTypeOK, ClaimNamesRow, DeletedIsDrained,
         LeasesPredateFence, LeasesOfThisEpoch, Drained, States, CompleteDeletion, ClaimHeld, ClaimNamed

\* So does the expiry of the claim.
LEMMA ClaimExpiryKeeps ==
  ASSUME LifecycleInv, ClaimExpires
  PROVE  LifecycleInv'
  BY ManagersAssumption DEF LifecycleInv, LifecycleTypeOK, ClaimNamesRow, DeletedIsDrained,
         LeasesPredateFence, LeasesOfThisEpoch, Drained, States, ClaimExpires

\* A step that leaves the rows alone preserves it.
LEMMA LifecycleStutter ==
  ASSUME LifecycleInv, UNCHANGED storeVars
  PROVE  LifecycleInv'
  BY ManagersAssumption DEF LifecycleInv, LifecycleTypeOK, ClaimNamesRow, DeletedIsDrained,
         LeasesPredateFence, LeasesOfThisEpoch, Drained, States, storeVars

\* LifecycleInv holds in every state of the lifecycle store.
THEOREM LifecycleInvariant == LifecycleSpec => []LifecycleInv
<1>1. LifecycleInv /\ [LifecycleNext]_storeVars => LifecycleInv'
  <2> SUFFICES ASSUME LifecycleInv, [LifecycleNext]_storeVars
               PROVE  LifecycleInv'
    OBVIOUS
  <2>1. ASSUME NEW o \in Operations,
               AcquireOperation(o) \/ ReleaseOperation(o) \/ OperationExpires(o)
        PROVE  LifecycleInv'
    BY <2>1, AcquireKeeps, ReleaseKeeps, ExpiryKeeps
  <2>2. ASSUME NEW m \in Managers, ClaimDeletion(m)
        PROVE  LifecycleInv'
    BY <2>2, ClaimKeeps
  <2>3. ASSUME NEW m \in Managers, NEW t \in 1..tokens, CompleteDeletion(m, t)
        PROVE  LifecycleInv'
    BY <2>3, CompleteKeeps
  <2>4. CASE ClaimExpires
    BY <2>4, ClaimExpiryKeeps
  <2>5. CASE UNCHANGED storeVars
    BY <2>5, LifecycleStutter
  <2> QED BY <2>1, <2>2, <2>3, <2>4, <2>5 DEF LifecycleNext
<1> QED BY LifecycleInitInv, <1>1, PTL DEF LifecycleSpec

\* The tombstone is written over a session without leases and without a claim.
THEOREM TombstoneIsDrained == LifecycleSpec => []DeletedIsDrained
<1>1. LifecycleInv => DeletedIsDrained
  BY DEF LifecycleInv
<1> QED BY LifecycleInvariant, <1>1, PTL

\* Behind the fence every lease is of an older epoch than the row.
THEOREM LeasesAreOlder == LifecycleSpec => []LeasesPredateFence
<1>1. LifecycleInv => LeasesPredateFence
  BY DEF LifecycleInv
<1> QED BY LifecycleInvariant, <1>1, PTL

\* No step grants a lease behind the fence or takes the fence down.
LEMMA StepKeepsFence ==
  ASSUME LifecycleInv, [LifecycleNext]_storeVars
  PROVE  /\ state \in {"deleting", "deleted"} => state' \in {"deleting", "deleted"}
         /\ state = "deleted" => state' = "deleted"
         /\ \A o \in Operations :
               state \in {"deleting", "deleted"} /\ lease[o] # "live" => lease'[o] # "live"
<1> USE DEF LifecycleInv, LifecycleTypeOK
<1>1. ASSUME NEW p \in Operations,
             AcquireOperation(p) \/ ReleaseOperation(p) \/ OperationExpires(p)
      PROVE  /\ state \in {"deleting", "deleted"} => state' \in {"deleting", "deleted"}
             /\ state = "deleted" => state' = "deleted"
             /\ \A o \in Operations :
                   state \in {"deleting", "deleted"} /\ lease[o] # "live" => lease'[o] # "live"
  BY <1>1 DEF AcquireOperation, Accepts, ReleaseOperation, OperationExpires
<1>2. ASSUME NEW m \in Managers, ClaimDeletion(m)
      PROVE  /\ state' = "deleting"
             /\ state # "deleted"
             /\ lease' = lease
  BY <1>2 DEF ClaimDeletion
<1>3. ASSUME NEW m \in Managers, NEW t \in 1..tokens, CompleteDeletion(m, t)
      PROVE  /\ state' = "deleted"
             /\ lease' = lease
  BY <1>3 DEF CompleteDeletion
<1>4. CASE ClaimExpires \/ UNCHANGED storeVars
  BY <1>4 DEF ClaimExpires, storeVars
<1> QED BY <1>1, <1>2, <1>3, <1>4 DEF LifecycleNext

\* A claimed deletion is irrevocable, and no producer gets in behind it.
THEOREM FenceHolds == LifecycleSpec => FenceIsPermanent
<1>1. LifecycleInv /\ [LifecycleNext]_storeVars =>
        [ /\ state \in {"deleting", "deleted"} => state' \in {"deleting", "deleted"}
          /\ state = "deleted" => state' = "deleted"
          /\ \A o \in Operations :
                state \in {"deleting", "deleted"} /\ lease[o] # "live" => lease'[o] # "live"
        ]_storeVars
  BY StepKeepsFence
<1> QED BY LifecycleInvariant, <1>1, PTL DEF LifecycleSpec, FenceIsPermanent

----------------------------------------------------------------------------
(* The deletion. *)

\* What a step of the whole system does to the lifecycle row: one store
\* transaction, or nothing.
StoreStep ==
    \/ \E o \in Operations : AcquireOperation(o) \/ ReleaseOperation(o) \/ OperationExpires(o)
    \/ \E m \in Managers : ClaimDeletion(m) \/ CompleteDeletion(m, held[m])
    \/ ClaimExpires
    \/ UNCHANGED storeVars

\* Every step of an operation is a step of the store, or leaves it alone.
LEMMA OperationIsStoreStep ==
  ASSUME NEW o \in Operations,
         \/ Admit(o) \/ OperationStep(o) \/ CompensationFails(o) \/ LeaseLapses(o)
         \/ \E s \in Stores : IssueWrite(o, s) \/ Land(o, s) \/ Vanish(o, s) \/ TimeOut(o, s)
  PROVE  StoreStep
<1> USE DEF StoreStep
<1>1. CASE Acquire(o)
  BY <1>1 DEF Acquire
<1>2. CASE Release(o)
  BY <1>2 DEF Release
<1>3. CASE LeaseLapses(o)
  BY <1>3 DEF LeaseLapses
<1>4. CASE Admit(o) \/ Enter(o) \/ Drain(o) \/ FinalRenew(o)
  BY <1>4 DEF Admit, Enter, Drain, FinalRenew
<1>5. CASE ReadLifecycle(o) \/ PurgeStore(o) \/ Compensated(o) \/ CompensationFails(o)
  BY <1>5 DEF ReadLifecycle, PurgeStore, Compensated, CompensationFails
<1>6. CASE \E s \in Stores : IssueWrite(o, s) \/ Land(o, s) \/ Vanish(o, s) \/ TimeOut(o, s)
  BY <1>6 DEF IssueWrite, Land, Vanish, TimeOut
<1> QED BY <1>1, <1>2, <1>3, <1>4, <1>5, <1>6 DEF OperationStep

\* So is every step of a deleter, of a collector, of the clock and of a crash.
LEMMA OtherIsStoreStep ==
  ASSUME \/ \E m \in Managers :
               RequestDeletion(m) \/ DeletionStep(m) \/ DeletionFails(m) \/ Crash(m)
         \/ \E c \in Collectors : CollectorStep(c) \/ SweepFails(c)
         \/ ClaimLapses
  PROVE  StoreStep
<1> USE DEF StoreStep
<1>1. ASSUME NEW m \in Managers, Claim(m) \/ Complete(m) PROVE StoreStep
  BY <1>1 DEF Claim, Complete
<1>2. ASSUME NEW m \in Managers,
             \/ RequestDeletion(m) \/ Observe(m) \/ CloseLocal(m) \/ WaitForProducers(m)
             \/ RenewBeforePurge(m) \/ PurgeStore(m) \/ Erased(m) \/ DeletionFails(m) \/ Crash(m)
      PROVE  StoreStep
  BY <1>2 DEF RequestDeletion, Observe, CloseLocal, WaitForProducers, RenewBeforePurge,
              PurgeStore, Erased, DeletionFails, Crash
<1>3. ASSUME NEW c \in Collectors, CollectorStep(c) \/ SweepFails(c) PROVE StoreStep
  BY <1>3 DEF CollectorStep, Sweep, PurgeStore, Swept, SweepFails
<1>4. CASE ClaimLapses
  BY <1>4 DEF ClaimLapses
<1> QED BY <1>1, <1>2, <1>3, <1>4 DEF DeletionStep

\* Every step of the system is a step of the store, or leaves it alone.
LEMMA NextIsStoreStep ==
  ASSUME [Next]_vars
  PROVE  StoreStep
<1>1. CASE UNCHANGED vars
  BY <1>1 DEF vars, StoreStep
<1>2. CASE Next
  BY <1>2, OperationIsStoreStep, OtherIsStoreStep DEF Next
<1> QED BY <1>1, <1>2

\* A step of the store preserves the store's own invariant, keeps a raised
\* fence raised, and grants no lease behind it.
LEMMA StoreStepKeeps ==
  ASSUME LifecycleInv, StoreStep
  PROVE  /\ LifecycleInv'
         /\ state \in {"deleting", "deleted"} => state' \in {"deleting", "deleted"}
         /\ state = "deleted" => state' = "deleted"
         /\ state \in {"deleting", "deleted"} /\ Drained => Drained'
         /\ state' = "deleted" /\ state # "deleted" => Drained
<1>1. ASSUME NEW o \in Operations, AcquireOperation(o)
      PROVE  /\ LifecycleInv'
             /\ state \notin {"deleting", "deleted"}
             /\ state' = "active"
  BY <1>1, AcquireKeeps DEF AcquireOperation, Accepts
<1>2. ASSUME NEW o \in Operations, ReleaseOperation(o) \/ OperationExpires(o)
      PROVE  LifecycleInv' /\ state' = state /\ (Drained => Drained')
  BY <1>2, ReleaseKeeps, ExpiryKeeps
     DEF ReleaseOperation, OperationExpires, Drained, LifecycleInv, LifecycleTypeOK
<1>3. ASSUME NEW m \in Managers, ClaimDeletion(m)
      PROVE  LifecycleInv' /\ state' = "deleting" /\ state # "deleted" /\ (Drained => Drained')
  BY <1>3, ClaimKeeps DEF ClaimDeletion, Drained
<1>4. ASSUME NEW m \in Managers, CompleteDeletion(m, held[m])
      PROVE  LifecycleInv' /\ state' = "deleted" /\ Drained /\ Drained'
  BY <1>4, CompleteKeeps DEF CompleteDeletion, Drained
<1>5. CASE ClaimExpires \/ UNCHANGED storeVars
  BY <1>5, ClaimExpiryKeeps, LifecycleStutter DEF ClaimExpires, storeVars, Drained
<1> QED BY <1>1, <1>2, <1>3, <1>4, <1>5 DEF StoreStep

----------------------------------------------------------------------------
\* The type invariant of the managers' own variables.
ManagerTypeOK ==
    /\ alive \in [Managers -> BOOLEAN]
    /\ fenced \in [Managers -> BOOLEAN]
    /\ pc \in [Operations -> Settled \cup
                 {"idle", "admitted", "granted", "running", "draining", "retained",
                  "outlived", "reading", "compensating", "crashed"}]
    /\ seen \in [Operations -> States]
    /\ write \in [Operations -> [Stores -> {"none", "flight", "detached", "settled", "late"}]]
    /\ content \subseteq Operations \X Stores
    /\ tombstone \in BOOLEAN
    /\ dpc \in [Managers ->
                  {"idle", "observing", "repairing", "claiming", "closing", "waiting",
                   "renewing", "purging", "completing", "deleted", "failed", "crashed"}]
    /\ held \in [Managers -> Nat]
    /\ step \in [Purgers -> 0..AfterPurge]
    /\ mishaps \in 0..MaxMishaps

\* The indices of the purge order are natural numbers up to its length.
LEMMA PurgeLength == Len(PurgeOrder) \in Nat /\ Len(PurgeOrder) > 0 /\ AfterPurge \in Nat
  BY StoresAssumption DEF AfterPurge

\* One more mishap stays within the bound.
LEMMA MishapBounded ==
  ASSUME mishaps \in 0..MaxMishaps, Mishap
  PROVE  mishaps' \in 0..MaxMishaps
  BY AgentsAssumption DEF Mishap

\* Emptying a store keeps the types.
LEMMA PurgeStoreType ==
  ASSUME ManagerTypeOK, NEW p \in Purgers, PurgeStore(p)
  PROVE  ManagerTypeOK'
<1>1. step[p] \in 1..Len(PurgeOrder) /\ step[p] + 1 \in 0..AfterPurge
  BY PurgeLength DEF PurgeStore, AfterPurge
<1>2. step' \in [Purgers -> 0..AfterPurge]
  BY <1>1 DEF PurgeStore, ManagerTypeOK
<1>3. tombstone' \in BOOLEAN
  BY ZenonT(30) DEF PurgeStore
<1> QED BY <1>2, <1>3 DEF PurgeStore, ManagerTypeOK

\* The steps of an operation and of its requests keep the types.
LEMMA OperationType ==
  ASSUME ManagerTypeOK, LifecycleInv, NEW o \in Operations,
         \/ Admit(o) \/ OperationStep(o) \/ CompensationFails(o) \/ LeaseLapses(o)
         \/ \E s \in Stores : IssueWrite(o, s) \/ Land(o, s) \/ Vanish(o, s) \/ TimeOut(o, s)
  PROVE  ManagerTypeOK'
<1> USE PurgeLength, MishapBounded DEF ManagerTypeOK, Settled
<1>0. o \in Purgers /\ 1 \in 0..AfterPurge /\ 0 \in 0..AfterPurge
  BY DEF Purgers, AfterPurge
<1>1. CASE Admit(o) \/ Acquire(o) \/ Enter(o) \/ Drain(o) \/ LeaseLapses(o)
  BY <1>1 DEF Admit, Acquire, Enter, Drain, LeaseLapses, managerVars
<1>2. CASE FinalRenew(o)
  BY <1>2 DEF FinalRenew
<1>3. CASE Release(o)
  BY <1>3 DEF Release
<1>4. CASE ReadLifecycle(o)
  <2>1. state \in States
    BY DEF LifecycleInv, LifecycleTypeOK
  <2>2. seen' \in [Operations -> States]
    BY <1>4, <2>1 DEF ReadLifecycle
  <2>3. fenced' \in [Managers -> BOOLEAN]
    BY <1>4 DEF ReadLifecycle, Fence
  <2>4. step' \in [Purgers -> 0..AfterPurge]
    BY <1>4, <1>0 DEF ReadLifecycle, StartPurge
  <2> QED BY <1>4, <2>2, <2>3, <2>4 DEF ReadLifecycle
<1>5. CASE PurgeStore(o)
  BY <1>5, <1>0, PurgeStoreType
<1>6. CASE Compensated(o)
  BY <1>6, <1>0 DEF Compensated, RecordTombstone
<1>7. CASE CompensationFails(o)
  <2>1. step' \in [Purgers -> 0..AfterPurge]
    BY <1>7, <1>0 DEF CompensationFails, StartPurge
  <2>2. pc' = pc \/ pc' = [pc EXCEPT ![o] = "failed"]
    BY <1>7 DEF CompensationFails
  <2> QED BY <1>7, <2>1, <2>2 DEF CompensationFails
<1>8. ASSUME NEW s \in Stores, IssueWrite(o, s) \/ Land(o, s) \/ Vanish(o, s) \/ TimeOut(o, s)
      PROVE  ManagerTypeOK'
  <2>1. PICK w \in {"none", "flight", "detached", "settled", "late"} : SetWrite(o, s, w)
    BY <1>8 DEF IssueWrite, Land, Vanish, TimeOut
  <2>2. write' \in [Operations -> [Stores -> {"none", "flight", "detached", "settled", "late"}]]
    BY <2>1 DEF SetWrite
  <2> QED BY <1>8, <2>2 DEF IssueWrite, Land, Vanish, TimeOut
<1> QED BY <1>1, <1>2, <1>3, <1>4, <1>5, <1>6, <1>7, <1>8 DEF OperationStep

\* The steps of a deleter, a collector, the clock and a crash keep the types.
LEMMA OtherType ==
  ASSUME ManagerTypeOK, LifecycleInv,
         \/ \E m \in Managers :
               RequestDeletion(m) \/ DeletionStep(m) \/ DeletionFails(m) \/ Crash(m)
         \/ \E c \in Collectors : CollectorStep(c) \/ SweepFails(c)
         \/ ClaimLapses
  PROVE  ManagerTypeOK'
<1> USE PurgeLength, MishapBounded DEF ManagerTypeOK, Settled
<1>0. 1 \in 0..AfterPurge /\ 0 \in 0..AfterPurge
  BY DEF AfterPurge
<1>1. ASSUME NEW m \in Managers,
             \/ RequestDeletion(m) \/ CloseLocal(m) \/ WaitForProducers(m) \/ Complete(m)
      PROVE  ManagerTypeOK'
  BY <1>1 DEF RequestDeletion, Fence, Goto, CloseLocal, WaitForProducers, Complete
<1>2. ASSUME NEW m \in Managers,
             Observe(m) \/ RenewBeforePurge(m) \/ Erased(m) \/ DeletionFails(m)
      PROVE  ManagerTypeOK'
  <2>1. m \in Purgers
    BY DEF Purgers
  <2>2. step' \in [Purgers -> 0..AfterPurge]
    BY <1>0, <1>2, <2>1
       DEF Observe, RenewBeforePurge, StartPurge, Erased, RecordTombstone, DeletionFails
  <2> QED BY <1>2, <2>2
             DEF Observe, RenewBeforePurge, Erased, RecordTombstone, DeletionFails, Goto
<1>3. ASSUME NEW m \in Managers, Claim(m) PROVE ManagerTypeOK'
  <2>1. deleteToken' \in Nat \/ UNCHANGED held
    BY <1>3, ClaimKeeps DEF Claim, LifecycleInv, LifecycleTypeOK
  <2> QED BY <1>3, <2>1 DEF Claim, Goto
<1>4. ASSUME NEW m \in Managers, Crash(m) PROVE ManagerTypeOK'
  <2>1. step' \in [Purgers -> 0..AfterPurge]
    BY <1>0, <1>4 DEF Crash
  <2>2. pc' \in [Operations -> Settled \cup
                 {"idle", "admitted", "granted", "running", "draining", "retained",
                  "outlived", "reading", "compensating", "crashed"}]
    BY <1>4 DEF Crash
  <2> QED BY <1>4, <2>1, <2>2 DEF Crash
<1>5. ASSUME NEW c \in Collectors, Sweep(c) \/ Swept(c) \/ SweepFails(c)
      PROVE  ManagerTypeOK'
  <2>1. c \in Purgers /\ ManagerOf[c] \in Managers
    BY AgentsAssumption DEF Purgers
  <2>2. step' \in [Purgers -> 0..AfterPurge]
    BY <1>0, <1>5, <2>1 DEF Sweep, StartPurge, Swept, RecordTombstone, SweepFails
  <2> QED BY <1>5, <2>1, <2>2 DEF Sweep, Fence, Swept, Goto, RecordTombstone, SweepFails
<1>6. ASSUME NEW p \in Managers \cup Collectors, PurgeStore(p) PROVE ManagerTypeOK'
  BY <1>6, PurgeStoreType DEF Purgers
<1>7. CASE ClaimLapses
  BY <1>7 DEF ClaimLapses
<1> QED BY <1>1, <1>2, <1>3, <1>4, <1>5, <1>6, <1>7 DEF DeletionStep, CollectorStep

\* Every step keeps the types.
LEMMA TypeStep ==
  ASSUME TypeOK, LifecycleInv, [Next]_vars
  PROVE  TypeOK'
<1>1. ManagerTypeOK
  BY DEF TypeOK, ManagerTypeOK
<1>2. ManagerTypeOK'
  <2>1. CASE UNCHANGED vars
    BY <1>1, <2>1 DEF ManagerTypeOK, vars, managerVars
  <2>2. CASE Next
    BY <1>1, <2>2, OperationType, OtherType DEF Next
  <2> QED BY <2>1, <2>2
<1>3. LifecycleTypeOK'
  BY NextIsStoreStep, StoreStepKeeps DEF LifecycleInv
<1> QED BY <1>2, <1>3 DEF TypeOK, ManagerTypeOK

----------------------------------------------------------------------------
\* What every step guarantees about the row, in the form the places need it.
RowOnwards ==
    /\ state \in {"deleting", "deleted"} => state' \in {"deleting", "deleted"}
    /\ state = "deleted" => state' = "deleted"
    /\ state \in {"deleting", "deleted"} /\ Drained => Drained'

\* The steps of an operation and of its requests keep every purger's place.
LEMMA OperationPlace ==
  ASSUME TypeOK, PurgesKnowTheirPlace, RowOnwards, NEW o \in Operations,
         \/ Admit(o) \/ OperationStep(o) \/ CompensationFails(o) \/ LeaseLapses(o)
         \/ \E s \in Stores : IssueWrite(o, s) \/ Land(o, s) \/ Vanish(o, s) \/ TimeOut(o, s)
  PROVE  PurgesKnowTheirPlace'
<1> USE PurgeLength, AgentsAssumption
        DEF TypeOK, PurgesKnowTheirPlace, RowOnwards, DeletionBeats, Purgers, AfterPurge
<1>1. CASE Admit(o) \/ Acquire(o) \/ Enter(o) \/ Drain(o) \/ FinalRenew(o) \/ Release(o)
  BY <1>1 DEF Admit, Acquire, Enter, Drain, FinalRenew, Release
<1>2. CASE LeaseLapses(o)
  BY <1>2 DEF LeaseLapses, managerVars
<1>3. CASE ReadLifecycle(o)
  BY <1>3 DEF ReadLifecycle, StartPurge, storeVars
<1>4. CASE PurgeStore(o)
  BY <1>4 DEF PurgeStore
<1>5. CASE Compensated(o)
  BY <1>5 DEF Compensated, RecordTombstone
<1>6. CASE CompensationFails(o)
  <2>1. pc[o] = "compensating" /\ state' = state /\ dpc' = dpc /\ (Drained => Drained')
    BY <1>6 DEF CompensationFails, storeVars, Drained
  <2>2. CASE step' = [step EXCEPT ![o] = 1] /\ pc' = pc
    BY <2>1, <2>2
  <2>3. CASE step' = [step EXCEPT ![o] = 0] /\ pc' = [pc EXCEPT ![o] = "failed"]
    BY <2>1, <2>3
  <2> QED BY <1>6, <2>2, <2>3 DEF CompensationFails, StartPurge
<1>7. CASE \E s \in Stores : IssueWrite(o, s) \/ Land(o, s) \/ Vanish(o, s) \/ TimeOut(o, s)
  BY <1>7 DEF IssueWrite, Land, Vanish, TimeOut
<1> QED BY <1>1, <1>2, <1>3, <1>4, <1>5, <1>6, <1>7 DEF OperationStep

\* So do the steps of a deleter.
LEMMA DeletionPlace ==
  ASSUME TypeOK, LifecycleInv, PurgesKnowTheirPlace, RowOnwards, NEW m \in Managers,
         RequestDeletion(m) \/ DeletionStep(m) \/ DeletionFails(m)
  PROVE  PurgesKnowTheirPlace'
<1> USE PurgeLength, AgentsAssumption
        DEF TypeOK, PurgesKnowTheirPlace, RowOnwards, DeletionBeats, Purgers, AfterPurge
<1>1. CASE RequestDeletion(m)
  BY <1>1 DEF RequestDeletion, Goto
<1>2. CASE Observe(m)
  BY <1>2 DEF Observe, Goto, StartPurge
<1>3. CASE Claim(m)
  <2>1. /\ UNCHANGED <<pc, step>>
        /\ dpc' = [dpc EXCEPT ![m] = "deleted"] \/ dpc' = [dpc EXCEPT ![m] = "closing"]
    BY <1>3 DEF Claim, Goto
  <2>2. dpc'[m] = "closing" => state' = "deleting"
    BY <1>3 DEF Claim, Goto, ClaimDeletion
  <2> QED BY <1>3, <2>1, <2>2 DEF Claim
<1>4. CASE CloseLocal(m)
  BY <1>4 DEF CloseLocal, Goto
<1>5. CASE WaitForProducers(m)
  <2>1. Drained => Drained'
    BY <1>5 DEF WaitForProducers, storeVars, Drained
  <2> QED BY <1>5, <2>1 DEF WaitForProducers, Goto
<1>6. CASE RenewBeforePurge(m)
  BY <1>6 DEF RenewBeforePurge, Goto, StartPurge
<1>7. CASE PurgeStore(m)
  BY <1>7 DEF PurgeStore
<1>8. CASE Erased(m)
  BY <1>8 DEF Erased, RecordTombstone, Goto
<1>9. CASE Complete(m)
  BY <1>9 DEF Complete, Goto
<1>10. CASE DeletionFails(m)
  BY <1>10 DEF DeletionFails, Goto
<1> QED BY <1>1, <1>2, <1>3, <1>4, <1>5, <1>6, <1>7, <1>8, <1>9, <1>10 DEF DeletionStep

\* So do a collector, the clock and a crash.
LEMMA OtherPlace ==
  ASSUME TypeOK, PurgesKnowTheirPlace, RowOnwards,
         \/ \E c \in Collectors : CollectorStep(c) \/ SweepFails(c)
         \/ \E m \in Managers : Crash(m)
         \/ ClaimLapses
  PROVE  PurgesKnowTheirPlace'
<1> USE PurgeLength, AgentsAssumption
        DEF TypeOK, PurgesKnowTheirPlace, RowOnwards, DeletionBeats, Purgers, AfterPurge
<1>1. ASSUME NEW c \in Collectors, Sweep(c) PROVE PurgesKnowTheirPlace'
  BY <1>1 DEF Sweep, StartPurge
<1>2. ASSUME NEW c \in Collectors, PurgeStore(c) PROVE PurgesKnowTheirPlace'
  BY <1>2 DEF PurgeStore
<1>3. ASSUME NEW c \in Collectors, Swept(c) PROVE PurgesKnowTheirPlace'
  BY <1>3 DEF Swept, RecordTombstone, Goto
<1>4. ASSUME NEW c \in Collectors, SweepFails(c) PROVE PurgesKnowTheirPlace'
  BY <1>4 DEF SweepFails
<1>5. ASSUME NEW m \in Managers, Crash(m) PROVE PurgesKnowTheirPlace'
  BY <1>5 DEF Crash, Settled
<1>6. CASE ClaimLapses
  BY <1>6 DEF ClaimLapses
<1> QED BY <1>1, <1>2, <1>3, <1>4, <1>5, <1>6 DEF CollectorStep

\* Every step keeps every purger's place.
LEMMA PlaceStep ==
  ASSUME TypeOK, LifecycleInv, PurgesKnowTheirPlace, [Next]_vars
  PROVE  PurgesKnowTheirPlace'
<1>1. RowOnwards
  BY NextIsStoreStep, StoreStepKeeps DEF RowOnwards
<1>2. CASE UNCHANGED vars
  BY <1>2 DEF vars, managerVars, storeVars, PurgesKnowTheirPlace, DeletionBeats, Drained
<1>3. CASE Next
  BY <1>1, <1>3, OperationPlace, DeletionPlace, OtherPlace DEF Next
<1> QED BY <1>2, <1>3

----------------------------------------------------------------------------
\* Every step leaves the writes and the stores alone, apart from the steps of a
\* request and of a purge.
LEMMA WritersAndPurgers ==
  ASSUME [Next]_vars
  PROVE  \/ \E o \in Operations, s \in Stores :
               IssueWrite(o, s) \/ Land(o, s) \/ Vanish(o, s) \/ TimeOut(o, s)
         \/ \E p \in Purgers : PurgeStore(p)
         \/ UNCHANGED <<write, content>>
<1>1. CASE UNCHANGED vars
  BY <1>1 DEF vars, managerVars
<1>2. ASSUME NEW o \in Operations,
             Admit(o) \/ OperationStep(o) \/ CompensationFails(o) \/ LeaseLapses(o)
      PROVE  PurgeStore(o) \/ UNCHANGED <<write, content>>
  BY <1>2 DEF Admit, OperationStep, Acquire, Enter, Drain, FinalRenew, Release, ReadLifecycle,
              Compensated, CompensationFails, LeaseLapses, managerVars
<1>3. ASSUME NEW m \in Managers,
             RequestDeletion(m) \/ DeletionStep(m) \/ DeletionFails(m) \/ Crash(m)
      PROVE  PurgeStore(m) \/ UNCHANGED <<write, content>>
  BY <1>3 DEF RequestDeletion, DeletionStep, Observe, Claim, CloseLocal, WaitForProducers,
              RenewBeforePurge, Erased, Complete, DeletionFails, Crash
<1>4. ASSUME NEW c \in Collectors, CollectorStep(c) \/ SweepFails(c)
      PROVE  PurgeStore(c) \/ UNCHANGED <<write, content>>
  BY <1>4 DEF CollectorStep, Sweep, Swept, SweepFails
<1>5. CASE ClaimLapses
  BY <1>5 DEF ClaimLapses
<1> QED BY <1>1, <1>2, <1>3, <1>4, <1>5 DEF Next, Purgers

\* Only its own steps and the crash of its manager move an operation.
LEMMA OperationMoves ==
  ASSUME TypeOK, [Next]_vars, NEW o \in Operations, pc'[o] # pc[o]
  PROVE  \/ Admit(o) \/ Acquire(o) \/ Enter(o) \/ Drain(o) \/ FinalRenew(o) \/ Release(o)
         \/ ReadLifecycle(o) \/ Compensated(o) \/ CompensationFails(o)
         \/ \E m \in Managers : Crash(m)
<1> USE DEF TypeOK
<1>1. CASE UNCHANGED vars
  BY <1>1 DEF vars, managerVars
<1>2. ASSUME NEW q \in Operations, q # o,
             Admit(q) \/ Acquire(q) \/ Enter(q) \/ Drain(q) \/ FinalRenew(q) \/ Release(q)
      PROVE  FALSE
  BY <1>2 DEF Admit, Acquire, Enter, Drain, FinalRenew, Release
<1>3. ASSUME NEW q \in Operations, q # o,
             ReadLifecycle(q) \/ Compensated(q) \/ CompensationFails(q)
      PROVE  FALSE
  BY <1>3 DEF ReadLifecycle, Compensated, CompensationFails
<1>4. ASSUME NEW q \in Operations,
             \/ PurgeStore(q) \/ LeaseLapses(q)
             \/ \E s \in Stores : IssueWrite(q, s) \/ Land(q, s) \/ Vanish(q, s) \/ TimeOut(q, s)
      PROVE  FALSE
  BY <1>4 DEF PurgeStore, LeaseLapses, managerVars, IssueWrite, Land, Vanish, TimeOut
<1>5. ASSUME NEW m \in Managers, RequestDeletion(m) \/ DeletionStep(m) \/ DeletionFails(m)
      PROVE  FALSE
  BY <1>5 DEF RequestDeletion, DeletionStep, Observe, Claim, CloseLocal, WaitForProducers,
              RenewBeforePurge, PurgeStore, Erased, Complete, DeletionFails
<1>6. ASSUME NEW c \in Collectors, CollectorStep(c) \/ SweepFails(c)
      PROVE  FALSE
  BY <1>6 DEF CollectorStep, Sweep, PurgeStore, Swept, SweepFails
<1>7. CASE ClaimLapses
  BY <1>7 DEF ClaimLapses
<1> QED BY <1>1, <1>2, <1>3, <1>4, <1>5, <1>6, <1>7 DEF Next, OperationStep

\* Only these steps bring a manager's deletion to its purge or past it.
LEMMA DeletionMoves ==
  ASSUME TypeOK, [Next]_vars, NEW m \in Managers, dpc'[m] # dpc[m],
         dpc'[m] \in {"purging", "completing"}
  PROVE  RenewBeforePurge(m) \/ (Erased(m) /\ dpc[m] = "purging")
<1> USE DEF TypeOK, Goto
<1>1. CASE UNCHANGED vars
  BY <1>1 DEF vars, managerVars
<1>2. ASSUME NEW o \in Operations,
             \/ Admit(o) \/ OperationStep(o) \/ CompensationFails(o) \/ LeaseLapses(o)
             \/ \E s \in Stores : IssueWrite(o, s) \/ Land(o, s) \/ Vanish(o, s) \/ TimeOut(o, s)
      PROVE  FALSE
  BY <1>2 DEF Admit, OperationStep, Acquire, Enter, Drain, FinalRenew, Release, ReadLifecycle,
              PurgeStore, Compensated, CompensationFails, LeaseLapses, managerVars, IssueWrite,
              Land, Vanish, TimeOut
<1>3. ASSUME NEW n \in Managers,
             \/ RequestDeletion(n) \/ Observe(n) \/ Claim(n) \/ CloseLocal(n)
             \/ WaitForProducers(n) \/ Complete(n) \/ DeletionFails(n) \/ PurgeStore(n)
      PROVE  FALSE
  BY <1>3 DEF RequestDeletion, Observe, Claim, CloseLocal, WaitForProducers, PurgeStore, Complete,
              DeletionFails
<1>4. ASSUME NEW n \in Managers, RenewBeforePurge(n) \/ Erased(n)
      PROVE  RenewBeforePurge(m) \/ (Erased(m) /\ dpc[m] = "purging")
  BY <1>4 DEF RenewBeforePurge, Erased
<1>5. ASSUME NEW n \in Managers, Crash(n)
      PROVE  FALSE
  BY <1>5 DEF Crash
<1>6. ASSUME NEW c \in Collectors, CollectorStep(c) \/ SweepFails(c)
      PROVE  FALSE
  BY <1>6, AgentsAssumption DEF CollectorStep, Sweep, PurgeStore, Swept, SweepFails
<1>7. CASE ClaimLapses
  BY <1>7 DEF ClaimLapses
<1> QED BY <1>1, <1>2, <1>3, <1>4, <1>5, <1>6, <1>7 DEF Next, DeletionStep

\* A purge under way advances by its own steps only, store by store, unless it
\* starts again or ends.
LEMMA PurgeMoves ==
  ASSUME TypeOK, [Next]_vars, NEW p \in Purgers
  PROVE  step'[p] = step[p] \/ PurgeStore(p) \/ step'[p] \in {0, 1}
<1> USE AgentsAssumption DEF TypeOK, Purgers
<1>1. CASE UNCHANGED vars
  BY <1>1 DEF vars, managerVars
<1>2. ASSUME NEW q \in Purgers, PurgeStore(q)
      PROVE  step'[p] = step[p] \/ PurgeStore(p)
  BY <1>2 DEF PurgeStore
<1>3. ASSUME NEW o \in Operations,
             Admit(o) \/ Acquire(o) \/ Enter(o) \/ Drain(o) \/ FinalRenew(o) \/ Release(o)
      PROVE  step' = step
  BY <1>3 DEF Admit, Acquire, Enter, Drain, FinalRenew, Release
<1>4. ASSUME NEW o \in Operations, ReadLifecycle(o) \/ Compensated(o) \/ CompensationFails(o)
      PROVE  step'[p] = step[p] \/ step'[p] \in {0, 1}
  BY <1>4 DEF ReadLifecycle, Compensated, CompensationFails, StartPurge, RecordTombstone
<1>5. ASSUME NEW o \in Operations,
             \/ LeaseLapses(o)
             \/ \E s \in Stores : IssueWrite(o, s) \/ Land(o, s) \/ Vanish(o, s) \/ TimeOut(o, s)
      PROVE  step' = step
  BY <1>5 DEF LeaseLapses, managerVars, IssueWrite, Land, Vanish, TimeOut
<1>6. ASSUME NEW m \in Managers,
             RequestDeletion(m) \/ Claim(m) \/ CloseLocal(m) \/ WaitForProducers(m) \/ Complete(m)
      PROVE  step' = step
  BY <1>6 DEF RequestDeletion, Claim, CloseLocal, WaitForProducers, Complete
<1>7. ASSUME NEW m \in Managers,
             Observe(m) \/ RenewBeforePurge(m) \/ Erased(m) \/ DeletionFails(m)
      PROVE  step'[p] = step[p] \/ step'[p] \in {0, 1}
  BY <1>7 DEF Observe, RenewBeforePurge, Erased, DeletionFails, StartPurge, RecordTombstone
<1>8. ASSUME NEW m \in Managers, Crash(m)
      PROVE  step'[p] = step[p] \/ step'[p] \in {0, 1}
  BY <1>8 DEF Crash
<1>9. ASSUME NEW c \in Collectors, Sweep(c) \/ Swept(c) \/ SweepFails(c)
      PROVE  step'[p] = step[p] \/ step'[p] \in {0, 1}
  BY <1>9 DEF Sweep, Swept, SweepFails, StartPurge, RecordTombstone
<1>10. CASE ClaimLapses
  BY <1>10 DEF ClaimLapses
<1> QED BY <1>1, <1>2, <1>3, <1>4, <1>5, <1>6, <1>7, <1>8, <1>9, <1>10
        DEF Next, OperationStep, DeletionStep, CollectorStep

\* Only completeDeletion writes the tombstone row.
LEMMA CompletionMoves ==
  ASSUME [Next]_vars, state # "deleted", state' = "deleted"
  PROVE  \E m \in Managers : dpc[m] = "completing" /\ UNCHANGED <<pc, write, content>>
<1> USE DEF storeVars
<1>1. CASE UNCHANGED vars
  BY <1>1 DEF vars
<1>2. ASSUME NEW o \in Operations,
             Admit(o) \/ Enter(o) \/ Drain(o) \/ FinalRenew(o) \/ LeaseLapses(o) \/ Acquire(o)
      PROVE  FALSE
  BY <1>2 DEF Admit, Acquire, AcquireOperation, Enter, Drain, FinalRenew, LeaseLapses,
              OperationExpires
<1>3. ASSUME NEW o \in Operations,
             Release(o) \/ ReadLifecycle(o) \/ Compensated(o) \/ CompensationFails(o)
      PROVE  FALSE
  BY <1>3 DEF Release, ReleaseOperation, ReadLifecycle, Compensated, CompensationFails
<1>4. ASSUME NEW o \in Operations, NEW s \in Stores,
             IssueWrite(o, s) \/ Land(o, s) \/ Vanish(o, s) \/ TimeOut(o, s)
      PROVE  FALSE
  BY <1>4 DEF IssueWrite, Land, Vanish, TimeOut
<1>5. ASSUME NEW p, PurgeStore(p)
      PROVE  FALSE
  BY <1>5 DEF PurgeStore
<1>6. ASSUME NEW m \in Managers,
             \/ RequestDeletion(m) \/ Observe(m) \/ Claim(m) \/ CloseLocal(m)
             \/ WaitForProducers(m) \/ RenewBeforePurge(m) \/ Erased(m) \/ DeletionFails(m)
             \/ Crash(m)
      PROVE  FALSE
  BY <1>6 DEF RequestDeletion, Observe, Claim, ClaimDeletion, CloseLocal, WaitForProducers,
              RenewBeforePurge, Erased, DeletionFails, Crash
<1>7. ASSUME NEW m \in Managers, Complete(m)
      PROVE  dpc[m] = "completing" /\ UNCHANGED <<pc, write, content>>
  BY <1>7 DEF Complete
<1>8. ASSUME NEW c \in Collectors, Sweep(c) \/ Swept(c) \/ SweepFails(c)
      PROVE  FALSE
  BY <1>8 DEF Sweep, Swept, SweepFails
<1>9. CASE ClaimLapses
  BY <1>9 DEF ClaimLapses, ClaimExpires
<1> QED BY <1>1, <1>2, <1>3, <1>4, <1>5, <1>6, <1>7, <1>8, <1>9
        DEF Next, OperationStep, DeletionStep, CollectorStep

----------------------------------------------------------------------------
\* An operation leaves "running" or "crashed" only with no write in flight.
LEMMA RunningEnds ==
  ASSUME TypeOK, PurgesKnowTheirPlace, [Next]_vars, NEW o \in Operations,
         pc[o] \in {"running", "crashed"}, pc'[o] \notin {"running", "crashed"}
  PROVE  UNCHANGED write /\ \A s \in Stores : write[o][s] # "flight"
<1> USE DEF TypeOK
<1>1. CASE Drain(o)
  BY <1>1 DEF Drain, Awaited
<1>2. CASE \/ Admit(o) \/ Acquire(o) \/ Enter(o) \/ FinalRenew(o) \/ Release(o)
           \/ ReadLifecycle(o)
  BY <1>2 DEF Admit, Acquire, Enter, FinalRenew, Release, ReadLifecycle
<1>3. CASE Compensated(o) \/ CompensationFails(o)
  <2>1. step[o] # 0
    BY <1>3, PurgeLength DEF Compensated, CompensationFails, AfterPurge
  <2> QED BY <2>1 DEF PurgesKnowTheirPlace
<1>4. ASSUME NEW m \in Managers, Crash(m) PROVE FALSE
  BY <1>4 DEF Crash, Settled
<1> QED BY <1>1, <1>2, <1>3, <1>4, OperationMoves

\* Every step keeps the requests awaited and the contents written.
LEMMA WritesStep ==
  ASSUME TypeOK, PurgesKnowTheirPlace, WritesAreAwaited, [Next]_vars
  PROVE  WritesAreAwaited'
<1> USE DEF TypeOK
<1>1. ASSUME NEW o \in Operations, NEW s \in Stores, write'[o][s] = "flight"
      PROVE  pc'[o] \in {"running", "crashed"}
  <2>1. ASSUME NEW q \in Operations, NEW t \in Stores,
               IssueWrite(q, t) \/ Land(q, t) \/ Vanish(q, t) \/ TimeOut(q, t)
        PROVE  pc'[o] \in {"running", "crashed"}
    <3>1. pc' = pc
      BY <2>1 DEF IssueWrite, Land, Vanish, TimeOut
    <3>2. CASE write[o][s] = "flight"
      BY <3>1, <3>2 DEF WritesAreAwaited
    <3>3. CASE write[o][s] # "flight"
      <4>1. q = o /\ t = s /\ IssueWrite(q, t)
        BY <1>1, <2>1, <3>3 DEF IssueWrite, Land, Vanish, TimeOut, SetWrite
      <4> QED BY <3>1, <4>1 DEF IssueWrite
    <3> QED BY <3>2, <3>3
  <2>2. CASE UNCHANGED write
    <3>1. write[o][s] = "flight" /\ pc[o] \in {"running", "crashed"}
      BY <1>1, <2>2 DEF WritesAreAwaited
    <3> QED BY <3>1, RunningEnds
  <2> QED BY <2>1, <2>2, WritersAndPurgers DEF PurgeStore
<1>2. ASSUME NEW c \in content'
      PROVE  write'[c[1]][c[2]] \in {"settled", "late"}
  <2>1. ASSUME NEW q \in Operations, NEW t \in Stores, IssueWrite(q, t) \/ Vanish(q, t) \/ TimeOut(q, t)
        PROVE  write'[c[1]][c[2]] \in {"settled", "late"}
    <3>1. c \in content /\ write[c[1]][c[2]] \in {"settled", "late"}
      BY <2>1 DEF IssueWrite, Vanish, TimeOut, WritesAreAwaited
    <3>2. c[1] \in Operations /\ c[2] \in Stores
      BY <3>1
    <3> QED BY <2>1, <3>1, <3>2 DEF IssueWrite, Vanish, TimeOut, SetWrite
  <2>2. ASSUME NEW q \in Operations, NEW t \in Stores, Land(q, t)
        PROVE  write'[c[1]][c[2]] \in {"settled", "late"}
    <3>1. write'[q][t] \in {"settled", "late"}
      BY <2>2 DEF Land, SetWrite
    <3>2. CASE c = <<q, t>>
      BY <3>1, <3>2
    <3>3. CASE c # <<q, t>>
      <4>1. c \in content /\ write[c[1]][c[2]] \in {"settled", "late"}
        BY <2>2, <3>3 DEF Land, WritesAreAwaited
      <4>2. c[1] \in Operations /\ c[2] \in Stores /\ c = <<c[1], c[2]>>
        BY <4>1
      <4>3. c[1] # q \/ c[2] # t
        BY <3>3, <4>2
      <4> QED BY <2>2, <4>1, <4>2, <4>3 DEF Land, SetWrite
    <3> QED BY <3>2, <3>3
  <2>3. CASE UNCHANGED write /\ content' \subseteq content
    BY <1>2, <2>3 DEF WritesAreAwaited
  <2> QED BY <2>1, <2>2, <2>3, WritersAndPurgers DEF PurgeStore
<1> QED BY <1>1, <1>2 DEF WritesAreAwaited

----------------------------------------------------------------------------
\* Whoever awaits no request stays clean where it is clean.
LEMMA CleanStays ==
  ASSUME TypeOK, WritesAreAwaited, [Next]_vars, NEW o \in Operations, NEW s \in Stores,
         pc[o] \notin {"running", "crashed"}, Clean(o, s)
  PROVE  Clean(o, s)'
<1> USE DEF TypeOK
<1>1. CASE UNCHANGED write /\ content' \subseteq content
  BY <1>1 DEF Clean
<1>2. ASSUME NEW q \in Operations, NEW t \in Stores, IssueWrite(q, t) \/ Vanish(q, t) \/ TimeOut(q, t)
      PROVE  Clean(o, s)'
  <2>1. SUFFICES ASSUME <<o, s>> \in content' PROVE write'[o][s] = "late"
    BY DEF Clean
  <2>2. <<o, s>> \in content /\ write[o][s] = "late"
    BY <1>2, <2>1 DEF IssueWrite, Vanish, TimeOut, Clean
  <2>3. q # o \/ t # s
    BY <1>2, <2>2 DEF IssueWrite, Vanish, TimeOut
  <2> QED BY <1>2, <2>2, <2>3 DEF IssueWrite, Vanish, TimeOut, SetWrite
<1>3. ASSUME NEW q \in Operations, NEW t \in Stores, Land(q, t)
      PROVE  Clean(o, s)'
  <2>1. CASE q = o /\ t = s
    <3>1. write[o][s] = "detached"
      BY <1>3, <2>1 DEF Land, WritesAreAwaited
    <3> QED BY <1>3, <2>1, <3>1 DEF Land, SetWrite, Clean
  <2>2. CASE q # o \/ t # s
    <3>1. write'[o][s] = write[o][s]
      BY <1>3, <2>2 DEF Land, SetWrite
    <3>2. <<o, s>> \in content' => <<o, s>> \in content
      BY <1>3, <2>2 DEF Land
    <3> QED BY <3>1, <3>2 DEF Clean
  <2> QED BY <2>1, <2>2
<1> QED BY <1>1, <1>2, <1>3, WritersAndPurgers DEF PurgeStore

\* A purge leaves the store it empties clean.
LEMMA PurgeCleans ==
  ASSUME NEW p, PurgeStore(p), NEW o \in Operations, NEW s, s = PurgeOrder[step[p]]
  PROVE  Clean(o, s)'
<1>1. <<o, s>> \notin content'
  BY DEF PurgeStore
<1> QED BY <1>1 DEF Clean

\* An operation stops owing when its final renewal finds the lease live, when
\* it reads a session nobody deletes, or when its compensation is through.
LEMMA OwingEnds ==
  ASSUME TypeOK, PurgesKnowTheirPlace, [Next]_vars, NEW o \in Operations,
         pc[o] \in Owing, pc'[o] \notin Owing
  PROVE  /\ UNCHANGED <<dpc, write, content>>
         /\ state' = state
         /\ \A m \in Managers : step'[m] = step[m]
         /\ \/ ~Drained
            \/ state \in {"none", "active"}
            \/ pc[o] = "compensating" /\ step[o] = AfterPurge
<1> USE DEF TypeOK, Owing
<1>1. CASE Drain(o) \/ Release(o) \/ Admit(o) \/ Acquire(o) \/ Enter(o)
  BY <1>1 DEF Drain, Release, Admit, Acquire, Enter
<1>2. CASE FinalRenew(o)
  BY <1>2 DEF FinalRenew, Renewable, Drained, storeVars
<1>3. CASE ReadLifecycle(o)
  BY <1>3 DEF ReadLifecycle, storeVars
<1>4. CASE Compensated(o)
  <2>1. pc[o] = "compensating" /\ step[o] = AfterPurge
    BY <1>4, PurgeLength DEF Compensated, PurgesKnowTheirPlace, AfterPurge
  <2>2. \A m \in Managers : step'[m] = step[m]
    BY <1>4, AgentsAssumption DEF Compensated, RecordTombstone, Purgers
  <2> QED BY <1>4, <2>1, <2>2 DEF Compensated, storeVars
<1>5. CASE CompensationFails(o)
  <2>1. pc[o] = "compensating"
    BY <1>5 DEF CompensationFails, PurgesKnowTheirPlace
  <2> QED BY <1>5, <2>1 DEF CompensationFails
<1>6. ASSUME NEW m \in Managers, Crash(m) PROVE FALSE
  BY <1>6 DEF Crash, Settled
<1> QED BY <1>1, <1>2, <1>3, <1>4, <1>5, <1>6, OperationMoves

\* Every step keeps clean what purges and compensations have passed.
LEMMA PurgedStep ==
  ASSUME DeletionInv, [Next]_vars
  PROVE  PurgedStaysClean'
<1> USE DEF DeletionInv, TypeOK
<1>0. PurgesKnowTheirPlace'
  BY PlaceStep
<1>1. ASSUME NEW m \in Managers, NEW o \in Operations, pc'[o] \notin Owing,
             dpc'[m] = "purging", NEW i \in 1..Len(PurgeOrder), i < step'[m]
      PROVE  Clean(o, PurgeOrder[i])'
  <2>0. m \in Purgers /\ PurgeOrder[i] \in Stores
    BY DEF Purgers, Stores
  <2>1. dpc[m] = "purging"
    <3>1. CASE RenewBeforePurge(m)
      BY <1>1, <2>0, <3>1, PurgeLength DEF RenewBeforePurge, StartPurge, Goto
    <3>2. CASE Erased(m)
      BY <1>1, <3>2 DEF Erased, Goto
    <3> QED BY <1>1, <3>1, <3>2, DeletionMoves
  <2>2. CASE pc[o] \in Owing
    <3>1. PICK j : j = step[m] /\ step'[m] = j
      BY <1>1, <2>2, OwingEnds
    <3>2. Drained /\ state \in {"deleting", "deleted"}
      BY <2>1 DEF PurgesKnowTheirPlace, DeletionBeats
    <3>3. pc[o] = "compensating" /\ step[o] = AfterPurge /\ UNCHANGED <<write, content>>
      BY <1>1, <2>2, <3>2, OwingEnds
    <3>4. Clean(o, PurgeOrder[i])
      BY <3>3, PurgeLength DEF PurgedStaysClean, AfterPurge
    <3> QED BY <3>3, <3>4 DEF Clean
  <2>3. CASE pc[o] \notin Owing
    <3>1. pc[o] \notin {"running", "crashed"}
      BY <2>3 DEF Owing
    <3>2. CASE i < step[m]
      <4>1. Clean(o, PurgeOrder[i])
        BY <2>1, <2>3, <3>2 DEF PurgedStaysClean
      <4> QED BY <2>0, <3>1, <4>1, CleanStays
    <3>3. CASE ~(i < step[m])
      <4>1. step[m] \in Nat /\ step'[m] # step[m] /\ step'[m] \notin {0, 1}
        BY <1>1, <2>0, <3>3, PurgeLength DEF AfterPurge
      <4>2. PurgeStore(m) /\ i = step[m]
        BY <1>1, <2>0, <3>3, <4>1, PurgeMoves DEF PurgeStore
      <4> QED BY <4>2, PurgeCleans
    <3> QED BY <3>2, <3>3
  <2> QED BY <2>2, <2>3
<1>2. ASSUME NEW m \in Managers, NEW o \in Operations, pc'[o] \notin Owing,
             dpc'[m] = "completing", NEW s \in Stores
      PROVE  Clean(o, s)'
  <2>1. CASE Erased(m) /\ dpc[m] = "purging"
    <3>1. step[m] = AfterPurge /\ UNCHANGED <<pc, write, content>>
      BY <2>1 DEF Erased, RecordTombstone
    <3>2. PICK i \in 1..Len(PurgeOrder) : s = PurgeOrder[i]
      BY DEF Stores
    <3>3. Clean(o, s)
      BY <1>2, <2>1, <3>1, <3>2, PurgeLength DEF PurgedStaysClean, AfterPurge
    <3> QED BY <3>1, <3>3 DEF Clean
  <2>2. CASE dpc[m] = "completing"
    <3>1. CASE pc[o] \in Owing
      <4>1. Drained /\ state \in {"deleting", "deleted"}
        BY <2>2 DEF PurgesKnowTheirPlace, DeletionBeats
      <4>2. pc[o] = "compensating" /\ step[o] = AfterPurge /\ UNCHANGED <<write, content>>
        BY <1>2, <3>1, <4>1, OwingEnds
      <4>3. PICK i \in 1..Len(PurgeOrder) : s = PurgeOrder[i]
        BY DEF Stores
      <4>4. Clean(o, s)
        BY <4>2, <4>3, PurgeLength DEF PurgedStaysClean, AfterPurge
      <4> QED BY <4>2, <4>4 DEF Clean
    <3>2. CASE pc[o] \notin Owing
      <4>1. Clean(o, s) /\ pc[o] \notin {"running", "crashed"}
        BY <2>2, <3>2 DEF PurgedStaysClean, Owing
      <4> QED BY <4>1, CleanStays
    <3> QED BY <3>1, <3>2
  <2>3. CASE dpc[m] # "completing" /\ RenewBeforePurge(m)
    BY <1>2, <2>3 DEF RenewBeforePurge, Goto
  <2> QED BY <1>2, <2>1, <2>2, <2>3, DeletionMoves
<1>3. ASSUME NEW o \in Operations, pc'[o] = "compensating",
             NEW i \in 1..Len(PurgeOrder), i < step'[o]
      PROVE  Clean(o, PurgeOrder[i])'
  <2>0. o \in Purgers /\ PurgeOrder[i] \in Stores /\ step[o] \in Nat
    BY PurgeLength DEF Purgers, Stores, AfterPurge
  <2>1. step'[o] \notin {0, 1}
    BY <1>3
  <2>2. step[o] # 0
    <3>1. CASE step'[o] = step[o]
      BY <2>1, <3>1
    <3>2. CASE PurgeStore(o)
      BY <3>2 DEF PurgeStore
    <3> QED BY <2>0, <2>1, <3>1, <3>2, PurgeMoves
  <2>3. pc[o] = "compensating"
    BY <2>2 DEF PurgesKnowTheirPlace
  <2>4. CASE i < step[o]
    <3>1. Clean(o, PurgeOrder[i])
      BY <2>3, <2>4 DEF PurgedStaysClean
    <3> QED BY <2>0, <2>3, <3>1, CleanStays
  <2>5. CASE ~(i < step[o])
    <3>1. PurgeStore(o) /\ i = step[o]
      BY <1>3, <2>0, <2>1, <2>5, PurgeMoves DEF PurgeStore
    <3> QED BY <3>1, PurgeCleans
  <2> QED BY <2>4, <2>5
<1> QED BY <1>1, <1>2, <1>3 DEF PurgedStaysClean

\* Every step keeps the content of a deleted session owed.
LEMMA OwedStep ==
  ASSUME DeletionInv, [Next]_vars
  PROVE  DeletedContentIsOwed'
<1> USE DEF DeletionInv, TypeOK
<1>1. SUFFICES ASSUME state' = "deleted", NEW o \in Operations, NEW s \in Stores,
                      <<o, s>> \in content', pc'[o] \notin Owing
               PROVE  write'[o][s] = "late"
  <2>1. content' \subseteq Operations \X Stores
    BY TypeStep
  <2> QED BY <2>1 DEF DeletedContentIsOwed
<1>2. SUFFICES Clean(o, s)'
  BY <1>1 DEF Clean
<1>3. CASE state # "deleted"
  <2>1. PICK m \in Managers : dpc[m] = "completing" /\ UNCHANGED <<pc, write, content>>
    BY <1>1, <1>3, CompletionMoves
  <2>2. Clean(o, s)
    BY <1>1, <2>1 DEF PurgedStaysClean
  <2> QED BY <2>1, <2>2 DEF Clean
<1>4. CASE state = "deleted" /\ pc[o] \in Owing
  <2>1. Drained
    BY <1>4 DEF LifecycleInv, DeletedIsDrained
  <2>2. pc[o] = "compensating" /\ step[o] = AfterPurge /\ UNCHANGED <<write, content>>
    BY <1>1, <1>4, <2>1, OwingEnds
  <2>3. PICK i \in 1..Len(PurgeOrder) : s = PurgeOrder[i]
    BY DEF Stores
  <2>4. Clean(o, s)
    BY <2>2, <2>3, PurgeLength DEF PurgedStaysClean, AfterPurge
  <2> QED BY <2>2, <2>4 DEF Clean
<1>5. CASE state = "deleted" /\ pc[o] \notin Owing
  <2>1. Clean(o, s) /\ pc[o] \notin {"running", "crashed"}
    BY <1>5 DEF DeletedContentIsOwed, Clean, Owing
  <2> QED BY <2>1, CleanStays
<1> QED BY <1>3, <1>4, <1>5

----------------------------------------------------------------------------
\* The initial state satisfies the inductive invariant.
LEMMA DeletionInitInv == Init => DeletionInv
<1> SUFFICES ASSUME Init PROVE DeletionInv
  OBVIOUS
<1>1. LifecycleInv
  BY LifecycleInitInv DEF Init
<1>2. TypeOK
  <2>1. ManagerTypeOK
    <3>1. step \in [Purgers -> 0..AfterPurge] /\ mishaps \in 0..MaxMishaps
      BY AgentsAssumption, PurgeLength DEF Init
    <3>2. write \in [Operations -> [Stores -> {"none", "flight", "detached", "settled", "late"}]]
      BY DEF Init
    <3>3. content \subseteq Operations \X Stores /\ tombstone \in BOOLEAN
      BY DEF Init
    <3> QED BY <3>1, <3>2, <3>3 DEF Init, ManagerTypeOK, States
  <2> QED BY <1>1, <2>1 DEF TypeOK, ManagerTypeOK, LifecycleInv
<1>3. PurgesKnowTheirPlace
  BY DEF Init, PurgesKnowTheirPlace, DeletionBeats, Purgers
<1>4. WritesAreAwaited
  BY DEF Init, WritesAreAwaited
<1>5. PurgedStaysClean /\ DeletedContentIsOwed
  BY DEF Init, PurgedStaysClean, DeletedContentIsOwed, Clean
<1> QED BY <1>1, <1>2, <1>3, <1>4, <1>5 DEF DeletionInv

\* Every step preserves it.
LEMMA DeletionStepInv ==
  ASSUME DeletionInv, [Next]_vars
  PROVE  DeletionInv'
<1>1. LifecycleInv'
  BY NextIsStoreStep, StoreStepKeeps DEF DeletionInv
<1>2. TypeOK' /\ PurgesKnowTheirPlace' /\ WritesAreAwaited'
  BY TypeStep, PlaceStep, WritesStep DEF DeletionInv
<1> QED BY <1>1, <1>2, PurgedStep, OwedStep DEF DeletionInv

\* DeletionInv holds in every state of the system.
THEOREM DeletionInvariant == Spec => []DeletionInv
<1>1. DeletionInv /\ [Next]_vars => DeletionInv'
  BY DeletionStepInv
<1> QED BY DeletionInitInv, <1>1, PTL DEF Spec

\* Seen from the store the managers are callers of its transactions and nothing
\* else: no purge, crash, timeout or retry reaches the row past them.
THEOREM DeletionUsesStore == Spec => LifecycleSpec
<1>1. DeletionInv /\ [Next]_vars => [LifecycleNext]_storeVars
  <2> SUFFICES ASSUME DeletionInv, [Next]_vars PROVE [LifecycleNext]_storeVars
    OBVIOUS
  <2>1. ASSUME NEW m \in Managers, CompleteDeletion(m, held[m])
        PROVE  LifecycleNext
    <3>1. held[m] = deleteToken /\ claimLive
      BY <2>1 DEF CompleteDeletion, ClaimHeld, ClaimNamed
    <3>2. held[m] \in 1..tokens
      BY <3>1 DEF DeletionInv, LifecycleInv, LifecycleTypeOK, ClaimNamesRow
    <3> QED BY <2>1, <3>2 DEF LifecycleNext
  <2> QED BY <2>1, NextIsStoreStep DEF StoreStep, LifecycleNext
<1>2. Init => LifecycleInit
  BY DEF Init
<1> QED BY <1>1, <1>2, DeletionInvariant, PTL DEF Spec, LifecycleSpec

\* Whoever writes the tombstone, and whatever it crashed or timed out before,
\* there is no lease and no claim then (completeDeletion).
THEOREM DeletionLeavesNoLease == Spec => []DeletedIsDrained
BY DeletionUsesStore, TombstoneIsDrained, PTL

\* Neither a failed purge nor a crash nor a compensation takes the fence down.
THEOREM DeletionIsIrrevocable == Spec => FenceIsPermanent
BY DeletionUsesStore, FenceHolds, PTL

\* No deleter and no collector empties a store while a producer holds a lease.
THEOREM PurgesWaitForProducers == Spec => []PurgesAreDrained
<1>1. DeletionInv => PurgesAreDrained
  BY DEF DeletionInv, PurgesAreDrained, PurgesKnowTheirPlace, LifecycleInv, DeletedIsDrained,
         DeletionBeats
<1> QED BY DeletionInvariant, <1>1, PTL

\* A deleted session holds nothing that an operation reported as done.
THEOREM DeletionErases == Spec => []DeletedContentIsOwed
<1>1. DeletionInv => DeletedContentIsOwed
  BY DEF DeletionInv
<1> QED BY DeletionInvariant, <1>1, PTL

\* Content leaves a store only by a purge, and every purge is behind the fence.
LEMMA StepKeepsActiveContent ==
  ASSUME DeletionInv, [Next]_vars, state \in {"none", "active"}
  PROVE  content \subseteq content'
<1>1. ASSUME NEW p \in Purgers, PurgeStore(p) PROVE FALSE
  <2>1. step[p] # 0
    BY <1>1 DEF PurgeStore
  <2> QED BY <2>1 DEF DeletionInv, PurgesKnowTheirPlace, Purgers, DeletionBeats
<1> QED BY <1>1, WritersAndPurgers DEF IssueWrite, Land, Vanish, TimeOut

\* No purge of any kind touches a session nobody deletes.
THEOREM ActiveSessionsAreSafe == Spec => ActiveContentIsKept
<1>1. DeletionInv /\ [Next]_vars =>
        [(state \in {"none", "active"}) => (content \subseteq content')]_vars
  BY StepKeepsActiveContent
<1> QED BY DeletionInvariant, <1>1, PTL DEF Spec, ActiveContentIsKept
=============================================================================
