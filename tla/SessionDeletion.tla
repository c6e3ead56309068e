-------------------------- MODULE SessionDeletion --------------------------
(* Deleting a session that several managers work on, as                      *)
(* packages/core/src/session-manager.ts does it over the lifecycle store:    *)
(* producers' operations under leases, the deletion with its drain, purge    *)
(* and tombstone, the compensating purge of a producer that outlived its     *)
(* lease, and the collector that sweeps tombstones.  A step between two      *)
(* awaits is one action.  A manager is one process: a restart is another     *)
(* manager, because workerId is drawn at random.                             *)
EXTENDS SessionLifecycle, Sequences

CONSTANTS
    Collectors,   \* periodic sweeps of listDeleted, one per manager
    ManagerOf,    \* the manager that runs an operation or a collector
    PurgeOrder,   \* the content stores, in the order purgeSessionContent empties them
    EventStore,   \* the one that holds the event stream, and so the tombstone event
    MayCrash,     \* the managers that may crash
    MaxMishaps    \* bound: crashes, suspended deleters and failing calls

Stores == {PurgeOrder[i] : i \in 1..Len(PurgeOrder)}

\* The owners of a purge: compensating operations, deleters and collectors.
Purgers == Operations \cup Managers \cup Collectors

ASSUME AgentsAssumption ==
    /\ Operations \cap Managers = {}
    /\ Operations \cap Collectors = {}
    /\ Managers \cap Collectors = {}
    /\ ManagerOf \in [Operations \cup Collectors -> Managers]
    /\ MayCrash \subseteq Managers
    /\ MaxMishaps \in Nat
ASSUME StoresAssumption ==
    /\ Len(PurgeOrder) \in Nat \ {0}
    /\ EventStore \in Stores

VARIABLES
    alive,      \* per manager: the process runs
    fenced,     \* per manager: deletingSessions has the session
    pc,         \* per operation: where withSessionOperationLease awaits
    seen,       \* per operation: the state compensateLateSessionOperation read
    write,      \* per operation and store: its write is not issued, in flight or settled
    content,    \* the <<operation, store>> pairs whose bytes a store holds
    tombstone,  \* the event stream holds session.deleted
    dpc,        \* per manager: where deleteSessionDurably awaits
    held,       \* per manager: the token of its SessionDeletionClaim
    step,       \* per purger: the index of the store it empties next, 0 outside a purge
    mishaps

managerVars ==
    <<alive, fenced, pc, seen, write, content, tombstone, dpc, held, step, mishaps>>
vars == <<storeVars, managerVars>>

\* The promise of the operation has settled, one way or the other.
Settled == {"refused", "done", "lost", "failed"}

AfterPurge == Len(PurgeOrder) + 1
Mishap == mishaps < MaxMishaps /\ mishaps' = mishaps + 1

Init ==
    /\ LifecycleInit
    /\ alive = [m \in Managers |-> TRUE]
    /\ fenced = [m \in Managers |-> FALSE]
    /\ pc = [o \in Operations |-> "idle"]
    /\ seen = [o \in Operations |-> "none"]
    /\ write = [o \in Operations |-> [s \in Stores |-> "none"]]
    /\ content = {}
    /\ tombstone = FALSE
    /\ dpc = [m \in Managers |-> "idle"]
    /\ held = [m \in Managers |-> 0]
    /\ step = [p \in Purgers |-> 0]
    /\ mishaps = 0

----------------------------------------------------------------------------
(* Producers: withSessionOperationLease. *)

\* startSessionOperation passes assertSessionAvailable and its preflight.
Admit(o) ==
    /\ pc[o] = "idle"
    /\ alive[ManagerOf[o]]
    /\ ~fenced[ManagerOf[o]]
    /\ pc' = [pc EXCEPT ![o] = "admitted"]
    /\ UNCHANGED <<storeVars, alive, fenced, seen, write, content, tombstone, dpc, held,
                   step, mishaps>>

\* acquireOperation commits, or throws because a deletion came first.
Acquire(o) ==
    /\ pc[o] = "admitted"
    /\ \/ /\ AcquireOperation(o)
          /\ pc' = [pc EXCEPT ![o] = "granted"]
       \/ /\ ~Accepts
          /\ pc' = [pc EXCEPT ![o] = "refused"]
          /\ UNCHANGED storeVars
    /\ UNCHANGED <<alive, fenced, seen, write, content, tombstone, dpc, held, step, mishaps>>

\* The second assertSessionAvailable.  It throws outside the try block, so a
\* deletion begun in this process meanwhile leaves the new lease behind.
Enter(o) ==
    /\ pc[o] = "granted"
    /\ pc' = [pc EXCEPT ![o] = IF fenced[ManagerOf[o]] THEN "refused" ELSE "running"]
    /\ UNCHANGED <<storeVars, alive, fenced, seen, write, content, tombstone, dpc, held,
                   step, mishaps>>

SetWrite(o, s, w) == write' = [write EXCEPT ![o][s] = w]

\* run sends a write to a store; losing the lease does not stop it.
IssueWrite(o, s) ==
    /\ pc[o] = "running"
    /\ write[o][s] = "none"
    /\ SetWrite(o, s, "flight")
    /\ UNCHANGED <<storeVars, alive, fenced, pc, seen, content, tombstone, dpc, held, step,
                   mishaps>>

\* The backend commits a write, also one nobody waits for any more.
Land(o, s) ==
    /\ write[o][s] \in {"flight", "detached"}
    /\ SetWrite(o, s, IF write[o][s] = "flight" THEN "settled" ELSE "late")
    /\ content' = content \cup {<<o, s>>}
    /\ UNCHANGED <<storeVars, alive, fenced, pc, seen, tombstone, dpc, held, step, mishaps>>

\* The backend never commits it.
Vanish(o, s) ==
    /\ write[o][s] \in {"flight", "detached"}
    /\ SetWrite(o, s, "settled")
    /\ UNCHANGED <<storeVars, alive, fenced, pc, seen, content, tombstone, dpc, held, step,
                   mishaps>>

\* The request times out: the producer goes on, the backend may still commit.
TimeOut(o, s) ==
    /\ pc[o] = "running"
    /\ write[o][s] = "flight"
    /\ SetWrite(o, s, "detached")
    /\ Mishap
    /\ UNCHANGED <<storeVars, alive, fenced, pc, seen, content, tombstone, dpc, held, step>>

Awaited(o) == \E s \in Stores : write[o][s] = "flight"

\* run has settled, flushRuntimeWrites and the heartbeat's tail too.
Drain(o) ==
    /\ pc[o] = "running"
    /\ ~Awaited(o)
    /\ pc' = [pc EXCEPT ![o] = "draining"]
    /\ UNCHANGED <<storeVars, alive, fenced, seen, write, content, tombstone, dpc, held,
                   step, mishaps>>

\* Mutant: the heartbeat that saw no loss is taken for the last word.
FinalRenewSkipped(o) ==
    /\ pc[o] = "draining"
    /\ pc' = [pc EXCEPT ![o] = "retained"]
    /\ UNCHANGED <<storeVars, alive, fenced, seen, write, content, tombstone, dpc, held,
                   step, mishaps>>

\* The final conditional renewal; a call that fails counts as a lost lease.
FinalRenew(o) ==
    /\ pc[o] = "draining"
    /\ \/ /\ Renewable(o)
          /\ pc' = [pc EXCEPT ![o] = "retained"]
          /\ UNCHANGED mishaps
       \/ /\ Renewable(o)
          /\ pc' = [pc EXCEPT ![o] = "outlived"]
          /\ Mishap
       \/ /\ ~Renewable(o)
          /\ pc' = [pc EXCEPT ![o] = "outlived"]
          /\ UNCHANGED mishaps
    /\ UNCHANGED <<storeVars, alive, fenced, seen, write, content, tombstone, dpc, held, step>>

\* releaseOperation; an error is swallowed and leaves the row to expire.
Release(o) ==
    /\ pc[o] \in {"retained", "outlived"}
    /\ \/ ReleaseOperation(o) /\ UNCHANGED mishaps
       \/ UNCHANGED storeVars /\ Mishap
    /\ pc' = [pc EXCEPT ![o] = IF pc[o] = "retained" THEN "done" ELSE "reading"]
    /\ UNCHANGED <<alive, fenced, seen, write, content, tombstone, dpc, held, step>>

----------------------------------------------------------------------------
(* purgeSessionContent, shared by its three callers. *)

StartPurge(p) == step' = [step EXCEPT ![p] = 1]

\* One store forgets the session.
PurgeStore(p) ==
    LET s == PurgeOrder[step[p]]
    IN  /\ step[p] \in 1..Len(PurgeOrder)
        /\ content' = {c \in content : c[2] # s}
        /\ tombstone' = (tombstone /\ s # EventStore)
        /\ step' = [step EXCEPT ![p] = step[p] + 1]
        /\ UNCHANGED <<storeVars, alive, fenced, pc, seen, write, dpc, held, mishaps>>

\* recordDeletionTombstone appends session.deleted once per stream.
RecordTombstone(p) ==
    /\ step[p] = AfterPurge
    /\ tombstone' = TRUE
    /\ step' = [step EXCEPT ![p] = 0]

----------------------------------------------------------------------------
(* The compensation of a producer that outlived its lease. *)

Fence(m) == fenced' = [fenced EXCEPT ![m] = TRUE]

\* Mutant: a lost lease is taken for a deletion.
ReadLifecycleAnyway(o) ==
    /\ pc[o] = "reading"
    /\ seen' = [seen EXCEPT ![o] = state]
    /\ pc' = [pc EXCEPT ![o] = "compensating"]
    /\ Fence(ManagerOf[o])
    /\ StartPurge(o)
    /\ UNCHANGED <<storeVars, alive, write, content, tombstone, dpc, held, mishaps>>

\* compensateLateSessionOperation reads the lifecycle; an active session keeps
\* its content, the caller only learns that the lease was lost.
ReadLifecycle(o) ==
    /\ pc[o] = "reading"
    /\ seen' = [seen EXCEPT ![o] = state]
    /\ \/ /\ state \in {"none", "active"}
          /\ pc' = [pc EXCEPT ![o] = "lost"]
          /\ UNCHANGED <<fenced, step>>
       \/ /\ state \in {"deleting", "deleted"}
          /\ pc' = [pc EXCEPT ![o] = "compensating"]
          /\ Fence(ManagerOf[o])
          /\ StartPurge(o)
    /\ UNCHANGED <<storeVars, alive, write, content, tombstone, dpc, held, mishaps>>

\* The purge is done; the tombstone follows if the session was seen deleted.
Compensated(o) ==
    /\ step[o] = AfterPurge
    /\ pc' = [pc EXCEPT ![o] = "lost"]
    /\ \/ seen[o] = "deleted" /\ RecordTombstone(o)
       \/ /\ seen[o] # "deleted"
          /\ step' = [step EXCEPT ![o] = 0]
          /\ UNCHANGED tombstone
    /\ UNCHANGED <<storeVars, alive, fenced, seen, write, content, dpc, held, mishaps>>

\* A store refuses: another attempt, or after the third the error.
CompensationFails(o) ==
    /\ step[o] # 0
    /\ Mishap
    /\ \/ StartPurge(o) /\ UNCHANGED pc
       \/ /\ step' = [step EXCEPT ![o] = 0]
          /\ pc' = [pc EXCEPT ![o] = "failed"]
    /\ UNCHANGED <<storeVars, alive, fenced, seen, write, content, tombstone, dpc, held>>

----------------------------------------------------------------------------
(* The deletion: deleteSession, deleteSessionDurably, performSessionDeletion. *)

Goto(m, where) == dpc' = [dpc EXCEPT ![m] = where]

\* deleteSession raises the local fence before its first await.  A deletion that
\* failed may be asked for again; one under way is joined.
RequestDeletion(m) ==
    /\ dpc[m] \in {"idle", "failed"}
    /\ alive[m]
    /\ Fence(m)
    /\ Goto(m, "observing")
    /\ UNCHANGED <<storeVars, alive, pc, seen, write, content, tombstone, held, step, mishaps>>

\* A session found deleted is purged once more, without a claim.
Observe(m) ==
    /\ dpc[m] = "observing"
    /\ \/ state = "deleted" /\ Goto(m, "repairing") /\ StartPurge(m)
       \/ state # "deleted" /\ Goto(m, "claiming") /\ UNCHANGED step
    /\ UNCHANGED <<storeVars, alive, fenced, pc, seen, write, content, tombstone, held, mishaps>>

\* claimDeletion; a claim held elsewhere is polled for.
Claim(m) ==
    /\ dpc[m] = "claiming"
    /\ \/ /\ state = "deleted"
          /\ Goto(m, "deleted")
          /\ UNCHANGED <<storeVars, held>>
       \/ /\ ClaimDeletion(m)
          /\ held' = [held EXCEPT ![m] = deleteToken']
          /\ Goto(m, "closing")
    /\ UNCHANGED <<alive, fenced, pc, seen, write, content, tombstone, step, mishaps>>

\* The live session is closed and the operations of this process have settled.
CloseLocal(m) ==
    /\ dpc[m] = "closing"
    /\ \A o \in Operations : ManagerOf[o] = m => pc[o] \in Settled \cup {"idle"}
    /\ Goto(m, "waiting")
    /\ UNCHANGED <<storeVars, alive, fenced, pc, seen, write, content, tombstone, held, step,
                   mishaps>>

\* Mutant: the poll looks at the claim and not at the leases.
WaitForNobody(m) ==
    /\ dpc[m] = "waiting"
    /\ Goto(m, IF ClaimNamed(m, held[m]) THEN "renewing" ELSE "failed")
    /\ UNCHANGED <<storeVars, alive, fenced, pc, seen, write, content, tombstone, held, step,
                   mishaps>>

\* waitForDurableSessionOperations polls until no lease of any process is left.
WaitForProducers(m) ==
    /\ dpc[m] = "waiting"
    /\ \/ ~ClaimNamed(m, held[m]) /\ Goto(m, "failed")
       \/ ClaimNamed(m, held[m]) /\ Drained /\ Goto(m, "renewing")
    /\ UNCHANGED <<storeVars, alive, fenced, pc, seen, write, content, tombstone, held, step,
                   mishaps>>

\* renewDeletion, the last check before the destructive pass.
RenewBeforePurge(m) ==
    /\ dpc[m] = "renewing"
    /\ \/ ClaimHeld(m, held[m]) /\ Goto(m, "purging") /\ StartPurge(m)
       \/ ~ClaimHeld(m, held[m]) /\ Goto(m, "failed") /\ UNCHANGED step
    /\ UNCHANGED <<storeVars, alive, fenced, pc, seen, write, content, tombstone, held, mishaps>>

\* The tombstone event; a repair is over with it.
Erased(m) ==
    /\ RecordTombstone(m)
    /\ Goto(m, IF dpc[m] = "purging" THEN "completing" ELSE "deleted")
    /\ UNCHANGED <<storeVars, alive, fenced, pc, seen, write, content, held, mishaps>>

\* completeDeletion.  A heartbeat that failed for its own reasons also counts.
Complete(m) ==
    /\ dpc[m] = "completing"
    /\ \/ CompleteDeletion(m, held[m]) /\ Goto(m, "deleted") /\ UNCHANGED mishaps
       \/ /\ ~(ClaimHeld(m, held[m]) /\ Drained)
          /\ Goto(m, "failed")
          /\ UNCHANGED <<storeVars, mishaps>>
       \/ Goto(m, "failed") /\ Mishap /\ UNCHANGED storeVars
    /\ UNCHANGED <<alive, fenced, pc, seen, write, content, tombstone, held, step>>

\* A store refuses: the deletion throws, and keeps its claim until it expires.
DeletionFails(m) ==
    /\ step[m] # 0
    /\ step' = [step EXCEPT ![m] = 0]
    /\ Goto(m, "failed")
    /\ Mishap
    /\ UNCHANGED <<storeVars, alive, fenced, pc, seen, write, content, tombstone, held>>

----------------------------------------------------------------------------
(* The collector: reconcileDeletedSessionTombstones. *)

\* Mutant: sessions this process deleted itself are passed over.
SweepOthers(c) ==
    /\ step[c] = 0
    /\ alive[ManagerOf[c]]
    /\ state = "deleted"
    /\ dpc[ManagerOf[c]] # "deleted"
    /\ Fence(ManagerOf[c])
    /\ StartPurge(c)
    /\ UNCHANGED <<storeVars, alive, pc, seen, write, content, tombstone, dpc, held, mishaps>>

\* listDeleted names the session; its local copy is closed.
Sweep(c) ==
    /\ step[c] = 0
    /\ alive[ManagerOf[c]]
    /\ state = "deleted"
    /\ Fence(ManagerOf[c])
    /\ StartPurge(c)
    /\ UNCHANGED <<storeVars, alive, pc, seen, write, content, tombstone, dpc, held, mishaps>>

\* deletedSessions gets the session: a later deleteSession has nothing to do.
Swept(c) ==
    LET m == ManagerOf[c]
    IN  /\ RecordTombstone(c)
        /\ Goto(m, IF dpc[m] \in {"idle", "failed"} THEN "deleted" ELSE dpc[m])
        /\ UNCHANGED <<storeVars, alive, fenced, pc, seen, write, content, held, mishaps>>

\* A store refuses: the record waits for the next sweep.
SweepFails(c) ==
    /\ step[c] # 0
    /\ step' = [step EXCEPT ![c] = 0]
    /\ Mishap
    /\ UNCHANGED <<storeVars, alive, fenced, pc, seen, write, content, tombstone, dpc, held>>

----------------------------------------------------------------------------
(* The clock and crashes. *)

\* A heartbeat keeps renewing: the operation while it runs, the deleter
\* between its claim and its last word.
OperationBeats(o) == pc[o] = "running"
DeletionBeats(m) == dpc[m] \in {"closing", "waiting", "renewing", "purging", "completing"}

\* A lease expires: an event loop was suspended, or nobody renews.
LeaseLapses(o) ==
    /\ OperationExpires(o)
    /\ UNCHANGED managerVars

\* The claim expires under a suspended deleter, or because nobody renews.
ClaimLapses ==
    /\ ClaimExpires
    /\ IF DeletionBeats(deleteOwner) THEN Mishap ELSE UNCHANGED mishaps
    /\ UNCHANGED <<alive, fenced, pc, seen, write, content, tombstone, dpc, held, step>>

\* The process ends; writes in flight stay with their backends.
Crash(m) ==
    /\ alive[m]
    /\ m \in MayCrash
    /\ Mishap
    /\ alive' = [alive EXCEPT ![m] = FALSE]
    /\ pc' = [o \in Operations |->
                 IF ManagerOf[o] = m /\ pc[o] \notin Settled \cup {"idle"}
                 THEN "crashed" ELSE pc[o]]
    /\ dpc' = [dpc EXCEPT ![m] = "crashed"]
    /\ step' = [p \in Purgers |->
                   IF p = m \/ (p \notin Managers /\ ManagerOf[p] = m) THEN 0 ELSE step[p]]
    /\ UNCHANGED <<storeVars, fenced, seen, write, content, tombstone, held>>

----------------------------------------------------------------------------
\* What an operation does once admitted, and no outside failure is needed for.
OperationStep(o) ==
    \/ Acquire(o) \/ Enter(o) \/ Drain(o) \/ FinalRenew(o) \/ Release(o)
    \/ ReadLifecycle(o) \/ PurgeStore(o) \/ Compensated(o)

DeletionStep(m) ==
    \/ Observe(m) \/ Claim(m) \/ CloseLocal(m) \/ WaitForProducers(m)
    \/ RenewBeforePurge(m) \/ PurgeStore(m) \/ Erased(m) \/ Complete(m)

CollectorStep(c) == Sweep(c) \/ PurgeStore(c) \/ Swept(c)

Next ==
    \/ \E o \in Operations :
          \/ Admit(o) \/ OperationStep(o) \/ CompensationFails(o) \/ LeaseLapses(o)
          \/ \E s \in Stores : IssueWrite(o, s) \/ Land(o, s) \/ Vanish(o, s) \/ TimeOut(o, s)
    \/ \E m \in Managers :
          RequestDeletion(m) \/ DeletionStep(m) \/ DeletionFails(m) \/ Crash(m)
    \/ \E c \in Collectors : CollectorStep(c) \/ SweepFails(c)
    \/ ClaimLapses

Spec == Init /\ [][Next]_vars

\* Promises settle; a request is answered or lost; the collector's timer fires;
\* what no heartbeat renews expires.
FairSpec ==
    /\ Spec
    /\ \A o \in Operations :
          /\ WF_vars(OperationStep(o))
          /\ WF_vars(~OperationBeats(o) /\ LeaseLapses(o))
          /\ \A s \in Stores : WF_vars(Land(o, s) \/ Vanish(o, s))
    /\ \A m \in Managers : WF_vars(DeletionStep(m))
    /\ \A c \in Collectors : WF_vars(CollectorStep(c))
    /\ WF_vars(claimLive /\ ~DeletionBeats(deleteOwner) /\ ClaimLapses)

----------------------------------------------------------------------------
\* The managers' variables range over what the code puts in them.
TypeOK ==
    /\ LifecycleTypeOK
    /\ alive \in [Managers -> BOOLEAN]
    /\ fenced \in [Managers -> BOOLEAN]
    /\ pc \in [Operations -> Settled \cup
                 {"idle", "admitted", "granted", "running", "draining", "retained",
                  "outlived", "reading", "compensating", "crashed"}]
    /\ seen \in [Operations -> States]
    /\ write \in [Operations -> [Stores -> {"none", "flight", "detached", "settled", "late"}]]
    /\ content \subseteq Operations \X Stores
    /\ tombstone \in BOOLEAN
    /\ dpc \in [Managers ->
                  {"idle", "observing", "repairing", "claiming", "closing", "waiting",
                   "renewing", "purging", "completing", "deleted", "failed", "crashed"}]
    /\ held \in [Managers -> Nat]
    /\ step \in [Purgers -> 0..AfterPurge]
    /\ mishaps \in 0..MaxMishaps

\* A deleter or a collector empties stores only when no producer of any process
\* holds a lease, also when its own claim has lapsed and another took over.
PurgesAreDrained ==
    \A p \in Managers \cup Collectors :
        step[p] # 0 => Drained /\ state \in {"deleting", "deleted"}

\* The operation may still have something to erase, or died owing it.
Owing == {"running", "draining", "outlived", "reading", "compensating", "crashed", "failed"}

\* Whatever is found in the stores of a deleted session is owed by a producer
\* that outlived its lease and has not compensated, or by a request that timed
\* out: nothing an operation reported as done survives the deletion.
DeletedContentIsOwed ==
    state = "deleted" =>
        \A c \in content : pc[c[1]] \in Owing \/ write[c[1]][c[2]] = "late"

\* The progress of a purge agrees with what its owner is at, and with the row:
\* behind the fence, and past the wait for the producers also drained.
PurgesKnowTheirPlace ==
    /\ \A o \in Operations :
          /\ step[o] # 0 <=> pc[o] = "compensating"
          /\ pc[o] = "compensating" => state \in {"deleting", "deleted"}
    /\ \A m \in Managers :
          /\ step[m] # 0 <=> dpc[m] \in {"purging", "repairing"}
          /\ DeletionBeats(m) => state \in {"deleting", "deleted"}
          /\ dpc[m] \in {"renewing", "purging", "completing"} => Drained
          /\ dpc[m] = "repairing" => state = "deleted"
    /\ \A c \in Collectors : step[c] # 0 => state = "deleted"

\* An operation is not past its drain with a write it awaits in flight, and no
\* store holds what was never sent.
WritesAreAwaited ==
    /\ \A o \in Operations, s \in Stores :
          write[o][s] = "flight" => pc[o] \in {"running", "crashed"}
    /\ \A c \in content : write[c[1]][c[2]] \in {"settled", "late"}

\* Nothing of the operation is left in the store, a late write apart.
Clean(o, s) == <<o, s>> \in content => write[o][s] = "late"

\* What a purge has passed stays clean of all operations that owe nothing, what
\* a compensation has passed of its own.
PurgedStaysClean ==
    /\ \A m \in Managers, o \in Operations :
          pc[o] \notin Owing =>
              /\ dpc[m] = "purging" =>
                    \A i \in 1..Len(PurgeOrder) : i < step[m] => Clean(o, PurgeOrder[i])
              /\ dpc[m] = "completing" => \A s \in Stores : Clean(o, s)
    /\ \A o \in Operations :
          pc[o] = "compensating" =>
              \A i \in 1..Len(PurgeOrder) : i < step[o] => Clean(o, PurgeOrder[i])

\* The inductive invariant.
DeletionInv ==
    /\ TypeOK
    /\ LifecycleInv
    /\ PurgesKnowTheirPlace
    /\ WritesAreAwaited
    /\ PurgedStaysClean
    /\ DeletedContentIsOwed

\* No purge of any kind, however late, touches a session nobody deletes.
ActiveContentIsKept ==
    [][(state \in {"none", "active"}) => (content \subseteq content')]_vars

\* A deletion asked for gets an answer: producers, rival deleters and the
\* deletion's own process do not wait for each other for ever.
DeletionSettles ==
    \A m \in Managers : dpc[m] = "observing" ~> dpc[m] \in {"deleted", "failed", "crashed"}

\* Bytes that reach a deleted session late are collected for good.
LateContentIsErased == <>[](state = "deleted" => content = {})

\* session-lifecycle.ts:4-7: a lease a deletion has to wait for is released, or
\* expires "after its owner crashed"; so an operation that was refused by a
\* process that runs on holds none.
LeasesAreReleased ==
    \A o \in Operations : pc[o] = "refused" => lease[o] # "live"

\* session-manager.ts:2073-2074: a deletion keeps a tombstone in the event stream
\* for synchronising clients; so it is there once the session is deleted and
\* nobody is purging any more.
TombstoneIsKept ==
    state = "deleted" /\ (\A p \in Purgers : step[p] = 0) => tombstone
=============================================================================
