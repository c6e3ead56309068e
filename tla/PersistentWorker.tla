-------------------------- MODULE PersistentWorker --------------------------
(* PersistentWorker of packages/core/src/runtime/worker.ts: run loops that   *)
(* claim jobs and run handlers next to a heartbeat timer, a cancellation     *)
(* poll, stop() and process crashes.  A step between two awaits is one       *)
(* action; a queue operation is the store transaction of WorkerQueue.        *)
EXTENDS WorkerQueue

CONSTANTS
    Activities,   \* concurrent run loops
    WorkerOf,     \* the worker (its id is the leaseOwner) a loop belongs to
    Handles,      \* the job types a worker has handlers for
    NoClaim,      \* no claim in hand
    MaxMishaps    \* bound: how many stop() calls and crashes a behaviour has

ASSUME ActivitiesAssumption ==
    /\ WorkerOf \in [Activities -> Owners]
    /\ Handles \in [Owners -> SUBSET Types]
    /\ NoClaim \notin Claims
    /\ MaxMishaps \in Nat

VARIABLES
    pc,       \* where a run loop awaits
    held,     \* the job snapshot runOnce works with (its id and token)
    aborted,  \* the linked AbortController of this run was aborted
    beat,     \* the heartbeat call in flight
    stopped,  \* stopped, per worker; also set while its process is down
    mishaps

loopVars == <<pc, held, aborted, beat, stopped, mishaps>>
vars == <<queueVars, loopVars>>

\* runOnce has claimed and not reached its finally block.
InRun == {"handler", "finish", "catch", "acknowledge", "fail"}
LoopsOf(o) == {p \in Activities : WorkerOf[p] = o}

----------------------------------------------------------------------------
Init ==
    /\ QueueInit
    /\ pc = [p \in Activities |-> "idle"]
    /\ held = [p \in Activities |-> NoClaim]
    /\ aborted = [p \in Activities |-> FALSE]
    /\ beat = [p \in Activities |-> NoClaim]
    /\ stopped = [o \in Owners |-> FALSE]
    /\ mishaps = 0

\* run: the loop tests stopped, then awaits claim.
RunOnce(p) ==
    /\ pc[p] = "idle"
    /\ ~stopped[WorkerOf[p]]
    /\ pc' = [pc EXCEPT ![p] = "claiming"]
    /\ UNCHANGED <<queueVars, held, aborted, beat, stopped, mishaps>>

\* The claim commits; with a job the handler starts under a fresh controller,
\* which a stop() made in the meantime does not reach.
ClaimLands(p) ==
    LET o == WorkerOf[p]
        offered == Offered(Handles[o])
    IN  /\ pc[p] = "claiming"
        /\ ClaimJob(o, Handles[o])
        /\ \/ /\ offered = {}
              /\ pc' = [pc EXCEPT ![p] = "idle"]
              /\ held' = held
           \/ \E j \in offered :
              /\ pc' = [pc EXCEPT ![p] = "handler"]
              /\ held' = [held EXCEPT ![p] =
                            [job |-> j, owner |-> o, token |-> token[j] + 1]]
        /\ aborted' = [aborted EXCEPT ![p] = FALSE]
        /\ UNCHANGED <<beat, stopped, mishaps>>

Goto(p, there) ==
    /\ pc' = [pc EXCEPT ![p] = there]
    /\ UNCHANGED <<held, aborted, beat, stopped, mishaps>>

\* The finally block.
Leave(p) ==
    /\ pc' = [pc EXCEPT ![p] = "idle"]
    /\ held' = [held EXCEPT ![p] = NoClaim]
    /\ UNCHANGED <<aborted, beat, stopped, mishaps>>

\* The handler returned; throwIfAborted decides whether its result is offered.
HandlerReturns(p) ==
    /\ pc[p] = "handler"
    /\ Goto(p, IF aborted[p] THEN "catch" ELSE "finish")
    /\ UNCHANGED queueVars

HandlerThrows(p) ==
    /\ pc[p] = "handler"
    /\ Goto(p, "catch")
    /\ UNCHANGED queueVars

\* finish commits, or is refused and throws.
FinishLands(p) ==
    /\ pc[p] = "finish"
    /\ \/ Finish(held[p]) /\ Leave(p)
       \/ ~Owns(held[p], "leased") /\ Goto(p, "catch") /\ UNCHANGED queueVars

\* The catch block reads the job; what it saw picks its next call.
CatchReads(p) ==
    /\ pc[p] = "catch"
    /\ \/ Owns(held[p], "cancellation_requested") /\ Goto(p, "acknowledge")
       \/ Owns(held[p], "leased") /\ Goto(p, "fail")
       \/ /\ ~Owns(held[p], "cancellation_requested")
          /\ ~Owns(held[p], "leased")
          /\ Leave(p)
    /\ UNCHANGED queueVars

\* The settling calls of the catch block; a refusal is swallowed.
AcknowledgeLands(p) ==
    /\ pc[p] = "acknowledge"
    /\ \/ AcknowledgeCancellation(held[p])
       \/ ~Owns(held[p], "cancellation_requested") /\ UNCHANGED queueVars
    /\ Leave(p)

FailLands(p) ==
    /\ pc[p] = "fail"
    /\ \/ Fail(held[p], TRUE)
       \/ ~Owns(held[p], "leased") /\ UNCHANGED queueVars
    /\ Leave(p)

\* Mutant: a heartbeat interval that abort does not clear.
HeartbeatTickAlways(p) ==
    /\ pc[p] \in InRun
    /\ beat[p] = NoClaim
    /\ beat' = [beat EXCEPT ![p] = held[p]]
    /\ UNCHANGED <<queueVars, pc, held, aborted, stopped, mishaps>>

\* The heartbeat interval fires until the controller is aborted or runOnce ends.
HeartbeatTick(p) ==
    /\ pc[p] \in InRun
    /\ ~aborted[p]
    /\ beat[p] = NoClaim
    /\ beat' = [beat EXCEPT ![p] = held[p]]
    /\ UNCHANGED <<queueVars, pc, held, aborted, stopped, mishaps>>

\* The heartbeat commits, perhaps after its run ended; a refusal aborts the
\* controller of the run that sent it.
HeartbeatLands(p) ==
    /\ beat[p] # NoClaim
    /\ beat' = [beat EXCEPT ![p] = NoClaim]
    /\ \/ Heartbeat(beat[p]) /\ UNCHANGED aborted
       \/ /\ ~Owns(beat[p], "leased")
          /\ aborted' = [aborted EXCEPT ![p] = @ \/ held[p] = beat[p]]
          /\ UNCHANGED queueVars
    /\ UNCHANGED <<pc, held, stopped, mishaps>>

\* Mutant: a poll that acknowledges the cancellation it reads.
PollAcknowledging(p) ==
    /\ pc[p] \in InRun
    /\ ~aborted[p]
    /\ AcknowledgeCancellation(held[p])
    /\ aborted' = [aborted EXCEPT ![p] = TRUE]
    /\ UNCHANGED <<pc, held, beat, stopped, mishaps>>

\* The cancellation poll: get, then abort.  The answer it acts on cannot become
\* untrue for this claim, so reading and aborting are one step.
PollCancellation(p) ==
    /\ pc[p] \in InRun
    /\ ~aborted[p]
    /\ Owns(held[p], "cancellation_requested")
    /\ aborted' = [aborted EXCEPT ![p] = TRUE]
    /\ UNCHANGED <<queueVars, pc, held, beat, stopped, mishaps>>

----------------------------------------------------------------------------
Stop(o) ==
    /\ ~stopped[o]
    /\ mishaps < MaxMishaps
    /\ mishaps' = mishaps + 1
    /\ stopped' = [stopped EXCEPT ![o] = TRUE]
    /\ aborted' = [p \in Activities |-> aborted[p] \/ (p \in LoopsOf(o) /\ pc[p] \in InRun)]
    /\ UNCHANGED <<queueVars, pc, held, beat>>

\* The process dies: everything but the store is lost.
Crash(o) ==
    /\ mishaps < MaxMishaps
    /\ mishaps' = mishaps + 1
    /\ stopped' = [stopped EXCEPT ![o] = TRUE]
    /\ pc' = [p \in Activities |-> IF p \in LoopsOf(o) THEN "idle" ELSE pc[p]]
    /\ held' = [p \in Activities |-> IF p \in LoopsOf(o) THEN NoClaim ELSE held[p]]
    /\ beat' = [p \in Activities |-> IF p \in LoopsOf(o) THEN NoClaim ELSE beat[p]]
    /\ aborted' = [p \in Activities |-> aborted[p] /\ p \notin LoopsOf(o)]
    /\ UNCHANGED queueVars

\* run() again, after stop() or in a new process with the same worker id.
Run(o) ==
    /\ stopped[o]
    /\ stopped' = [stopped EXCEPT ![o] = FALSE]
    /\ UNCHANGED <<queueVars, pc, held, aborted, beat, mishaps>>

----------------------------------------------------------------------------
\* Producers, cancelling clients, retention and the clock.
Outside ==
    /\ \E j \in Jobs :
         Enqueue(j) \/ RequestCancellation(j) \/ Prune(j) \/ LeaseExpires(j)
    /\ UNCHANGED loopVars

LoopStep(p) ==
    \/ RunOnce(p) \/ ClaimLands(p) \/ HandlerReturns(p) \/ HandlerThrows(p)
    \/ FinishLands(p) \/ CatchReads(p) \/ AcknowledgeLands(p) \/ FailLands(p)
    \/ HeartbeatTick(p) \/ HeartbeatLands(p) \/ PollCancellation(p)

Next ==
    \/ Outside
    \/ \E p \in Activities : LoopStep(p)
    \/ \E o \in Owners : Stop(o) \/ Crash(o) \/ Run(o)

Spec == Init /\ [][Next]_vars

\* The event loop runs every continuation, the clock passes every lease that is
\* no longer renewed, and a supervisor starts workers again.
LoopFairness(p) ==
    /\ WF_vars(RunOnce(p))
    /\ WF_vars(ClaimLands(p))
    /\ WF_vars(FinishLands(p))
    /\ WF_vars(CatchReads(p))
    /\ WF_vars(AcknowledgeLands(p))
    /\ WF_vars(FailLands(p))
    /\ WF_vars(HeartbeatLands(p))

\* The interval of a run that was not aborted keeps renewing the lease.
Renewed(j) == \E p \in Activities : held[p] # NoClaim /\ held[p] = Holder(j) /\ ~aborted[p]

HandlersSettle == \A p \in Activities : WF_vars(HandlerReturns(p) \/ HandlerThrows(p))

Fairness ==
    /\ \A p \in Activities : LoopFairness(p)
    /\ \A o \in Owners : WF_vars(Run(o))
    /\ \A j \in Jobs : WF_vars(~Renewed(j) /\ LeaseExpires(j) /\ UNCHANGED loopVars)

\* Handlers may hang for ever.
FairSpec == Spec /\ Fairness

----------------------------------------------------------------------------
\* Two handlers run for one job only when one of them lost its lease: neither
\* a restart under the same worker id, a retry nor a late heartbeat breaks it.
HandlerExclusive ==
    \A p, q \in Activities :
        pc[p] = "handler" /\ pc[q] = "handler" /\ p # q /\ held[p].job = held[q].job
            => held[p] \in ended \/ held[q] \in ended

\* A job is reported cancelled only after the handler of its last claim
\* stopped: an earlier claim's handler may still run, the last one's never.
CancelledMeansHolderStopped ==
    \A p \in Activities :
        pc[p] = "handler" /\ status[held[p].job] = "cancelled" =>
            held[p].token < token[held[p].job]

\* When handlers settle, every queued job reaches a terminal status: crashes,
\* stops, lost leases, retries and cancellations never strand it.
EveryJobSettles ==
    HandlersSettle =>
        \A j \in Jobs : status[j] = "queued" ~> status[j] \in Terminal \cup {"pruned"}

HoldsLiveLease(p) ==
    held[p] # NoClaim /\ live[held[p].job] /\ Holder(held[p].job) = held[p]

\* A loop that stays aborted, its handler hanging for ever, gives its lease up
\* for takeover: no heartbeat keeps renewing it.
AbortedLetsGo ==
    \A p \in Activities : <>[](aborted[p]) => <>[](~HoldsLiveLease(p))
============================================================================
