---------------------------- MODULE DurablePrompt ----------------------------
(* One prompt of one session, from its acceptance to its terminal event: the *)
(* command inbox (packages/core/src/runtime/commands.ts over SQLite) and the *)
(* calls of session-manager.ts that claim the command, drive the agent under *)
(* its lease, settle it and publish its events through the outbox: the send  *)
(* with its idempotent retries, the recovery scan of a starting host, and    *)
(* the interrupt.  A step between two awaits is one action.                  *)
EXTENDS Outbox, FiniteSets

CONSTANTS
    Sends,        \* calls of send with the idempotency key of the prompt
    Recoveries,   \* startup scans, at most one per host
    Interrupts,   \* calls of interrupt
    FirstHosts,   \* the hosts that run from the beginning
    LateRestart,  \* the others start only when the leases of dead ones are over
    MaxRevision   \* bound: budget checkpoints

Hosts == Outboxes
HostOf(a) == OutboxOf[a]
Drivers == Sends \cup Recoveries
Actors == Drivers \cup Interrupts

Terminal == {"completed", "failed", "cancelled"}
AcceptedKey == <<"accepted", 0>>
RecoveredKey(t) == <<"recovered", t>>
BudgetKey(r) == <<"budget", r>>
TerminalKey(s) == <<s, 0>>

\* The idempotency keys of the events of one command.
PromptKeys ==
    {AcceptedKey} \cup {TerminalKey(s) : s \in Terminal}
        \cup {RecoveredKey(t) : t \in 1..Cardinality(Drivers)}
        \cup {BudgetKey(r) : r \in 1..MaxRevision}

ASSUME PromptAssumption ==
    /\ Keys = PromptKeys
    /\ Callers = Actors
    /\ Sends \cap Recoveries = {} /\ Drivers \cap Interrupts = {}
    /\ IsFiniteSet(Drivers)
    /\ FirstHosts \subseteq Hosts
    /\ LateRestart \in BOOLEAN
    /\ MaxRevision \in Nat

VARIABLES
    status,       \* of the command row; "none" before it is accepted
    token,        \* fencing_token, and the number of attempts
    owner,        \* lease_owner: the host
    live,         \* lease_expires_at lies in the future
    host,         \* per host: "down", "up" or "dead"
    active,       \* per host: activeCommands, as the token of the claim or 0
    interrupted,  \* per host: interruptedCommands has the command
    actor         \* per actor: where it awaits, its claim, and its locals

commandVars == <<status, token, owner, live>>
hostVars == <<host, active, interrupted>>
vars == <<outboxVars, commandVars, hostVars, actor>>

\* held is the token of the actor's claim, verdict what it will report, rev the
\* budget revision its drive has reached, cut that an interrupt outdated it.
Fresh == [at |-> "idle", held |-> 0, verdict |-> "none", rev |-> 0, cut |-> FALSE]

Init ==
    /\ OutboxInit
    /\ status = "none" /\ token = 0 /\ owner = NoOutbox /\ live = FALSE
    /\ host = [h \in Hosts |-> IF h \in FirstHosts THEN "up" ELSE "down"]
    /\ active = [h \in Hosts |-> 0]
    /\ interrupted = [h \in Hosts |-> FALSE]
    /\ actor = [a \in Actors |-> Fresh]

----------------------------------------------------------------------------
(* The command row. *)

\* Mutant: only a command nobody has claimed yet can be claimed.
ClaimableOnce == status = "accepted"

\* claimCommand: an accepted command, or a running one whose lease is over.
ClaimableCommand == status = "accepted" \/ (status = "running" /\ ~live)

ClaimCommand(h) ==
    /\ ClaimableCommand
    /\ status' = "running"
    /\ token' = token + 1
    /\ owner' = h
    /\ live' = TRUE

\* What heartbeatCommand, commitFencedEvent and finishCommand ask of a lease.
Leased(h, t) == status = "running" /\ owner = h /\ token = t /\ live

\* finishCommand, for the holder of the lease.
FinishCommand(h, t, s) ==
    /\ Leased(h, t)
    /\ status' = s
    /\ owner' = NoOutbox
    /\ live' = FALSE
    /\ UNCHANGED token

----------------------------------------------------------------------------
(* What actors have in common. *)

Is(a, where) == actor[a].at = where
Move(a, where) == actor' = [actor EXCEPT ![a].at = where]
Owned(a) == Leased(HostOf(a), actor[a].held)

\* publish for a; the actor goes on when the call has settled.
Begin(a, c) == call' = [call EXCEPT ![a] = c]
Succeeded(a) == call[a].at = "published"
Failed(a) == call[a].at = "threw"
Publishes(a, k) == Begin(a, Publishing(k))
Calls == <<rows, outbox, msgToken, msgOwner, msgLive, log, mishaps>>

Ended == {"returned", "threw", "leaked", "crashed"}

\* An interrupt of this host whose promise has not settled.
Interrupting(h) ==
    \E i \in Interrupts : HostOf(i) = h /\ actor[i].at \in {"cancelling", "notifying"}

----------------------------------------------------------------------------
(* send: accept, claim, or join whoever has the command. *)

\* accept inserts the row or finds it; a settled command is only announced
\* again.  A send waits for a running interrupt first.
Accept(a) ==
    /\ a \in Sends /\ Is(a, "idle")
    /\ host[HostOf(a)] = "up" /\ ~Interrupting(HostOf(a))
    /\ status' = IF status = "none" THEN "accepted" ELSE status
    /\ IF status \in Terminal
       THEN /\ Publishes(a, TerminalKey(status))
            /\ actor' = [actor EXCEPT ![a].at = IF status = "completed" THEN "relaying"
                                               ELSE "joining",
                                      ![a].verdict = status]
       ELSE Move(a, "claiming") /\ UNCHANGED call
    /\ UNCHANGED <<Calls, token, owner, live, hostVars>>

\* claim; the winner starts its heartbeat and publishes prompt.accepted.
Claim(a) ==
    /\ Is(a, "claiming")
    /\ \/ /\ ClaimCommand(HostOf(a))
          /\ actor' = [actor EXCEPT ![a].at = "announcing", ![a].held = token + 1]
          /\ active' = [active EXCEPT ![HostOf(a)] = token + 1]
          /\ Publishes(a, AcceptedKey)
          /\ UNCHANGED <<Calls, host, interrupted>>
       \/ /\ ~ClaimableCommand
          /\ Move(a, "peeking")
          /\ UNCHANGED <<outboxVars, commandVars, hostVars>>

\* The loser reads the row again.
Peek(a) ==
    /\ Is(a, "peeking")
    /\ IF status \in Terminal
       THEN Publishes(a, TerminalKey(status)) /\ Move(a, "joining")
       ELSE Move(a, "waiting") /\ UNCHANGED call
    /\ UNCHANGED <<Calls, commandVars, hostVars>>

Joined(a) ==
    /\ Is(a, "joining")
    /\ \/ Succeeded(a) /\ Move(a, "waiting")
       \/ Failed(a) /\ actor' = [actor EXCEPT ![a].at = "threw", ![a].verdict = "unpublished"]
    /\ Begin(a, Idle)
    /\ UNCHANGED <<Calls, commandVars, hostVars>>

\* waitForCommandTerminal reads until the command has settled; an interrupt in
\* the middle of a read is noticed at the next.
Wait(a) ==
    /\ Is(a, "waiting")
    /\ \/ /\ actor[a].cut
          /\ actor' = [actor EXCEPT ![a].at = "threw", ![a].verdict = "interrupted"]
          /\ UNCHANGED call
       \/ /\ status \in Terminal
          /\ actor' = [actor EXCEPT ![a].at = "relaying", ![a].verdict = status]
          /\ Publishes(a, TerminalKey(status))
       \/ /\ status = "running" /\ ~live
          /\ actor' = [actor EXCEPT ![a].at = "threw", ![a].verdict = "orphaned"]
          /\ UNCHANGED call
    /\ UNCHANGED <<Calls, commandVars, hostVars>>

\* Its deadline comes first.
WaitTimesOut(a) ==
    /\ Is(a, "waiting")
    /\ actor' = [actor EXCEPT ![a].at = "threw", ![a].verdict = "timeout"]
    /\ UNCHANGED <<outboxVars, commandVars, hostVars>>

\* Mutant: the joiner does not look at whether the event was published.
RelayedRegardless(a) ==
    /\ Is(a, "relaying")
    /\ Succeeded(a) \/ Failed(a)
    /\ Move(a, IF actor[a].verdict = "completed" THEN "returned" ELSE "threw")
    /\ Begin(a, Idle)
    /\ UNCHANGED <<Calls, commandVars, hostVars>>

\* A joiner hands on what became of the command.
Relayed(a) ==
    /\ Is(a, "relaying")
    /\ \/ Succeeded(a) /\ Move(a, IF actor[a].verdict = "completed" THEN "returned" ELSE "threw")
       \/ Failed(a) /\ actor' = [actor EXCEPT ![a].at = "threw", ![a].verdict = "unpublished"]
    /\ Begin(a, Idle)
    /\ UNCHANGED <<Calls, commandVars, hostVars>>

Announced(a) ==
    /\ Is(a, "announcing")
    /\ \/ Succeeded(a) /\ Move(a, IF actor[a].cut THEN "catching" ELSE "starting")
       \/ Failed(a) /\ Move(a, "catching")
    /\ Begin(a, Idle)
    /\ UNCHANGED <<Calls, commandVars, hostVars>>

----------------------------------------------------------------------------
(* recoverSessionCommands, from the startup scan of a host. *)

\* Mutant: the scan is content with the outbox.
ScanWithoutReconciling(a) ==
    /\ a \in Recoveries /\ Is(a, "idle")
    /\ host[HostOf(a)] = "up"
    /\ Begin(a, Flushing) /\ Move(a, "flushing")
    /\ UNCHANGED <<Calls, commandVars, hostVars>>

\* reconcileCommandTerminalEvents, or straight on to the flush.
Scan(a) ==
    /\ a \in Recoveries /\ Is(a, "idle")
    /\ host[HostOf(a)] = "up"
    /\ IF status \in Terminal /\ ~Recorded(TerminalKey(status))
       THEN Publishes(a, TerminalKey(status)) /\ Move(a, "reconciling")
       ELSE Begin(a, Flushing) /\ Move(a, "flushing")
    /\ UNCHANGED <<Calls, commandVars, hostVars>>

Reconciled(a) ==
    /\ Is(a, "reconciling")
    /\ \/ Succeeded(a) /\ Move(a, "flushing") /\ Begin(a, Flushing)
       \/ Failed(a) /\ Move(a, "threw") /\ Begin(a, Idle)
    /\ UNCHANGED <<Calls, commandVars, hostVars>>

Flushed(a) ==
    /\ Is(a, "flushing")
    /\ Move(a, IF Succeeded(a) THEN "recovering" ELSE "threw")
    /\ Succeeded(a) \/ Failed(a)
    /\ Begin(a, Idle)
    /\ UNCHANGED <<Calls, commandVars, hostVars>>

\* recoverable lists the command only if claim may have it; a claim that fails
\* is skipped, and the scan is over.
Recover(a) ==
    /\ Is(a, "recovering")
    /\ \/ /\ ClaimCommand(HostOf(a))
          /\ actor' = [actor EXCEPT ![a].at = "reannouncing", ![a].held = token + 1]
          /\ active' = [active EXCEPT ![HostOf(a)] = token + 1]
          /\ Publishes(a, RecoveredKey(token + 1))
          /\ UNCHANGED <<Calls, host, interrupted>>
       \/ /\ ~ClaimableCommand
          /\ Move(a, "returned")
          /\ UNCHANGED <<outboxVars, commandVars, hostVars>>

\* prompt.recovered is published before the try block whose finally stops the
\* heartbeat: when that throws, the heartbeat goes on.
Reannounced(a) ==
    /\ Is(a, "reannouncing")
    /\ \/ Succeeded(a) /\ Move(a, "starting")
       \/ Failed(a) /\ Move(a, "leaked")
    /\ Begin(a, Idle)
    /\ UNCHANGED <<Calls, commandVars, hostVars>>

----------------------------------------------------------------------------
(* The drive and its end, for senders and recoveries alike. *)

Revisions == {r \in 1..MaxRevision : Recorded(BudgetKey(r))}

\* Mutant: a recovered run starts with the budget of a new one.
RecoverBudgetAfresh == 0

\* recoverRunBudgetSnapshot: the last checkpoint in the stream.
RecoverBudget ==
    IF Revisions = {} THEN 0
    ELSE CHOOSE r \in Revisions : \A s \in Revisions : s <= r

\* heartbeat.assertOwned; the first attempt of a send starts a new budget.
Start(a) ==
    /\ Is(a, "starting")
    /\ Move(a, IF ~Owned(a) THEN "catching"
               ELSE IF a \in Sends /\ actor[a].held = 1 THEN "driving" ELSE "budgeting")
    /\ UNCHANGED <<outboxVars, commandVars, hostVars>>

ReadBudget(a) ==
    /\ Is(a, "budgeting")
    /\ actor' = [actor EXCEPT ![a].at = "driving", ![a].rev = RecoverBudget]
    /\ UNCHANGED <<outboxVars, commandVars, hostVars>>

\* commitFencedEvent: the event, and its message as already sent.
CommitFenced(a, k) ==
    /\ AppendEvent(k)
    /\ IF outbox[k] = "none"
       THEN rows' = Append(rows, k) /\ outbox' = [outbox EXCEPT ![k] = "sent"]
       ELSE UNCHANGED <<rows, outbox>>

\* Mutant: the event is appended without the fence.
CheckpointUnfenced(a) ==
    /\ Is(a, "driving")
    /\ actor[a].rev < MaxRevision
    /\ CommitFenced(a, BudgetKey(actor[a].rev + 1))
    /\ actor' = [actor EXCEPT ![a].rev = @ + 1]
    /\ UNCHANGED <<msgToken, msgOwner, msgLive, call, mishaps, commandVars, hostVars>>

\* persistRunBudgetCheckpoint, before each thing the budget pays for.  A drive
\* that lost its claim is closed and ends.
Checkpoint(a) ==
    /\ Is(a, "driving")
    /\ actor[a].rev < MaxRevision
    /\ \/ /\ active[HostOf(a)] = actor[a].held /\ Owned(a)
          /\ CommitFenced(a, BudgetKey(actor[a].rev + 1))
          /\ actor' = [actor EXCEPT ![a].rev = @ + 1]
       \/ /\ ~(active[HostOf(a)] = actor[a].held /\ Owned(a))
          /\ actor' = [actor EXCEPT ![a].at = "driven", ![a].verdict = "failed"]
          /\ UNCHANGED <<rows, outbox, log>>
    /\ UNCHANGED <<msgToken, msgOwner, msgLive, call, mishaps, commandVars, hostVars>>

\* The agent's run is over.
DriveEnds(a) ==
    /\ Is(a, "driving")
    /\ \E v \in {"completed", "failed"} :
          actor' = [actor EXCEPT ![a].at = "driven", ![a].verdict = v]
    /\ UNCHANGED <<outboxVars, commandVars, hostVars>>

\* A send whose command was interrupted looks at what the interrupt did;
\* otherwise, or if that did nothing, the heartbeat has the last word.
LookAfterInterrupt(a) ==
    \/ /\ status = "cancelled"
       /\ actor' = [actor EXCEPT ![a].at = "telling", ![a].verdict = "cancelled"]
       /\ Publishes(a, TerminalKey("cancelled"))
    \/ /\ status # "cancelled"
       /\ Move(a, IF Owned(a) THEN "finishing" ELSE "catching")
       /\ UNCHANGED call

Settle(a) ==
    /\ Is(a, "driven")
    /\ IF a \in Sends /\ interrupted[HostOf(a)]
       THEN IF Interrupting(HostOf(a)) THEN Move(a, "yielding") /\ UNCHANGED call
            ELSE LookAfterInterrupt(a)
       ELSE Move(a, IF Owned(a) THEN "finishing" ELSE "catching") /\ UNCHANGED call
    /\ UNCHANGED <<Calls, commandVars, hostVars>>

\* Mutant: it awaits the cancellation instead.
YieldedToCancellation(a) ==
    /\ Is(a, "yielding") /\ status = "cancelled"
    /\ LookAfterInterrupt(a)
    /\ UNCHANGED <<Calls, commandVars, hostVars>>

\* It awaits an interrupt under way first, and fails with it.
Yielded(a) ==
    /\ Is(a, "yielding") /\ ~Interrupting(HostOf(a))
    /\ IF \E i \in Interrupts : HostOf(i) = HostOf(a) /\ Is(i, "threw")
       THEN Move(a, "catching") /\ UNCHANGED call
       ELSE LookAfterInterrupt(a)
    /\ UNCHANGED <<Calls, commandVars, hostVars>>

\* finish with the lease, and the terminal event.  A send looked at the row
\* before, and may have seen it cancelled.
Finish(a) ==
    /\ Is(a, "finishing")
    /\ \/ /\ FinishCommand(HostOf(a), actor[a].held, actor[a].verdict)
          /\ Move(a, "telling")
          /\ Publishes(a, TerminalKey(actor[a].verdict))
       \/ /\ ~Owned(a)
          /\ Move(a, "catching")
          /\ UNCHANGED <<call, commandVars>>
       \/ /\ a \in Sends /\ status = "cancelled"
          /\ actor' = [actor EXCEPT ![a].at = "telling", ![a].verdict = "cancelled"]
          /\ Publishes(a, TerminalKey("cancelled"))
          /\ UNCHANGED commandVars
    /\ UNCHANGED <<Calls, hostVars>>

\* Mutant: the catch block settles the command without a look at the row.
CatchBlindly(a) ==
    /\ Is(a, "catching")
    /\ Move(a, "retelling")
    /\ Publishes(a, TerminalKey("failed"))
    /\ UNCHANGED <<Calls, commandVars, hostVars>>

\* The catch block: a row that is settled keeps its outcome, which is announced.
Catch(a) ==
    /\ Is(a, "catching")
    /\ IF status \in Terminal
       THEN Move(a, "retelling") /\ Publishes(a, TerminalKey(status))
       ELSE Move(a, "abandoning") /\ UNCHANGED call
    /\ UNCHANGED <<Calls, commandVars, hostVars>>

\* finally: the heartbeat stops, and the command leaves the maps of the host by
\* its id, whichever claim is there.
Leave(a, where, v) ==
    /\ actor' = [actor EXCEPT ![a].at = where, ![a].verdict = v]
    /\ active' = [active EXCEPT ![HostOf(a)] = 0]
    /\ interrupted' = [interrupted EXCEPT ![HostOf(a)] = FALSE]
    /\ UNCHANGED host

\* Otherwise it is failed, or cancelled if the error is an interrupt's.
Abandon(a) ==
    /\ Is(a, "abandoning")
    /\ \/ /\ \E s \in {"failed"} \cup (IF actor[a].cut THEN {"cancelled"} ELSE {}) :
                /\ FinishCommand(HostOf(a), actor[a].held, s)
                /\ Publishes(a, TerminalKey(s))
          /\ Move(a, "retelling")
          /\ UNCHANGED <<Calls, hostVars>>
       \/ /\ ~Owned(a)
          /\ Leave(a, "threw", "lost")
          /\ UNCHANGED <<outboxVars, commandVars>>

\* The terminal event is published; a failure there runs into the catch block.
Told(a) ==
    /\ Is(a, "telling")
    /\ \/ Succeeded(a) /\ Leave(a, "returned", actor[a].verdict)
       \/ Failed(a) /\ Move(a, "catching") /\ UNCHANGED hostVars
    /\ Begin(a, Idle)
    /\ UNCHANGED <<Calls, commandVars>>

\* The same in the catch block: a send rethrows, a recovery goes on.
Retold(a) ==
    /\ Is(a, "retelling")
    /\ Succeeded(a) \/ Failed(a)
    /\ Leave(a, IF a \in Recoveries /\ Succeeded(a) THEN "returned" ELSE "threw", "failed")
    /\ Begin(a, Idle)
    /\ UNCHANGED <<Calls, commandVars>>

----------------------------------------------------------------------------
(* interrupt. *)

\* The synchronous part: sends begun before it are outdated, and the command
\* that is active here will be cancelled.
Interrupt(i) ==
    /\ i \in Interrupts /\ Is(i, "idle")
    /\ host[HostOf(i)] = "up"
    /\ LET h == HostOf(i) IN
       /\ actor' = [a \in Actors |->
              IF a = i THEN [actor[i] EXCEPT !.at = IF active[h] # 0 THEN "cancelling"
                                                    ELSE "returned",
                                             !.held = active[h]]
              ELSE IF a \in Sends /\ HostOf(a) = h /\ actor[a].at \notin Ended \cup {"idle"}
              THEN [actor[a] EXCEPT !.cut = TRUE] ELSE actor[a]]
       /\ interrupted' = [interrupted EXCEPT ![h] = @ \/ active[h] # 0]
    /\ UNCHANGED <<outboxVars, commandVars, host, active>>

\* The command leaves the active ones and is finished as cancelled.
Cancel(i) ==
    /\ Is(i, "cancelling")
    /\ active' = [active EXCEPT ![HostOf(i)] = IF @ = actor[i].held THEN 0 ELSE @]
    /\ \/ /\ FinishCommand(HostOf(i), actor[i].held, "cancelled")
          /\ Publishes(i, TerminalKey("cancelled"))
          /\ Move(i, "notifying")
       \/ /\ ~Owned(i)
          /\ Move(i, "threw")
          /\ UNCHANGED <<call, commandVars>>
    /\ UNCHANGED <<Calls, host, interrupted>>

Notified(i) ==
    /\ Is(i, "notifying")
    /\ \/ Succeeded(i) /\ Move(i, "returned")
       \/ Failed(i) /\ Move(i, "threw")
    /\ Begin(i, Idle)
    /\ UNCHANGED <<Calls, commandVars, hostVars>>

----------------------------------------------------------------------------
(* Hosts and clocks. *)

Calling(c) == CallStep(c) /\ UNCHANGED <<commandVars, hostVars, actor>>
CallFails(c) == StoreFails(c) /\ UNCHANGED <<commandVars, hostVars, actor>>
OutboxLeaseLapses(k) == MessageLapses(k) /\ UNCHANGED <<commandVars, hostVars, actor>>

\* The heartbeat of the claim the row carries is running.
Beating ==
    \E a \in Drivers :
        /\ HostOf(a) = owner /\ actor[a].held = token
        /\ actor[a].at \notin Ended \ {"leaked"}

\* The lease of the command expires: nobody renews it, or the event loop of its
\* host was suspended.
CommandLapses ==
    /\ live
    /\ live' = FALSE
    /\ IF Beating THEN Mishap ELSE UNCHANGED mishaps
    /\ UNCHANGED <<rows, outbox, msgToken, msgOwner, msgLive, log, call, status, token, owner,
                   hostVars, actor>>

\* A host starts when another has died.
Boot(h) ==
    /\ host[h] = "down"
    /\ \E d \in Hosts : host[d] = "dead"
    /\ LateRestart => ~live /\ \A k \in Keys : ~msgLive[k]
    /\ host' = [host EXCEPT ![h] = "up"]
    /\ UNCHANGED <<outboxVars, commandVars, active, interrupted, actor>>

Crash(h) ==
    /\ host[h] = "up"
    /\ host' = [host EXCEPT ![h] = "dead"]
    /\ call' = Gone({c \in Callers : HostOf(c) = h})
    /\ actor' = [a \in Actors |->
                    IF HostOf(a) = h /\ actor[a].at \notin Ended \ {"leaked"}
                    THEN [actor[a] EXCEPT !.at = "crashed"] ELSE actor[a]]
    /\ Mishap
    /\ UNCHANGED <<rows, outbox, msgToken, msgOwner, msgLive, log, commandVars, active,
                   interrupted>>

----------------------------------------------------------------------------
\* What an actor does of its own accord once it has begun.
DriverStep(a) ==
    \/ Claim(a) \/ Peek(a) \/ Joined(a) \/ Wait(a) \/ Relayed(a) \/ Announced(a)
    \/ Scan(a) \/ Reconciled(a) \/ Flushed(a) \/ Recover(a) \/ Reannounced(a)
    \/ Start(a) \/ ReadBudget(a) \/ DriveEnds(a) \/ Settle(a) \/ Yielded(a) \/ Finish(a)
    \/ Catch(a) \/ Abandon(a) \/ Told(a) \/ Retold(a)

InterruptStep(i) == Cancel(i) \/ Notified(i)

Next ==
    \/ \E a \in Drivers : Accept(a) \/ DriverStep(a) \/ Checkpoint(a) \/ WaitTimesOut(a)
    \/ \E i \in Interrupts : Interrupt(i) \/ InterruptStep(i)
    \/ \E c \in Callers : Calling(c) \/ CallFails(c)
    \/ \E k \in Keys : OutboxLeaseLapses(k)
    \/ CommandLapses
    \/ \E h \in Hosts : Boot(h) \/ Crash(h)

Spec == Init /\ [][Next]_vars

\* Promises settle and runs end, a host is started again and scans its inbox,
\* and a lease that no heartbeat renews or no call holds expires.
FairSpec ==
    /\ Spec
    /\ \A a \in Drivers : WF_vars(DriverStep(a))
    /\ \A i \in Interrupts : WF_vars(InterruptStep(i))
    /\ \A c \in Callers : WF_vars(Calling(c))
    /\ \A k \in Keys : WF_vars(~Held(k) /\ OutboxLeaseLapses(k))
    /\ WF_vars(~Beating /\ CommandLapses)
    /\ \A h \in Hosts : WF_vars(Boot(h))

----------------------------------------------------------------------------
\* The stream has at most one outcome of the prompt, and it is the one the inbox
\* holds, whichever of sender, joiner, recovery and interrupt came first.
OneOutcome == \A s \in Terminal : Recorded(TerminalKey(s)) => status = s

\* A send that returns tells what became of the command, and the event that
\* says so is in the stream.
SendersAreToldTheOutcome ==
    \A a \in Sends :
        Is(a, "returned") => status = actor[a].verdict /\ Recorded(TerminalKey(status))

\* Whoever may still act on the command knows every checkpoint of all attempts:
\* no crash, recovery or retry resets what has been spent.
OwnerKnowsTheBudget ==
    \A a \in Drivers : Is(a, "driving") /\ Owned(a) => actor[a].rev = RecoverBudget

\* Checkpoints are recorded in the order they were spent, and none after the
\* outcome: a drive that was overtaken adds nothing.
BudgetIsAccounted ==
    \A i, j \in DOMAIN log :
        i < j /\ log[j][1] = "budget" =>
            /\ log[i][1] = "budget" => log[i][2] < log[j][2]
            /\ log[i][1] \notin Terminal

\* Something went wrong that is no crash: no host starts, and nothing scans the
\* inbox, on its account.
Unattended == mishaps > 0 /\ \A h \in Hosts : host[h] # "dead"

\* A prompt that was accepted is settled, over a crash at any point of it.
PromptSettles ==
    (status \in {"accepted", "running"}) ~> (status \in Terminal \/ Unattended)

\* The outcome reaches the stream, also when the host dies between the inbox and
\* the outbox.
OutcomeIsAnnounced ==
    (status \in Terminal)
        ~> ((status \in Terminal /\ Recorded(TerminalKey(status))) \/ Unattended)

\* Every send gets an answer, the one that lost the race for the claim too.
SendsReturn == \A a \in Sends : (actor[a].at # "idle") ~> (actor[a].at \in Ended)

\* session-manager.ts:1613-1615: the loser of concurrent retries "joins the durable
\* terminal result instead of surfacing a spurious lease error".
JoinersSeeNoLeaseError ==
    \A a \in Sends : Is(a, "threw") => actor[a].verdict # "unpublished"

\* session-manager.ts:1311: the inbox is scanned when the host starts, and recovery
\* does not depend on the user coming back to the session.
StartupScanRecovers == (status = "running") ~> (status \in Terminal \/ Unattended)

----------------------------------------------------------------------------
\* The prompt as its senders see it: hosts, claims and attempts are not visible.
outcomeOf == IF status \in {"accepted", "running"} THEN "open" ELSE status

announcedOf == {s \in Terminal : Recorded(TerminalKey(s))}

toldOf == [a \in Sends |-> IF Is(a, "returned") THEN actor[a].verdict ELSE "none"]

\* An interrupt that found nothing to cancel returns without a claim.
confirmedOf == {i \in Interrupts : Is(i, "returned") /\ actor[i].held # 0}

Contract ==
    INSTANCE PromptContract
        WITH outcome <- outcomeOf, announced <- announcedOf, spent <- RecoverBudget,
             told <- toldOf, confirmed <- confirmedOf

\* The prompt implements its contract: whatever hosts, senders, recoveries and
\* interrupts do, and whoever of them dies, is one of its steps or invisible.
ImplementsPromptContract == Contract!Spec
=============================================================================
