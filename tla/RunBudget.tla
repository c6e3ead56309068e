------------------------------- MODULE RunBudget -------------------------------
(* The budget of one run tree: RunBudgetLedger of agent.ts, used by          *)
(* turn-runner.ts for each model call and by tool-executor.ts for each tool, *)
(* with the checkpoints session-manager.ts writes and the ledger it restores *)
(* after a crash.  A step between two awaits is one action.  Cost in dollars *)
(* is a second resource of the same shape as tokens and is left out.         *)
EXTENDS Integers, Sequences, SequencesExt, FiniteSets

CONSTANTS
    Calls,         \* model calls of one life of the process
    Tools,         \* the tool calls of the turn of one life
    Wish,          \* per call: requestedMaxTokens, 0 for none
    Input,         \* estimated input tokens of a call
    Uses,          \* what providers report as used
    MaxTokens,     \* maxTotalTokens
    MaxToolCalls,  \* maxToolCalls
    MaxTools,      \* maxConcurrentTools
    MaxCrashes     \* bound: crashes of the process

ASSUME BudgetAssumption ==
    /\ Wish \in [Calls -> Nat] /\ Input \in Nat \ {0} /\ Uses \subseteq Nat
    /\ IsFiniteSet(Tools)
    /\ MaxTokens \in Nat \ {0} /\ MaxToolCalls \in Nat \ {0}
    /\ MaxTools \in Nat \ {0} /\ MaxCrashes \in Nat

VARIABLES
    ledger,        \* the fields a snapshot has
    aborted,       \* controller.signal
    queue,         \* checkpointTail: snapshots the sink has not answered
    broken,        \* checkpointTail is rejected
    resolved,      \* revision of the last checkpoint the sink acknowledged
    durable,       \* the latest snapshot in the event stream of the session
    call,          \* per model call: where it awaits, its reservation and revision
    turn,          \* where the turn that makes the tool calls awaits, and its revision
    tool,          \* per tool call: where it awaits
    toolWaiters,
    activeTools,
    spent,         \* history: tokens providers used of their reservations, over all lives
    ran,           \* history: tool calls given a slot, over all lives
    crashes

ledgerVars == <<ledger, aborted, queue>>
sinkVars == <<broken, resolved, durable>>
toolVars == <<turn, tool, toolWaiters>>
historyVars == <<spent, ran, crashes>>
vars == <<ledgerVars, sinkVars, call, toolVars, activeTools, historyVars>>

Fresh == [revision |-> 0, used |-> 0, reserved |-> 0, toolCalls |-> 0, stopped |-> FALSE]
IdleCall == [at |-> "idle", reserved |-> 0, revision |-> 0, use |-> 0]
OverCall == [IdleCall EXCEPT !.at = "over"]
IdleTurn == [at |-> "idle", revision |-> 0]

Init ==
    /\ ledger = Fresh /\ aborted = FALSE /\ queue = <<>>
    /\ broken = FALSE /\ resolved = 0 /\ durable = Fresh
    /\ call = [c \in Calls |-> IdleCall]
    /\ turn = IdleTurn /\ tool = [t \in Tools |-> "idle"] /\ toolWaiters = <<>> /\ activeTools = 0
    /\ spent = 0 /\ ran = 0 /\ crashes = 0

----------------------------------------------------------------------------
(* The ledger. *)

Bumped(l) == [l EXCEPT !.revision = @ + 1]

\* fail: the first reason only is kept, and saved.
Stopped(l) == IF l.stopped THEN l ELSE Bumped([l EXCEPT !.stopped = TRUE])

OverLimit(l) == l.used + l.reserved > MaxTokens

\* enqueueCheckpoint: a rejected tail rejects what is chained to it.
Saving(snapshots) == IF broken THEN queue ELSE queue \o snapshots

\* The waiters of a slot listen to the signal of the run.
Refuse(tools) == [t \in Tools |-> IF tools[t] = "waiting" THEN "over" ELSE tools[t]]

\* A mutation of the ledger, its checkpoint, and fail() if the run must stop.
Saves(l) ==
    /\ ledger' = l
    /\ queue' = Saving(<<l>>)
    /\ UNCHANGED aborted

Fails(tools) ==
    /\ ledger' = Stopped(ledger)
    /\ queue' = Saving(IF ledger.stopped THEN <<>> ELSE <<Stopped(ledger)>>)
    /\ aborted' = TRUE
    /\ tool' = Refuse(tools) /\ toolWaiters' = <<>>

\* checkpoint: the caller waits for its own revision, raced with the signal.
Written(revision) == resolved >= revision
Refusing(revision) == aborted \/ (broken /\ ~Written(revision))

----------------------------------------------------------------------------
(* A model call, in turn-runner.ts over reserveModelCall. *)

At(c, where) == call[c].at = where
Ends(c) == call' = [call EXCEPT ![c] = OverCall]

Available == MaxTokens - ledger.used - ledger.reserved

\* The reservation: the whole rest when no output bound is requested.
Reservation(c) ==
    LET rest == Available - Input
    IN  Input + (IF Wish[c] = 0 \/ Wish[c] > rest THEN rest ELSE Wish[c])

Reserve(c) ==
    /\ At(c, "idle")
    /\ \/ /\ ledger.stopped \/ Available <= Input
          /\ Fails(tool) /\ UNCHANGED turn
          /\ Ends(c)
       \/ /\ ~ledger.stopped /\ Available > Input
          /\ LET l == Bumped([ledger EXCEPT !.reserved = @ + Reservation(c)])
             IN  /\ Saves(l)
                 /\ call' = [call EXCEPT ![c] = [at |-> "reserving", reserved |-> Reservation(c),
                                                 revision |-> l.revision, use |-> 0]]
          /\ UNCHANGED toolVars
    /\ UNCHANGED <<sinkVars, activeTools, historyVars>>

\* The request is sent, and the provider uses less than was reserved or more.
Dispatch(c) ==
    \E use \in Uses :
        /\ call' = [call EXCEPT ![c].at = "flight", ![c].use = use]
        /\ spent' = spent + (IF use > call[c].reserved THEN call[c].reserved ELSE use)
        /\ UNCHANGED <<ledgerVars, toolVars, ran, crashes>>

\* The reservation is settled once, for what is charged.
Settles(c, charge, where) ==
    LET l == Bumped([ledger EXCEPT !.used = @ + charge, !.reserved = @ - call[c].reserved])
    IN  /\ Saves(l)
        /\ call' = [call EXCEPT ![c].at = where, ![c].revision = l.revision, ![c].use = charge]
        /\ UNCHANGED <<toolVars, historyVars>>

\* cancel: its drive was aborted before the request was sent.
Cancel(c) == Settles(c, 0, "cancelling")

\* Its checkpoint was rejected: the call throws and its reservation stays.
Refused(c) ==
    /\ Fails(tool)
    /\ Ends(c)
    /\ UNCHANGED <<turn, historyVars>>

\* Mutant: the call goes on before its reservation is written.
ReservedAtOnce(c) ==
    /\ At(c, "reserving")
    /\ ~aborted /\ Dispatch(c)
    /\ UNCHANGED <<sinkVars, activeTools>>

\* Mutant: the wait for the checkpoint is not raced with the signal.
ReservedUnraced(c) ==
    /\ At(c, "reserving")
    /\ \/ Written(call[c].revision) /\ ((~aborted /\ Dispatch(c)) \/ Cancel(c))
       \/ broken /\ ~Written(call[c].revision) /\ Refused(c)
    /\ UNCHANGED <<sinkVars, activeTools>>

\* The await of its checkpoint returns or throws.
Reserved(c) ==
    /\ At(c, "reserving")
    /\ \/ Written(call[c].revision) /\ ((~aborted /\ Dispatch(c)) \/ Cancel(c))
       \/ Refusing(call[c].revision) /\ Refused(c)
    /\ UNCHANGED <<sinkVars, activeTools>>

\* commit: the provider reports what was used.
Commit(c) ==
    /\ At(c, "flight")
    /\ Settles(c, call[c].use, "settling")
    /\ UNCHANGED <<sinkVars, activeTools>>

\* consume: the stream ended, failed or was aborted without a report.
Consume(c) ==
    /\ At(c, "flight")
    /\ Settles(c, call[c].reserved, "settling")
    /\ UNCHANGED <<sinkVars, activeTools>>

\* The checkpoint of the settlement returns; what exceeds a bound stops the run.
Settled(c) ==
    LET exceeds == At(c, "settling") /\ (OverLimit(ledger) \/ call[c].use > call[c].reserved)
    IN  /\ At(c, "settling") \/ At(c, "cancelling")
        /\ Ends(c)
        /\ \/ /\ Written(call[c].revision) /\ ~exceeds
              /\ UNCHANGED <<ledgerVars, toolVars>>
           \/ /\ Refusing(call[c].revision) \/ (Written(call[c].revision) /\ exceeds)
              /\ Fails(tool) /\ UNCHANGED turn
        /\ UNCHANGED <<sinkVars, activeTools, historyVars>>

----------------------------------------------------------------------------
(* A tool call: counted with its turn in agent.ts, then run by               *)
(* tool-executor.ts in a slot of the tree.                                   *)

\* reserveToolCalls, of all the calls of the turn.
Count ==
    /\ turn.at = "idle"
    /\ \/ /\ ledger.toolCalls + Cardinality(Tools) > MaxToolCalls
          /\ Fails(tool)
          /\ turn' = [turn EXCEPT !.at = "over"]
       \/ /\ ledger.toolCalls + Cardinality(Tools) <= MaxToolCalls
          /\ LET l == Bumped([ledger EXCEPT !.toolCalls = @ + Cardinality(Tools)])
             IN  /\ Saves(l)
                 /\ turn' = [at |-> "counting", revision |-> l.revision]
          /\ UNCHANGED <<tool, toolWaiters>>
    /\ UNCHANGED <<sinkVars, call, activeTools, historyVars>>

\* Mutant: the turn goes on before its tool calls are written.
CountedAtOnce ==
    /\ turn.at = "counting"
    /\ turn' = [IdleTurn EXCEPT !.at = "counted"]
    /\ UNCHANGED <<ledgerVars, sinkVars, call, tool, toolWaiters, activeTools, historyVars>>

Counted ==
    /\ turn.at = "counting"
    /\ \/ /\ Written(turn.revision) /\ ~ledger.stopped /\ ~OverLimit(ledger)
          /\ turn' = [IdleTurn EXCEPT !.at = "counted"]
          /\ UNCHANGED <<ledgerVars, tool, toolWaiters>>
       \/ /\ \/ Refusing(turn.revision)
             \/ Written(turn.revision) /\ (ledger.stopped \/ OverLimit(ledger))
          /\ turn' = [IdleTurn EXCEPT !.at = "over"]
          /\ Fails(tool)
    /\ UNCHANGED <<sinkVars, call, activeTools, historyVars>>

\* acquireToolSlot.
Acquire(t) ==
    /\ turn.at = "counted" /\ tool[t] = "idle"
    /\ \/ /\ aborted \/ OverLimit(ledger)
          /\ Fails([tool EXCEPT ![t] = "over"])
          /\ UNCHANGED <<activeTools, ran>>
       \/ /\ ~aborted /\ ~OverLimit(ledger) /\ activeTools < MaxTools
          /\ activeTools' = activeTools + 1
          /\ tool' = [tool EXCEPT ![t] = "running"] /\ ran' = ran + 1
          /\ UNCHANGED <<ledgerVars, toolWaiters>>
       \/ /\ ~aborted /\ ~OverLimit(ledger) /\ activeTools >= MaxTools
          /\ toolWaiters' = Append(toolWaiters, t)
          /\ tool' = [tool EXCEPT ![t] = "waiting"]
          /\ UNCHANGED <<ledgerVars, activeTools, ran>>
    /\ UNCHANGED <<sinkVars, call, turn, spent, crashes>>

\* Its own timeout, or the abort of its drive, before it has a slot.
GiveUp(t) ==
    /\ \E i \in DOMAIN toolWaiters : toolWaiters[i] = t /\ toolWaiters' = RemoveAt(toolWaiters, i)
    /\ tool' = [tool EXCEPT ![t] = "over"]
    /\ UNCHANGED <<ledgerVars, sinkVars, call, turn, activeTools, historyVars>>

\* Mutant: a released slot wakes nobody.
ReleaseQuietly(t) ==
    /\ tool[t] = "running"
    /\ activeTools' = activeTools - 1
    /\ tool' = [tool EXCEPT ![t] = "over"]
    /\ UNCHANGED <<ledgerVars, sinkVars, call, turn, toolWaiters, historyVars>>

\* Its fence refuses, or its body settles, which may be long after the tool
\* timed out: the slot goes to the first waiter.
Release(t) ==
    /\ tool[t] = "running"
    /\ IF toolWaiters # <<>> /\ ~aborted
       THEN /\ tool' = [tool EXCEPT ![t] = "over", ![Head(toolWaiters)] = "running"]
            /\ ran' = ran + 1
            /\ toolWaiters' = Tail(toolWaiters)
            /\ UNCHANGED activeTools
       ELSE /\ tool' = [tool EXCEPT ![t] = "over"]
            /\ activeTools' = activeTools - 1
            /\ UNCHANGED <<toolWaiters, ran>>
    /\ UNCHANGED <<ledgerVars, sinkVars, call, turn, spent, crashes>>

----------------------------------------------------------------------------
(* The clock, the sink and the process. *)

\* maxWallTimeMs is over.
WallClock ==
    /\ ~ledger.stopped
    /\ Fails(tool)
    /\ UNCHANGED <<sinkVars, call, turn, activeTools, historyVars>>

\* onCheckpoint appends the snapshot to the events of the session.
Checkpointed ==
    /\ queue # <<>>
    /\ durable' = Head(queue) /\ resolved' = Head(queue).revision
    /\ queue' = Tail(queue)
    /\ UNCHANGED <<ledger, aborted, broken, call, toolVars, activeTools, historyVars>>

\* It throws, before or after its commit: all that is chained to it is rejected.
CheckpointThrows ==
    /\ queue # <<>>
    /\ durable' \in {durable, Head(queue)}
    /\ broken' = TRUE /\ queue' = <<>>
    /\ UNCHANGED <<ledger, aborted, resolved, call, toolVars, activeTools, historyVars>>

\* Mutant: a stop is not restored.
RestoredRunning == [durable EXCEPT !.stopped = FALSE]

\* recoverRunBudgetSnapshot and the constructor, which checks the limits.
Restored == IF OverLimit(durable) THEN Stopped(durable) ELSE durable

\* The process dies and the command is recovered with the latest snapshot.
Crash ==
    /\ crashes < MaxCrashes
    /\ crashes' = crashes + 1
    /\ ledger' = Restored /\ aborted' = Restored.stopped
    /\ queue' = IF Restored = durable THEN <<>> ELSE <<Restored>>
    /\ broken' = FALSE /\ resolved' = durable.revision
    /\ call' = [c \in Calls |-> IdleCall]
    /\ turn' = IdleTurn /\ tool' = [t \in Tools |-> "idle"]
    /\ toolWaiters' = <<>> /\ activeTools' = 0
    /\ UNCHANGED <<durable, spent, ran>>

----------------------------------------------------------------------------
CallStep(c) ==
    Reserve(c) \/ Reserved(c) \/ Commit(c) \/ Consume(c) \/ Settled(c)

ToolStep(t) ==
    Acquire(t) \/ GiveUp(t) \/ Release(t)

Next ==
    \/ \E c \in Calls : CallStep(c)
    \/ \E t \in Tools : ToolStep(t)
    \/ Count \/ Counted \/ WallClock \/ Checkpointed \/ CheckpointThrows \/ Crash

Spec == Init /\ [][Next]_vars

\* The timer of the run fires and what is raced with its signal goes on.
\* The sink, the provider and the body of a tool may hang for ever.
Fairness ==
    /\ WF_vars(WallClock)
    /\ \A c \in Calls : /\ WF_vars(Reserved(c)) /\ WF_vars(Settled(c))
                        /\ WF_vars(aborted /\ Consume(c))
    /\ WF_vars(Counted)

FairSpec == Spec /\ Fairness

----------------------------------------------------------------------------
(* Properties. *)

\* What all the lives of a run use of the reservations of their requests stays
\* within its limit: a reservation is durable before its request is sent, and
\* one that a crash left behind is never given back.
SpentWithinLimit == spent <= MaxTokens

\* All the lives of a run begin no more tool calls than it may make.
ToolsWithinLimit == ran <= MaxToolCalls

Holding == {t \in Tools : tool[t] = "running"}

\* Every slot in use is one tool's, a tool waits only while all are, each
\* waiter is in the queue once, and none is left there when the run stops.
SlotsAreHandedOn ==
    /\ activeTools = Cardinality(Holding) /\ activeTools <= MaxTools
    /\ toolWaiters # <<>> => activeTools = MaxTools /\ ~aborted
    /\ IsInjective(toolWaiters)
    /\ ToSet(toolWaiters) = {t \in Tools : tool[t] = "waiting"}

\* The snapshots of a run are written in the order of their revisions, over its
\* restarts too: recoverRunBudgetSnapshot refuses a command where they are not.
\* None takes back a stop or a tool call, and after a written stop no life of
\* the run sends a request.
SnapshotsOnlyAdvance ==
    [][/\ durable' # durable => durable'.revision > durable.revision
       /\ durable'.toolCalls >= durable.toolCalls
       /\ durable.stopped =>
             /\ durable'.stopped
             /\ \A c \in Calls : call[c].at # "flight" => call'[c].at # "flight"]_vars

\* agent.ts:2235: the stop itself is persisted, so that a crash between a rejection
\* and the acknowledgement of the command cannot reopen the budget.  Once the tool
\* calls of a turn were refused, no later life of the run goes on.
RefusalIsFinal == [][turn.at = "over" => ledger'.stopped]_vars

Quiet ==
    /\ \A c \in Calls : call[c].at \notin {"reserving", "flight", "settling", "cancelling"}
    /\ turn.at # "counting" /\ toolWaiters = <<>>

\* In the end nothing waits for the sink, for a provider or for a slot: the wall
\* clock stops the run, whatever hangs.
CallersAreReleased == <>[]Quiet
=============================================================================
