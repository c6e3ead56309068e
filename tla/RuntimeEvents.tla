--------------------------- MODULE RuntimeEvents ---------------------------
(* The runtime event stream of one session: DurableRuntime of               *)
(* packages/core/src/runtime/durable.ts over the SQLite event and snapshot  *)
(* stores, used by several processes, with the retention pass of            *)
(* SqliteRuntimeDatabase.prune.  Each store call is one transaction and one *)
(* action; a process serialises the records and snapshots of a stream,      *)
(* another process does not wait for it.  An event is what the outbox       *)
(* delivers, in any order; its idempotency key is the event itself.         *)
EXTENDS Integers, Sequences, FiniteSetsExt, Functions

CONSTANTS
    Hosts,          \* processes, each with one DurableRuntime
    Calls,          \* concurrent calls of its methods
    HostOf,         \* the process of a call
    Recoverers,     \* the calls of recover and reconcileInterrupted; the others record
    Tools,          \* tool call ids
    NoTool,         \* the tool of events that are not about one
    Published,      \* the events publishers hand to the outbox
    SnapshotEvery,  \* snapshotEvery
    MaxCrashes,     \* bound: processes that die
    MaxPasses       \* bound: retention passes

Event == [type : {"prompt.accepted", "prompt.recovered", "prompt.completed", "prompt.failed",
                  "prompt.cancelled", "command.budget_checkpoint", "session.running",
                  "session.idle", "permission.requested", "agent.failed", "tool.started",
                  "tool.completed", "tool.interrupted"},
          tool : Tools \cup {NoTool}]

ASSUME RuntimeAssumption ==
    /\ HostOf \in [Calls -> Hosts]
    /\ Recoverers \subseteq Calls
    /\ Published \subseteq Event
    /\ \A e \in Published : e.type # "tool.interrupted"  \* only a reconciliation records it
    /\ SnapshotEvery \in Nat \ {0}
    /\ MaxCrashes \in Nat /\ MaxPasses \in Nat

VARIABLES
    history,   \* every event ever recorded, in order
    rows,      \* runtime_events: by sequence, the place of the event in history
    snapshot,  \* runtime_snapshots; sequence 0 stands for no row
    call,      \* per call: the await it is at, and its locals
    intact,    \* no retention pass emptied the stream under its sequence, or
               \* removed rows between the two reads of a projection
    crashes,
    passes

vars == <<history, rows, snapshot, call, intact, crashes, passes>>

----------------------------------------------------------------------------
\* projectRuntimeEvents.  The phase a single event leads to.
PhaseAfter(phase, type) ==
    CASE type \in {"prompt.accepted", "prompt.recovered"} -> "queued"
      [] type = "session.running" -> "running"
      [] type = "session.idle" ->
            IF phase \in {"failed", "cancelled", "completed"} THEN phase ELSE "idle"
      [] type = "permission.requested" -> "waiting_permission"
      [] type \in {"agent.failed", "prompt.failed"} -> "failed"
      [] type = "prompt.completed" ->
            IF phase \in {"failed", "cancelled"} THEN phase ELSE "completed"
      [] type = "prompt.cancelled" -> "cancelled"
      [] OTHER -> phase

ToolsAfter(active, e) ==
    CASE e.type = "tool.started" -> active \cup {e.tool}
      [] e.type \in {"tool.completed", "tool.interrupted"} -> active \ {e.tool}
      [] OTHER -> active

Projected(state, e) ==
    [state EXCEPT !.phase = PhaseAfter(@, e.type), !.activeTools = ToolsAfter(@, e)]

Blank == [sequence |-> 0, phase |-> "idle", activeTools |-> {}, events |-> 0]

\* Mutant: phase and tools start afresh, whatever the base says.
ProjectAfresh(base, read) ==
    LET last == IF read = {} THEN base.sequence ELSE Max(read)
        after[n \in base.sequence..last] ==
            IF n = base.sequence THEN Blank
            ELSE IF n \in read THEN Projected(after[n - 1], history[rows[n]]) ELSE after[n - 1]
    IN  [sequence |-> last, phase |-> after[last].phase, activeTools |-> after[last].activeTools,
         events |-> base.events + Cardinality(read)]

\* The state after the rows that were read, by sequence, on top of a base.
Project(base, read) ==
    LET last == IF read = {} THEN base.sequence ELSE Max(read)
        after[n \in base.sequence..last] ==
            IF n = base.sequence THEN base
            ELSE IF n \in read THEN Projected(after[n - 1], history[rows[n]]) ELSE after[n - 1]
    IN  [sequence |-> last, phase |-> after[last].phase, activeTools |-> after[last].activeTools,
         events |-> base.events + Cardinality(read)]

\* Mutant: the sequence is taken from the number of rows.
NextSequenceByCount == Cardinality(DOMAIN rows) + 1

\* append: MAX(sequence) + 1, over the rows that are there.
NextSequence == IF DOMAIN rows = {} THEN 1 ELSE Max(DOMAIN rows) + 1

\* The sequences of the rows with the key of an event.
RowsOf(e) == {n \in DOMAIN rows : history[rows[n]] = e}

Terminal == {"prompt.completed", "prompt.failed", "prompt.cancelled"}

RequiresSnapshot(sequence, e) ==
    sequence % SnapshotEvery = 0 \/ e.type \in Terminal

----------------------------------------------------------------------------
\* The locals of a call: what it works for, the snapshot and the projection it
\* read, the length of the history when it began and when it read, and the
\* tools it has yet to interrupt and has found active.
Idle == [at |-> "free", task |-> "record", base |-> Blank, state |-> Blank,
         since |-> 0, seen |-> 0, owed |-> {}, found |-> {}]

Init ==
    /\ history = <<>>
    /\ rows = [n \in {} |-> 0]
    /\ snapshot = Blank
    /\ call = [c \in Calls |-> Idle]
    /\ intact = TRUE
    /\ crashes = 0
    /\ passes = 0

At(c, where) == call[c].at = where

Began(c, where, task) ==
    [call EXCEPT ![c] = [Idle EXCEPT !.at = where, !.task = task, !.since = Len(history)]]

\* A call of this process holds the stream lock while it makes a snapshot.
Locked(h) == \E c \in Calls : HostOf[c] = h /\ call[c].at \in {"get", "read", "put"}

\* append: a key that has a row returns that row, and is as good as a new event
\* for the snapshot cadence.
AppendEvent(e) ==
    IF RowsOf(e) # {} THEN UNCHANGED <<history, rows, intact>> ELSE
        /\ history' = Append(history, e)
        /\ rows' = [n \in DOMAIN rows \cup {NextSequence} |->
                       IF n = NextSequence THEN Len(history) + 1 ELSE rows[n]]
        /\ intact' = (intact /\ (DOMAIN rows # {} \/ history = <<>>))

\* A message is not delivered again a retention period after its event was: by
\* then the outbox has marked it sent.  (Left out: reconcileCommandTerminalEvents
\* may publish an outcome again if its command is kept longer than its event.)
Deliverable(e) == e \in Range(history) => RowsOf(e) # {}

SequenceOf(e) == IF RowsOf(e) # {} THEN Max(RowsOf(e)) ELSE NextSequence

\* record: append and, if the event calls for one, the snapshot, in one turn of
\* the stream lock.  Over SQLite it is how every event but the checkpoints arrives.
Record(c, e) ==
    /\ At(c, "free")
    /\ e.type # "command.budget_checkpoint"
    /\ Deliverable(e)
    /\ ~Locked(HostOf[c])
    /\ AppendEvent(e)
    /\ call' = IF RequiresSnapshot(SequenceOf(e), e) THEN Began(c, "get", "record") ELSE call
    /\ UNCHANGED <<snapshot, crashes, passes>>

\* A checkpoint committed under the fence of its command, outside the lock; if it
\* calls for a snapshot, maintainSnapshotAfterExternalCommit then waits for it.
Commit(c, e) ==
    /\ At(c, "free")
    /\ e.type = "command.budget_checkpoint"
    /\ Deliverable(e)
    /\ AppendEvent(e)
    /\ call' = IF RequiresSnapshot(SequenceOf(e), e) THEN Began(c, "lock", "record") ELSE call
    /\ UNCHANGED <<snapshot, crashes, passes>>

TakeLock(c) ==
    /\ At(c, "lock")
    /\ ~Locked(HostOf[c])
    /\ call' = [call EXCEPT ![c].at = "get"]
    /\ UNCHANGED <<history, rows, snapshot, intact, crashes, passes>>

----------------------------------------------------------------------------
\* snapshots.get: the first await of writeSnapshotUnlocked and of recover.
GetSnapshot(c) ==
    /\ call[c].at \in {"get", "recover"}
    /\ call' = [call EXCEPT ![c].base = snapshot,
                            ![c].at = IF @ = "get" THEN "read" ELSE "replay"]
    /\ UNCHANGED <<history, rows, snapshot, intact, crashes, passes>>

\* Mutant: everything there is, whatever the snapshot covers.
UnprojectedRegardless(base) == DOMAIN rows

\* store.read(streamId, sequence of the snapshot).
Unprojected(base) == {n \in DOMAIN rows : n > base.sequence}

ReadEvents(c) ==
    /\ At(c, "read")
    /\ call' = [call EXCEPT ![c].state = Project(call[c].base, Unprojected(call[c].base)),
                            ![c].at = "put"]
    /\ UNCHANGED <<history, rows, snapshot, intact, crashes, passes>>

\* Mutant: an upsert without its WHERE clause.
SupersedesAlways(state) == TRUE

Supersedes(state) == state.sequence >= snapshot.sequence

\* The call returns, or its reconciliation goes on.
Returned(c) ==
    IF call[c].task = "reconcile"
    THEN [Idle EXCEPT !.at = "interrupt", !.task = "reconcile",
                      !.since = call[c].since, !.owed = call[c].owed,
                      !.found = call[c].found]
    ELSE Idle

\* snapshots.put: the upsert keeps the row of a later sequence.
PutSnapshot(c) ==
    /\ At(c, "put")
    /\ snapshot' = IF Supersedes(call[c].state) THEN call[c].state ELSE snapshot
    /\ call' = [call EXCEPT ![c] = Returned(c)]
    /\ UNCHANGED <<history, rows, intact, crashes, passes>>

----------------------------------------------------------------------------
\* recover, by itself or at the start of reconcileInterrupted: the two reads
\* without the lock.
Recover(c, task) ==
    /\ At(c, "free")
    /\ call' = Began(c, "recover", task)
    /\ UNCHANGED <<history, rows, snapshot, intact, crashes, passes>>

\* The second read.  A reconciliation learns from it which tools were left.
Replay(c) ==
    LET state == Project(call[c].base, Unprojected(call[c].base))
        seen == [call[c] EXCEPT !.state = state, !.seen = Len(history)]
    IN  /\ At(c, "replay")
        /\ call' = [call EXCEPT ![c] =
                        IF seen.task = "reconcile"
                        THEN [seen EXCEPT !.at = "interrupt", !.owed = state.activeTools,
                                          !.found = state.activeTools]
                        ELSE [seen EXCEPT !.at = "recovered"]]
        /\ UNCHANGED <<history, rows, snapshot, intact, crashes, passes>>

\* Mutant: one idempotency key for all interruptions of a stream.
InterruptionOnce(t) ==
    LET earlier == {e \in Range(history) : e.type = "tool.interrupted"}
    IN  IF earlier = {} THEN [type |-> "tool.interrupted", tool |-> t]
        ELSE CHOOSE e \in earlier : TRUE

Interruption(t) == [type |-> "tool.interrupted", tool |-> t]

\* record of the next tool.interrupted.
Interrupt(c, t) ==
    /\ At(c, "interrupt")
    /\ t \in call[c].owed
    /\ ~Locked(HostOf[c])
    /\ AppendEvent(Interruption(t))
    /\ call' = [call EXCEPT ![c].owed = @ \ {t},
                            ![c].at = IF RequiresSnapshot(SequenceOf(Interruption(t)), Interruption(t))
                                      THEN "get" ELSE @]
    /\ UNCHANGED <<snapshot, crashes, passes>>

\* All are closed: recover again for the answer.
Reconciled(c) ==
    /\ At(c, "interrupt")
    /\ call[c].owed = {}
    /\ call' = [call EXCEPT ![c] = [Idle EXCEPT !.at = "recover", !.task = "answer",
                                                !.since = call[c].since,
                                                !.found = call[c].found]]
    /\ UNCHANGED <<history, rows, snapshot, intact, crashes, passes>>

Return(c) ==
    /\ At(c, "recovered")
    /\ call' = [call EXCEPT ![c] = Idle]
    /\ UNCHANGED <<history, rows, snapshot, intact, crashes, passes>>

----------------------------------------------------------------------------
\* A process dies between two awaits.
Crash(h) ==
    /\ crashes < MaxCrashes
    /\ crashes' = crashes + 1
    /\ \E c \in Calls : HostOf[c] = h /\ ~At(c, "free")
    /\ call' = [c \in Calls |-> IF HostOf[c] = h THEN Idle ELSE call[c]]
    /\ UNCHANGED <<history, rows, snapshot, intact, passes>>

\* Mutant: old rows go, snapshot or not.
ExpendableByAge(age) == {n \in DOMAIN rows : rows[n] <= age}

\* Old rows a snapshot covers.
Expendable(age) == {n \in DOMAIN rows : rows[n] <= age /\ n <= snapshot.sequence}

\* The retention pass: the events up to some age, in one transaction.  The
\* retention is at least a day, so what was recorded since a call began is not
\* old enough.
Prune(age) ==
    /\ passes < MaxPasses
    /\ passes' = passes + 1
    /\ \A c \in Calls : At(c, "free") \/ age <= call[c].since
    /\ Expendable(age) # {}
    /\ rows' = Restrict(rows, DOMAIN rows \ Expendable(age))
    /\ intact' = (intact /\ \A c \in Calls : call[c].at \in {"read", "replay"} =>
                                Unprojected(call[c].base) \cap Expendable(age) = {})
    /\ UNCHANGED <<history, snapshot, call, crashes>>

----------------------------------------------------------------------------
\* What continues by itself once a call began.
Continue(c) ==
    \/ TakeLock(c) \/ GetSnapshot(c) \/ ReadEvents(c) \/ PutSnapshot(c)
    \/ Replay(c) \/ Reconciled(c) \/ Return(c)
    \/ \E t \in Tools : Interrupt(c, t)

Next ==
    \/ \E c \in Calls \ Recoverers, e \in Published : Record(c, e) \/ Commit(c, e)
    \/ \E c \in Recoverers, task \in {"recover", "reconcile"} : Recover(c, task)
    \/ \E c \in Calls : Continue(c)
    \/ \E h \in Hosts : Crash(h)
    \/ \E age \in 1..Len(history) : Prune(age)

Spec == Init /\ [][Next]_vars

----------------------------------------------------------------------------
\* What the first n events of the history amount to.
Truth(n) ==
    LET after[i \in 0..n] ==
            IF i = 0 THEN Blank ELSE Projected(after[i - 1], history[i])
    IN  [after[n] EXCEPT !.sequence = n, !.events = n]

States == [sequence : Nat, phase : {"idle", "queued", "running", "waiting_permission",
                                    "completed", "failed", "cancelled"},
           activeTools : SUBSET Tools, events : Nat]

\* A client that read up to a sequence misses nothing when it asks for what is
\* after it: sequences go up with the history, across retention passes too.
SequencesFollowHistory == intact => \A n \in DOMAIN rows : rows[n] = n

\* Nothing is pruned that the snapshot does not stand for, although another
\* process may put an older projection at any time.
PrunedIsCovered ==
    intact => \A n \in DOMAIN history : n \in DOMAIN rows \/ n <= snapshot.sequence

\* The snapshot is what its events amount to, counted once, whichever process
\* projected it on top of whichever earlier snapshot.
SnapshotIsTrue == intact => snapshot = Truth(snapshot.sequence)

\* What recovery works with is the whole history at the time of its read,
\* although snapshots and retention passes come between its two reads.
RecoveryIsCurrent ==
    intact => \A c \in Calls : At(c, "recovered") => call[c].state = Truth(call[c].seen)

\* Every tool call a reconciliation found open is closed when it answers.
ReconciledToolsAreClosed ==
    intact => \A c \in Calls :
        At(c, "recovered") => call[c].found \cap call[c].state.activeTools = {}

\* When no call is under way any more the snapshot stands for every outcome that
\* was recorded, unless a process died: another process that puts an older
\* projection, or a pass of the retention, does not drive an outcome out again.
OutcomesAreSnapshotted ==
    crashes = 0 /\ intact /\ (\A c \in Calls : At(c, "free")) =>
        \A n \in DOMAIN history : history[n].type \in Terminal => n <= snapshot.sequence
============================================================================
