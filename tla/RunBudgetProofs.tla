-------------------------- MODULE RunBudgetProofs --------------------------
(* The budget of a run for every number of calls, tools, slots and crashes:  *)
(* written snapshots only advance, tool calls are counted before they run,   *)
(* the slots of the tree are handed on, and no life spends what an earlier   *)
(* one has.                                                                  *)
EXTENDS RunBudget, FiniteSetTheorems, SequenceTheorems, TLAPS

Snapshot == [revision : Nat, used : Int, reserved : Int, toolCalls : Nat, stopped : BOOLEAN]

ToolPlaces == {"idle", "waiting", "running", "over"}

CallPlaces == {"idle", "reserving", "flight", "settling", "cancelling", "over"}

CallState == [at : CallPlaces, reserved : Int, revision : Nat, use : Int]

CallTypes == call \in [Calls -> CallState]

Types ==
    /\ ledger \in Snapshot /\ durable \in Snapshot /\ queue \in Seq(Snapshot)
    /\ aborted \in BOOLEAN /\ broken \in BOOLEAN /\ resolved \in Nat
    /\ CallTypes
    /\ turn \in [at : {"idle", "counting", "counted", "over"}, revision : Nat]
    /\ tool \in [Tools -> ToolPlaces] /\ toolWaiters \in Seq(Tools)
    /\ activeTools \in Nat /\ ran \in Nat

\* What a later snapshot keeps of an earlier one.
Keeps(s, later) == s.toolCalls <= later.toolCalls /\ (s.stopped => later.stopped)

\* The written snapshot, those on their way and the ledger follow each other.
SnapshotsAreOrdered ==
    /\ \A i \in DOMAIN queue :
          /\ durable.revision < queue[i].revision /\ Keeps(durable, queue[i])
          /\ queue[i].revision <= ledger.revision /\ Keeps(queue[i], ledger)
    /\ \A i, j \in DOMAIN queue :
          i < j => queue[i].revision < queue[j].revision /\ Keeps(queue[i], queue[j])
    /\ durable.revision <= ledger.revision /\ Keeps(durable, ledger)
    /\ resolved <= durable.revision
    /\ ledger.stopped => aborted

\* The tools of the turn that may still get a slot.
Pending == {t \in Tools : tool[t] \in {"idle", "waiting"}}

\* A snapshot that is late enough counts the tools of the turn.
CountsTurn(s) ==
    turn.at = "counting" /\ turn.revision <= s.revision => ran + Cardinality(Tools) <= s.toolCalls

\* What has run and what may still run in this life is counted where the next
\* life will find it.
ToolsAreCounted ==
    /\ ledger.toolCalls <= MaxToolCalls
    /\ turn.at # "counted" => tool = [t \in Tools |-> "idle"] /\ ran <= durable.toolCalls
    /\ turn.at = "counted" => ran + Cardinality(Pending) <= durable.toolCalls
    /\ turn.at = "counting" => turn.revision <= ledger.revision
    /\ CountsTurn(durable) /\ CountsTurn(ledger) /\ \A i \in DOMAIN queue : CountsTurn(queue[i])

BudgetInv == Types /\ SnapshotsAreOrdered /\ ToolsAreCounted /\ SlotsAreHandedOn

----------------------------------------------------------------------------
(* How the ledger moves. *)

\* A new snapshot joins the queue, unless the sink is broken.
Advances ==
    /\ ledger' \in Snapshot /\ aborted' \in BOOLEAN
    /\ Keeps(ledger, ledger') /\ (ledger'.stopped => aborted')
    /\ \/ ledger' = ledger /\ queue' = queue
       \/ /\ ledger'.revision = ledger.revision + 1
          /\ queue' = queue \/ queue' = Append(queue, ledger')

LEMMA SavingAdvances ==
    ASSUME BudgetInv, NEW l \in Snapshot, l.revision = ledger.revision + 1,
           Keeps(ledger, l), l.stopped = ledger.stopped, Saves(l)
    PROVE  Advances
<1>1. queue' = queue \/ queue' = Append(queue, l)
  <2>1. queue \in Seq(Snapshot)
    BY DEF BudgetInv, Types
  <2> QED BY <2>1 DEF Saves, Saving
<1>2. l.stopped => aborted
  BY DEF BudgetInv, SnapshotsAreOrdered
<1> QED BY <1>1, <1>2 DEF BudgetInv, Types, Advances, Saves

LEMMA StoppedLedger ==
    ASSUME BudgetInv
    PROVE  /\ Stopped(ledger) \in Snapshot /\ Stopped(ledger).stopped
           /\ Stopped(ledger).toolCalls = ledger.toolCalls
           /\ ledger.stopped => Stopped(ledger) = ledger
           /\ ~ledger.stopped => Stopped(ledger).revision = ledger.revision + 1
<1>1. ledger \in Snapshot
  BY DEF BudgetInv, Types
<1>2. CASE ledger.stopped
  BY <1>1, <1>2 DEF Stopped
<1>3. CASE ~ledger.stopped
  <2>1. PICK r \in Nat, u \in Int, v \in Int, n \in Nat :
           ledger = [revision |-> r, used |-> u, reserved |-> v, toolCalls |-> n, stopped |-> FALSE]
    BY <1>1, <1>3 DEF Snapshot
  <2>2. Stopped(ledger) =
           [revision |-> r + 1, used |-> u, reserved |-> v, toolCalls |-> n, stopped |-> TRUE]
    BY <1>3, <2>1 DEF Stopped, Bumped
  <2>3. Stopped(ledger) \in Snapshot
    BY <2>2 DEF Snapshot
  <2>4. ledger.revision = r /\ ledger.toolCalls = n
    BY <2>1
  <2>5. /\ Stopped(ledger).revision = r + 1 /\ Stopped(ledger).toolCalls = n
        /\ Stopped(ledger).stopped
    BY <2>2
  <2> QED BY <1>3, <2>3, <2>4, <2>5
<1> QED BY <1>2, <1>3

LEMMA FailingAdvances ==
    ASSUME BudgetInv, NEW tools, Fails(tools)
    PROVE  Advances /\ ledger'.toolCalls = ledger.toolCalls
<1>1. queue \in Seq(Snapshot)
  BY DEF BudgetInv, Types
<1>2. queue' = queue \/ queue' = Append(queue, ledger')
  <2>1. queue \o <<>> = queue /\ queue \o <<ledger'>> = Append(queue, ledger')
    BY <1>1
  <2> QED BY <2>1 DEF Fails, Saving
<1>4. ledger.stopped => queue' = queue
  BY <1>1 DEF Fails, Saving
<1>3. Keeps(ledger, ledger')
  BY StoppedLedger DEF Keeps, Fails, BudgetInv, Types, Snapshot
<1> QED BY <1>2, <1>3, <1>4, StoppedLedger DEF Fails, Advances

LEMMA SnapshotFields ==
    ASSUME NEW s \in Snapshot
    PROVE  s.revision \in Nat /\ s.toolCalls \in Nat /\ s.stopped \in BOOLEAN
BY DEF Snapshot

LEMMA KeepsOn ==
    ASSUME NEW s \in Snapshot, NEW t \in Snapshot, NEW u \in Snapshot, Keeps(s, t), Keeps(t, u)
    PROVE  Keeps(s, u)
BY SnapshotFields DEF Keeps

LEMMA OrderKept ==
    ASSUME BudgetInv, Advances, UNCHANGED <<durable, resolved>>
    PROVE  SnapshotsAreOrdered'
<1> USE DEF BudgetInv, Types
<1>1. /\ ledger' \in Snapshot /\ ledger'.revision \in Nat /\ ledger.revision \in Nat
      /\ durable \in Snapshot /\ durable.revision \in Nat
      /\ ledger.revision <= ledger'.revision /\ Keeps(ledger, ledger')
  BY SnapshotFields DEF Advances
<1>2. ASSUME NEW i \in DOMAIN queue
      PROVE  queue[i].revision <= ledger'.revision /\ Keeps(queue[i], ledger')
  <2>1. queue[i] \in Snapshot /\ queue[i].revision \in Nat
    BY SnapshotFields
  <2>2. queue[i].revision <= ledger.revision /\ Keeps(queue[i], ledger)
    BY DEF SnapshotsAreOrdered
  <2> QED BY <1>1, <2>1, <2>2, KeepsOn
<1>3. durable.revision <= ledger'.revision /\ Keeps(durable, ledger')
  BY <1>1, KeepsOn DEF SnapshotsAreOrdered
<1>4. CASE queue' = queue
  BY <1>2, <1>3, <1>4 DEF SnapshotsAreOrdered, Advances
<1>5. CASE queue' = Append(queue, ledger') /\ ledger'.revision = ledger.revision + 1
  <2>1. /\ DOMAIN queue' = 1..(Len(queue) + 1) /\ DOMAIN queue = 1..Len(queue)
        /\ \A i \in DOMAIN queue : queue'[i] = queue[i]
        /\ queue'[Len(queue) + 1] = ledger' /\ Len(queue) \in Nat
    BY <1>5 DEF Advances
  <2>2. \A i \in DOMAIN queue : queue[i].revision < ledger'.revision
    <3>1. ASSUME NEW i \in DOMAIN queue PROVE queue[i].revision < ledger'.revision
      <4>1. queue[i] \in Snapshot /\ queue[i].revision \in Nat
        BY SnapshotFields
      <4>2. queue[i].revision <= ledger.revision
        BY DEF SnapshotsAreOrdered
      <4> QED BY <1>1, <1>5, <4>1, <4>2
    <3> QED BY <3>1
  <2>3. durable.revision < ledger'.revision
    BY <1>5 DEF SnapshotsAreOrdered, Snapshot
  <2>4. Keeps(ledger', ledger')
    BY DEF Keeps, Advances, Snapshot
  <2>5. ASSUME NEW i \in DOMAIN queue'
        PROVE  /\ durable.revision < queue'[i].revision /\ Keeps(durable, queue'[i])
               /\ queue'[i].revision <= ledger'.revision /\ Keeps(queue'[i], ledger')
    <3>1. CASE i \in DOMAIN queue
      BY <1>2, <2>1, <3>1 DEF SnapshotsAreOrdered
    <3>2. CASE i = Len(queue) + 1
      <4>1. queue'[i] = ledger'
        BY <2>1, <3>2
      <4> QED BY <1>1, <1>3, <2>3, <2>4, <4>1
    <3>3. i \in DOMAIN queue \/ i = Len(queue) + 1
      <4>1. i \in 1..(Len(queue) + 1)
        BY <2>1
      <4> QED BY <2>1, <4>1
    <3> QED BY <3>1, <3>2, <3>3
  <2>6. ASSUME NEW i \in DOMAIN queue', NEW j \in DOMAIN queue', i < j
        PROVE  queue'[i].revision < queue'[j].revision /\ Keeps(queue'[i], queue'[j])
    <3>1. i \in DOMAIN queue
      BY <2>1, <2>6
    <3>2. CASE j \in DOMAIN queue
      BY <2>1, <2>6, <3>1, <3>2 DEF SnapshotsAreOrdered
    <3>3. CASE j = Len(queue) + 1
      BY <1>2, <2>1, <2>2, <3>1, <3>3
    <3>4. j \in DOMAIN queue \/ j = Len(queue) + 1
      BY <2>1, <2>6
    <3> QED BY <3>2, <3>3, <3>4
  <2>7. resolved' <= durable'.revision /\ (ledger'.stopped => aborted')
    BY DEF SnapshotsAreOrdered, Advances
  <2> QED BY <1>3, <2>5, <2>6, <2>7 DEF SnapshotsAreOrdered
<1> QED BY <1>4, <1>5 DEF Advances

LEMMA Unmoved ==
    ASSUME BudgetInv, UNCHANGED ledgerVars
    PROVE  Advances
<1>1. Keeps(ledger, ledger)
  BY SnapshotFields DEF BudgetInv, Types, Keeps
<1> QED BY <1>1 DEF BudgetInv, Types, SnapshotsAreOrdered, Advances, ledgerVars

----------------------------------------------------------------------------
(* The steps of a model call and of the clock. *)

\* What such a step does: it may charge the ledger, count no tool and stop the run.
Charges ==
    /\ Advances /\ ledger'.toolCalls = ledger.toolCalls /\ CallTypes'
    /\ UNCHANGED <<sinkVars, turn, activeTools, ran>>
    /\ \/ UNCHANGED <<aborted, tool, toolWaiters>>
       \/ tool' = Refuse(tool) /\ toolWaiters' = <<>>

LEMMA BumpedRecord ==
    ASSUME NEW r, NEW u, NEW v, NEW n, NEW b
    PROVE  Bumped([revision |-> r, used |-> u, reserved |-> v, toolCalls |-> n, stopped |-> b]) =
              [revision |-> r + 1, used |-> u, reserved |-> v, toolCalls |-> n, stopped |-> b]
BY DEF Bumped

LEMMA LedgerBumped ==
    ASSUME BudgetInv, NEW u \in Int, NEW v \in Int, NEW n \in Nat, ledger.toolCalls <= n,
           NEW l, l = [revision |-> ledger.revision + 1, used |-> u, reserved |-> v,
                       toolCalls |-> n, stopped |-> ledger.stopped]
    PROVE  l \in Snapshot /\ l.revision = ledger.revision + 1 /\ Keeps(ledger, l)
           /\ l.stopped = ledger.stopped /\ l.toolCalls = n
<1>1. ledger \in Snapshot /\ ledger.revision \in Nat /\ ledger.stopped \in BOOLEAN
  BY SnapshotFields DEF BudgetInv, Types
<1> QED BY <1>1 DEF Snapshot, Keeps

LEMMA CallChanged ==
    ASSUME CallTypes, NEW c \in Calls, NEW state \in CallState, call' = [call EXCEPT ![c] = state]
    PROVE  CallTypes'
BY DEF CallTypes

LEMMA CallEnded ==
    ASSUME CallTypes, NEW c \in Calls, Ends(c)
    PROVE  CallTypes'
<1>1. OverCall = [at |-> "over", reserved |-> 0, revision |-> 0, use |-> 0]
  BY DEF OverCall, IdleCall
<1>2. OverCall \in CallState
  BY <1>1 DEF CallState, CallPlaces
<1> QED BY <1>2, CallChanged DEF Ends

LEMMA CallMoved ==
    ASSUME CallTypes, NEW c \in Calls, NEW where \in CallPlaces, NEW r \in Nat, NEW u \in Int,
           \/ call' = [call EXCEPT ![c].at = where, ![c].revision = r, ![c].use = u]
           \/ call' = [call EXCEPT ![c].at = where, ![c].use = u]
    PROVE  CallTypes'
<1>1. PICK a \in CallPlaces, n \in Int, m \in Nat, w \in Int :
         call[c] = [at |-> a, reserved |-> n, revision |-> m, use |-> w]
  BY DEF CallTypes, CallState
<1>2. PICK k \in Nat :
         call' = [call EXCEPT ![c] = [at |-> where, reserved |-> n, revision |-> k, use |-> u]]
  BY <1>1 DEF CallTypes
<1>3. [at |-> where, reserved |-> n, revision |-> k, use |-> u] \in CallState
  BY DEF CallState
<1> QED BY <1>2, <1>3, CallChanged

LEMMA SettlesCharges ==
    ASSUME BudgetInv, NEW c \in Calls, NEW charge \in Int, NEW where \in CallPlaces,
           Settles(c, charge, where), UNCHANGED <<sinkVars, activeTools>>
    PROVE  Charges
<1> DEFINE l == Bumped([ledger EXCEPT !.used = @ + charge, !.reserved = @ - call[c].reserved])
<1>1. PICK r \in Nat, u \in Int, v \in Int, n \in Nat, b \in BOOLEAN :
         ledger = [revision |-> r, used |-> u, reserved |-> v, toolCalls |-> n, stopped |-> b]
  BY DEF BudgetInv, Types, Snapshot
<1>2. /\ l = [revision |-> ledger.revision + 1, used |-> u + charge,
              reserved |-> v - call[c].reserved, toolCalls |-> n, stopped |-> ledger.stopped]
      /\ u + charge \in Int /\ v - call[c].reserved \in Int /\ n = ledger.toolCalls /\ n <= n
  <2>1. [ledger EXCEPT !.used = @ + charge, !.reserved = @ - call[c].reserved] =
           [revision |-> r, used |-> u + charge, reserved |-> v - call[c].reserved,
            toolCalls |-> n, stopped |-> b]
    <3>1. ledger.used = u /\ ledger.reserved = v
      BY <1>1
    <3>2. ASSUME NEW x, NEW y
          PROVE  [ledger EXCEPT !.used = x, !.reserved = y] =
                    [revision |-> r, used |-> x, reserved |-> y, toolCalls |-> n, stopped |-> b]
      <4> DEFINE t == [ledger EXCEPT !.used = x]
      <4>1. [ledger EXCEPT !.used = x, !.reserved = y] = [t EXCEPT !.reserved = y]
        OBVIOUS
      <4>2. t = [revision |-> r, used |-> x, reserved |-> v, toolCalls |-> n, stopped |-> b]
        BY <1>1
      <4>3. [t EXCEPT !.reserved = y] =
               [revision |-> r, used |-> x, reserved |-> y, toolCalls |-> n, stopped |-> b]
        <5> HIDE DEF t
        <5> QED BY <4>2
      <4> QED BY <4>1, <4>3, Zenon
    <3> QED BY <3>1, <3>2
  <2>2. l = [revision |-> r + 1, used |-> u + charge, reserved |-> v - call[c].reserved,
             toolCalls |-> n, stopped |-> b]
    BY <2>1, BumpedRecord
  <2>3. ledger.revision = r /\ ledger.toolCalls = n /\ ledger.stopped = b
    BY <1>1
  <2>4. call[c].reserved \in Int
    BY DEF BudgetInv, Types, CallTypes, CallState
  <2> QED BY <2>2, <2>3, <2>4
<1>3. /\ l \in Snapshot /\ l.revision = ledger.revision + 1 /\ Keeps(ledger, l)
      /\ l.stopped = ledger.stopped /\ l.toolCalls = ledger.toolCalls
  <2> HIDE DEF l
  <2> QED BY <1>1, <1>2, LedgerBumped
<1>4. Saves(l) /\ ledger' = l
  BY DEF Settles, Saves
<1>5. Advances
  <2> HIDE DEF l
  <2> QED BY <1>3, <1>4, SavingAdvances
<1>6. l.revision \in Nat
  BY <1>3 DEF Snapshot
<1>7. CallTypes'
  <2>1. call' = [call EXCEPT ![c].at = where, ![c].revision = l.revision, ![c].use = charge]
    BY DEF Settles
  <2> HIDE DEF l
  <2> QED BY <1>6, <2>1, CallMoved DEF BudgetInv, Types
<1> QED BY <1>3, <1>4, <1>5, <1>7 DEF Charges, Settles, Saves, toolVars, historyVars

LEMMA FailsCharges ==
    ASSUME BudgetInv, NEW c \in Calls, Fails(tool), call' = call \/ Ends(c),
           UNCHANGED <<sinkVars, turn, activeTools, ran>>
    PROVE  Charges
<1>1. CallTypes'
  BY CallEnded DEF BudgetInv, Types, CallTypes
<1> QED BY <1>1, FailingAdvances DEF Charges, Fails

LEMMA ReserveCharges ==
    ASSUME BudgetAssumption, BudgetInv, NEW c \in Calls, Reserve(c)
    PROVE  Charges
<1> DEFINE l == Bumped([ledger EXCEPT !.reserved = @ + Reservation(c)])
<1>1. CASE Fails(tool) /\ UNCHANGED turn /\ Ends(c)
  BY <1>1, FailsCharges DEF Reserve, historyVars
<1>2. CASE /\ Saves(l)
           /\ call' = [call EXCEPT ![c] = [at |-> "reserving", reserved |-> Reservation(c),
                                           revision |-> l.revision, use |-> 0]]
           /\ UNCHANGED toolVars
  <2>1. PICK r \in Nat, u \in Int, v \in Int, n \in Nat, b \in BOOLEAN :
           ledger = [revision |-> r, used |-> u, reserved |-> v, toolCalls |-> n, stopped |-> b]
    BY DEF BudgetInv, Types, Snapshot
  <2>2. Reservation(c) \in Int
    BY <2>1 DEF Reservation, Available, BudgetAssumption
  <2>3. /\ l = [revision |-> ledger.revision + 1, used |-> u, reserved |-> v + Reservation(c),
                toolCalls |-> n, stopped |-> ledger.stopped]
        /\ n = ledger.toolCalls /\ n <= n
    <3>1. [ledger EXCEPT !.reserved = @ + Reservation(c)] =
             [revision |-> r, used |-> u, reserved |-> v + Reservation(c), toolCalls |-> n,
              stopped |-> b]
      BY <2>1
    <3>2. l = [revision |-> r + 1, used |-> u, reserved |-> v + Reservation(c), toolCalls |-> n,
               stopped |-> b]
      BY <3>1, BumpedRecord
    <3>3. ledger.revision = r /\ ledger.toolCalls = n /\ ledger.stopped = b
      BY <2>1
    <3> QED BY <3>2, <3>3
  <2>4. /\ l \in Snapshot /\ l.revision = ledger.revision + 1 /\ Keeps(ledger, l)
        /\ l.stopped = ledger.stopped /\ l.toolCalls = ledger.toolCalls
    <3> HIDE DEF l
    <3> QED BY <2>1, <2>2, <2>3, LedgerBumped
  <2>5. Advances
    <3> HIDE DEF l
    <3> QED BY <1>2, <2>4, SavingAdvances
  <2>6. l.revision \in Nat
    BY <2>4 DEF Snapshot
  <2>7. CallTypes'
    <3>1. [at |-> "reserving", reserved |-> Reservation(c), revision |-> l.revision, use |-> 0]
             \in CallState
      BY <2>2, <2>6 DEF CallState, CallPlaces
    <3> HIDE DEF l
    <3> QED BY <1>2, <3>1, CallChanged DEF BudgetInv, Types
  <2>8. ledger' = l /\ UNCHANGED <<aborted, tool, toolWaiters, turn>>
    BY <1>2 DEF Saves, toolVars
  <2>9. UNCHANGED <<sinkVars, activeTools, ran>>
    BY DEF Reserve, historyVars
  <2> HIDE DEF l
  <2> QED BY <2>4, <2>5, <2>7, <2>8, <2>9 DEF Charges
<1> QED BY <1>1, <1>2 DEF Reserve

LEMMA ReservedCharges ==
    ASSUME BudgetInv, NEW c \in Calls, Reserved(c)
    PROVE  Charges
<1>1. CASE Dispatch(c)
  <2>1. UNCHANGED <<ledgerVars, toolVars, sinkVars, activeTools, ran>>
    BY <1>1 DEF Reserved, Dispatch
  <2>2. CallTypes'
    <3>1. call[c].reserved \in Int
      BY DEF BudgetInv, Types, CallTypes, CallState
    <3>2. PICK use \in Uses : call' = [call EXCEPT ![c].at = "flight", ![c].use = use]
      BY <1>1 DEF Dispatch
    <3>3. use \in Int
      BY BudgetAssumption
    <3>4. "flight" \in CallPlaces
      BY DEF CallPlaces
    <3> QED BY <3>2, <3>3, <3>4, CallMoved DEF BudgetInv, Types
  <2> QED BY <2>1, <2>2, Unmoved DEF Charges, ledgerVars, toolVars
<1>2. CASE Cancel(c)
  BY <1>2, SettlesCharges DEF Cancel, Reserved, CallPlaces
<1>3. CASE Refused(c)
  BY <1>3, FailsCharges DEF Refused, Reserved, historyVars
<1> QED BY <1>1, <1>2, <1>3 DEF Reserved

LEMMA CallStepCharges ==
    ASSUME BudgetAssumption, BudgetInv, NEW c \in Calls, CallStep(c)
    PROVE  Charges
<1>1. CASE Reserve(c)
  BY <1>1, ReserveCharges
<1>2. CASE Reserved(c)
  BY <1>2, ReservedCharges
<1>3. CASE Commit(c)
  <2>1. call[c].use \in Int
    BY DEF BudgetInv, Types, CallTypes, CallState
  <2> QED BY <1>3, <2>1, SettlesCharges DEF Commit, CallPlaces
<1>4. CASE Consume(c)
  <2>1. call[c].reserved \in Int
    BY DEF BudgetInv, Types, CallTypes, CallState
  <2> QED BY <1>4, <2>1, SettlesCharges DEF Consume, CallPlaces
<1>5. CASE Settled(c)
  <2>1. CASE Fails(tool) /\ UNCHANGED turn
    <3>1. Ends(c) /\ UNCHANGED <<sinkVars, turn, activeTools, ran>>
      BY <1>5, <2>1 DEF Settled, historyVars
    <3> QED BY <2>1, <3>1, FailsCharges
  <2>2. CASE UNCHANGED <<ledgerVars, toolVars>>
    <3>1. CallTypes'
      BY <1>5, CallEnded DEF Settled, BudgetInv, Types
    <3> QED BY <1>5, <2>2, <3>1, Unmoved
            DEF Charges, Settled, ledgerVars, toolVars, historyVars
  <2> QED BY <1>5, <2>1, <2>2 DEF Settled
<1> QED BY <1>1, <1>2, <1>3, <1>4, <1>5 DEF CallStep

----------------------------------------------------------------------------
(* The tools of the turn. *)

LEMMA PendingIsFinite ==
    ASSUME BudgetAssumption
    PROVE  /\ IsFiniteSet(Tools) /\ Cardinality(Tools) \in Nat
           /\ \A S \in SUBSET Tools :
                 IsFiniteSet(S) /\ Cardinality(S) \in Nat /\ Cardinality(S) <= Cardinality(Tools)
BY FS_Subset, FS_CardinalityType DEF BudgetAssumption

\* As long as no tool is counted or run, what is written of the turn is kept.
LEMMA CountsKept ==
    ASSUME BudgetAssumption, BudgetInv, Advances, ledger'.toolCalls = ledger.toolCalls,
           UNCHANGED <<durable, turn, ran>>
    PROVE  /\ ledger'.toolCalls <= MaxToolCalls
           /\ turn'.at = "counting" => turn'.revision <= ledger'.revision
           /\ CountsTurn(durable)' /\ CountsTurn(ledger)'
           /\ \A i \in DOMAIN queue' : CountsTurn(queue[i])'
<1>1. /\ ledger.revision \in Nat /\ ledger'.revision \in Nat /\ turn.revision \in Nat
      /\ ledger.revision <= ledger'.revision
  BY SnapshotFields DEF BudgetInv, Types, Advances
<1>2. CountsTurn(ledger)'
  BY <1>1 DEF BudgetInv, ToolsAreCounted, CountsTurn
<1>3. ASSUME NEW i \in DOMAIN queue' PROVE CountsTurn(queue[i])'
  <2>1. CASE queue' = queue
    BY <2>1 DEF BudgetInv, ToolsAreCounted, CountsTurn
  <2>2. CASE queue' = Append(queue, ledger')
    <3>1. /\ i \in 1..(Len(queue) + 1) /\ DOMAIN queue = 1..Len(queue) /\ Len(queue) \in Nat
          /\ queue'[Len(queue) + 1] = ledger' /\ \A k \in DOMAIN queue : queue'[k] = queue[k]
      BY <2>2 DEF BudgetInv, Types, Advances
    <3>2. CASE i \in DOMAIN queue
      BY <3>1, <3>2 DEF BudgetInv, ToolsAreCounted, CountsTurn
    <3>3. CASE i = Len(queue) + 1
      BY <1>2, <3>1, <3>3 DEF CountsTurn
    <3> QED BY <3>1, <3>2, <3>3
  <2> QED BY <2>1, <2>2 DEF Advances
<1> QED BY <1>1, <1>2, <1>3 DEF BudgetInv, ToolsAreCounted, CountsTurn

LEMMA TurnKept ==
    ASSUME BudgetAssumption, BudgetInv, Advances, ledger'.toolCalls = ledger.toolCalls,
           UNCHANGED <<durable, turn, ran>>, Pending' \subseteq Pending,
           turn.at # "counted" => tool' = tool
    PROVE  ToolsAreCounted'
<1>1. turn.at = "counted" => ran' + Cardinality(Pending') <= durable'.toolCalls
  <2>1. Cardinality(Pending') <= Cardinality(Pending) /\ Cardinality(Pending') \in Nat
        /\ Cardinality(Pending) \in Nat
    BY PendingIsFinite, FS_Subset DEF Pending
  <2>2. ran \in Nat /\ durable.toolCalls \in Nat
    BY SnapshotFields DEF BudgetInv, Types
  <2> QED BY <2>1, <2>2 DEF BudgetInv, ToolsAreCounted
<1> QED BY <1>1, CountsKept DEF BudgetInv, ToolsAreCounted

\* Refusing the waiters leaves the slots as they are.
LEMMA RefusedSlots ==
    ASSUME BudgetInv, NEW tools \in [Tools -> ToolPlaces],
           \A t \in Tools : tools[t] = "running" <=> tool[t] = "running",
           \A t \in Tools : tools[t] \in {"idle", "waiting"} => tool[t] \in {"idle", "waiting"},
           tool' = Refuse(tools), toolWaiters' = <<>>, UNCHANGED activeTools
    PROVE  /\ SlotsAreHandedOn' /\ tool' \in [Tools -> ToolPlaces] /\ toolWaiters' \in Seq(Tools)
           /\ Pending' \subseteq Pending
<1>1. tool' \in [Tools -> ToolPlaces]
  BY DEF Refuse, ToolPlaces
<1>2. \A t \in Tools : tool'[t] # "waiting" /\ (tool'[t] = "running" <=> tool[t] = "running")
  BY DEF Refuse
<1>3. Holding' = Holding
  BY <1>2 DEF Holding
<1>4. IsInjective(toolWaiters')
  BY DEF IsInjective
<1>5. ToSet(toolWaiters') = {t \in Tools : tool'[t] = "waiting"}
  BY <1>2 DEF ToSet
<1>6. Pending' \subseteq Pending
  BY DEF Pending, Refuse
<1> QED BY <1>1, <1>3, <1>4, <1>5, <1>6 DEF BudgetInv, SlotsAreHandedOn

LEMMA QueueTyped ==
    ASSUME NEW S, NEW s \in Seq(S), NEW e \in S
    PROVE  Append(s, e) \in Seq(S)
OBVIOUS

LEMMA TypesKept ==
    ASSUME BudgetInv, Advances, CallTypes', UNCHANGED sinkVars,
           turn' \in [at : {"idle", "counting", "counted", "over"}, revision : Nat],
           tool' \in [Tools -> ToolPlaces], toolWaiters' \in Seq(Tools),
           activeTools' \in Nat, ran' \in Nat
    PROVE  Types'
<1>1. queue' \in Seq(Snapshot)
  <2>1. queue \in Seq(Snapshot) /\ ledger' \in Snapshot
    BY DEF BudgetInv, Types, Advances
  <2>2. Append(queue, ledger') \in Seq(Snapshot)
    BY <2>1, QueueTyped
  <2> QED BY <2>1, <2>2 DEF Advances
<1> QED BY <1>1 DEF BudgetInv, Types, Advances, sinkVars

LEMMA ChargesKeepsInv ==
    ASSUME BudgetAssumption, BudgetInv, Charges
    PROVE  BudgetInv'
<1>1. SnapshotsAreOrdered'
  BY OrderKept DEF Charges, sinkVars
<1>2. CASE UNCHANGED <<aborted, tool, toolWaiters>>
  <2>1. Pending' \subseteq Pending /\ tool' = tool
    BY <1>2 DEF Pending
  <2>2. ToolsAreCounted'
    BY <2>1, TurnKept DEF Charges, sinkVars
  <2>3. SlotsAreHandedOn'
    BY <1>2 DEF BudgetInv, SlotsAreHandedOn, Holding, Charges
  <2>4. Types'
    BY <1>2, TypesKept DEF BudgetInv, Types, Charges
  <2> QED BY <1>1, <2>2, <2>3, <2>4 DEF BudgetInv
<1>3. CASE tool' = Refuse(tool) /\ toolWaiters' = <<>>
  <2>1. /\ SlotsAreHandedOn' /\ tool' \in [Tools -> ToolPlaces] /\ toolWaiters' \in Seq(Tools)
        /\ Pending' \subseteq Pending
    BY <1>3, RefusedSlots DEF BudgetInv, Types, Charges
  <2>2. turn.at # "counted" => tool' = tool
    BY <1>3 DEF BudgetInv, ToolsAreCounted, Refuse
  <2>3. ToolsAreCounted'
    BY <2>1, <2>2, TurnKept DEF Charges, sinkVars
  <2>4. Types'
    BY <2>1, TypesKept DEF BudgetInv, Types, Charges
  <2> QED BY <1>1, <2>1, <2>3, <2>4 DEF BudgetInv
<1> QED BY <1>2, <1>3 DEF Charges

LEMMA WallClockKeepsInv ==
    ASSUME BudgetAssumption, BudgetInv, WallClock
    PROVE  BudgetInv'
<1>1. CallTypes'
  BY DEF WallClock, BudgetInv, Types, CallTypes
<1>2. Charges
  BY <1>1, FailingAdvances DEF Charges, WallClock, Fails, historyVars
<1> QED BY <1>2, ChargesKeepsInv

----------------------------------------------------------------------------
(* The steps of the tool calls. *)

LEMMA CountKeepsInv ==
    ASSUME BudgetAssumption, BudgetInv, Count
    PROVE  BudgetInv'
<1> DEFINE l == Bumped([ledger EXCEPT !.toolCalls = @ + Cardinality(Tools)])
<1>1. tool = [t \in Tools |-> "idle"] /\ ran <= durable.toolCalls /\ turn.at = "idle"
  BY DEF Count, BudgetInv, ToolsAreCounted
<1>2. UNCHANGED <<sinkVars, activeTools, ran, durable, resolved>> /\ CallTypes'
  BY DEF Count, BudgetInv, Types, CallTypes, historyVars, sinkVars
<1>3. CASE Fails(tool) /\ turn' = [turn EXCEPT !.at = "over"]
  <2>1. Advances /\ ledger'.toolCalls = ledger.toolCalls
    BY <1>3, FailingAdvances
  <2>2. /\ SlotsAreHandedOn' /\ tool' \in [Tools -> ToolPlaces] /\ toolWaiters' \in Seq(Tools)
    BY <1>2, <1>3, RefusedSlots DEF BudgetInv, Types, Fails
  <2>3. tool' = tool
    BY <1>1, <1>3 DEF Fails, Refuse
  <2>4. turn'.at = "over" /\ turn' \in [at : {"idle", "counting", "counted", "over"}, revision : Nat]
    BY <1>3 DEF BudgetInv, Types
  <2>5. ToolsAreCounted'
    BY <1>1, <1>2, <2>1, <2>3, <2>4 DEF BudgetInv, ToolsAreCounted, CountsTurn
  <2>6. Types'
    BY <1>2, <2>1, <2>2, <2>4, TypesKept DEF BudgetInv, Types
  <2> QED BY <1>2, <2>1, <2>2, <2>5, <2>6, OrderKept DEF BudgetInv
<1>4. CASE /\ ledger.toolCalls + Cardinality(Tools) <= MaxToolCalls
           /\ Saves(l) /\ turn' = [at |-> "counting", revision |-> l.revision]
           /\ UNCHANGED <<tool, toolWaiters>>
  <2>1. PICK r \in Nat, u \in Int, v \in Int, n \in Nat, b \in BOOLEAN :
           ledger = [revision |-> r, used |-> u, reserved |-> v, toolCalls |-> n, stopped |-> b]
    BY DEF BudgetInv, Types, Snapshot
  <2>2. Cardinality(Tools) \in Nat
    BY PendingIsFinite
  <2>3. /\ ledger.revision = r /\ ledger.toolCalls = n /\ ledger.stopped = b
    BY <2>1
  <2>4. l = [revision |-> ledger.revision + 1, used |-> u, reserved |-> v,
             toolCalls |-> ledger.toolCalls + Cardinality(Tools), stopped |-> ledger.stopped]
    <3>1. [ledger EXCEPT !.toolCalls = @ + Cardinality(Tools)] =
             [revision |-> r, used |-> u, reserved |-> v,
              toolCalls |-> n + Cardinality(Tools), stopped |-> b]
      BY <2>1
    <3> QED BY <2>3, <3>1, BumpedRecord
  <2>5. /\ l \in Snapshot /\ l.revision = ledger.revision + 1 /\ Keeps(ledger, l)
        /\ l.stopped = ledger.stopped /\ l.toolCalls = ledger.toolCalls + Cardinality(Tools)
    <3>1. n + Cardinality(Tools) \in Nat /\ n <= n + Cardinality(Tools)
      BY <2>2
    <3> HIDE DEF l
    <3> QED BY <2>3, <2>4, <3>1, LedgerBumped
  <2> HIDE DEF l
  <2>6. Advances /\ ledger' = l
    BY <1>4, <2>5, SavingAdvances DEF Saves
  <2>7. l.revision \in Nat /\ ledger.revision \in Nat /\ ledger.toolCalls \in Nat
        /\ durable.toolCalls \in Nat /\ durable.revision \in Nat
    BY <2>5, SnapshotFields DEF BudgetInv, Types
  <2>8. /\ turn'.at = "counting" /\ turn'.revision = l.revision
        /\ turn' \in [at : {"idle", "counting", "counted", "over"}, revision : Nat]
    BY <1>4, <2>7
  <2>9. SnapshotsAreOrdered'
    BY <1>2, <2>6, OrderKept
  <2>10. CountsTurn(ledger)'
    <3>1. durable.toolCalls <= ledger.toolCalls
      BY DEF BudgetInv, SnapshotsAreOrdered, Keeps
    <3> QED BY <1>1, <1>2, <2>2, <2>5, <2>6, <2>7, <3>1 DEF CountsTurn, BudgetInv, Types
  <2>11. CountsTurn(durable)'
    <3>1. durable.revision <= ledger.revision
      BY DEF BudgetInv, SnapshotsAreOrdered
    <3> QED BY <1>2, <2>5, <2>7, <2>8, <3>1 DEF CountsTurn
  <2>12. ASSUME NEW i \in DOMAIN queue' PROVE CountsTurn(queue[i])'
    <3>1. CASE i \in DOMAIN queue /\ queue'[i] = queue[i]
      <4>1. queue[i].revision <= ledger.revision /\ queue[i] \in Snapshot
        BY <3>1 DEF BudgetInv, SnapshotsAreOrdered, Types
      <4>2. queue[i].revision \in Nat
        BY <4>1, SnapshotFields
      <4> QED BY <2>5, <2>7, <2>8, <3>1, <4>1, <4>2 DEF CountsTurn
    <3>2. CASE queue'[i] = ledger'
      BY <2>10, <3>2 DEF CountsTurn
    <3>3. queue' = queue \/ queue' = Append(queue, ledger')
      BY <2>6 DEF Advances
    <3>4. queue \in Seq(Snapshot)
      BY DEF BudgetInv, Types
    <3> QED BY <3>1, <3>2, <3>3, <3>4
  <2>13. ToolsAreCounted'
    BY <1>1, <1>2, <1>4, <2>5, <2>6, <2>7, <2>8, <2>10, <2>11, <2>12 DEF ToolsAreCounted
  <2>14. SlotsAreHandedOn'
    <3>1. UNCHANGED <<tool, toolWaiters, activeTools, aborted>>
      BY <1>2, <1>4 DEF Saves
    <3> QED BY <3>1 DEF BudgetInv, SlotsAreHandedOn, Holding
  <2>15. Types'
    BY <1>2, <1>4, <2>6, <2>8, TypesKept DEF BudgetInv, Types
  <2> QED BY <2>9, <2>13, <2>14, <2>15 DEF BudgetInv
<1> QED BY <1>3, <1>4 DEF Count

LEMMA CountedKeepsInv ==
    ASSUME BudgetAssumption, BudgetInv, Counted
    PROVE  BudgetInv'
<1>1. /\ tool = [t \in Tools |-> "idle"] /\ ran <= durable.toolCalls /\ turn.at = "counting"
      /\ turn.revision \in Nat
  BY DEF Counted, BudgetInv, ToolsAreCounted, Types
<1>2. UNCHANGED <<sinkVars, activeTools, ran, durable, resolved>> /\ CallTypes'
  BY DEF Counted, BudgetInv, Types, CallTypes, historyVars, sinkVars
<1>3. CASE Fails(tool) /\ turn' = [IdleTurn EXCEPT !.at = "over"]
  <2>1. Advances /\ ledger'.toolCalls = ledger.toolCalls
    BY <1>3, FailingAdvances
  <2>2. /\ SlotsAreHandedOn' /\ tool' \in [Tools -> ToolPlaces] /\ toolWaiters' \in Seq(Tools)
    BY <1>2, <1>3, RefusedSlots DEF BudgetInv, Types, Fails
  <2>3. tool' = tool
    BY <1>1, <1>3 DEF Fails, Refuse
  <2>4. turn'.at = "over" /\ turn' \in [at : {"idle", "counting", "counted", "over"}, revision : Nat]
    BY <1>3 DEF IdleTurn
  <2>5. ToolsAreCounted'
    BY <1>1, <1>2, <2>1, <2>3, <2>4 DEF BudgetInv, ToolsAreCounted, CountsTurn
  <2>6. Types'
    BY <1>2, <2>1, <2>2, <2>4, TypesKept DEF BudgetInv, Types
  <2> QED BY <1>2, <2>1, <2>2, <2>5, <2>6, OrderKept DEF BudgetInv
<1>4. CASE /\ Written(turn.revision) /\ turn' = [IdleTurn EXCEPT !.at = "counted"]
           /\ UNCHANGED <<ledgerVars, tool, toolWaiters>>
  <2>1. Advances /\ ledger'.toolCalls = ledger.toolCalls
    BY <1>4, Unmoved DEF ledgerVars
  <2>2. turn'.at = "counted" /\ turn' \in [at : {"idle", "counting", "counted", "over"}, revision : Nat]
    BY <1>4 DEF IdleTurn
  <2>3. ran + Cardinality(Tools) <= durable.toolCalls
    <3>1. turn.revision <= durable.revision
      <4>1. resolved \in Nat /\ durable.revision \in Nat
        BY SnapshotFields DEF BudgetInv, Types
      <4> QED BY <1>1, <1>4, <4>1 DEF Written, BudgetInv, SnapshotsAreOrdered
    <3> QED BY <1>1, <3>1 DEF BudgetInv, ToolsAreCounted, CountsTurn
  <2>4. Pending = Tools
    BY <1>1 DEF Pending
  <2>5. ToolsAreCounted'
    <3>1. Pending' = Tools
      BY <1>4, <2>4 DEF Pending
    <3> QED BY <1>2, <2>1, <2>2, <2>3, <3>1 DEF BudgetInv, ToolsAreCounted, CountsTurn
  <2>6. SlotsAreHandedOn'
    <3>1. UNCHANGED <<tool, toolWaiters, activeTools, aborted>>
      BY <1>2, <1>4 DEF ledgerVars
    <3> QED BY <3>1 DEF BudgetInv, SlotsAreHandedOn, Holding
  <2>7. Types'
    BY <1>2, <1>4, <2>1, <2>2, TypesKept DEF BudgetInv, Types
  <2> QED BY <1>2, <2>1, <2>5, <2>6, <2>7, OrderKept DEF BudgetInv
<1> QED BY <1>3, <1>4 DEF Counted

LEMMA HeldSlots ==
    ASSUME BudgetAssumption, BudgetInv
    PROVE  /\ IsFiniteSet(Holding) /\ Holding \subseteq Tools
           /\ \A t \in Tools : tool[t] = "running" => activeTools >= 1
<1>1. IsFiniteSet(Holding) /\ Holding \subseteq Tools /\ Cardinality(Holding) \in Nat
  BY PendingIsFinite DEF Holding
<1>2. ASSUME NEW t \in Tools, tool[t] = "running" PROVE activeTools >= 1
  <2>1. t \in Holding
    BY <1>2 DEF Holding
  <2>2. Cardinality(Holding) # 0
    BY <1>1, <2>1, FS_EmptySet
  <2> QED BY <1>1, <2>2 DEF BudgetInv, SlotsAreHandedOn
<1> QED BY <1>1, <1>2

\* One pending tool begins or gives up.
LEMMA OnePendingLess ==
    ASSUME BudgetAssumption, BudgetInv, NEW t \in Pending, Pending' = Pending \ {t}
    PROVE  /\ Cardinality(Pending') + 1 = Cardinality(Pending)
           /\ Cardinality(Pending') \in Nat
<1>1. IsFiniteSet(Pending) /\ Cardinality(Pending) \in Nat
  BY PendingIsFinite DEF Pending
<1>2. IsFiniteSet(Pending') /\ Cardinality(Pending') = Cardinality(Pending) - 1
  BY <1>1, FS_RemoveElement
<1>3. Cardinality(Pending') \in Nat
  BY <1>2, FS_CardinalityType
<1> QED BY <1>1, <1>2, <1>3

\* A tool that was counted and waited gets a slot.
LEMMA RunKept ==
    ASSUME BudgetAssumption, BudgetInv, UNCHANGED <<ledgerVars, durable, turn>>, ran' = ran + 1,
           turn.at = "counted", NEW t \in Pending, Pending' = Pending \ {t}
    PROVE  ToolsAreCounted'
<1>1. ran \in Nat /\ durable.toolCalls \in Nat
  BY SnapshotFields DEF BudgetInv, Types
<1>2. ran' + Cardinality(Pending') <= durable'.toolCalls
  <2>1. ran + Cardinality(Pending) <= durable.toolCalls
    BY DEF BudgetInv, ToolsAreCounted
  <2>2. Cardinality(Pending') + 1 = Cardinality(Pending) /\ Cardinality(Pending') \in Nat
    BY OnePendingLess
  <2> QED BY <1>1, <2>1, <2>2
<1> QED BY <1>1, <1>2 DEF BudgetInv, ToolsAreCounted, CountsTurn, ledgerVars

LEMMA AcquireKeepsInv ==
    ASSUME BudgetAssumption, BudgetInv, NEW t \in Tools, Acquire(t)
    PROVE  BudgetInv'
<1>1. /\ UNCHANGED <<sinkVars, durable, resolved, turn>> /\ CallTypes'
      /\ tool[t] = "idle" /\ turn.at = "counted" /\ t \in Pending
  BY DEF Acquire, BudgetInv, Types, CallTypes, sinkVars, Pending
<1>2. /\ tool \in [Tools -> ToolPlaces] /\ toolWaiters \in Seq(Tools) /\ activeTools \in Nat
      /\ ran \in Nat /\ turn \in [at : {"idle", "counting", "counted", "over"}, revision : Nat]
  BY DEF BudgetInv, Types
<1>3. CASE Fails([tool EXCEPT ![t] = "over"]) /\ UNCHANGED <<activeTools, ran>>
  <2> DEFINE tools == [tool EXCEPT ![t] = "over"]
  <2>1. Advances /\ ledger'.toolCalls = ledger.toolCalls
    BY <1>3, FailingAdvances
  <2>2. /\ tools \in [Tools -> ToolPlaces]
        /\ \A u \in Tools : tools[u] = "running" <=> tool[u] = "running"
        /\ \A u \in Tools : tools[u] \in {"idle", "waiting"} => tool[u] \in {"idle", "waiting"}
    BY <1>1, <1>2 DEF ToolPlaces
  <2>3. tool' = Refuse(tools) /\ toolWaiters' = <<>>
    BY <1>3 DEF Fails
  <2> HIDE DEF tools
  <2>4. /\ SlotsAreHandedOn' /\ tool' \in [Tools -> ToolPlaces] /\ toolWaiters' \in Seq(Tools)
        /\ Pending' \subseteq Pending
    BY <1>3, <2>2, <2>3, RefusedSlots
  <2>5. ToolsAreCounted'
    BY <1>1, <1>3, <2>1, <2>4, TurnKept
  <2>6. Types'
    BY <1>1, <1>2, <1>3, <2>1, <2>4, TypesKept
  <2> QED BY <1>1, <2>1, <2>4, <2>5, <2>6, OrderKept DEF BudgetInv
<1>4. CASE /\ activeTools < MaxTools /\ activeTools' = activeTools + 1
           /\ tool' = [tool EXCEPT ![t] = "running"] /\ ran' = ran + 1
           /\ UNCHANGED <<ledgerVars, toolWaiters>>
  <2>1. Advances
    BY <1>4, Unmoved
  <2>2. Pending' = Pending \ {t}
    BY <1>1, <1>2, <1>4 DEF Pending
  <2>3. ToolsAreCounted'
    BY <1>1, <1>4, <2>2, RunKept
  <2>4. SlotsAreHandedOn'
    <3>1. Holding' = Holding \cup {t} /\ t \notin Holding
      BY <1>1, <1>2, <1>4 DEF Holding
    <3>2. activeTools' = Cardinality(Holding')
      BY <1>4, <3>1, HeldSlots, FS_AddElement DEF BudgetInv, SlotsAreHandedOn
    <3>3. activeTools' <= MaxTools /\ toolWaiters = <<>>
      BY <1>2, <1>4 DEF BudgetInv, SlotsAreHandedOn, BudgetAssumption
    <3>4. {u \in Tools : tool'[u] = "waiting"} = {u \in Tools : tool[u] = "waiting"}
      BY <1>1, <1>2, <1>4
    <3> QED BY <1>4, <3>2, <3>3, <3>4 DEF BudgetInv, SlotsAreHandedOn
  <2>5. Types'
    <3>1. tool' \in [Tools -> ToolPlaces]
      BY <1>2, <1>4 DEF ToolPlaces
    <3> QED BY <1>1, <1>2, <1>4, <2>1, <3>1, TypesKept
  <2> QED BY <1>1, <2>1, <2>3, <2>4, <2>5, OrderKept DEF BudgetInv
<1>5. CASE /\ ~aborted /\ activeTools >= MaxTools
           /\ toolWaiters' = Append(toolWaiters, t)
           /\ tool' = [tool EXCEPT ![t] = "waiting"]
           /\ UNCHANGED <<ledgerVars, activeTools, ran>>
  <2>1. Advances /\ ledger'.toolCalls = ledger.toolCalls /\ aborted' = aborted
    BY <1>5, Unmoved DEF ledgerVars
  <2>2. Pending' = Pending
    BY <1>1, <1>2, <1>5 DEF Pending
  <2>3. ToolsAreCounted'
    BY <1>1, <1>5, <2>1, <2>2, TurnKept
  <2>4. SlotsAreHandedOn'
    <3>1. Holding' = Holding
      BY <1>1, <1>2, <1>5 DEF Holding
    <3>2. activeTools' = MaxTools
      BY <1>2, <1>5 DEF BudgetInv, SlotsAreHandedOn, BudgetAssumption
    <3>3. /\ DOMAIN toolWaiters' = 1..(Len(toolWaiters) + 1) /\ Len(toolWaiters) \in Nat
          /\ DOMAIN toolWaiters = 1..Len(toolWaiters)
          /\ toolWaiters'[Len(toolWaiters) + 1] = t
          /\ \A i \in DOMAIN toolWaiters : toolWaiters'[i] = toolWaiters[i]
      BY <1>2, <1>5
    <3>4. \A i \in DOMAIN toolWaiters : toolWaiters[i] # t
      BY <1>1 DEF BudgetInv, SlotsAreHandedOn, ToSet
    <3>5. IsInjective(toolWaiters')
      BY <3>3, <3>4 DEF BudgetInv, SlotsAreHandedOn, IsInjective
    <3>6. ToSet(toolWaiters') = ToSet(toolWaiters) \cup {t}
      BY <3>3 DEF ToSet
    <3>7. {u \in Tools : tool'[u] = "waiting"} = {u \in Tools : tool[u] = "waiting"} \cup {t}
      BY <1>1, <1>2, <1>5
    <3> QED BY <1>5, <2>1, <3>1, <3>2, <3>5, <3>6, <3>7 DEF BudgetInv, SlotsAreHandedOn
  <2>5. Types'
    <3>1. tool' \in [Tools -> ToolPlaces]
      BY <1>2, <1>5 DEF ToolPlaces
    <3>2. toolWaiters' \in Seq(Tools)
      BY <1>2, <1>5, QueueTyped
    <3> QED BY <1>1, <1>2, <1>5, <2>1, <3>1, <3>2, TypesKept
  <2> QED BY <1>1, <2>1, <2>3, <2>4, <2>5, OrderKept DEF BudgetInv
<1> QED BY <1>3, <1>4, <1>5 DEF Acquire

LEMMA RemovedAt ==
    ASSUME NEW S, NEW s \in Seq(S), NEW i \in DOMAIN s
    PROVE  /\ RemoveAt(s, i) \in Seq(S) /\ Len(RemoveAt(s, i)) = Len(s) - 1
           /\ \A j \in 1..(Len(s) - 1) : RemoveAt(s, i)[j] = IF j < i THEN s[j] ELSE s[j + 1]
<1> DEFINE a == SubSeq(s, 1, i - 1)
           b == SubSeq(s, i + 1, Len(s))
<1>1. i \in 1..Len(s) /\ Len(s) \in Nat
  OBVIOUS
<1>2. a \in Seq(S) /\ Len(a) = i - 1 /\ \A k \in 1..(i - 1) : a[k] = s[k]
  BY <1>1
<1>3. b \in Seq(S) /\ Len(b) = Len(s) - i /\ \A k \in 1..(Len(s) - i) : b[k] = s[i + k]
  BY <1>1
<1>4. RemoveAt(s, i) = a \o b
  BY DEF RemoveAt
<1> HIDE DEF a, b
<1>5. a \o b \in Seq(S) /\ Len(a \o b) = Len(s) - 1
  BY <1>1, <1>2, <1>3
<1>6. ASSUME NEW j \in 1..(Len(s) - 1)
      PROVE  (a \o b)[j] = IF j < i THEN s[j] ELSE s[j + 1]
  <2>1. CASE j < i
    BY <1>1, <1>2, <1>3, <2>1
  <2>2. CASE ~(j < i)
    <3>1. j - (i - 1) \in 1..(Len(s) - i) /\ i + (j - (i - 1)) = j + 1
      BY <1>1, <2>2
    <3>2. (a \o b)[j] = b[j - (i - 1)]
      <4>1. j \in 1..(Len(a) + Len(b)) /\ j > Len(a) /\ Len(a) = i - 1
        BY <1>1, <1>2, <1>3, <2>2
      <4>2. \A k \in 1..(Len(a) + Len(b)) :
               (a \o b)[k] = IF k <= Len(a) THEN a[k] ELSE b[k - Len(a)]
        BY <1>2, <1>3, ConcatProperties, Zenon
      <4>3. ~(j <= Len(a))
        BY <1>1, <4>1
      <4> QED BY <4>1, <4>2, <4>3
    <3> QED BY <1>3, <2>2, <3>1, <3>2
  <2> QED BY <2>1, <2>2
<1> QED BY <1>4, <1>5, <1>6

LEMMA GiveUpKeepsInv ==
    ASSUME BudgetAssumption, BudgetInv, NEW t \in Tools, GiveUp(t)
    PROVE  BudgetInv'
<1>1. PICK i \in DOMAIN toolWaiters :
         toolWaiters[i] = t /\ toolWaiters' = RemoveAt(toolWaiters, i)
  BY DEF GiveUp
<1>2. /\ UNCHANGED <<sinkVars, durable, resolved, turn, ledgerVars, activeTools, ran>>
      /\ CallTypes' /\ tool' = [tool EXCEPT ![t] = "over"]
  BY DEF GiveUp, BudgetInv, Types, CallTypes, sinkVars, historyVars
<1>3. /\ tool \in [Tools -> ToolPlaces] /\ toolWaiters \in Seq(Tools) /\ activeTools \in Nat
      /\ ran \in Nat /\ turn \in [at : {"idle", "counting", "counted", "over"}, revision : Nat]
  BY DEF BudgetInv, Types
<1>4. tool[t] = "waiting" /\ aborted' = aborted
  BY <1>1, <1>2 DEF BudgetInv, SlotsAreHandedOn, ToSet, ledgerVars
<1>5. Advances /\ ledger'.toolCalls = ledger.toolCalls
  BY <1>2, Unmoved DEF ledgerVars
<1>6. ToolsAreCounted'
  <2>1. Pending' \subseteq Pending
    BY <1>2, <1>3 DEF Pending
  <2>2. turn.at = "counted"
    BY <1>4 DEF BudgetInv, ToolsAreCounted
  <2> QED BY <1>2, <1>5, <2>1, <2>2, TurnKept
<1>7. /\ toolWaiters' \in Seq(Tools) /\ Len(toolWaiters') = Len(toolWaiters) - 1
      /\ \A j \in 1..(Len(toolWaiters) - 1) :
            toolWaiters'[j] = IF j < i THEN toolWaiters[j] ELSE toolWaiters[j + 1]
  BY <1>1, <1>3, RemovedAt
<1>8. SlotsAreHandedOn'
  <2>1. Holding' = Holding
    BY <1>2, <1>3, <1>4 DEF Holding
  <2>2. /\ DOMAIN toolWaiters = 1..Len(toolWaiters) /\ Len(toolWaiters) \in Nat
        /\ DOMAIN toolWaiters' = 1..(Len(toolWaiters) - 1) /\ i \in 1..Len(toolWaiters)
    BY <1>3, <1>7
  <2>3. \A j, k \in DOMAIN toolWaiters : toolWaiters[j] = toolWaiters[k] => j = k
    BY DEF BudgetInv, SlotsAreHandedOn, IsInjective
  <2>4. IsInjective(toolWaiters')
    <3> DEFINE was(j) == IF j < i THEN j ELSE j + 1
    <3>1. ASSUME NEW j \in DOMAIN toolWaiters'
          PROVE  was(j) \in DOMAIN toolWaiters /\ toolWaiters'[j] = toolWaiters[was(j)]
      BY <1>7, <2>2
    <3>2. ASSUME NEW j \in DOMAIN toolWaiters', NEW k \in DOMAIN toolWaiters', was(j) = was(k)
          PROVE  j = k
      BY <2>2, <3>2
    <3> HIDE DEF was
    <3> QED BY <2>3, <3>1, <3>2 DEF IsInjective
  <2>5. ToSet(toolWaiters') = ToSet(toolWaiters) \ {t}
    <3>1. ASSUME NEW j \in DOMAIN toolWaiters' PROVE toolWaiters'[j] \in ToSet(toolWaiters) \ {t}
      BY <1>1, <1>7, <2>2, <2>3 DEF ToSet
    <3>2. ASSUME NEW k \in DOMAIN toolWaiters, toolWaiters[k] # t
          PROVE  \E j \in DOMAIN toolWaiters' : toolWaiters'[j] = toolWaiters[k]
      <4>1. CASE k < i
        BY <1>7, <2>2, <4>1
      <4>2. CASE k > i
        <5>1. k - 1 \in DOMAIN toolWaiters' /\ ~(k - 1 < i) /\ (k - 1) + 1 = k
          BY <2>2, <4>2
        <5> QED BY <1>7, <2>2, <5>1
      <4>3. k # i
        BY <1>1, <3>2
      <4> QED BY <2>2, <4>1, <4>2, <4>3
    <3> QED BY <3>1, <3>2 DEF ToSet
  <2>6. {u \in Tools : tool'[u] = "waiting"} = {u \in Tools : tool[u] = "waiting"} \ {t}
    BY <1>2, <1>3
  <2>7. toolWaiters # <<>>
    BY <2>2
  <2> QED BY <1>2, <1>4, <2>1, <2>4, <2>5, <2>6, <2>7 DEF BudgetInv, SlotsAreHandedOn
<1>9. Types'
  <2>1. tool' \in [Tools -> ToolPlaces]
    BY <1>2, <1>3 DEF ToolPlaces
  <2> QED BY <1>2, <1>3, <1>5, <1>7, <2>1, TypesKept
<1> QED BY <1>2, <1>5, <1>6, <1>8, <1>9, OrderKept DEF BudgetInv

LEMMA ReleaseKeepsInv ==
    ASSUME BudgetAssumption, BudgetInv, NEW t \in Tools, Release(t)
    PROVE  BudgetInv'
<1>1. /\ UNCHANGED <<sinkVars, durable, resolved, turn, ledgerVars>>
      /\ CallTypes' /\ tool[t] = "running" /\ aborted' = aborted
  BY DEF Release, BudgetInv, Types, CallTypes, sinkVars, ledgerVars
<1>2. /\ tool \in [Tools -> ToolPlaces] /\ toolWaiters \in Seq(Tools) /\ activeTools \in Nat
      /\ ran \in Nat /\ turn \in [at : {"idle", "counting", "counted", "over"}, revision : Nat]
  BY DEF BudgetInv, Types
<1>3. Advances /\ ledger'.toolCalls = ledger.toolCalls
  BY <1>1, Unmoved DEF ledgerVars
<1>4. turn.at = "counted"
  BY <1>1 DEF BudgetInv, ToolsAreCounted
<1>5. CASE /\ toolWaiters # <<>>
           /\ tool' = [tool EXCEPT ![t] = "over", ![Head(toolWaiters)] = "running"]
           /\ ran' = ran + 1 /\ toolWaiters' = Tail(toolWaiters)
           /\ UNCHANGED activeTools
  <2> DEFINE h == Head(toolWaiters)
  <2>1. /\ DOMAIN toolWaiters = 1..Len(toolWaiters) /\ Len(toolWaiters) \in Nat
        /\ Len(toolWaiters) >= 1 /\ h = toolWaiters[1] /\ h \in Tools
        /\ toolWaiters' \in Seq(Tools) /\ DOMAIN toolWaiters' = 1..(Len(toolWaiters) - 1)
        /\ \A j \in 1..(Len(toolWaiters) - 1) : toolWaiters'[j] = toolWaiters[j + 1]
    BY <1>2, <1>5
  <2>2. tool[h] = "waiting"
    BY <2>1 DEF BudgetInv, SlotsAreHandedOn, ToSet
  <2>3. \A u \in Tools : tool'[u] = IF u = h THEN "running" ELSE IF u = t THEN "over" ELSE tool[u]
    BY <1>2, <1>5, <2>1
  <2> HIDE DEF h
  <2>4. h # t
    BY <1>1, <2>2
  <2>5. Pending' = Pending \ {h} /\ h \in Pending
    BY <1>1, <2>1, <2>2, <2>3 DEF Pending
  <2>6. ToolsAreCounted'
    BY <1>1, <1>4, <1>5, <2>5, RunKept
  <2>7. activeTools' = Cardinality(Holding')
    <3>1. Holding' = (Holding \ {t}) \cup {h} /\ t \in Holding /\ h \notin Holding
      BY <1>1, <2>1, <2>2, <2>3, <2>4 DEF Holding
    <3>2. IsFiniteSet(Holding \ {t}) /\ Cardinality(Holding \ {t}) = activeTools - 1
      BY <3>1, HeldSlots, FS_RemoveElement DEF BudgetInv, SlotsAreHandedOn
    <3>3. Cardinality((Holding \ {t}) \cup {h}) = (activeTools - 1) + 1
      BY <3>1, <3>2, FS_AddElement
    <3> QED BY <1>2, <1>5, <3>1, <3>3
  <2>8. \A j, k \in DOMAIN toolWaiters : toolWaiters[j] = toolWaiters[k] => j = k
    BY DEF BudgetInv, SlotsAreHandedOn, IsInjective
  <2>9. IsInjective(toolWaiters')
    <3>1. ASSUME NEW j \in DOMAIN toolWaiters', NEW k \in DOMAIN toolWaiters',
                 toolWaiters'[j] = toolWaiters'[k]
          PROVE  j = k
      <4>1. j + 1 \in DOMAIN toolWaiters /\ k + 1 \in DOMAIN toolWaiters
        BY <2>1
      <4>2. j + 1 = k + 1
        BY <2>1, <2>8, <3>1, <4>1
      <4> QED BY <2>1, <4>2
    <3> QED BY <3>1 DEF IsInjective
  <2>10. ToSet(toolWaiters') = ToSet(toolWaiters) \ {h}
    <3>1. ASSUME NEW j \in DOMAIN toolWaiters' PROVE toolWaiters'[j] \in ToSet(toolWaiters) \ {h}
      <4>1. j + 1 \in DOMAIN toolWaiters /\ 1 \in DOMAIN toolWaiters /\ j + 1 # 1
        BY <2>1
      <4>2. toolWaiters'[j] = toolWaiters[j + 1]
        BY <2>1
      <4> QED BY <2>1, <2>8, <4>1, <4>2 DEF ToSet
    <3>2. ASSUME NEW k \in DOMAIN toolWaiters, toolWaiters[k] # h
          PROVE  \E j \in DOMAIN toolWaiters' : toolWaiters'[j] = toolWaiters[k]
      <4>1. k - 1 \in DOMAIN toolWaiters' /\ (k - 1) + 1 = k
        BY <2>1, <3>2
      <4> QED BY <2>1, <4>1
    <3> QED BY <3>1, <3>2 DEF ToSet
  <2>11. {u \in Tools : tool'[u] = "waiting"} = {u \in Tools : tool[u] = "waiting"} \ {h}
    BY <1>1, <2>1, <2>3, <2>4
  <2>12. SlotsAreHandedOn'
    BY <1>1, <1>5, <2>7, <2>9, <2>10, <2>11 DEF BudgetInv, SlotsAreHandedOn
  <2>13. Types'
    <3>1. tool' \in [Tools -> ToolPlaces]
      BY <1>2, <1>5, <2>1 DEF ToolPlaces
    <3> QED BY <1>1, <1>2, <1>3, <1>5, <2>1, <3>1, TypesKept
  <2> QED BY <1>1, <1>3, <2>6, <2>12, <2>13, OrderKept DEF BudgetInv
<1>6. CASE /\ toolWaiters = <<>> \/ aborted
           /\ tool' = [tool EXCEPT ![t] = "over"] /\ activeTools' = activeTools - 1
           /\ UNCHANGED <<toolWaiters, ran>>
  <2>1. Pending' = Pending
    BY <1>1, <1>2, <1>6 DEF Pending
  <2>2. ToolsAreCounted'
    BY <1>1, <1>3, <1>4, <1>6, <2>1, TurnKept
  <2>3. toolWaiters = <<>>
    BY <1>6 DEF BudgetInv, SlotsAreHandedOn
  <2>4. activeTools' \in Nat /\ activeTools' <= MaxTools
    BY <1>1, <1>2, <1>6, HeldSlots DEF BudgetInv, SlotsAreHandedOn, BudgetAssumption
  <2>5. activeTools' = Cardinality(Holding')
    <3>1. Holding' = Holding \ {t} /\ t \in Holding
      BY <1>1, <1>2, <1>6 DEF Holding
    <3> QED BY <1>6, <3>1, HeldSlots, FS_RemoveElement DEF BudgetInv, SlotsAreHandedOn
  <2>6. {u \in Tools : tool'[u] = "waiting"} = {u \in Tools : tool[u] = "waiting"}
    BY <1>1, <1>2, <1>6
  <2>7. SlotsAreHandedOn'
    BY <1>6, <2>3, <2>4, <2>5, <2>6 DEF BudgetInv, SlotsAreHandedOn
  <2>8. Types'
    <3>1. tool' \in [Tools -> ToolPlaces]
      BY <1>2, <1>6 DEF ToolPlaces
    <3> QED BY <1>1, <1>2, <1>3, <1>6, <2>4, <3>1, TypesKept
  <2> QED BY <1>1, <1>3, <2>2, <2>7, <2>8, OrderKept DEF BudgetInv
<1> QED BY <1>5, <1>6 DEF Release

----------------------------------------------------------------------------
(* The sink and the process. *)

LEMMA CheckpointedKeepsInv ==
    ASSUME BudgetAssumption, BudgetInv, Checkpointed
    PROVE  BudgetInv'
<1>1. /\ queue # <<>> /\ durable' = Head(queue) /\ resolved' = Head(queue).revision
      /\ queue' = Tail(queue)
      /\ UNCHANGED <<ledger, aborted, broken, call, turn, tool, toolWaiters, activeTools, ran>>
  BY DEF Checkpointed, toolVars, historyVars
<1>2. queue \in Seq(Snapshot) /\ Len(queue) \in Nat /\ DOMAIN queue = 1..Len(queue)
  BY DEF BudgetInv, Types
<1>3. /\ 1 \in DOMAIN queue /\ durable' = queue[1] /\ durable' \in Snapshot
      /\ queue' \in Seq(Snapshot) /\ DOMAIN queue' = 1..(Len(queue) - 1)
      /\ \A i \in DOMAIN queue' : queue'[i] = queue[i + 1] /\ i + 1 \in DOMAIN queue /\ 1 < i + 1
  BY <1>1, <1>2
<1>4. /\ durable.toolCalls \in Nat /\ durable'.toolCalls \in Nat /\ ledger.toolCalls \in Nat
      /\ durable'.revision \in Nat /\ durable.revision \in Nat
      /\ durable.toolCalls <= durable'.toolCalls
  <2>1. Keeps(durable, queue[1])
    BY <1>3 DEF BudgetInv, SnapshotsAreOrdered
  <2> QED BY <1>3, <2>1, SnapshotFields DEF BudgetInv, Types, Keeps
<1>5. SnapshotsAreOrdered'
  <2>1. ASSUME NEW i \in DOMAIN queue'
        PROVE  /\ durable'.revision < queue'[i].revision /\ Keeps(durable', queue'[i])
               /\ queue'[i].revision <= ledger.revision /\ Keeps(queue'[i], ledger)
    BY <1>3 DEF BudgetInv, SnapshotsAreOrdered
  <2>2. ASSUME NEW i \in DOMAIN queue', NEW j \in DOMAIN queue', i < j
        PROVE  queue'[i].revision < queue'[j].revision /\ Keeps(queue'[i], queue'[j])
    <3>1. i + 1 < j + 1
      BY <1>2, <1>3, <2>2
    <3> QED BY <1>3, <3>1 DEF BudgetInv, SnapshotsAreOrdered
  <2>3. durable'.revision <= ledger.revision /\ Keeps(durable', ledger)
    BY <1>3 DEF BudgetInv, SnapshotsAreOrdered
  <2>4. resolved' <= durable'.revision
    BY <1>1, <1>4
  <2>5. ledger'.stopped => aborted'
    BY <1>1 DEF BudgetInv, SnapshotsAreOrdered
  <2> QED BY <1>1, <2>1, <2>2, <2>3, <2>4, <2>5 DEF SnapshotsAreOrdered
<1>6. ToolsAreCounted'
  <2>1. CountsTurn(durable)' /\ CountsTurn(ledger)'
    BY <1>1, <1>3 DEF BudgetInv, ToolsAreCounted, CountsTurn
  <2>2. \A i \in DOMAIN queue' : CountsTurn(queue[i])'
    BY <1>1, <1>3 DEF BudgetInv, ToolsAreCounted, CountsTurn
  <2>3. Pending' = Pending /\ Cardinality(Pending) \in Nat
    BY <1>1, PendingIsFinite DEF Pending
  <2>4. ran \in Nat
    BY DEF BudgetInv, Types
  <2>5. turn'.at # "counted" => tool' = [t \in Tools |-> "idle"] /\ ran' <= durable'.toolCalls
    BY <1>1, <1>4, <2>4 DEF BudgetInv, ToolsAreCounted
  <2>6. turn'.at = "counted" => ran' + Cardinality(Pending') <= durable'.toolCalls
    BY <1>1, <1>4, <2>3, <2>4 DEF BudgetInv, ToolsAreCounted
  <2> QED BY <1>1, <2>1, <2>2, <2>5, <2>6 DEF BudgetInv, ToolsAreCounted
<1>7. SlotsAreHandedOn'
  BY <1>1 DEF BudgetInv, SlotsAreHandedOn, Holding
<1>8. Types'
  <2>1. resolved' \in Nat
    BY <1>1, <1>4
  <2> QED BY <1>1, <1>3, <2>1 DEF BudgetInv, Types, CallTypes
<1> QED BY <1>5, <1>6, <1>7, <1>8 DEF BudgetInv

LEMMA ThrowKeepsInv ==
    ASSUME BudgetAssumption, BudgetInv, CheckpointThrows
    PROVE  BudgetInv'
<1>1. /\ queue # <<>> /\ durable' \in {durable, Head(queue)} /\ broken' = TRUE /\ queue' = <<>>
      /\ UNCHANGED <<ledger, aborted, resolved, call, turn, tool, toolWaiters, activeTools, ran>>
  BY DEF CheckpointThrows, toolVars, historyVars
<1>2. /\ durable' \in Snapshot /\ ledger \in Snapshot /\ durable \in Snapshot
      /\ durable' = durable \/ (durable' = queue[1] /\ 1 \in DOMAIN queue)
  BY <1>1 DEF BudgetInv, Types
<1>3. /\ durable.revision <= durable'.revision /\ Keeps(durable, durable')
      /\ durable'.revision <= ledger.revision /\ Keeps(durable', ledger)
      /\ durable.revision \in Nat /\ durable'.revision \in Nat /\ resolved \in Nat
  BY <1>2, SnapshotFields DEF BudgetInv, SnapshotsAreOrdered, Keeps, Types
<1>4. DOMAIN queue' = {}
  BY <1>1
<1>5. SnapshotsAreOrdered'
  BY <1>1, <1>3, <1>4 DEF BudgetInv, SnapshotsAreOrdered
<1>6. ToolsAreCounted'
  <2>1. CountsTurn(durable)' /\ CountsTurn(ledger)'
    BY <1>1, <1>2 DEF BudgetInv, ToolsAreCounted, CountsTurn
  <2>2. Pending' = Pending /\ Cardinality(Pending) \in Nat /\ ran \in Nat
        /\ durable.toolCalls \in Nat /\ durable'.toolCalls \in Nat
    BY <1>1, <1>2, PendingIsFinite, SnapshotFields DEF Pending, BudgetInv, Types
  <2>3. durable.toolCalls <= durable'.toolCalls
    BY <1>3 DEF Keeps
  <2>4. turn'.at # "counted" => tool' = [t \in Tools |-> "idle"] /\ ran' <= durable'.toolCalls
    BY <1>1, <2>2, <2>3 DEF BudgetInv, ToolsAreCounted
  <2>5. turn'.at = "counted" => ran' + Cardinality(Pending') <= durable'.toolCalls
    BY <1>1, <2>2, <2>3 DEF BudgetInv, ToolsAreCounted
  <2> QED BY <1>1, <1>4, <2>1, <2>4, <2>5 DEF BudgetInv, ToolsAreCounted
<1>7. SlotsAreHandedOn'
  BY <1>1 DEF BudgetInv, SlotsAreHandedOn, Holding
<1>8. Types'
  BY <1>1, <1>2 DEF BudgetInv, Types, CallTypes
<1> QED BY <1>5, <1>6, <1>7, <1>8 DEF BudgetInv

LEMMA RestoredSnapshot ==
    ASSUME BudgetInv
    PROVE  /\ Restored \in Snapshot /\ Keeps(durable, Restored)
           /\ Restored.toolCalls = durable.toolCalls
           /\ Restored = durable \/ Restored.revision = durable.revision + 1
           /\ Restored.revision \in Nat /\ durable.revision \in Nat
<1>1. durable \in Snapshot
  BY DEF BudgetInv, Types
<1>2. CASE Restored = durable
  BY <1>1, <1>2, SnapshotFields DEF Keeps
<1>3. CASE ~durable.stopped /\ Restored = Bumped([durable EXCEPT !.stopped = TRUE])
  <2>1. PICK r \in Nat, u \in Int, v \in Int, n \in Nat :
           durable = [revision |-> r, used |-> u, reserved |-> v, toolCalls |-> n, stopped |-> FALSE]
    BY <1>1, <1>3 DEF Snapshot
  <2>2. Restored = [revision |-> r + 1, used |-> u, reserved |-> v, toolCalls |-> n,
                    stopped |-> TRUE]
    BY <1>3, <2>1 DEF Bumped
  <2>3. Restored \in Snapshot
    BY <2>2 DEF Snapshot
  <2>4. Restored.revision = r + 1 /\ Restored.toolCalls = n /\ Restored.stopped
    BY <2>2
  <2>5. durable.revision = r /\ durable.toolCalls = n
    BY <2>1
  <2> QED BY <2>3, <2>4, <2>5 DEF Keeps
<1> QED BY <1>2, <1>3 DEF Restored, Stopped

LEMMA CrashKeepsInv ==
    ASSUME BudgetAssumption, BudgetInv, Crash
    PROVE  BudgetInv'
<1>1. /\ ledger' = Restored /\ aborted' = Restored.stopped
      /\ queue' = IF Restored = durable THEN <<>> ELSE <<Restored>>
      /\ broken' = FALSE /\ resolved' = durable.revision
      /\ call' = [c \in Calls |-> IdleCall] /\ turn' = IdleTurn
      /\ tool' = [t \in Tools |-> "idle"] /\ toolWaiters' = <<>> /\ activeTools' = 0
      /\ durable' = durable /\ ran' = ran
  BY DEF Crash
<1>2. /\ DOMAIN queue' = {} \/ (DOMAIN queue' = {1} /\ queue'[1] = Restored
                               /\ Restored.revision = durable.revision + 1)
      /\ queue' \in Seq(Snapshot)
  <2>1. CASE Restored = durable
    BY <1>1, <2>1
  <2>2. CASE Restored # durable
    BY <1>1, <2>2, RestoredSnapshot
  <2> QED BY <2>1, <2>2
<1>3. SnapshotsAreOrdered'
  <2>1. Keeps(Restored, Restored)
    BY RestoredSnapshot, SnapshotFields DEF Keeps
  <2>2. ASSUME NEW i \in DOMAIN queue'
        PROVE  /\ durable'.revision < queue'[i].revision /\ Keeps(durable', queue'[i])
               /\ queue'[i].revision <= ledger'.revision /\ Keeps(queue'[i], ledger')
    BY <1>1, <1>2, <2>1, RestoredSnapshot
  <2>3. ASSUME NEW i \in DOMAIN queue', NEW j \in DOMAIN queue' PROVE ~(i < j)
    BY <1>2
  <2>4. durable'.revision <= ledger'.revision /\ Keeps(durable', ledger')
        /\ resolved' <= durable'.revision /\ (ledger'.stopped => aborted')
    BY <1>1, RestoredSnapshot
  <2> QED BY <2>2, <2>3, <2>4 DEF SnapshotsAreOrdered
<1>4. turn'.at = "idle" /\ turn' \in [at : {"idle", "counting", "counted", "over"}, revision : Nat]
  BY <1>1 DEF IdleTurn
<1>5. ToolsAreCounted'
  <2>1. ran <= durable.toolCalls
    <3>1. Cardinality(Pending) \in Nat /\ ran \in Nat /\ durable.toolCalls \in Nat
      BY PendingIsFinite, SnapshotFields DEF Pending, BudgetInv, Types
    <3> QED BY <3>1 DEF BudgetInv, ToolsAreCounted
  <2>2. ledger'.toolCalls <= MaxToolCalls
    <3>1. durable.toolCalls <= ledger.toolCalls /\ ledger.toolCalls <= MaxToolCalls
      BY DEF BudgetInv, SnapshotsAreOrdered, Keeps, ToolsAreCounted
    <3>2. durable.toolCalls \in Nat /\ ledger.toolCalls \in Nat
      BY SnapshotFields DEF BudgetInv, Types
    <3> QED BY <1>1, <3>1, <3>2, RestoredSnapshot DEF BudgetAssumption
  <2> QED BY <1>1, <1>4, <2>1, <2>2 DEF ToolsAreCounted, CountsTurn
<1>6. SlotsAreHandedOn'
  <2>1. Holding' = {}
    BY <1>1 DEF Holding
  <2>2. IsInjective(toolWaiters') /\ ToSet(toolWaiters') = {t \in Tools : tool'[t] = "waiting"}
    BY <1>1 DEF IsInjective, ToSet
  <2> QED BY <1>1, <2>1, <2>2, FS_EmptySet DEF SlotsAreHandedOn, BudgetAssumption
<1>7. Types'
  <2>1. CallTypes'
    <3>1. [at |-> "idle", reserved |-> 0, revision |-> 0, use |-> 0] \in CallState
      BY DEF CallState, CallPlaces
    <3> QED BY <1>1, <3>1 DEF CallTypes, IdleCall
  <2>2. tool' \in [Tools -> ToolPlaces] /\ toolWaiters' \in Seq(Tools)
    BY <1>1 DEF ToolPlaces
  <2>3. resolved' \in Nat /\ aborted' \in BOOLEAN /\ ledger' \in Snapshot
    BY <1>1, RestoredSnapshot, SnapshotFields
  <2> QED BY <1>1, <1>2, <1>4, <2>1, <2>2, <2>3 DEF BudgetInv, Types
<1> QED BY <1>3, <1>5, <1>6, <1>7 DEF BudgetInv

----------------------------------------------------------------------------
(* The theorems. *)

LEMMA BudgetInit ==
    ASSUME BudgetAssumption, Init
    PROVE  BudgetInv
<1>1. Fresh \in Snapshot /\ Fresh.revision = 0 /\ Fresh.toolCalls = 0 /\ ~Fresh.stopped
  BY DEF Fresh, Snapshot
<1>2. turn.at = "idle" /\ turn \in [at : {"idle", "counting", "counted", "over"}, revision : Nat]
  BY DEF Init, IdleTurn
<1>3. Types
  <2>1. CallTypes
    <3>1. [at |-> "idle", reserved |-> 0, revision |-> 0, use |-> 0] \in CallState
      BY DEF CallState, CallPlaces
    <3> QED BY <3>1 DEF CallTypes, IdleCall, Init
  <2>2. tool \in [Tools -> ToolPlaces] /\ toolWaiters \in Seq(Tools) /\ queue \in Seq(Snapshot)
    BY DEF Init, ToolPlaces
  <2> QED BY <1>1, <1>2, <2>1, <2>2 DEF Init, Types
<1>4. SnapshotsAreOrdered
  BY <1>1 DEF Init, SnapshotsAreOrdered, Keeps
<1>5. ToolsAreCounted
  BY <1>1, <1>2 DEF Init, ToolsAreCounted, CountsTurn, BudgetAssumption
<1>6. SlotsAreHandedOn
  <2>1. Holding = {}
    BY DEF Holding, Init
  <2>2. IsInjective(toolWaiters) /\ ToSet(toolWaiters) = {t \in Tools : tool[t] = "waiting"}
    BY DEF IsInjective, ToSet, Init
  <2> QED BY <2>1, <2>2, FS_EmptySet DEF SlotsAreHandedOn, BudgetAssumption, Init
<1> QED BY <1>3, <1>4, <1>5, <1>6 DEF BudgetInv

LEMMA BudgetNext ==
    ASSUME BudgetAssumption, BudgetInv, [Next]_vars
    PROVE  BudgetInv'
<1>1. CASE UNCHANGED vars
  BY <1>1 DEF vars, ledgerVars, sinkVars, toolVars, historyVars, BudgetInv, Types, CallTypes,
              SnapshotsAreOrdered, ToolsAreCounted, CountsTurn, Pending, SlotsAreHandedOn, Holding
<1>2. ASSUME NEW c \in Calls, CallStep(c) PROVE BudgetInv'
  BY <1>2, CallStepCharges, ChargesKeepsInv
<1>3. ASSUME NEW t \in Tools, ToolStep(t) PROVE BudgetInv'
  BY <1>3, AcquireKeepsInv, GiveUpKeepsInv, ReleaseKeepsInv DEF ToolStep
<1>4. CASE Count \/ Counted \/ WallClock \/ Checkpointed \/ CheckpointThrows \/ Crash
  BY <1>4, CountKeepsInv, CountedKeepsInv, WallClockKeepsInv, CheckpointedKeepsInv,
     ThrowKeepsInv, CrashKeepsInv
<1> QED BY <1>1, <1>2, <1>3, <1>4 DEF Next

\* The snapshots, the counted tools and the slots agree in every reachable
\* state of the ledger (RunBudgetLedger).
THEOREM BudgetInvariant == Spec => []BudgetInv
<1>1. Init => BudgetInv
  BY BudgetInit, BudgetAssumption
<1>2. BudgetInv /\ [Next]_vars => BudgetInv'
  BY BudgetNext, BudgetAssumption
<1> QED BY <1>1, <1>2, PTL DEF Spec

\* Each slot in use is one tool's, and no tool waits while one is free
\* (acquireToolSlot, wakeToolWaiters).
THEOREM SlotsHandedOn == Spec => []SlotsAreHandedOn
<1>1. BudgetInv => SlotsAreHandedOn
  BY DEF BudgetInv
<1> QED BY <1>1, BudgetInvariant, PTL

\* Over all the lives of a run no more tools begin than maxToolCalls
\* (reserveToolCalls, recoverRunBudgetSnapshot).
THEOREM ToolsStayWithinLimit == Spec => []ToolsWithinLimit
<1>1. BudgetInv => ToolsWithinLimit
  <2> SUFFICES ASSUME BudgetInv PROVE ToolsWithinLimit
    OBVIOUS
  <2>1. /\ ran \in Nat /\ durable.toolCalls \in Nat /\ ledger.toolCalls \in Nat
        /\ Cardinality(Pending) \in Nat /\ MaxToolCalls \in Nat
    BY BudgetAssumption, PendingIsFinite, SnapshotFields
       DEF BudgetInv, Types, Pending, BudgetAssumption
  <2>2. ran <= durable.toolCalls
    BY <2>1 DEF BudgetInv, ToolsAreCounted
  <2>3. durable.toolCalls <= ledger.toolCalls /\ ledger.toolCalls <= MaxToolCalls
    BY DEF BudgetInv, SnapshotsAreOrdered, Keeps, ToolsAreCounted
  <2> QED BY <2>1, <2>2, <2>3 DEF ToolsWithinLimit
<1> QED BY <1>1, BudgetInvariant, PTL

LEMMA AbortedSendsNothing ==
    ASSUME CallTypes, aborted, NEW c \in Calls, CallStep(c), NEW d \in Calls, call[d].at # "flight"
    PROVE  call'[d].at # "flight"
<1>1. CASE d # c
  <2>1. call'[d] = call[d]
    BY <1>1 DEF CallTypes, CallStep, Reserve, Reserved, Commit, Consume, Settled, Dispatch,
                Cancel, Refused, Settles, Ends
  <2> QED BY <2>1
<1>2. CASE d = c
  <2>1. call \in [Calls -> CallState] /\ ~Commit(c) /\ ~Consume(c)
    BY <1>2 DEF CallTypes, Commit, Consume, At
  <2>2. CASE Ends(c)
    BY <1>2, <2>1, <2>2 DEF Ends, OverCall, IdleCall
  <2>3. CASE Cancel(c)
    BY <1>2, <2>1, <2>3 DEF Cancel, Settles, CallState
  <2>4. CASE Reserve(c) /\ ~Ends(c)
    BY <1>2, <2>1, <2>4 DEF Reserve
  <2>5. Ends(c) \/ Cancel(c) \/ Reserve(c)
    BY <2>1 DEF CallStep, Reserved, Refused, Settled
  <2> QED BY <2>2, <2>3, <2>4, <2>5
<1> QED BY <1>1, <1>2

\* Written snapshots only advance, and after a written stop no request is sent
\* (RunBudgetLedger.fail, recoverRunBudgetSnapshot).
THEOREM SnapshotsAdvance == Spec => SnapshotsOnlyAdvance
<1> DEFINE A ==
       /\ durable' # durable => durable'.revision > durable.revision
       /\ durable'.toolCalls >= durable.toolCalls
       /\ durable.stopped =>
             /\ durable'.stopped
             /\ \A c \in Calls : call[c].at # "flight" => call'[c].at # "flight"
<1>1. BudgetInv /\ [Next]_vars => [A]_vars
  <2> SUFFICES ASSUME BudgetInv, Next PROVE A
    OBVIOUS
  <2>1. /\ durable' # durable => durable'.revision > durable.revision
        /\ durable'.toolCalls >= durable.toolCalls
        /\ durable.stopped => durable'.stopped
    <3>1. durable.toolCalls \in Nat /\ durable.revision \in Nat /\ queue \in Seq(Snapshot)
      BY SnapshotFields DEF BudgetInv, Types
    <3>2. CASE durable' = durable
      BY <3>1, <3>2
    <3>3. CASE queue # <<>> /\ durable' = Head(queue)
      <4>1. 1 \in DOMAIN queue /\ durable' = queue[1] /\ queue[1] \in Snapshot
        BY <3>1, <3>3
      <4>2. durable.revision < queue[1].revision /\ Keeps(durable, queue[1])
        BY <4>1 DEF BudgetInv, SnapshotsAreOrdered
      <4>3. queue[1].toolCalls \in Nat /\ queue[1].revision \in Nat
        BY <4>1, SnapshotFields
      <4> QED BY <3>1, <4>1, <4>2, <4>3 DEF Keeps
    <3>4. CASE UNCHANGED sinkVars
      BY <3>2, <3>4 DEF sinkVars
    <3>5. \/ durable' = durable \/ UNCHANGED sinkVars
          \/ queue # <<>> /\ durable' = Head(queue)
      BY DEF Next, CallStep, ToolStep, Reserve, Reserved, Commit, Consume, Settled, Acquire,
             GiveUp, Release, Count, Counted, WallClock, Checkpointed, CheckpointThrows, Crash
    <3> QED BY <3>2, <3>3, <3>4, <3>5
  <2>2. ASSUME durable.stopped, NEW d \in Calls, call[d].at # "flight"
        PROVE  call'[d].at # "flight"
    <3>1. aborted
      BY <2>2 DEF BudgetInv, SnapshotsAreOrdered, Keeps
    <3>2. ASSUME NEW c \in Calls, CallStep(c) PROVE call'[d].at # "flight"
      BY <2>2, <3>1, <3>2, AbortedSendsNothing DEF BudgetInv, Types
    <3>3. CASE Crash
      BY <3>3 DEF Crash, IdleCall
    <3>4. CASE call' = call
      BY <2>2, <3>4
    <3>5. (\E c \in Calls : CallStep(c)) \/ Crash \/ call' = call
      BY DEF Next, ToolStep, Acquire, GiveUp, Release, Count, Counted, WallClock,
             Checkpointed, CheckpointThrows
    <3> QED BY <3>2, <3>3, <3>4, <3>5
  <2> QED BY <2>1, <2>2
<1> QED BY <1>1, BudgetInvariant, PTL DEF Spec, SnapshotsOnlyAdvance

----------------------------------------------------------------------------
(* The tokens of the run. *)

\* What a model call may still use of its reservation, as far as a snapshot of
\* revision v knows: the whole of it before its request is sent, the rest after.
OpenOf(x, v) ==
    CASE x.at = "reserving" -> IF x.revision <= v THEN x.reserved ELSE 0
      [] x.at = "flight"    -> IF x.use > x.reserved THEN 0 ELSE x.reserved - x.use
      [] OTHER              -> 0

\* All of these tokens, each named by its call, and their number.
Tokens(calls, v) == UNION {{c} \X (1..OpenOf(calls[c], v)) : c \in Calls}
Open(calls, v) == Cardinality(Tokens(calls, v))

\* Whoever starts from this snapshot has accounted for what earlier lives and
\* the requests under way use.
Covers(s) == spent + Open(call, s.revision) <= s.used + s.reserved

Amounts == \A c \in Calls : call[c].reserved \in Nat /\ call[c].use \in Nat

RequestsAreCovered ==
    /\ spent \in Nat /\ Amounts
    /\ \A c \in Calls : call[c].at = "reserving" => call[c].revision <= ledger.revision
    /\ IsFiniteSet(Tokens(call, ledger.revision))
    /\ spent + Open(call, ledger.revision) <= MaxTokens
    /\ Covers(durable) /\ Covers(ledger) /\ \A i \in DOMAIN queue : Covers(queue[i])

LEMMA OpenIsNatural ==
    ASSUME NEW x, x.reserved \in Nat, x.use \in Nat, NEW v
    PROVE  OpenOf(x, v) \in Nat
BY DEF OpenOf

\* The tokens of one call are as many as it has open.
LEMMA OneCall ==
    ASSUME NEW c, NEW a \in Nat
    PROVE  IsFiniteSet({c} \X (1..a)) /\ Cardinality({c} \X (1..a)) = a
<1>1. IsFiniteSet(1..a) /\ Cardinality(1..a) = a
  BY FS_Interval
<1>2. IsFiniteSet({c}) /\ Cardinality({c}) = 1
  BY FS_Singleton
<1> QED BY <1>1, <1>2, FS_Product

LEMMA Disjoint ==
    ASSUME NEW S, NEW T, IsFiniteSet(S), IsFiniteSet(T), S \cap T = {}
    PROVE  /\ IsFiniteSet(S \cup T) /\ Cardinality(S) \in Nat /\ Cardinality(T) \in Nat
           /\ Cardinality(S \cup T) = Cardinality(S) + Cardinality(T)
<1>1. Cardinality(S) \in Nat /\ Cardinality(T) \in Nat /\ Cardinality(S \cap T) = 0
  BY FS_CardinalityType, FS_EmptySet
<1>2. /\ IsFiniteSet(S \cup T)
      /\ Cardinality(S \cup T) = Cardinality(S) + Cardinality(T) - Cardinality(S \cap T)
  BY FS_Union
<1> QED BY <1>1, <1>2

Others(calls, v, c) == UNION {{d} \X (1..OpenOf(calls[d], v)) : d \in Calls \ {c}}

LEMMA OthersOpen ==
    ASSUME NEW calls, NEW v, NEW c \in Calls, NEW a \in Nat, OpenOf(calls[c], v) = a,
           IsFiniteSet(Others(calls, v, c))
    PROVE  /\ IsFiniteSet(Tokens(calls, v)) /\ Cardinality(Others(calls, v, c)) \in Nat
           /\ Open(calls, v) = Cardinality(Others(calls, v, c)) + a
<1> DEFINE mine == {c} \X (1..a)
<1>1. Tokens(calls, v) = Others(calls, v, c) \cup mine
  BY DEF Tokens, Others
<1>2. Others(calls, v, c) \cap mine = {}
  BY DEF Others
<1>3. IsFiniteSet(mine) /\ Cardinality(mine) = a
  BY OneCall
<1> HIDE DEF mine
<1> QED BY <1>1, <1>2, <1>3, Disjoint DEF Open

\* One call moves: the number of open tokens moves by as much.
LEMMA TokensMove ==
    ASSUME NEW calls, NEW after, NEW v, NEW w, NEW c \in Calls,
           OpenOf(calls[c], v) \in Nat, OpenOf(after[c], w) \in Nat,
           \A d \in Calls \ {c} : OpenOf(after[d], w) = OpenOf(calls[d], v),
           IsFiniteSet(Tokens(calls, v))
    PROVE  /\ IsFiniteSet(Tokens(after, w))
           /\ \E rest \in Nat : /\ Open(calls, v) = rest + OpenOf(calls[c], v)
                                /\ Open(after, w) = rest + OpenOf(after[c], w)
<1>1. Others(after, w, c) = Others(calls, v, c)
  BY DEF Others
<1>2. Others(calls, v, c) \subseteq Tokens(calls, v)
  BY DEF Others, Tokens
<1>3. IsFiniteSet(Others(calls, v, c))
  BY <1>2, FS_Subset
<1>4. /\ Cardinality(Others(calls, v, c)) \in Nat
      /\ Open(calls, v) = Cardinality(Others(calls, v, c)) + OpenOf(calls[c], v)
  BY <1>3, OthersOpen
<1>5. /\ IsFiniteSet(Tokens(after, w))
      /\ Open(after, w) = Cardinality(Others(calls, v, c)) + OpenOf(after[c], w)
  BY <1>1, <1>3, OthersOpen
<1> QED BY <1>4, <1>5

\* Calls that have no more open than before.
LEMMA TokensFewer ==
    ASSUME NEW calls, NEW after, NEW v, NEW w, IsFiniteSet(Tokens(calls, v)),
           \A d \in Calls : /\ OpenOf(calls[d], v) \in Nat /\ OpenOf(after[d], w) \in Nat
                            /\ OpenOf(after[d], w) <= OpenOf(calls[d], v)
    PROVE  /\ IsFiniteSet(Tokens(after, w)) /\ Open(calls, v) \in Nat
           /\ Open(after, w) \in Nat /\ Open(after, w) <= Open(calls, v)
<1>1. \A d \in Calls : 1..OpenOf(after[d], w) \subseteq 1..OpenOf(calls[d], v)
  OBVIOUS
<1>2. Tokens(after, w) \subseteq Tokens(calls, v)
  BY <1>1 DEF Tokens
<1> QED BY <1>2, FS_Subset, FS_CardinalityType DEF Open

\* Of a revision the ledger has reached, the calls in it are all there are.
LEMMA OpenSoFar ==
    ASSUME BudgetInv, RequestsAreCovered, NEW v \in Nat
    PROVE  /\ IsFiniteSet(Tokens(call, v)) /\ Open(call, v) \in Nat
           /\ Open(call, v) <= Open(call, ledger.revision) /\ Open(call, ledger.revision) \in Nat
           /\ ledger.revision <= v => \A d \in Calls :
                 OpenOf(call[d], v) = OpenOf(call[d], ledger.revision)
<1>1. ASSUME NEW d \in Calls
      PROVE  /\ OpenOf(call[d], v) \in Nat /\ OpenOf(call[d], ledger.revision) \in Nat
             /\ OpenOf(call[d], v) <= OpenOf(call[d], ledger.revision)
             /\ ledger.revision <= v => OpenOf(call[d], v) = OpenOf(call[d], ledger.revision)
  <2>1. /\ call[d].reserved \in Nat /\ call[d].use \in Nat
        /\ call[d].at = "reserving" => call[d].revision <= ledger.revision
    BY DEF RequestsAreCovered, Amounts
  <2>2. call[d].revision \in Nat /\ ledger.revision \in Nat
    BY SnapshotFields DEF BudgetInv, Types, CallTypes, CallState
  <2>3. OpenOf(call[d], v) \in Nat /\ OpenOf(call[d], ledger.revision) \in Nat
    BY <2>1, OpenIsNatural
  <2>4. CASE call[d].at = "reserving"
    BY <2>1, <2>2, <2>4 DEF OpenOf
  <2>5. CASE call[d].at # "reserving"
    <3>1. OpenOf(call[d], v) = OpenOf(call[d], ledger.revision)
      BY <2>5 DEF OpenOf
    <3> QED BY <2>3, <3>1
  <2> QED BY <2>3, <2>4, <2>5
<1>2. IsFiniteSet(Tokens(call, ledger.revision))
  BY DEF RequestsAreCovered
<1> QED BY <1>1, <1>2, TokensFewer
----------------------------------------------------------------------------
(* The steps that move the tokens. *)

\* What a step does that neither writes a snapshot nor crashes: no snapshot the
\* sink may still write covers less, and the new one covers all.
Stays ==
    /\ spent' \in Nat /\ Amounts'
    /\ \A c \in Calls : call'[c].at = "reserving" => call'[c].revision <= ledger'.revision
    /\ \A v \in durable.revision..ledger.revision :
          /\ spent' + Open(call', v) <= spent + Open(call, v)
          /\ Open(call', v) \in Nat
    /\ IsFiniteSet(Tokens(call', ledger'.revision))
    /\ spent' + Open(call', ledger'.revision) <= MaxTokens
    /\ spent' + Open(call', ledger'.revision) <= ledger'.used + ledger'.reserved

LEMMA SnapshotTotals ==
    ASSUME NEW s \in Snapshot
    PROVE  s.revision \in Nat /\ s.used \in Int /\ s.reserved \in Int
BY DEF Snapshot

LEMMA StaysCovered ==
    ASSUME BudgetAssumption, BudgetInv, RequestsAreCovered, Advances, Stays, durable' = durable
    PROVE  RequestsAreCovered'
<1>1. ASSUME NEW s \in Snapshot, durable.revision <= s.revision, s.revision <= ledger.revision,
             Covers(s)
      PROVE  spent' + Open(call', s.revision) <= s.used + s.reserved
  <2>1. s.revision \in Nat /\ durable.revision \in Nat /\ ledger.revision \in Nat
        /\ s.used \in Int /\ s.reserved \in Int
    BY SnapshotTotals DEF BudgetInv, Types
  <2>2. s.revision \in durable.revision..ledger.revision
    BY <1>1, <2>1
  <2>3. /\ spent' + Open(call', s.revision) <= spent + Open(call, s.revision)
        /\ Open(call', s.revision) \in Nat /\ Open(call, s.revision) \in Nat
    BY <2>1, <2>2, OpenSoFar DEF Stays
  <2>4. spent \in Nat /\ spent' \in Nat
    BY DEF Stays, RequestsAreCovered
  <2> QED BY <1>1, <2>1, <2>3, <2>4 DEF Covers
<1>2. Covers(durable)'
  <2>1. durable \in Snapshot /\ durable.revision <= ledger.revision /\ durable.revision \in Nat
    BY SnapshotTotals DEF BudgetInv, Types, SnapshotsAreOrdered
  <2>2. Covers(durable)
    BY DEF RequestsAreCovered
  <2>3. spent' + Open(call', durable.revision) <= durable.used + durable.reserved
    BY <1>1, <2>1, <2>2
  <2> QED BY <2>3 DEF Covers
<1>3. Covers(ledger)'
  BY DEF Stays, Covers
<1>4. ASSUME NEW i \in DOMAIN queue' PROVE Covers(queue[i])'
  <2>1. CASE queue'[i] = ledger'
    BY <1>3, <2>1 DEF Covers
  <2>2. CASE i \in DOMAIN queue /\ queue'[i] = queue[i]
    <3>1. queue[i] \in Snapshot /\ durable.revision < queue[i].revision
          /\ queue[i].revision <= ledger.revision /\ Covers(queue[i])
      BY <2>2 DEF BudgetInv, Types, SnapshotsAreOrdered, RequestsAreCovered
    <3>2. durable.revision \in Nat /\ queue[i].revision \in Nat
      BY <3>1, SnapshotTotals DEF BudgetInv, Types
    <3>3. spent' + Open(call', queue[i].revision) <= queue[i].used + queue[i].reserved
      BY <1>1, <3>1, <3>2
    <3> QED BY <2>2, <3>3 DEF Covers
  <2>3. queue' = queue \/ queue' = Append(queue, ledger')
    BY DEF Advances
  <2>4. queue \in Seq(Snapshot)
    BY DEF BudgetInv, Types
  <2>5. (i \in DOMAIN queue /\ queue'[i] = queue[i]) \/ queue'[i] = ledger'
    BY <2>3, <2>4
  <2> QED BY <2>1, <2>2, <2>5
<1> QED BY <1>2, <1>3, <1>4 DEF RequestsAreCovered, Stays

\* A step that leaves the calls alone and saves the same totals, if any.
LEMMA CallsStay ==
    ASSUME BudgetAssumption, BudgetInv, RequestsAreCovered, Advances, UNCHANGED <<call, spent>>,
           ledger'.used = ledger.used, ledger'.reserved = ledger.reserved
    PROVE  Stays
<1>1. ledger'.revision \in Nat /\ ledger.revision \in Nat /\ ledger.revision <= ledger'.revision
      /\ durable.revision \in Nat /\ ledger.used \in Int /\ ledger.reserved \in Int
  BY SnapshotTotals DEF BudgetInv, Types, Advances
<1>2. /\ spent \in Nat /\ Amounts /\ spent + Open(call, ledger.revision) <= MaxTokens
      /\ spent + Open(call, ledger.revision) <= ledger.used + ledger.reserved
      /\ \A c \in Calls : call[c].at = "reserving" => call[c].revision <= ledger.revision
  BY DEF RequestsAreCovered, Covers
<1>3. IsFiniteSet(Tokens(call, ledger'.revision))
      /\ Open(call, ledger'.revision) \in Nat /\ Open(call, ledger.revision) \in Nat
      /\ Open(call, ledger'.revision) <= Open(call, ledger.revision)
  BY <1>1, OpenSoFar
<1>4. \A v \in durable.revision..ledger.revision : Open(call, v) \in Nat
  BY <1>1, OpenSoFar
<1>5. ASSUME NEW c \in Calls, call[c].at = "reserving" PROVE call[c].revision <= ledger'.revision
  <2>1. call[c].revision \in Nat
    BY DEF BudgetInv, Types, CallTypes, CallState
  <2> QED BY <1>1, <1>2, <1>5, <2>1
<1>6. Amounts'
  BY <1>2 DEF Amounts
<1>7. MaxTokens \in Nat
  BY DEF BudgetAssumption
<1>8. /\ spent + Open(call, ledger'.revision) <= MaxTokens
      /\ spent + Open(call, ledger'.revision) <= ledger.used + ledger.reserved
  BY <1>1, <1>2, <1>3, <1>7
<1> QED BY <1>2, <1>3, <1>4, <1>5, <1>6, <1>8 DEF Stays

\* One call moves on, for what it had open: a part of that is used, a part stays
\* open, and the ledger charges at least the part that is used.
LEMMA OneCallStays ==
    ASSUME BudgetAssumption, BudgetInv, RequestsAreCovered, Advances,
           NEW c \in Calls, NEW x, NEW used \in Nat, NEW kept \in Nat,
           call'[c] = x, \A d \in Calls \ {c} : call'[d] = call[d], spent' = spent + used,
           x.reserved \in Nat, x.use \in Nat, x.at # "reserving",
           \A v : OpenOf(x, v) = kept,
           \A v \in durable.revision..ledger.revision : used + kept <= OpenOf(call[c], v),
           used + kept + ledger.used + ledger.reserved <=
              OpenOf(call[c], ledger.revision) + ledger'.used + ledger'.reserved
    PROVE  Stays
<1>1. /\ ledger'.revision \in Nat /\ ledger.revision \in Nat /\ ledger.revision <= ledger'.revision
      /\ durable.revision \in Nat /\ durable.revision <= ledger.revision
      /\ ledger.used \in Int /\ ledger.reserved \in Int
      /\ ledger'.used \in Int /\ ledger'.reserved \in Int
  <2>1. durable.revision <= ledger.revision
    BY DEF BudgetInv, SnapshotsAreOrdered
  <2>2. durable \in Snapshot /\ ledger \in Snapshot /\ ledger' \in Snapshot
    BY DEF BudgetInv, Types, Advances
  <2>3. ledger'.revision = ledger.revision \/ ledger'.revision = ledger.revision + 1
    BY DEF Advances
  <2> QED BY <2>1, <2>2, <2>3, SnapshotTotals
<1>2. /\ spent \in Nat /\ Amounts /\ spent + Open(call, ledger.revision) <= MaxTokens
      /\ spent + Open(call, ledger.revision) <= ledger.used + ledger.reserved
      /\ \A d \in Calls : call[d].at = "reserving" => call[d].revision <= ledger.revision
  BY DEF RequestsAreCovered, Covers
<1>3. /\ call'[c] = x /\ \A d \in Calls \ {c} : call'[d] = call[d]
      /\ \A d \in Calls : call[d].revision \in Nat
  BY DEF BudgetInv, Types, CallTypes, CallState
<1>4. \A v \in Nat : /\ OpenOf(call[c], v) \in Nat /\ OpenOf(call'[c], v) = kept
                     /\ \A d \in Calls \ {c} : OpenOf(call'[d], v) = OpenOf(call[d], v)
  BY <1>2, <1>3, OpenIsNatural DEF Amounts
<1>5. ASSUME NEW v \in durable.revision..ledger.revision
      PROVE  /\ spent' + Open(call', v) <= spent + Open(call, v)
             /\ Open(call', v) \in Nat
  <2>1. v \in Nat
    BY <1>1
  <2>2. IsFiniteSet(Tokens(call, v))
    BY <2>1, OpenSoFar
  <2>4. \E rest \in Nat : /\ Open(call, v) = rest + OpenOf(call[c], v)
                          /\ Open(call', v) = rest + OpenOf(call'[c], v)
    <3>1. OpenOf(call[c], v) \in Nat /\ OpenOf(call'[c], v) \in Nat
      BY <1>4, <2>1
    <3>2. \A d \in Calls \ {c} : OpenOf(call'[d], v) = OpenOf(call[d], v)
      BY <1>4, <2>1
    <3> QED BY ONLY c \in Calls, <2>2, <3>1, <3>2, TokensMove
  <2>3. OpenOf(call[c], v) \in Nat /\ used + kept <= OpenOf(call[c], v)
    BY <1>4, <2>1
  <2> QED BY <1>2, <1>4, <2>1, <2>3, <2>4
<1>6. /\ IsFiniteSet(Tokens(call', ledger'.revision)) /\ Open(call', ledger'.revision) \in Nat
      /\ Open(call, ledger.revision) \in Nat
      /\ Open(call', ledger'.revision) =
            Open(call, ledger.revision) - OpenOf(call[c], ledger.revision) + kept
  <2>1. \A d \in Calls \ {c} : OpenOf(call'[d], ledger'.revision) = OpenOf(call[d], ledger.revision)
    BY <1>1, <1>4, OpenSoFar
  <2>2. IsFiniteSet(Tokens(call, ledger.revision))
    BY DEF RequestsAreCovered
  <2>3. OpenOf(call[c], ledger.revision) \in Nat /\ OpenOf(call'[c], ledger'.revision) = kept
    BY <1>1, <1>4
  <2>4. /\ IsFiniteSet(Tokens(call', ledger'.revision))
        /\ \E rest \in Nat :
              /\ Open(call, ledger.revision) = rest + OpenOf(call[c], ledger.revision)
              /\ Open(call', ledger'.revision) = rest + OpenOf(call'[c], ledger'.revision)
    <3>1. OpenOf(call[c], ledger.revision) \in Nat /\ OpenOf(call'[c], ledger'.revision) \in Nat
      BY <2>3
    <3> QED BY ONLY c \in Calls, <2>1, <2>2, <3>1, TokensMove
  <2> QED BY <2>3, <2>4
<1>7. /\ spent' + Open(call', ledger'.revision) <= MaxTokens
      /\ spent' + Open(call', ledger'.revision) <= ledger'.used + ledger'.reserved
  <2>1. used + kept <= OpenOf(call[c], ledger.revision) /\ OpenOf(call[c], ledger.revision) \in Nat
    BY <1>1, <1>4
  <2>2. MaxTokens \in Nat
    BY DEF BudgetAssumption
  <2> QED BY <1>1, <1>2, <1>6, <2>1, <2>2
<1>8. Amounts'
  BY <1>2, <1>3 DEF Amounts
<1>9. ASSUME NEW d \in Calls, call'[d].at = "reserving" PROVE call'[d].revision <= ledger'.revision
  <2>1. d # c
    BY <1>3, <1>9
  <2> QED BY <1>1, <1>2, <1>3, <1>9, <2>1
<1>10. spent' \in Nat
  BY <1>2
<1> QED BY <1>5, <1>6, <1>7, <1>8, <1>9, <1>10 DEF Stays

\* Stopping the run moves no tokens.
LEMMA FailsTotals ==
    ASSUME BudgetInv, NEW tools, Fails(tools)
    PROVE  ledger'.used = ledger.used /\ ledger'.reserved = ledger.reserved
<1>1. ledger \in Snapshot /\ ledger' = Stopped(ledger)
  BY DEF BudgetInv, Types, Fails
<1>2. PICK r \in Nat, u \in Int, v \in Int, n \in Nat, b \in BOOLEAN :
         ledger = [revision |-> r, used |-> u, reserved |-> v, toolCalls |-> n, stopped |-> b]
  BY <1>1 DEF Snapshot
<1>3. CASE ~ledger.stopped
  <2>1. ledger = [revision |-> r, used |-> u, reserved |-> v, toolCalls |-> n, stopped |-> FALSE]
    BY <1>2, <1>3
  <2>2. ledger' = [revision |-> r + 1, used |-> u, reserved |-> v, toolCalls |-> n, stopped |-> TRUE]
    BY <1>1, <1>3, <2>1 DEF Stopped, Bumped
  <2> QED BY <1>2, <2>2
<1> QED BY <1>1, <1>3 DEF Stopped

LEMMA SettlesTotals ==
    ASSUME BudgetInv, NEW c \in Calls, NEW charge \in Nat, NEW where, Settles(c, charge, where)
    PROVE  /\ ledger'.used = ledger.used + charge
           /\ ledger'.reserved = ledger.reserved - call[c].reserved
           /\ spent' = spent /\ \A d \in Calls \ {c} : call'[d] = call[d]
           /\ call'[c].at = where /\ call'[c].use = charge
           /\ call'[c].reserved = call[c].reserved
<1>1. PICK r \in Nat, u \in Int, v \in Int, n \in Nat, b \in BOOLEAN :
         ledger = [revision |-> r, used |-> u, reserved |-> v, toolCalls |-> n, stopped |-> b]
  BY DEF BudgetInv, Types, Snapshot
<1>2. ledger.used = u /\ ledger.reserved = v
  BY <1>1
<1>3. [ledger EXCEPT !.used = @ + charge, !.reserved = @ - call[c].reserved] =
         [revision |-> r, used |-> u + charge, reserved |-> v - call[c].reserved,
          toolCalls |-> n, stopped |-> b]
  <2>1. ASSUME NEW x, NEW y
        PROVE  [ledger EXCEPT !.used = x, !.reserved = y] =
                  [revision |-> r, used |-> x, reserved |-> y, toolCalls |-> n, stopped |-> b]
    <3> DEFINE t == [ledger EXCEPT !.used = x]
    <3>1. [ledger EXCEPT !.used = x, !.reserved = y] = [t EXCEPT !.reserved = y]
      OBVIOUS
    <3>2. t = [revision |-> r, used |-> x, reserved |-> v, toolCalls |-> n, stopped |-> b]
      BY <1>1
    <3>3. [t EXCEPT !.reserved = y] =
             [revision |-> r, used |-> x, reserved |-> y, toolCalls |-> n, stopped |-> b]
      <4> HIDE DEF t
      <4> QED BY <3>2
    <3> QED BY <3>1, <3>3, Zenon
  <2> QED BY <1>2, <2>1
<1>4. ledger' = [revision |-> r + 1, used |-> u + charge, reserved |-> v - call[c].reserved,
                 toolCalls |-> n, stopped |-> b]
  BY <1>3, BumpedRecord DEF Settles, Saves
<1>5. /\ spent' = spent /\ \A d \in Calls \ {c} : call'[d] = call[d]
      /\ call'[c].at = where /\ call'[c].use = charge /\ call'[c].reserved = call[c].reserved
  <2>1. PICK k : call' = [call EXCEPT ![c].at = where, ![c].revision = k, ![c].use = charge]
    BY DEF Settles
  <2>2. spent' = spent
    BY DEF Settles, historyVars
  <2> QED BY <2>1, <2>2 DEF BudgetInv, Types, CallTypes, CallState
<1> QED BY <1>2, <1>4, <1>5

\* A call that is over has nothing open.
LEMMA EndsStays ==
    ASSUME BudgetAssumption, BudgetInv, RequestsAreCovered, Advances, NEW c \in Calls, Ends(c),
           spent' = spent, ledger'.used = ledger.used, ledger'.reserved = ledger.reserved
    PROVE  Stays
<1>1. /\ OverCall.at = "over" /\ OverCall.reserved \in Nat /\ OverCall.use \in Nat
      /\ \A v : OpenOf(OverCall, v) = 0
  BY DEF OverCall, IdleCall, OpenOf
<1>2. /\ call'[c] = OverCall /\ \A d \in Calls \ {c} : call'[d] = call[d]
      /\ spent \in Nat /\ spent' = spent + 0
  BY DEF Ends, RequestsAreCovered, BudgetInv, Types, CallTypes
<1>3. \A v : OpenOf(call[c], v) \in Nat
  BY OpenIsNatural DEF RequestsAreCovered, Amounts
<1>4. ledger.used \in Int /\ ledger.reserved \in Int
  BY SnapshotTotals DEF BudgetInv, Types
<1>5. /\ \A v \in durable.revision..ledger.revision : 0 + 0 <= OpenOf(call[c], v)
      /\ 0 + 0 + ledger.used + ledger.reserved <=
            OpenOf(call[c], ledger.revision) + ledger'.used + ledger'.reserved
  BY <1>3, <1>4
<1> QED BY <1>1, <1>2, <1>5, OneCallStays

\* A settlement gives back what was reserved and not charged.
LEMMA SettlesStays ==
    ASSUME BudgetAssumption, BudgetInv, RequestsAreCovered, Advances, NEW c \in Calls,
           NEW charge \in Nat, NEW where \in {"settling", "cancelling"},
           Settles(c, charge, where), call[c].reserved <= charge + OpenOf(call[c], ledger.revision)
    PROVE  Stays
<1>1. /\ call'[c].at = where /\ call'[c].use = charge /\ call'[c].reserved = call[c].reserved
      /\ \A d \in Calls \ {c} : call'[d] = call[d]
  BY SettlesTotals
<1>2. PICK x : x = call'[c]
  OBVIOUS
<1>3. /\ x.reserved \in Nat /\ x.use \in Nat /\ x.at # "reserving" /\ x.at # "flight"
  BY <1>1, <1>2 DEF RequestsAreCovered, Amounts
<1>4. \A v : OpenOf(x, v) = 0
  BY <1>3 DEF OpenOf
<1>5. \A v : OpenOf(call[c], v) \in Nat
  BY OpenIsNatural DEF RequestsAreCovered, Amounts
<1>6. ledger.used \in Int /\ ledger.reserved \in Int /\ spent \in Nat /\ call[c].reserved \in Nat
  BY SnapshotTotals DEF BudgetInv, Types, RequestsAreCovered, Amounts
<1>7. /\ ledger'.used = ledger.used + charge /\ ledger'.reserved = ledger.reserved - call[c].reserved
      /\ spent' = spent
  BY SettlesTotals
<1>8. /\ \A v \in durable.revision..ledger.revision : 0 + 0 <= OpenOf(call[c], v)
      /\ 0 + 0 + ledger.used + ledger.reserved <=
            OpenOf(call[c], ledger.revision) + ledger'.used + ledger'.reserved
      /\ spent' = spent + 0
  BY <1>5, <1>6, <1>7
<1> QED BY <1>1, <1>2, <1>3, <1>4, <1>8, OneCallStays

\* The request is sent for a reservation that every snapshot from the written
\* one on has.
LEMMA DispatchStays ==
    ASSUME BudgetAssumption, BudgetInv, RequestsAreCovered, Advances, NEW c \in Calls,
           At(c, "reserving"), Written(call[c].revision), Dispatch(c)
    PROVE  Stays
<1>1. PICK n \in Nat, m \in Nat, w \in Nat :
         call[c] = [at |-> "reserving", reserved |-> n, revision |-> m, use |-> w]
  BY DEF BudgetInv, Types, CallTypes, CallState, RequestsAreCovered, Amounts, At
<1>2. call[c].reserved = n /\ call[c].revision = m /\ call[c].at = "reserving"
  BY <1>1
<1>3. PICK use \in Uses :
         /\ call' = [call EXCEPT ![c].at = "flight", ![c].use = use]
         /\ spent' = spent + (IF use > n THEN n ELSE use)
         /\ UNCHANGED ledgerVars
  BY <1>2 DEF Dispatch
<1>15. use \in Nat
  BY <1>3 DEF BudgetAssumption
<1>4. /\ call'[c].at = "flight" /\ call'[c].use = use /\ call'[c].reserved = n
      /\ \A d \in Calls \ {c} : call'[d] = call[d]
  BY <1>2, <1>3 DEF BudgetInv, Types, CallTypes, CallState
<1>5. PICK x : x = call'[c]
  OBVIOUS
<1>6. x.at = "flight" /\ x.use = use /\ x.reserved = n
  BY <1>4, <1>5
<1>7. PICK used \in Nat, kept \in Nat :
         /\ spent' = spent + used /\ used + kept = n /\ \A v : OpenOf(x, v) = kept
  <2>1. CASE use <= n
    <3>1. n - use \in Nat /\ use + (n - use) = n
      BY <1>15, <2>1
    <3>2. spent' = spent + use /\ \A v : OpenOf(x, v) = n - use
      BY <1>3, <1>6, <1>15, <2>1 DEF OpenOf
    <3> QED BY <1>15, <3>1, <3>2
  <2>2. CASE use > n
    <3>1. spent' = spent + n /\ n + 0 = n /\ \A v : OpenOf(x, v) = 0
      BY <1>3, <1>6, <2>2 DEF OpenOf
    <3> QED BY <3>1
  <2> QED BY <1>15, <2>1, <2>2
<1>8. x.reserved \in Nat /\ x.use \in Nat /\ x.at # "reserving"
  BY <1>6, <1>15
<1>9. durable.revision \in Nat /\ ledger.revision \in Nat /\ resolved \in Nat
      /\ ledger.used \in Int /\ ledger.reserved \in Int /\ durable.revision <= ledger.revision
  BY SnapshotTotals DEF BudgetInv, Types, SnapshotsAreOrdered
<1>10. m <= durable.revision
  BY <1>2, <1>9 DEF Written, BudgetInv, SnapshotsAreOrdered
<1>11. \A v \in durable.revision..ledger.revision : OpenOf(call[c], v) = n
  BY <1>2, <1>9, <1>10 DEF OpenOf
<1>12. OpenOf(call[c], ledger.revision) = n
  BY <1>9, <1>11
<1>13. ledger' = ledger
  BY <1>3 DEF ledgerVars
<1>14. /\ \A v \in durable.revision..ledger.revision : used + kept <= OpenOf(call[c], v)
       /\ used + kept + ledger.used + ledger.reserved <=
             OpenOf(call[c], ledger.revision) + ledger'.used + ledger'.reserved
  BY <1>7, <1>9, <1>11, <1>12, <1>13
<1> QED BY <1>4, <1>7, <1>8, <1>14, <1>5, OneCallStays

\* A reservation takes no more than is left, and joins the snapshots with its own.
LEMMA ReserveStays ==
    ASSUME BudgetAssumption, BudgetInv, RequestsAreCovered, NEW c \in Calls, Reserve(c)
    PROVE  Stays
<1>1. Advances /\ spent' = spent
  BY ReserveCharges DEF Charges, Reserve, historyVars
<1>2. CASE Fails(tool) /\ Ends(c)
  BY <1>1, <1>2, FailsTotals, EndsStays
<1>3. CASE ~(Fails(tool) /\ Ends(c))
  <2>1. PICK r \in Nat, u \in Int, v \in Int, n \in Nat, b \in BOOLEAN :
           ledger = [revision |-> r, used |-> u, reserved |-> v, toolCalls |-> n, stopped |-> b]
    BY DEF BudgetInv, Types, Snapshot
  <2>2. /\ ledger.revision = r /\ ledger.used = u /\ ledger.reserved = v
        /\ call[c].at = "idle" /\ Available > Input
    BY <1>3, <2>1 DEF Reserve, At
  <2>3. PICK more \in Nat : more = Reservation(c) /\ u + v + more <= MaxTokens
    BY <2>2 DEF Reservation, Available, BudgetAssumption
  <2>4. ledger' = [revision |-> r + 1, used |-> u, reserved |-> v + more, toolCalls |-> n,
                   stopped |-> b]
    <3>1. [ledger EXCEPT !.reserved = @ + Reservation(c)] =
             [revision |-> r, used |-> u, reserved |-> v + more, toolCalls |-> n, stopped |-> b]
      BY <2>1, <2>3
    <3>2. ledger' = Bumped([ledger EXCEPT !.reserved = @ + Reservation(c)])
      BY <1>3 DEF Reserve, Saves
    <3> QED BY <3>1, <3>2, BumpedRecord
  <2>5. ledger'.revision = r + 1 /\ ledger'.used = u /\ ledger'.reserved = v + more
    BY <2>4
  <2>6. /\ call'[c].at = "reserving" /\ call'[c].reserved = more /\ call'[c].use = 0
        /\ call'[c].revision = r + 1 /\ \A d \in Calls \ {c} : call'[d] = call[d]
    <3>1. call' = [call EXCEPT ![c] = [at |-> "reserving", reserved |-> more,
                                       revision |-> ledger'.revision, use |-> 0]]
      BY <1>3, <2>3 DEF Reserve, Saves
    <3>2. call' = [call EXCEPT ![c] = [at |-> "reserving", reserved |-> more,
                                       revision |-> r + 1, use |-> 0]]
      BY <2>5, <3>1
    <3> QED BY <3>2 DEF BudgetInv, Types, CallTypes
  <2>7. /\ spent \in Nat /\ Amounts /\ IsFiniteSet(Tokens(call, r))
        /\ spent + Open(call, r) <= u + v
        /\ \A d \in Calls : call[d].at = "reserving" => call[d].revision <= r
    BY <2>2 DEF RequestsAreCovered, Covers
  <2>8. /\ durable.revision \in Nat /\ \A d \in Calls : call[d].revision \in Nat
    BY SnapshotTotals DEF BudgetInv, Types, CallTypes, CallState
  <2>9. /\ \A w : OpenOf(call[c], w) = 0
        /\ \A w : OpenOf(call'[c], w) = IF r + 1 <= w THEN more ELSE 0
    BY <2>2, <2>6 DEF OpenOf
  <2>10. \A w \in durable.revision..r : Open(call', w) = Open(call, w) /\ Open(call, w) \in Nat
    <3>1. SUFFICES ASSUME NEW w \in durable.revision..r
                   PROVE  Open(call', w) = Open(call, w) /\ Open(call, w) \in Nat
      OBVIOUS
    <3>2. w \in Nat /\ ~(r + 1 <= w)
      BY <2>8
    <3>3. \A d \in Calls : OpenOf(call'[d], w) = OpenOf(call[d], w)
      BY <2>6, <2>9, <3>2
    <3>4. Tokens(call', w) = Tokens(call, w)
      BY <3>3 DEF Tokens
    <3> QED BY <3>2, <3>4, OpenSoFar DEF Open
  <2>11. /\ IsFiniteSet(Tokens(call', r + 1)) /\ Open(call', r + 1) = Open(call, r) + more
         /\ Open(call, r) \in Nat
    <3>1. \A d \in Calls \ {c} : OpenOf(call'[d], r + 1) = OpenOf(call[d], r)
      <4>1. r + 1 \in Nat /\ ledger.revision <= r + 1
        BY <2>2
      <4> QED BY <2>2, <2>6, <4>1, OpenSoFar
    <3>2. OpenOf(call[c], r) = 0 /\ OpenOf(call'[c], r + 1) = more
      BY <2>9
    <3>3. OpenOf(call[c], r) \in Nat /\ OpenOf(call'[c], r + 1) \in Nat
      BY <3>2
    <3>4. /\ IsFiniteSet(Tokens(call', r + 1))
          /\ \E rest \in Nat : /\ Open(call, r) = rest + OpenOf(call[c], r)
                               /\ Open(call', r + 1) = rest + OpenOf(call'[c], r + 1)
      BY ONLY c \in Calls, <2>7, <3>1, <3>3, TokensMove
    <3> QED BY <3>2, <3>4
  <2>12. /\ spent' + Open(call', r + 1) <= MaxTokens
         /\ spent' + Open(call', r + 1) <= u + v + more
    BY <1>1, <2>3, <2>7, <2>11 DEF BudgetAssumption
  <2>13. Amounts'
    BY <2>6, <2>7 DEF Amounts
  <2>14. ASSUME NEW d \in Calls, call'[d].at = "reserving" PROVE call'[d].revision <= ledger'.revision
    <3>1. CASE d = c
      BY <2>5, <2>6, <3>1
    <3>2. CASE d # c
      BY <2>5, <2>6, <2>7, <2>8, <2>14, <3>2
    <3> QED BY <3>1, <3>2
  <2>15. ledger'.used + ledger'.reserved = u + v + more
    BY <2>5
  <2>16. \A w \in durable.revision..ledger.revision :
            /\ spent' + Open(call', w) <= spent + Open(call, w)
            /\ Open(call', w) \in Nat
    BY <1>1, <2>2, <2>7, <2>10
  <2> QED BY <1>1, <2>5, <2>7, <2>11, <2>12, <2>13, <2>14, <2>15, <2>16 DEF Stays
<1> QED BY <1>2, <1>3

LEMMA CallStepCovered ==
    ASSUME BudgetAssumption, BudgetInv, RequestsAreCovered, NEW c \in Calls, CallStep(c)
    PROVE  RequestsAreCovered'
<1>1. Advances /\ durable' = durable
  BY CallStepCharges DEF Charges, sinkVars
<1>2. /\ ledger.revision \in Nat /\ call[c].revision \in Nat
      /\ call[c].reserved \in Nat /\ call[c].use \in Nat
      /\ call[c].at = "reserving" => call[c].revision <= ledger.revision
  BY SnapshotTotals DEF BudgetInv, Types, CallTypes, CallState, RequestsAreCovered, Amounts
<1>3. CASE Reserve(c)
  BY <1>1, <1>3, ReserveStays, StaysCovered
<1>4. CASE At(c, "reserving") /\ Written(call[c].revision) /\ Dispatch(c)
  BY <1>1, <1>4, DispatchStays, StaysCovered
<1>5. CASE At(c, "reserving") /\ Cancel(c)
  <2>1. call[c].reserved <= 0 + OpenOf(call[c], ledger.revision)
    BY <1>2, <1>5 DEF At, OpenOf
  <2>2. Settles(c, 0, "cancelling")
    BY <1>5 DEF Cancel
  <2> QED BY <1>1, <2>1, <2>2, SettlesStays, StaysCovered
<1>6. CASE Commit(c)
  <2>1. call[c].reserved <= call[c].use + OpenOf(call[c], ledger.revision)
    BY <1>2, <1>6 DEF Commit, At, OpenOf
  <2>2. Settles(c, call[c].use, "settling")
    BY <1>6 DEF Commit
  <2> QED BY <1>1, <1>2, <2>1, <2>2, SettlesStays, StaysCovered
<1>7. CASE Consume(c)
  <2>1. call[c].reserved <= call[c].reserved + OpenOf(call[c], ledger.revision)
    <3>1. OpenOf(call[c], ledger.revision) \in Nat
      BY <1>2, OpenIsNatural
    <3> QED BY <1>2, <3>1
  <2>2. Settles(c, call[c].reserved, "settling")
    BY <1>7 DEF Consume
  <2> QED BY <1>1, <1>2, <2>1, <2>2, SettlesStays, StaysCovered
<1>8. CASE Ends(c) /\ (Fails(tool) \/ UNCHANGED ledgerVars) /\ spent' = spent
  <2>1. ledger'.used = ledger.used /\ ledger'.reserved = ledger.reserved
    BY <1>8, FailsTotals DEF ledgerVars
  <2> QED BY <1>1, <1>8, <2>1, EndsStays, StaysCovered
<1>9. CASE Reserved(c)
  BY <1>4, <1>5, <1>8, <1>9 DEF Reserved, Refused, historyVars
<1>10. CASE Settled(c)
  BY <1>8, <1>10 DEF Settled, historyVars
<1> QED BY <1>3, <1>6, <1>7, <1>9, <1>10 DEF CallStep

\* The tools and the clock charge no tokens.
LEMMA OtherStepCovered ==
    ASSUME BudgetAssumption, BudgetInv, RequestsAreCovered,
           (\E t \in Tools : ToolStep(t)) \/ Count \/ Counted \/ WallClock \/ UNCHANGED vars
    PROVE  RequestsAreCovered'
<1>1. durable' = durable /\ call' = call /\ spent' = spent
  BY DEF ToolStep, Acquire, GiveUp, Release, Count, Counted, WallClock, sinkVars, historyVars, vars
<1>2. CASE UNCHANGED ledgerVars
  BY <1>1, <1>2, Unmoved, CallsStay, StaysCovered DEF ledgerVars
<1>3. CASE \E tools : Fails(tools)
  BY <1>1, <1>3, FailingAdvances, FailsTotals, CallsStay, StaysCovered
<1>4. CASE Count /\ ~Fails(tool)
  <2>1. PICK r \in Nat, u \in Int, v \in Int, n \in Nat, b \in BOOLEAN :
           ledger = [revision |-> r, used |-> u, reserved |-> v, toolCalls |-> n, stopped |-> b]
    BY DEF BudgetInv, Types, Snapshot
  <2>2. Cardinality(Tools) \in Nat
    BY PendingIsFinite
  <2>3. PICK l : /\ l = Bumped([ledger EXCEPT !.toolCalls = @ + Cardinality(Tools)])
                 /\ Saves(l)
    BY <1>4 DEF Count
  <2>4. [ledger EXCEPT !.toolCalls = @ + Cardinality(Tools)] =
           [revision |-> r, used |-> u, reserved |-> v,
            toolCalls |-> n + Cardinality(Tools), stopped |-> b]
    BY <2>1
  <2>5. l = [revision |-> r + 1, used |-> u, reserved |-> v,
             toolCalls |-> n + Cardinality(Tools), stopped |-> b]
    BY <2>3, <2>4, BumpedRecord
  <2>6. ledger.revision = r /\ ledger.toolCalls = n /\ ledger.stopped = b
        /\ ledger.used = u /\ ledger.reserved = v
    BY <2>1
  <2>7. n + Cardinality(Tools) \in Nat /\ n <= n + Cardinality(Tools)
    BY <2>2
  <2>8. l \in Snapshot /\ l.revision = ledger.revision + 1 /\ Keeps(ledger, l)
        /\ l.stopped = ledger.stopped
    BY <2>5, <2>6, <2>7, LedgerBumped
  <2>9. Advances
    BY <2>3, <2>8, SavingAdvances
  <2>10. ledger'.used = ledger.used /\ ledger'.reserved = ledger.reserved
    BY <2>3, <2>5, <2>6 DEF Saves
  <2> QED BY <1>1, <2>9, <2>10, CallsStay, StaysCovered
<1>5. \/ UNCHANGED ledgerVars \/ (\E tools : Fails(tools)) \/ (Count /\ ~Fails(tool))
  <2>1. CASE \E t \in Tools : ToolStep(t)
    BY <2>1 DEF ToolStep, Acquire, GiveUp, Release
  <2>2. CASE Count \/ Counted \/ WallClock
    BY <2>2 DEF Count, Counted, WallClock
  <2>3. CASE UNCHANGED vars
    BY <2>3 DEF vars
  <2> QED BY <2>1, <2>2, <2>3
<1> QED BY <1>2, <1>3, <1>4, <1>5

\* The sink writes the first snapshot it has, or fails.
LEMMA SinkCovered ==
    ASSUME BudgetAssumption, BudgetInv, RequestsAreCovered, Checkpointed \/ CheckpointThrows
    PROVE  RequestsAreCovered'
<1>1. /\ ledger' = ledger /\ call' = call /\ spent' = spent /\ queue # <<>>
      /\ durable' \in {durable, Head(queue)} /\ queue' \in {Tail(queue), <<>>}
  BY DEF Checkpointed, CheckpointThrows, historyVars
<1>2. queue \in Seq(Snapshot)
  BY DEF BudgetInv, Types
<1>3. 1 \in DOMAIN queue /\ Head(queue) = queue[1]
  BY <1>1, <1>2
<1>4. Covers(durable)' /\ Covers(ledger)'
  BY <1>1, <1>3 DEF RequestsAreCovered, Covers
<1>5. ASSUME NEW i \in DOMAIN queue' PROVE Covers(queue[i])'
  <2>1. queue' = Tail(queue) /\ i \in Nat /\ i + 1 \in DOMAIN queue /\ queue'[i] = queue[i + 1]
    BY <1>1, <1>2
  <2>2. Covers(queue[i + 1])
    BY <2>1 DEF RequestsAreCovered
  <2> QED BY <1>1, <2>1, <2>2 DEF Covers
<1>6. Amounts'
  BY <1>1 DEF RequestsAreCovered, Amounts
<1> QED BY <1>1, <1>4, <1>5, <1>6 DEF RequestsAreCovered

\* The next life starts from the written snapshot, without a request.
LEMMA CrashCovered ==
    ASSUME BudgetAssumption, BudgetInv, RequestsAreCovered, Crash
    PROVE  RequestsAreCovered'
<1>1. /\ ledger' = Restored /\ queue' = IF Restored = durable THEN <<>> ELSE <<Restored>>
      /\ call' = [c \in Calls |-> IdleCall] /\ durable' = durable /\ spent' = spent
  BY DEF Crash
<1>2. \A v : Open(call', v) = 0 /\ IsFiniteSet(Tokens(call', v))
  <2>1. ASSUME NEW v PROVE Tokens(call', v) = {}
    <3>1. \A c \in Calls : OpenOf(call'[c], v) = 0
      BY <1>1 DEF OpenOf, IdleCall
    <3>2. 1..0 = {}
      OBVIOUS
    <3> QED BY <3>1, <3>2 DEF Tokens
  <2> QED BY <2>1, FS_EmptySet DEF Open
<1>3. durable \in Snapshot /\ durable.revision \in Nat /\ durable.used \in Int
      /\ durable.reserved \in Int
  BY SnapshotTotals DEF BudgetInv, Types
<1>4. spent \in Nat /\ spent <= durable.used + durable.reserved /\ spent <= MaxTokens
  <2>1. /\ spent \in Nat /\ spent + Open(call, durable.revision) <= durable.used + durable.reserved
        /\ spent + Open(call, ledger.revision) <= MaxTokens
    BY DEF RequestsAreCovered, Covers
  <2>2. Open(call, durable.revision) \in Nat /\ Open(call, ledger.revision) \in Nat
    BY <1>3, OpenSoFar
  <2> QED BY <1>3, <2>1, <2>2 DEF BudgetAssumption
<1>5. Restored.used = durable.used /\ Restored.reserved = durable.reserved
  <2>1. PICK r \in Nat, u \in Int, v \in Int, n \in Nat, b \in BOOLEAN :
           durable = [revision |-> r, used |-> u, reserved |-> v, toolCalls |-> n, stopped |-> b]
    BY <1>3 DEF Snapshot
  <2>2. CASE Restored = durable
    BY <2>2
  <2>3. CASE Restored # durable
    <3>1. Restored = Stopped(durable) /\ ~durable.stopped
      BY <2>3 DEF Restored, Stopped
    <3>2. durable = [revision |-> r, used |-> u, reserved |-> v, toolCalls |-> n, stopped |-> FALSE]
      BY <2>1, <3>1
    <3>3. Restored = [revision |-> r + 1, used |-> u, reserved |-> v, toolCalls |-> n,
                      stopped |-> TRUE]
      BY <3>1, <3>2 DEF Stopped, Bumped
    <3> QED BY <3>2, <3>3
  <2> QED BY <2>2, <2>3
<1>6. Covers(durable)' /\ Covers(ledger)'
  BY <1>1, <1>2, <1>3, <1>4, <1>5 DEF Covers
<1>7. ASSUME NEW i \in DOMAIN queue' PROVE Covers(queue[i])'
  <2>1. queue'[i] = Restored
    BY <1>1
  <2> QED BY <1>1, <1>6, <2>1 DEF Covers
<1>8. Amounts' /\ \A c \in Calls : call'[c].at # "reserving"
  BY <1>1 DEF Amounts, IdleCall
<1> QED BY <1>1, <1>2, <1>4, <1>6, <1>7, <1>8 DEF RequestsAreCovered, BudgetAssumption

LEMMA CoveredInit ==
    ASSUME BudgetAssumption, Init
    PROVE  RequestsAreCovered
<1>1. \A v : Open(call, v) = 0 /\ IsFiniteSet(Tokens(call, v))
  <2>1. ASSUME NEW v PROVE Tokens(call, v) = {}
    <3>1. \A c \in Calls : OpenOf(call[c], v) = 0
      BY DEF Init, OpenOf, IdleCall
    <3>2. 1..0 = {}
      OBVIOUS
    <3> QED BY <3>1, <3>2 DEF Tokens
  <2> QED BY <2>1, FS_EmptySet DEF Open
<1>2. Amounts /\ \A c \in Calls : call[c].at # "reserving"
  BY DEF Init, Amounts, IdleCall
<1>3. Fresh.used = 0 /\ Fresh.reserved = 0
  BY DEF Fresh
<1>4. spent = 0 /\ ledger = Fresh /\ durable = Fresh /\ DOMAIN queue = {}
  BY DEF Init
<1> QED BY <1>1, <1>2, <1>3, <1>4 DEF RequestsAreCovered, Covers, BudgetAssumption

\* In every snapshot a life may start from, what all the lives and the requests
\* under way use is accounted for (RunBudgetLedger, checkpoint before dispatch).
THEOREM RequestsCovered == Spec => []RequestsAreCovered
<1>1. Init => RequestsAreCovered
  BY CoveredInit, BudgetAssumption
<1>2. BudgetInv /\ RequestsAreCovered /\ [Next]_vars => RequestsAreCovered'
  BY CallStepCovered, OtherStepCovered, SinkCovered, CrashCovered, BudgetAssumption DEF Next
<1> QED BY <1>1, <1>2, BudgetInvariant, PTL DEF Spec

\* Over all the lives of a run the providers use no more of their reservations
\* than maxTotalTokens (reserveModelCall, commit, recoverRunBudgetSnapshot).
THEOREM TokensStayWithinLimit == Spec => []SpentWithinLimit
<1>1. BudgetInv /\ RequestsAreCovered => SpentWithinLimit
  <2> SUFFICES ASSUME BudgetInv, RequestsAreCovered PROVE SpentWithinLimit
    OBVIOUS
  <2>1. ledger.revision \in Nat
    BY SnapshotTotals DEF BudgetInv, Types
  <2>2. Open(call, ledger.revision) \in Nat /\ spent \in Nat
        /\ spent + Open(call, ledger.revision) <= MaxTokens
    BY <2>1, OpenSoFar DEF RequestsAreCovered
  <2> QED BY <2>2, BudgetAssumption DEF SpentWithinLimit, BudgetAssumption
<1> QED BY <1>1, BudgetInvariant, RequestsCovered, PTL
============================================================================
