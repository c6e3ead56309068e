------------------------ MODULE DurablePromptProofs ------------------------
(* One prompt for every number of hosts, sends, recoveries, interrupts and   *)
(* budget checkpoints: its outbox keeps its invariant among these callers,   *)
(* the stream has the one outcome the inbox holds, senders are told it, and  *)
(* no attempt forgets what an earlier one has spent.                         *)
EXTENDS DurablePrompt, OutboxProofs, FiniteSetTheorems, WellFoundedInduction

Unclaimed == {"idle", "claiming", "peeking", "joining", "waiting", "relaying",
              "reconciling", "flushing", "recovering"}

Holding == {"announcing", "reannouncing", "starting", "budgeting", "driving", "driven",
            "yielding", "finishing", "telling", "catching", "retelling", "abandoning"}

ActorPlaces == Unclaimed \cup Holding \cup Ended \cup {"cancelling", "notifying"}

Verdicts == {"none", "unpublished", "interrupted", "orphaned", "timeout", "lost"} \cup Terminal

ActorState == [at : ActorPlaces, held : Nat, verdict : Verdicts, rev : Nat, cut : BOOLEAN]

PromptTypes ==
    /\ status \in {"none", "accepted", "running"} \cup Terminal
    /\ token \in Nat /\ live \in BOOLEAN
    /\ host \in [Hosts -> {"up", "down", "dead"}]
    /\ active \in [Hosts -> Nat]
    /\ interrupted \in [Hosts -> BOOLEAN]
    /\ actor \in [Actors -> ActorState]

\* A driver claims once, and no two were given one token: tokens count drivers.
Claimants == {a \in Drivers : actor[a].held # 0}

TokensCountClaims ==
    /\ token = Cardinality(Claimants)
    /\ \A a \in Drivers : actor[a].held <= token
    /\ \A a, b \in Drivers : actor[a].held = actor[b].held /\ actor[a].held # 0 => a = b

\* A terminal event is published, or about to be, only for the status it names.
OutcomeIsEvidence ==
    \A s \in Terminal :
        /\ outbox[TerminalKey(s)] # "none" => status = s
        /\ \A c \in Callers : call[c].want = TerminalKey(s) => status = s

\* Checkpoints come into the stream with their commit and never wait for a call.
CheckpointsAreCommitted ==
    \A r \in 1..MaxRevision :
        /\ outbox[BudgetKey(r)] # "pending"
        /\ \A c \in Callers : call[c].want # BudgetKey(r) /\ call[c].taken # BudgetKey(r)

\* What the place of a driver says of its claim, its call, the row and the stream.
DriverKnows(a) ==
    /\ actor[a].at \in Unclaimed => actor[a].held = 0
    /\ actor[a].at \in Holding => actor[a].held # 0
    /\ actor[a].at \in Unclaimed \cup {"announcing", "reannouncing", "starting"} =>
          actor[a].rev = 0
    /\ actor[a].at \in {"driven", "yielding", "finishing"} =>
          actor[a].verdict \in {"completed", "failed"}
    /\ actor[a].at \in {"relaying", "telling"} =>
          actor[a].verdict \in Terminal /\ call[a].want = TerminalKey(actor[a].verdict)
    /\ actor[a].at \in {"reconciling", "flushing", "recovering", "reannouncing"} =>
          a \in Recoveries
    /\ a \in Sends /\ actor[a].at = "returned" =>
          /\ status \in Terminal /\ status = actor[a].verdict
          /\ Recorded(TerminalKey(status))

\* What a driver knows of the budget: the first claim starts with an empty
\* stream, and a drive that may still act knows the last checkpoint.
DriverCounts(a) ==
    /\ actor[a].at \in {"announcing", "reannouncing", "starting"} /\ actor[a].held = 1
          /\ token = 1 => Revisions = {}
    /\ actor[a].at = "driving" /\ Owned(a) => actor[a].rev = RecoverBudget

PromptInv ==
    /\ OutboxInv
    /\ PromptTypes
    /\ TokensCountClaims
    /\ OutcomeIsEvidence
    /\ CheckpointsAreCommitted
    /\ \A a \in Drivers : DriverKnows(a) /\ DriverCounts(a)
    /\ token = 0 => Revisions = {}
    /\ BudgetIsAccounted

----------------------------------------------------------------------------
(* Keys and revisions. *)

\* Every nonempty set of revisions has a last one.
LEMMA Least ==
    ASSUME NEW S, S \subseteq Nat, S # {}
    PROVE  \E x \in S : \A y \in S : x <= y
<1>1. PICK x \in S : \A y \in S : ~(<<y, x>> \in OpToRel(<, Nat))
  BY NatLessThanWellFounded, WFMin, Zenon
<1>2. \A y \in S : ~(y < x)
  BY <1>1 DEF OpToRel
<1> QED BY <1>2

LEMMA LastOf ==
    ASSUME NEW S, S \subseteq 1..MaxRevision, S # {}
    PROVE  \E x \in S : \A y \in S : y <= x
<1> DEFINE T == {n \in Nat : \E x \in S : n = MaxRevision - x}
<1>1. T # {}
  <2>1. PICK x \in S : TRUE
    OBVIOUS
  <2>2. MaxRevision - x \in T
    BY <2>1, PromptAssumption
  <2> QED BY <2>2
<1>2. PICK n \in T : \A m \in T : n <= m
  <2> HIDE DEF T
  <2>1. T \subseteq Nat
    BY DEF T
  <2> QED BY <1>1, <2>1, Least
<1>3. PICK x \in S : n = MaxRevision - x
  BY <1>2
<1>4. ASSUME NEW y \in S PROVE y <= x
  <2>1. MaxRevision - y \in T
    BY PromptAssumption
  <2>2. MaxRevision - x <= MaxRevision - y
    BY <1>2, <1>3, <2>1
  <2> QED BY <2>2, PromptAssumption
<1> QED BY <1>4

LEMMA ChosenIsLast ==
    ASSUME NEW S, S \subseteq 1..MaxRevision, S # {},
           NEW m, m = CHOOSE r \in S : \A s \in S : s <= r
    PROVE  m \in S /\ \A s \in S : s <= m
<1>1. \E r \in S : \A s \in S : s <= r
  BY LastOf
<1> QED BY <1>1

LEMMA BudgetFound ==
    /\ Revisions \subseteq 1..MaxRevision /\ RecoverBudget \in Nat
    /\ Revisions = {} => RecoverBudget = 0
    /\ Revisions # {} => RecoverBudget \in Revisions
    /\ \A r \in Revisions : r <= RecoverBudget
<1>1. Revisions \subseteq 1..MaxRevision
  BY DEF Revisions
<1>2. CASE Revisions = {}
  BY <1>2 DEF RecoverBudget, Revisions
<1>3. CASE Revisions # {}
  <2>1. RecoverBudget = CHOOSE r \in Revisions : \A s \in Revisions : s <= r
    BY <1>3 DEF RecoverBudget
  <2>2. RecoverBudget \in Revisions /\ \A s \in Revisions : s <= RecoverBudget
    BY <1>1, <1>3, <2>1, ChosenIsLast
  <2>3. RecoverBudget \in Nat
    BY <1>1, <2>2, PromptAssumption
  <2> QED BY <1>1, <1>3, <2>2, <2>3
<1> QED BY <1>2, <1>3

LEMMA KeyFacts ==
    /\ AcceptedKey \in Keys
    /\ \A t \in 1..Cardinality(Drivers) : RecoveredKey(t) \in Keys
    /\ \A s \in Terminal : TerminalKey(s) \in Keys
    /\ \A r \in 1..MaxRevision : BudgetKey(r) \in Keys
    /\ \A s \in Terminal : TerminalKey(s) # AcceptedKey
    /\ \A s \in Terminal, t \in 1..Cardinality(Drivers) : TerminalKey(s) # RecoveredKey(t)
    /\ \A s \in Terminal, r \in 1..MaxRevision : TerminalKey(s) # BudgetKey(r)
    /\ \A s, t \in Terminal : TerminalKey(s) = TerminalKey(t) => s = t
    /\ \A r \in 1..MaxRevision : BudgetKey(r) # AcceptedKey
    /\ \A r \in 1..MaxRevision, t \in 1..Cardinality(Drivers) : BudgetKey(r) # RecoveredKey(t)
    /\ \A r, q \in 1..MaxRevision : BudgetKey(r) = BudgetKey(q) => r = q
<1>1. Keys = PromptKeys
  BY PromptAssumption
<1> QED
  BY <1>1 DEF PromptKeys, AcceptedKey, RecoveredKey, TerminalKey, BudgetKey, Terminal

LEMMA KeyShapes ==
    ASSUME NEW k \in Keys
    PROVE  /\ k[1] = "budget" => \E r \in 1..MaxRevision : k = BudgetKey(r) /\ k[2] = r
           /\ k[1] \in Terminal => \E s \in Terminal : k = TerminalKey(s)
<1>1. k \in PromptKeys
  BY PromptAssumption
<1> QED
  BY <1>1 DEF PromptKeys, AcceptedKey, RecoveredKey, TerminalKey, BudgetKey, Terminal

----------------------------------------------------------------------------
(* The calls of the outbox. *)

\* What a step inside a call does to what the prompt knows of the outbox.
CallMoves ==
    /\ \A c \in Callers : call'[c].want = call[c].want
    /\ \A c \in Callers : \/ call'[c].taken = call[c].taken \/ call'[c].taken = NoKey
                          \/ call'[c].taken \in Keys /\ outbox[call'[c].taken] = "pending"
    /\ \A k \in Keys : \/ outbox'[k] = outbox[k]
                       \/ outbox[k] = "none" /\ \E c \in Callers : call[c].want = k
                       \/ outbox[k] = "pending" /\ outbox'[k] = "sent"
    /\ \/ log' = log
       \/ \E c \in Callers : call[c].taken \in Keys /\ log' = Append(log, call[c].taken)

LEMMA CallStepMoves ==
    ASSUME OutboxInv, NEW c \in Callers, CallStep(c) \/ StoreFails(c)
    PROVE  CallMoves
<1>1. call \in [Callers -> Records] /\ outbox \in [Keys -> {"none", "pending", "sent"}]
  BY DEF OutboxInv, OutboxTypeOK, Records
<1>2. ASSUME NEW where, Goto(c, where)
      PROVE  \A d \in Callers : call'[d].want = call[d].want /\ call'[d].taken = call[d].taken
  BY <1>1, <1>2 DEF Goto, Records
<1>3. CASE InsertMessage(c)
  BY <1>1, <1>2, <1>3 DEF InsertMessage, CallMoves
<1>4. CASE ClaimMessage(c)
  <2>1. PICK i \in DOMAIN rows :
           /\ Claimable(rows[i])
           /\ call' = [call EXCEPT ![c] = [@ EXCEPT !.at = "recording", !.taken = rows[i],
                                                   !.ticket = msgToken[rows[i]] + 1]]
    BY <1>4 DEF ClaimMessage
  <2>2. rows[i] \in Keys
    BY DEF OutboxInv, OutboxTypeOK
  <2>3. call'[c].want = call[c].want /\ call'[c].taken = rows[i]
    BY <1>1, <2>1 DEF Records
  <2>4. \A d \in Callers : d # c => call'[d] = call[d]
    BY <1>1, <2>1
  <2>5. outbox' = outbox /\ log' = log
    BY <1>4 DEF ClaimMessage
  <2> QED BY <2>1, <2>2, <2>3, <2>4, <2>5 DEF CallMoves, Claimable
<1>5. CASE NothingPending(c) \/ MarkFailed(c) \/ LookUp(c) \/ StoreFails(c)
  <2>1. UNCHANGED <<outbox, log>>
    BY <1>5 DEF NothingPending, MarkFailed, LookUp, StoreFails
  <2>2. \E where : Goto(c, where)
    BY <1>5 DEF NothingPending, MarkFailed, LookUp, StoreFails
  <2> QED BY <1>2, <2>1, <2>2 DEF CallMoves
<1>6. CASE RecordEvent(c)
  <2>1. call[c].taken \in Keys
    BY <1>6 DEF RecordEvent, OutboxInv, OutboxTypeOK, CallsKnowTheirMessage, At, Delivering
  <2>2. log' = log \/ log' = Append(log, call[c].taken)
    BY <1>6 DEF RecordEvent, AppendEvent
  <2>3. \E where : Goto(c, where)
    BY <1>6 DEF RecordEvent
  <2>4. outbox' = outbox
    BY <1>6 DEF RecordEvent
  <2> QED BY <1>2, <2>1, <2>2, <2>3, <2>4 DEF CallMoves
<1>7. CASE MarkSent(c)
  <2>1. log' = log
    BY <1>7 DEF MarkSent
  <2>2. CASE OwnsMessage(c) /\ outbox' = [outbox EXCEPT ![call[c].taken] = "sent"]
    <3>1. PICK own \in BOOLEAN :
             call' = [call EXCEPT ![c] = [@ EXCEPT !.at = "claiming", !.taken = NoKey,
                                                   !.ticket = 0, !.own = own]]
      <4>1. CASE call[c].own \/ call[c].taken = call[c].want
        BY <1>7, <2>2, <4>1 DEF MarkSent
      <4>2. CASE ~(call[c].own \/ call[c].taken = call[c].want)
        BY <1>7, <2>2, <4>2 DEF MarkSent
      <4> QED BY <4>1, <4>2
    <3>2. call'[c].want = call[c].want /\ call'[c].taken = NoKey
      BY <1>1, <3>1 DEF Records
    <3>3. \A d \in Callers : d # c => call'[d] = call[d]
      BY <1>1, <3>1
    <3>4. \A k \in Keys : outbox'[k] = outbox[k] \/ (outbox[k] = "pending" /\ outbox'[k] = "sent")
      <4>1. PICK t : t = call[c].taken
        OBVIOUS
      <4>2. outbox[t] = "pending"
        BY <2>2, <4>1 DEF OwnsMessage
      <4> QED BY <1>1, <2>2, <4>1, <4>2
    <3> QED BY <2>1, <3>2, <3>3, <3>4 DEF CallMoves
  <2>3. CASE outbox' = outbox /\ Goto(c, "failing")
    BY <1>2, <2>1, <2>3 DEF CallMoves
  <2> QED BY <1>7, <2>2, <2>3 DEF MarkSent
<1> QED BY <1>3, <1>4, <1>5, <1>6, <1>7 DEF CallStep

----------------------------------------------------------------------------
(* What a step does to the drivers that do not move. *)

SameDriver(a) ==
    /\ actor'[a].at = actor[a].at /\ actor'[a].held = actor[a].held
    /\ actor'[a].verdict = actor[a].verdict /\ actor'[a].rev = actor[a].rev

\* An outcome stays, and so does what the stream has.
OutcomeStays == status \in Terminal => status' = status

StreamStays == \A k \in Keys : Recorded(k) => Recorded(k)'

LEMMA OthersKnow ==
    ASSUME PromptInv, NEW a \in Drivers, SameDriver(a), call'[a].want = call[a].want,
           OutcomeStays, StreamStays
    PROVE  DriverKnows(a)'
<1>1. DriverKnows(a)
  BY DEF PromptInv
<1>2. \A s \in Terminal : Recorded(TerminalKey(s)) => Recorded(TerminalKey(s))'
  BY KeyFacts DEF StreamStays
<1>3. a \in Sends /\ actor[a].at = "returned" =>
         /\ status' \in Terminal /\ status' = actor[a].verdict
         /\ Recorded(TerminalKey(status))'
  <2> SUFFICES ASSUME a \in Sends, actor[a].at = "returned"
               PROVE  /\ status' \in Terminal /\ status' = actor[a].verdict
                      /\ Recorded(TerminalKey(status))'
    OBVIOUS
  <2>1. /\ status \in Terminal /\ status = actor[a].verdict
        /\ Recorded(TerminalKey(status))
    BY <1>1 DEF DriverKnows
  <2>2. status' = status
    BY <2>1 DEF OutcomeStays
  <2> QED BY <1>2, <2>1, <2>2 DEF Recorded, TerminalKey
<1> QED BY <1>1, <1>3 DEF DriverKnows, SameDriver

LEMMA OthersCount ==
    ASSUME PromptInv, NEW a \in Drivers, SameDriver(a), Owned(a)' => Owned(a),
           token' \in {token, token + 1},
           Revisions' = Revisions \/ actor[a].held # token
    PROVE  DriverCounts(a)'
<1>1. DriverCounts(a) /\ actor[a].held <= token /\ token \in Nat
  BY DEF PromptInv, TokensCountClaims, PromptTypes
<1>2. a \in Actors /\ actor[a].held \in Nat
  BY DEF PromptInv, PromptTypes, Actors, ActorState
<1>3. CASE token' = token + 1
  <2>1. ~Owned(a)'
    BY <1>1, <1>2, <1>3 DEF Owned, Leased, SameDriver
  <2>2. token' = 1 /\ actor[a].held = 1 => FALSE
    BY <1>1, <1>3
  <2> QED BY <2>1, <2>2 DEF DriverCounts, SameDriver
<1>4. CASE token' = token /\ actor[a].held # token
  <2>1. ~Owned(a)'
    BY <1>4 DEF Owned, Leased, SameDriver
  <2> QED BY <1>4, <2>1 DEF DriverCounts, SameDriver
<1>5. CASE token' = token /\ Revisions' = Revisions
  <2>1. RecoverBudget' = RecoverBudget
    BY <1>5 DEF RecoverBudget
  <2> QED BY <1>1, <1>5, <2>1 DEF DriverCounts, SameDriver
<1> QED BY <1>3, <1>4, <1>5

\* The tokens, when no driver claims.
LEMMA NobodyClaims ==
    ASSUME PromptInv, UNCHANGED token, \A a \in Drivers : actor'[a].held = actor[a].held
    PROVE  TokensCountClaims'
<1>1. Claimants' = Claimants
  BY DEF Claimants
<1> QED BY <1>1 DEF PromptInv, TokensCountClaims

\* The stream, when the log does not move.
LEMMA LogUnmoved ==
    ASSUME UNCHANGED log
    PROVE  Revisions' = Revisions /\ StreamStays
BY DEF Revisions, StreamStays, Recorded

----------------------------------------------------------------------------
(* Steps that leave the table and the stream alone. *)

Tables == <<rows, outbox, msgToken, msgOwner, msgLive, log>>

\* The caller a begins or ends a call, and publishes no outcome but the one the
\* row then holds, and no checkpoint.
Starts(a) ==
    \/ call' = call
    \/ /\ a \in Callers
       /\ \E r \in Anew :
             /\ call' = [call EXCEPT ![a] = r]
             /\ \A s \in Terminal : r.want = TerminalKey(s) => status' = s
             /\ \A q \in 1..MaxRevision : r.want # BudgetKey(q)

LEMMA Wants ==
    /\ Idle.want = NoKey /\ Flushing.want = NoKey
    /\ \A k : Publishing(k).want = k
    /\ \A r \in Anew : r.taken = NoKey
<1>1. Idle.want = NoKey /\ Idle.taken = NoKey
  BY DEF Idle
<1>2. Flushing.want = NoKey /\ Flushing.taken = NoKey
  BY DEF Flushing, Idle
<1>3. ASSUME NEW k PROVE Publishing(k).want = k /\ Publishing(k).taken = NoKey
  BY DEF Publishing, Idle
<1> QED BY <1>1, <1>2, <1>3 DEF Anew

\* The calls an actor begins.
LEMMA Beginning ==
    ASSUME PromptInv, NEW a \in Actors
    PROVE  /\ Begin(a, Idle) \/ Begin(a, Flushing) => Starts(a)
           /\ Publishes(a, AcceptedKey) => Starts(a)
           /\ \A t \in 1..Cardinality(Drivers) : Publishes(a, RecoveredKey(t)) => Starts(a)
           /\ \A s \in Terminal : Publishes(a, TerminalKey(s)) /\ status' = s =>
                 Starts(a) /\ call'[a].want = TerminalKey(s)
<1>1. a \in Callers /\ call \in [Callers -> Records]
  BY PromptAssumption DEF PromptInv, OutboxInv, OutboxTypeOK, Records
<1>2. /\ \A s \in Terminal : NoKey # TerminalKey(s)
      /\ \A q \in 1..MaxRevision : NoKey # BudgetKey(q)
  BY KeyFacts, OutboxAssumption
<1>3. ASSUME NEW r \in Anew, Begin(a, r), r.want = NoKey
      PROVE  Starts(a)
  BY <1>1, <1>2, <1>3 DEF Starts, Begin
<1>4. ASSUME NEW k \in Keys, Publishes(a, k),
             \A s \in Terminal : k = TerminalKey(s) => status' = s,
             \A q \in 1..MaxRevision : k # BudgetKey(q)
      PROVE  Starts(a) /\ call'[a].want = k
  <2>1. Publishing(k) \in Anew /\ Publishing(k).want = k
    BY Wants DEF Anew
  <2>2. call' = [call EXCEPT ![a] = Publishing(k)]
    BY <1>4 DEF Publishes, Begin
  <2>3. call'[a] = Publishing(k)
    BY <1>1, <2>2
  <2> QED BY <1>1, <1>4, <2>1, <2>2, <2>3 DEF Starts
<1>5. Begin(a, Idle) \/ Begin(a, Flushing) => Starts(a)
  BY <1>3, Wants DEF Anew
<1>6. Publishes(a, AcceptedKey) => Starts(a)
  BY <1>4, KeyFacts
<1>7. ASSUME NEW t \in 1..Cardinality(Drivers), Publishes(a, RecoveredKey(t)) PROVE Starts(a)
  BY <1>4, <1>7, KeyFacts
<1>8. ASSUME NEW s \in Terminal, Publishes(a, TerminalKey(s)), status' = s
      PROVE  Starts(a) /\ call'[a].want = TerminalKey(s)
  BY <1>4, <1>8, KeyFacts
<1> QED BY <1>5, <1>6, <1>7, <1>8

\* An actor moves, with its own call and the row of the command.
LEMMA ActorKeeps ==
    ASSUME PromptInv, UNCHANGED Tables, UNCHANGED mishaps \/ Mishap,
           NEW a, Starts(a), PromptTypes', TokensCountClaims',
           OutcomeStays, token' \in {token, token + 1},
           \A b \in Drivers : b # a => SameDriver(b) /\ (Owned(b)' => Owned(b)),
           a \in Drivers => DriverKnows(a)' /\ DriverCounts(a)'
    PROVE  PromptInv'
<1>1. UNCHANGED <<rows, outbox, msgToken, msgOwner, msgLive, log>>
  BY DEF Tables
<1>2. call \in [Callers -> Records]
  BY DEF PromptInv, OutboxInv, OutboxTypeOK, Records
<1>3. OutboxInv'
  <2>1. CASE call' = call
    <3>1. OutboxTypeOK'
      BY <1>1, <2>1, OutboxAssumption DEF PromptInv, OutboxInv, OutboxTypeOK, Mishap
    <3> QED BY <1>1, <2>1, <3>1 DEF PromptInv, OutboxInv, OutboxTypeOK, RowsAreKeyed, EventsAreUnique, SentIsRecorded,
              CallsKnowTheirMessage, TicketsDiffer, PublishedIsRecorded, Recorded, Delivering
  <2>2. CASE a \in Callers /\ \E r \in Anew : call' = [call EXCEPT ![a] = r]
    BY <1>1, <2>2, BeginInv DEF PromptInv
  <2> QED BY <2>1, <2>2 DEF Starts
<1>4. \A c \in Callers : call'[c] = call[c] \/
         /\ call'[c].taken = NoKey
         /\ \A s \in Terminal : call'[c].want = TerminalKey(s) => status' = s
         /\ \A q \in 1..MaxRevision : call'[c].want # BudgetKey(q)
  BY <1>2, Wants DEF Starts
<1>5. OutcomeIsEvidence'
  BY <1>1, <1>4 DEF PromptInv, OutcomeIsEvidence, OutcomeStays, TerminalKey
<1>6. CheckpointsAreCommitted'
  <2>1. \A q \in 1..MaxRevision : NoKey # BudgetKey(q)
    BY KeyFacts, OutboxAssumption
  <2> QED BY <1>1, <1>4, <2>1 DEF PromptInv, CheckpointsAreCommitted, BudgetKey
<1>7. Revisions' = Revisions /\ StreamStays
  BY <1>1, LogUnmoved
<1>8. ASSUME NEW b \in Drivers PROVE DriverKnows(b)' /\ DriverCounts(b)'
  <2>1. CASE b = a
    BY <2>1
  <2>2. CASE b # a
    <3>1. call'[b] = call[b]
      BY <1>2, <2>2, PromptAssumption DEF Starts, Actors
    <3> QED BY <1>7, <2>2, <3>1, OthersKnow, OthersCount
  <2> QED BY <2>1, <2>2
<1>9. token' = 0 => Revisions' = {}
  BY <1>7 DEF PromptInv, PromptTypes
<1>10. BudgetIsAccounted'
  BY <1>1 DEF PromptInv, BudgetIsAccounted
<1> QED BY <1>3, <1>5, <1>6, <1>8, <1>9, <1>10 DEF PromptInv

----------------------------------------------------------------------------
(* Steps of a driver that leave the row of the command alone. *)

\* The driver a goes to x with the verdict v.
Goes(a, x, v) ==
    /\ actor' \in [Actors -> ActorState]
    /\ \A b \in Actors : b # a => actor'[b] = actor[b]
    /\ actor'[a].at = x /\ actor'[a].verdict = v
    /\ actor'[a].held = actor[a].held /\ actor'[a].rev = actor[a].rev

LEMMA PlaceMoves ==
    ASSUME PromptInv, NEW a \in Actors, NEW x \in ActorPlaces, Move(a, x)
    PROVE  Goes(a, x, actor[a].verdict)
<1>1. actor \in [Actors -> ActorState]
  BY DEF PromptInv, PromptTypes
<1> QED BY <1>1 DEF Move, Goes, ActorState

LEMMA VerdictMoves ==
    ASSUME PromptInv, NEW a \in Actors, NEW x \in ActorPlaces, NEW v \in Verdicts,
           actor' = [actor EXCEPT ![a].at = x, ![a].verdict = v]
    PROVE  Goes(a, x, v)
<1>1. actor \in [Actors -> ActorState]
  BY DEF PromptInv, PromptTypes
<1> DEFINE r == [actor[a] EXCEPT !.at = x]
           s == [r EXCEPT !.verdict = v]
<1>2. r \in ActorState /\ r.at = x /\ r.held = actor[a].held /\ r.rev = actor[a].rev
  BY <1>1 DEF ActorState
<1>3. actor' = [actor EXCEPT ![a] = s]
  BY <1>1
<1> HIDE DEF r
<1>4. s \in ActorState /\ s.at = x /\ s.verdict = v /\ s.held = r.held /\ s.rev = r.rev
  BY <1>2 DEF ActorState
<1> HIDE DEF s
<1> QED BY <1>1, <1>2, <1>3, <1>4 DEF Goes

\* Where a driver may go without a claim and with no look at the budget.
Fits(a, x, v) ==
    /\ x \notin {"announcing", "reannouncing", "driving"}
    /\ x \in Unclaimed => actor[a].at \in Unclaimed
    /\ x \in Holding => actor[a].at \in Holding
    /\ x = "starting" => actor[a].at \in {"announcing", "reannouncing"}
    /\ x \in {"driven", "yielding", "finishing"} => v \in {"completed", "failed"}
    /\ x \in {"relaying", "telling"} => v \in Terminal /\ call'[a].want = TerminalKey(v)
    /\ x \in {"reconciling", "flushing", "recovering"} => a \in Recoveries
    /\ a \in Sends /\ x = "returned" =>
          status \in Terminal /\ status = v /\ Recorded(TerminalKey(status))

\* The maps of a host, whatever a driver does to them.
HostsTyped ==
    /\ host' = host
    /\ active' \in [Hosts -> Nat]
    /\ interrupted' \in [Hosts -> BOOLEAN]

LEMMA RowKeeps ==
    ASSUME PromptInv, UNCHANGED Tables, UNCHANGED mishaps \/ Mishap, UNCHANGED commandVars,
           HostsTyped, NEW a \in Drivers, Starts(a), actor' \in [Actors -> ActorState],
           \A b \in Actors : b # a => actor'[b] = actor[b],
           actor'[a].held = actor[a].held, DriverKnows(a)', DriverCounts(a)'
    PROVE  PromptInv'
<1>1. UNCHANGED <<status, token, owner, live>>
  BY DEF commandVars
<1>2. PromptTypes'
  BY <1>1 DEF PromptInv, PromptTypes, HostsTyped
<1>3. \A b \in Drivers : actor'[b].held = actor[b].held
  BY DEF Actors
<1>4. TokensCountClaims'
  BY <1>1, <1>3, NobodyClaims
<1>5. \A b \in Drivers : b # a => SameDriver(b) /\ (Owned(b)' => Owned(b))
  BY <1>1 DEF Actors, SameDriver, Owned, Leased
<1>6. OutcomeStays /\ token' \in {token, token + 1}
  BY <1>1 DEF OutcomeStays
<1> QED BY <1>2, <1>4, <1>5, <1>6, ActorKeeps

LEMMA MoveKeeps ==
    ASSUME PromptInv, UNCHANGED Tables, UNCHANGED mishaps \/ Mishap, UNCHANGED commandVars,
           HostsTyped, NEW a \in Drivers, Starts(a),
           NEW x, NEW v, Goes(a, x, v), Fits(a, x, v)
    PROVE  PromptInv'
<1>1. UNCHANGED <<status, token, log>>
  BY DEF commandVars, Tables
<1>2. DriverKnows(a) /\ DriverCounts(a)
  BY DEF PromptInv
<1>3. Revisions' = Revisions
  BY <1>1, LogUnmoved
<1>4. DriverCounts(a)'
  BY <1>1, <1>2, <1>3 DEF DriverCounts, Goes, Fits
<1>5. DriverKnows(a)'
  <2>1. x \in Unclaimed => actor[a].held = 0
    BY <1>2 DEF DriverKnows, Fits
  <2>2. x \in Holding => actor[a].held # 0
    BY <1>2 DEF DriverKnows, Fits
  <2>3. x \in Unclaimed \cup {"announcing", "reannouncing", "starting"} => actor[a].rev = 0
    BY <1>2 DEF DriverKnows, Fits
  <2>4. Recorded(TerminalKey(status)) => Recorded(TerminalKey(status))'
    BY <1>1 DEF Recorded, TerminalKey
  <2> QED BY <1>1, <2>1, <2>2, <2>3, <2>4 DEF DriverKnows, Goes, Fits
<1> QED BY <1>4, <1>5, RowKeeps DEF Goes

LEMMA DriverGoes ==
    ASSUME PromptInv, UNCHANGED <<Calls, commandVars, hostVars>>, NEW a \in Drivers, Starts(a),
           NEW x \in ActorPlaces, NEW v \in Verdicts, Fits(a, x, v),
           \/ Move(a, x) /\ v = actor[a].verdict
           \/ actor' = [actor EXCEPT ![a].at = x, ![a].verdict = v]
    PROVE  PromptInv'
<1>1. UNCHANGED Tables /\ UNCHANGED mishaps /\ UNCHANGED commandVars
  BY DEF Calls, Tables
<1>2. HostsTyped
  BY DEF hostVars, HostsTyped, PromptInv, PromptTypes
<1>3. a \in Actors
  BY DEF Actors
<1>4. Goes(a, x, v)
  BY <1>3, PlaceMoves, VerdictMoves
<1> QED BY <1>1, <1>2, <1>4, MoveKeeps

\* The call of an actor, and the types of what it moves.
LEMMA DriverTypes ==
    ASSUME PromptInv, NEW a \in Drivers
    PROVE  /\ a \in Actors /\ a \in Callers /\ actor[a].verdict \in Verdicts
           /\ Terminal \subseteq Verdicts
           /\ call' = call => Starts(a)
           /\ DriverKnows(a)
<1>1. a \in Actors /\ a \in Callers
  BY PromptAssumption DEF Actors
<1>2. actor[a].verdict \in Verdicts
  BY <1>1 DEF PromptInv, PromptTypes, ActorState
<1> QED BY <1>1, <1>2 DEF PromptInv, Starts, Verdicts

\* A publish that succeeded leaves the outcome it was about in the stream.
LEMMA OutcomeIsTold ==
    ASSUME PromptInv, NEW a \in Drivers, actor[a].at \in {"relaying", "telling"}, Succeeded(a)
    PROVE  /\ status \in Terminal /\ status = actor[a].verdict
           /\ Recorded(TerminalKey(status))
<1>1. actor[a].verdict \in Terminal /\ call[a].want = TerminalKey(actor[a].verdict)
  BY DriverTypes DEF DriverKnows
<1>2. status = actor[a].verdict
  BY <1>1, DriverTypes DEF PromptInv, OutcomeIsEvidence
<1>3. call[a].want # NoKey
  BY <1>1, KeyFacts, OutboxAssumption
<1>4. Recorded(call[a].want)
  BY <1>3, DriverTypes DEF PromptInv, OutboxInv, PublishedIsRecorded, Succeeded
<1> QED BY <1>1, <1>2, <1>4

\* The sends that join: the readings of the row and of what was published.
LEMMA JoinerKeeps ==
    ASSUME PromptInv, NEW a \in Drivers, Peek(a) \/ Joined(a) \/ Wait(a) \/ Relayed(a)
    PROVE  PromptInv'
<1> USE DriverTypes DEF Is, Unclaimed, Holding, Ended
<1>a. UNCHANGED <<Calls, commandVars, hostVars>> /\ status' = status
  BY DEF Peek, Joined, Wait, Relayed, commandVars
<1>b. {"joining", "waiting", "relaying", "threw", "returned"} \subseteq ActorPlaces
  BY DEF ActorPlaces
<1>c. Begin(a, Idle) => Starts(a)
  BY Beginning
<1>d. \A s \in Terminal : Publishes(a, TerminalKey(s)) /\ status = s =>
         Starts(a) /\ call'[a].want = TerminalKey(s)
  BY <1>a, Beginning
<1>1. CASE Peek(a)
  <2>1. CASE status \in Terminal
    <3>1. Fits(a, "joining", actor[a].verdict)
      BY <1>1 DEF Peek, Fits
    <3> QED BY <1>1, <1>a, <1>b, <1>d, <2>1, <3>1, DriverGoes DEF Peek
  <2>2. CASE status \notin Terminal
    <3>1. Fits(a, "waiting", actor[a].verdict)
      BY <1>1 DEF Peek, Fits
    <3> QED BY <1>1, <1>a, <1>b, <2>2, <3>1, DriverGoes DEF Peek
  <2> QED BY <2>1, <2>2
<1>2. CASE Joined(a)
  <2>1. Fits(a, "waiting", actor[a].verdict) /\ Fits(a, "threw", "unpublished")
    BY <1>2 DEF Joined, Fits
  <2>2. "unpublished" \in Verdicts
    BY DEF Verdicts
  <2> QED BY <1>2, <1>a, <1>b, <1>c, <2>1, <2>2, DriverGoes DEF Joined
<1>3. CASE Wait(a)
  <2>1. \A v : Fits(a, "threw", v)
    BY <1>3 DEF Wait, Fits
  <2>2. "interrupted" \in Verdicts /\ "orphaned" \in Verdicts
    BY DEF Verdicts
  <2>3. CASE status \in Terminal /\ Publishes(a, TerminalKey(status))
             /\ actor' = [actor EXCEPT ![a].at = "relaying", ![a].verdict = status]
    <3>1. Starts(a) /\ Fits(a, "relaying", status)
      BY <1>3, <1>d, <2>3 DEF Wait, Fits
    <3> QED BY <1>a, <1>b, <2>3, <3>1, DriverGoes
  <2> QED BY <1>3, <1>a, <1>b, <2>1, <2>2, <2>3, DriverGoes DEF Wait
<1>4. CASE Relayed(a)
  <2>1. CASE Succeeded(a) /\ Move(a, "returned") /\ actor[a].verdict = "completed"
    <3>1. Fits(a, "returned", actor[a].verdict)
      BY <1>4, <2>1, OutcomeIsTold DEF Relayed, Fits
    <3> QED BY <1>4, <1>a, <1>b, <1>c, <2>1, <3>1, DriverGoes DEF Relayed
  <2>2. CASE Move(a, "threw") \/ actor' = [actor EXCEPT ![a].at = "threw", ![a].verdict = "unpublished"]
    <3>1. \A v : Fits(a, "threw", v)
      BY <1>4 DEF Relayed, Fits
    <3>2. "unpublished" \in Verdicts
      BY DEF Verdicts
    <3> QED BY <1>4, <1>a, <1>b, <1>c, <2>2, <3>1, <3>2, DriverGoes DEF Relayed
  <2> QED BY <1>4, <2>1, <2>2 DEF Relayed
<1> QED BY <1>1, <1>2, <1>3, <1>4

\* A joiner whose deadline comes first.
LEMMA TimeoutKeeps ==
    ASSUME PromptInv, NEW a \in Drivers, WaitTimesOut(a)
    PROVE  PromptInv'
<1>1. Goes(a, "threw", "timeout")
  BY DriverTypes, VerdictMoves DEF WaitTimesOut, ActorPlaces, Ended, Verdicts
<1>2. Fits(a, "threw", "timeout")
  BY DEF WaitTimesOut, Fits, Unclaimed, Holding
<1>3. UNCHANGED Tables /\ UNCHANGED mishaps /\ UNCHANGED commandVars /\ UNCHANGED hostVars /\ call' = call
  BY DEF WaitTimesOut, Tables, outboxVars
<1>4. HostsTyped
  BY <1>3 DEF hostVars, HostsTyped, PromptInv, PromptTypes
<1> QED BY <1>1, <1>2, <1>3, <1>4, DriverTypes, MoveKeeps

\* The answer to the first event of a claim, and the scan up to its claim.
LEMMA ScanKeeps ==
    ASSUME PromptInv, NEW a \in Drivers,
           Announced(a) \/ Scan(a) \/ Reconciled(a) \/ Flushed(a) \/ Reannounced(a)
    PROVE  PromptInv'
<1> USE DriverTypes DEF Is, Unclaimed, Holding, Ended
<1>a. UNCHANGED <<Calls, commandVars, hostVars>> /\ status' = status
  BY DEF Announced, Scan, Reconciled, Flushed, Reannounced, commandVars
<1>b. {"catching", "starting", "reconciling", "flushing", "recovering", "threw", "leaked"}
         \subseteq ActorPlaces
  BY DEF ActorPlaces
<1>c. Begin(a, Idle) \/ Begin(a, Flushing) => Starts(a)
  BY Beginning
<1>d. \A s \in Terminal : Publishes(a, TerminalKey(s)) /\ status = s => Starts(a)
  BY <1>a, Beginning
<1>1. CASE Announced(a)
  <2>1. Fits(a, "catching", actor[a].verdict) /\ Fits(a, "starting", actor[a].verdict)
    BY <1>1 DEF Announced, Fits
  <2>2. PICK x \in {"catching", "starting"} : Move(a, x)
    BY <1>1 DEF Announced
  <2> QED BY <1>1, <1>a, <1>b, <1>c, <2>1, <2>2, DriverGoes DEF Announced
<1>2. CASE Scan(a)
  <2>1. Fits(a, "reconciling", actor[a].verdict) /\ Fits(a, "flushing", actor[a].verdict)
    BY <1>2 DEF Scan, Fits
  <2>2. \/ status \in Terminal /\ Publishes(a, TerminalKey(status)) /\ Move(a, "reconciling")
        \/ Begin(a, Flushing) /\ Move(a, "flushing")
    BY <1>2 DEF Scan
  <2> QED BY <1>a, <1>b, <1>c, <1>d, <2>1, <2>2, DriverGoes
<1>3. CASE Reconciled(a)
  <2>1. Fits(a, "flushing", actor[a].verdict) /\ Fits(a, "threw", actor[a].verdict)
    BY <1>3 DEF Reconciled, Fits, DriverKnows
  <2> QED BY <1>3, <1>a, <1>b, <1>c, <2>1, DriverGoes DEF Reconciled
<1>4. CASE Flushed(a)
  <2>1. Fits(a, "recovering", actor[a].verdict) /\ Fits(a, "threw", actor[a].verdict)
    BY <1>4 DEF Flushed, Fits, DriverKnows
  <2>2. PICK x \in {"recovering", "threw"} : Move(a, x)
    BY <1>4 DEF Flushed
  <2> QED BY <1>4, <1>a, <1>b, <1>c, <2>1, <2>2, DriverGoes DEF Flushed
<1>5. CASE Reannounced(a)
  <2>1. Fits(a, "starting", actor[a].verdict) /\ Fits(a, "leaked", actor[a].verdict)
    BY <1>5 DEF Reannounced, Fits
  <2> QED BY <1>5, <1>a, <1>b, <1>c, <2>1, DriverGoes DEF Reannounced
<1> QED BY <1>1, <1>2, <1>3, <1>4, <1>5

\* What a driver does about an interrupt of its host, once its run is over.
LEMMA LookKeeps ==
    ASSUME PromptInv, NEW a \in Drivers, actor[a].at \in {"driven", "yielding"},
           LookAfterInterrupt(a), UNCHANGED <<Calls, commandVars, hostVars>>
    PROVE  PromptInv'
<1> USE DriverTypes DEF Unclaimed, Holding, Ended
<1>1. {"telling", "finishing", "catching"} \subseteq ActorPlaces /\ "cancelled" \in Verdicts
  BY DEF ActorPlaces, Verdicts, Terminal
<1>2. status' = status
  BY DEF commandVars
<1>3. CASE status = "cancelled"
  <2>1. /\ Publishes(a, TerminalKey("cancelled"))
        /\ actor' = [actor EXCEPT ![a].at = "telling", ![a].verdict = "cancelled"]
    BY <1>3 DEF LookAfterInterrupt
  <2>2. Starts(a) /\ call'[a].want = TerminalKey("cancelled") /\ "cancelled" \in Terminal
    BY <1>2, <1>3, <2>1, Beginning DEF Terminal
  <2>3. Fits(a, "telling", "cancelled")
    BY <2>2 DEF Fits
  <2> QED BY <1>1, <2>1, <2>2, <2>3, DriverGoes
<1>4. CASE status # "cancelled"
  <2>1. PICK x \in {"finishing", "catching"} : Move(a, x) /\ call' = call
    BY <1>4 DEF LookAfterInterrupt
  <2>2. Fits(a, x, actor[a].verdict)
    BY DEF Fits, DriverKnows
  <2> QED BY <1>1, <2>1, <2>2, DriverGoes
<1> QED BY <1>3, <1>4

\* The end of a run, up to its settlement.
LEMMA EndKeeps ==
    ASSUME PromptInv, NEW a \in Drivers, DriveEnds(a) \/ Settle(a) \/ Yielded(a) \/ Catch(a)
    PROVE  PromptInv'
<1> USE DriverTypes DEF Is, Unclaimed, Holding, Ended
<1>a. UNCHANGED <<Calls, commandVars, hostVars>> /\ status' = status
  BY DEF DriveEnds, Settle, Yielded, Catch, outboxVars, Calls, commandVars
<1>b. {"driven", "yielding", "finishing", "catching", "retelling", "abandoning"} \subseteq ActorPlaces
  BY DEF ActorPlaces
<1>1. CASE DriveEnds(a)
  <2>1. PICK v \in {"completed", "failed"} :
           actor' = [actor EXCEPT ![a].at = "driven", ![a].verdict = v]
    BY <1>1 DEF DriveEnds
  <2>2. v \in Verdicts /\ Fits(a, "driven", v)
    BY <1>1 DEF DriveEnds, Fits, Verdicts, Terminal
  <2> QED BY <1>1, <1>a, <1>b, <2>1, <2>2, DriverGoes DEF DriveEnds, outboxVars
<1>2. CASE Settle(a)
  <2>1. \/ LookAfterInterrupt(a)
        \/ \E x \in {"yielding", "finishing", "catching"} : Move(a, x) /\ call' = call
    BY <1>2 DEF Settle
  <2>2. \A x \in {"yielding", "finishing", "catching"} : Fits(a, x, actor[a].verdict)
    BY <1>2 DEF Settle, Fits, DriverKnows
  <2>3. ASSUME NEW x \in {"yielding", "finishing", "catching"}, Move(a, x), call' = call
        PROVE  PromptInv'
    BY <1>a, <1>b, <2>2, <2>3, DriverGoes
  <2>4. actor[a].at = "driven"
    BY <1>2 DEF Settle
  <2> QED BY <1>a, <2>1, <2>3, <2>4, LookKeeps
<1>3. CASE Yielded(a)
  <2>1. LookAfterInterrupt(a) \/ (Move(a, "catching") /\ call' = call)
    BY <1>3 DEF Yielded
  <2>2. actor[a].at = "yielding" /\ Fits(a, "catching", actor[a].verdict)
    BY <1>3 DEF Yielded, Fits
  <2> QED BY <1>a, <1>b, <2>1, <2>2, DriverGoes, LookKeeps
<1>4. CASE Catch(a)
  <2>1. Fits(a, "retelling", actor[a].verdict) /\ Fits(a, "abandoning", actor[a].verdict)
    BY <1>4 DEF Catch, Fits
  <2>2. \/ status \in Terminal /\ Publishes(a, TerminalKey(status)) /\ Move(a, "retelling")
        \/ Move(a, "abandoning") /\ call' = call
    BY <1>4 DEF Catch
  <2>3. status \in Terminal /\ Publishes(a, TerminalKey(status)) => Starts(a)
    BY <1>a, Beginning
  <2> QED BY <1>a, <1>b, <2>1, <2>2, <2>3, DriverGoes
<1> QED BY <1>1, <1>2, <1>3, <1>4

\* The first send of a prompt finds nothing spent, and every other claim reads
\* what was.
LEMMA StartKeeps ==
    ASSUME PromptInv, NEW a \in Drivers, Start(a) \/ ReadBudget(a)
    PROVE  PromptInv'
<1> USE DriverTypes DEF Is, Unclaimed, Holding, Ended
<1>a. /\ UNCHANGED <<Calls, commandVars, hostVars>> /\ UNCHANGED Tables /\ UNCHANGED mishaps
      /\ Starts(a) /\ UNCHANGED <<status, token, owner, live, log>>
  BY DEF Start, ReadBudget, outboxVars, Calls, commandVars, Tables
<1>b. {"catching", "budgeting", "driving"} \subseteq ActorPlaces
  BY DEF ActorPlaces
<1>c. HostsTyped
  BY <1>a DEF hostVars, HostsTyped, PromptInv, PromptTypes
<1>d. Revisions' = Revisions /\ RecoverBudget' = RecoverBudget
  BY <1>a, LogUnmoved DEF RecoverBudget
<1>1. CASE Start(a) /\ Move(a, "driving") /\ actor[a].held = 1 /\ Owned(a)
  <2>1. Goes(a, "driving", actor[a].verdict)
    BY <1>1, <1>b, PlaceMoves
  <2>2. actor[a].at = "starting" /\ token = 1
    BY <1>1 DEF Start, Owned, Leased
  <2>3. Revisions = {} /\ actor[a].rev = 0
    BY <1>1, <2>2 DEF PromptInv, DriverCounts, DriverKnows
  <2>4. DriverCounts(a)'
    BY <1>d, <2>1, <2>3, BudgetFound DEF DriverCounts, Goes
  <2>5. DriverKnows(a)'
    BY <1>1, <2>1 DEF DriverKnows, Goes
  <2> QED BY <1>a, <1>c, <2>1, <2>4, <2>5, RowKeeps DEF Goes
<1>2. CASE Start(a) /\ \E x \in {"catching", "budgeting"} : Move(a, x)
  <2>1. \A x \in {"catching", "budgeting"} : Fits(a, x, actor[a].verdict)
    BY <1>2 DEF Start, Fits
  <2> QED BY <1>2, <1>a, <1>b, <2>1, DriverGoes
<1>3. CASE ReadBudget(a)
  <2>1. actor \in [Actors -> ActorState] /\ RecoverBudget \in Nat
    BY BudgetFound DEF PromptInv, PromptTypes
  <2> DEFINE r == [actor[a] EXCEPT !.at = "driving"]
             s == [r EXCEPT !.rev = RecoverBudget]
  <2>2. r \in ActorState /\ r.at = "driving" /\ r.held = actor[a].held
    BY <1>b, <2>1 DEF ActorState
  <2>3. actor' = [actor EXCEPT ![a] = s]
    BY <1>3, <2>1 DEF ReadBudget
  <2> HIDE DEF r
  <2>4. s \in ActorState /\ s.at = "driving" /\ s.held = r.held /\ s.rev = RecoverBudget
    BY <2>1, <2>2 DEF ActorState
  <2> HIDE DEF s
  <2>5. /\ actor' \in [Actors -> ActorState] /\ \A b \in Actors : b # a => actor'[b] = actor[b]
        /\ actor'[a].at = "driving" /\ actor'[a].held = actor[a].held
        /\ actor'[a].rev = RecoverBudget
    BY <2>1, <2>2, <2>3, <2>4
  <2>6. DriverCounts(a)'
    BY <1>d, <2>5 DEF DriverCounts
  <2>7. DriverKnows(a)'
    BY <1>3, <2>5 DEF ReadBudget, DriverKnows
  <2> QED BY <1>a, <1>c, <2>5, <2>6, <2>7, RowKeeps
<1>4. Start(a) => \/ Move(a, "driving") /\ actor[a].held = 1 /\ Owned(a)
                  \/ \E x \in {"catching", "budgeting"} : Move(a, x)
  BY DEF Start
<1> QED BY <1>1, <1>2, <1>3, <1>4
----------------------------------------------------------------------------
(* The end of a claim. *)

LEMMA Leaving ==
    ASSUME PromptInv, NEW a \in Drivers, NEW x \in ActorPlaces, NEW v \in Verdicts, Leave(a, x, v)
    PROVE  HostsTyped /\ Goes(a, x, v)
<1>1. Goes(a, x, v)
  BY DriverTypes, VerdictMoves DEF Leave
<1>2. HostsTyped
  BY DEF Leave, HostsTyped, PromptInv, PromptTypes
<1> QED BY <1>1, <1>2

\* The steps that leave the maps of the host: an outcome is told, or the claim is
\* lost to somebody else.
LEMMA LeaveKeeps ==
    ASSUME PromptInv, NEW a \in Drivers,
           Told(a) \/ Retold(a) \/ (Abandon(a) /\ UNCHANGED <<outboxVars, commandVars>>)
    PROVE  PromptInv'
<1> USE DriverTypes DEF Is, Unclaimed, Holding, Ended
<1>a. /\ UNCHANGED <<Calls, commandVars>> /\ UNCHANGED Tables /\ UNCHANGED mishaps
      /\ UNCHANGED commandVars /\ status' = status
  BY DEF Told, Retold, outboxVars, Calls, Tables, commandVars
<1>b. {"returned", "threw", "catching"} \subseteq ActorPlaces /\ "lost" \in Verdicts
      /\ "failed" \in Verdicts
  BY DEF ActorPlaces, Verdicts, Terminal
<1>c. Begin(a, Idle) => Starts(a)
  BY Beginning
<1>1. CASE Told(a)
  <2>1. CASE Succeeded(a) /\ Leave(a, "returned", actor[a].verdict)
    <3>1. Fits(a, "returned", actor[a].verdict)
      BY <1>1, <2>1, OutcomeIsTold DEF Told, Fits
    <3>2. HostsTyped /\ Goes(a, "returned", actor[a].verdict)
      BY <1>b, <2>1, Leaving
    <3> QED BY <1>1, <1>a, <1>c, <3>1, <3>2, MoveKeeps DEF Told
  <2>2. CASE Move(a, "catching") /\ UNCHANGED hostVars
    <3>1. Fits(a, "catching", actor[a].verdict)
      BY <1>1 DEF Told, Fits
    <3> QED BY <1>1, <1>a, <1>b, <1>c, <2>2, <3>1, DriverGoes DEF Told
  <2> QED BY <1>1, <2>1, <2>2 DEF Told
<1>2. CASE Retold(a)
  <2>1. PICK x \in {"returned", "threw"} :
           Leave(a, x, "failed") /\ (x = "returned" => a \in Recoveries)
    BY <1>2 DEF Retold
  <2>2. Fits(a, x, "failed")
    BY <2>1, PromptAssumption DEF Fits
  <2>3. HostsTyped /\ Goes(a, x, "failed")
    BY <1>b, <2>1, Leaving
  <2> QED BY <1>2, <1>a, <1>c, <2>2, <2>3, MoveKeeps DEF Retold
<1>3. CASE Abandon(a) /\ UNCHANGED <<outboxVars, commandVars>>
  <2>1. call' = call /\ UNCHANGED <<status, token, owner, live>>
    BY <1>3 DEF outboxVars, commandVars
  <2>2. ~\E s \in {"failed"} \cup (IF actor[a].cut THEN {"cancelled"} ELSE {}) :
            FinishCommand(HostOf(a), actor[a].held, s)
    BY <2>1 DEF FinishCommand, Leased
  <2>3. Leave(a, "threw", "lost")
    BY <1>3, <2>2 DEF Abandon
  <2>4. Fits(a, "threw", "lost")
    BY DEF Fits
  <2>5. HostsTyped /\ Goes(a, "threw", "lost")
    BY <1>b, <2>3, Leaving
  <2> QED BY <1>a, <2>1, <2>4, <2>5, MoveKeeps
<1> QED BY <1>1, <1>2, <1>3

\* A driver whose claim was lost, or whose command was cancelled, when it settles.
LEMMA OvertakenKeeps ==
    ASSUME PromptInv, NEW a \in Drivers, Finish(a), UNCHANGED commandVars
    PROVE  PromptInv'
<1> USE DriverTypes DEF Is, Unclaimed, Holding, Ended
<1>a. UNCHANGED <<Calls, commandVars, hostVars>> /\ UNCHANGED <<status, live>>
  BY DEF Finish, commandVars
<1>b. {"catching", "telling"} \subseteq ActorPlaces /\ "cancelled" \in Verdicts
      /\ "cancelled" \in Terminal
  BY DEF ActorPlaces, Verdicts, Terminal
<1>1. \A s : ~FinishCommand(HostOf(a), actor[a].held, s)
  BY <1>a DEF FinishCommand, Leased
<1>2. CASE Move(a, "catching") /\ call' = call
  <2>1. Fits(a, "catching", actor[a].verdict)
    BY DEF Finish, Fits
  <2> QED BY <1>a, <1>b, <1>2, <2>1, DriverGoes
<1>3. CASE /\ status = "cancelled"
           /\ actor' = [actor EXCEPT ![a].at = "telling", ![a].verdict = "cancelled"]
           /\ Publishes(a, TerminalKey("cancelled"))
  <2>1. Starts(a) /\ call'[a].want = TerminalKey("cancelled")
    BY <1>a, <1>b, <1>3, Beginning
  <2>2. Fits(a, "telling", "cancelled")
    BY <1>b, <2>1 DEF Finish, Fits
  <2> QED BY <1>a, <1>b, <1>3, <2>1, <2>2, DriverGoes
<1> QED BY <1>1, <1>2, <1>3 DEF Finish
----------------------------------------------------------------------------
(* Steps that claim the command or settle it. *)

\* The driver a takes the next token: nobody has it, and the first token finds
\* an empty stream.
Takes(a, x) ==
    /\ ClaimCommand(HostOf(a))
    /\ actor' = [actor EXCEPT ![a].at = x, ![a].held = token + 1]
    /\ active' = [active EXCEPT ![HostOf(a)] = token + 1]
    /\ UNCHANGED <<Calls, host, interrupted>>
    /\ Publishes(a, AcceptedKey) \/ Publishes(a, RecoveredKey(token + 1))

LEMMA TakeKeeps ==
    ASSUME PromptInv, NEW a \in Drivers, actor[a].at \in {"claiming", "recovering"},
           NEW x \in {"announcing", "reannouncing"}, x = "reannouncing" => a \in Recoveries,
           Takes(a, x)
    PROVE  PromptInv'
<1>1. /\ status' = "running" /\ status \in {"accepted", "running"}
      /\ token' = token + 1 /\ live' = TRUE /\ token \in Nat
  BY DEF Takes, ClaimCommand, ClaimableCommand, PromptInv, PromptTypes
<1>2. /\ a \in Actors /\ actor[a].held = 0 /\ actor[a].rev = 0
      /\ actor \in [Actors -> ActorState]
  BY DriverTypes DEF PromptInv, PromptTypes, DriverKnows, Unclaimed
<1> DEFINE r == [actor[a] EXCEPT !.at = x]
           s == [r EXCEPT !.held = token + 1]
<1>3. r \in ActorState /\ r.at = x /\ r.verdict = actor[a].verdict /\ r.rev = 0
  BY <1>2 DEF ActorState, ActorPlaces, Holding
<1>4. actor' = [actor EXCEPT ![a] = s]
  BY <1>2 DEF Takes
<1> HIDE DEF r
<1>5. s \in ActorState /\ s.at = x /\ s.held = token + 1 /\ s.rev = 0
  BY <1>1, <1>3 DEF ActorState
<1> HIDE DEF s
<1>6. /\ actor' \in [Actors -> ActorState] /\ \A b \in Actors : b # a => actor'[b] = actor[b]
      /\ actor'[a].at = x /\ actor'[a].held = token + 1 /\ actor'[a].rev = 0
  BY <1>2, <1>4, <1>5
<1>7. /\ IsFiniteSet(Claimants) /\ a \notin Claimants
      /\ token + 1 \in 1..Cardinality(Drivers)
      /\ Cardinality(Claimants') = token + 1
  <2>1. IsFiniteSet(Claimants) /\ token = Cardinality(Claimants)
    BY FS_Subset, PromptAssumption DEF Claimants, PromptInv, TokensCountClaims
  <2>2. a \notin Claimants
    BY <1>2 DEF Claimants
  <2>3. Claimants' = Claimants \cup {a}
    BY <1>1, <1>6 DEF Claimants, Actors
  <2>4. Cardinality(Claimants') = token + 1
    BY <2>1, <2>2, <2>3, FS_AddElement
  <2>5. Claimants' \subseteq Drivers
    BY DEF Claimants
  <2>6. Cardinality(Claimants') <= Cardinality(Drivers) /\ Cardinality(Drivers) \in Nat
    BY <2>5, FS_Subset, FS_CardinalityType, PromptAssumption
  <2> QED BY <1>1, <2>1, <2>2, <2>4, <2>6
<1>8. TokensCountClaims'
  <2>1. \A b \in Drivers : b # a => actor'[b].held = actor[b].held /\ actor[b].held <= token
    BY <1>6 DEF Actors, PromptInv, TokensCountClaims
  <2>2. \A b \in Drivers : actor[b].held \in Nat
    BY <1>2 DEF Actors, ActorState
  <2>3. \A b \in Drivers : actor'[b].held <= token'
    BY <1>1, <1>6, <2>1, <2>2
  <2>4. ASSUME NEW b \in Drivers, NEW c \in Drivers, actor'[b].held = actor'[c].held,
               actor'[b].held # 0
        PROVE  b = c
    <3>1. CASE b # a /\ c # a
      BY <2>1, <2>4, <3>1 DEF PromptInv, TokensCountClaims
    <3>2. \A d \in Drivers : d # a => actor'[d].held # token + 1
      BY <1>1, <2>1, <2>2
    <3>3. CASE b = a \/ c = a
      BY <1>6, <2>4, <3>2, <3>3
    <3> QED BY <3>1, <3>3
  <2> QED BY <1>1, <1>7, <2>3, <2>4 DEF TokensCountClaims
<1>9. PromptTypes'
  <2>1. active \in [Hosts -> Nat] /\ host' = host /\ interrupted' = interrupted
    BY DEF PromptInv, PromptTypes, Takes
  <2>2. active' = [active EXCEPT ![HostOf(a)] = token + 1] /\ token + 1 \in Nat
    BY <1>1 DEF Takes
  <2>3. active' \in [Hosts -> Nat]
    BY <2>1, <2>2
  <2> QED BY <1>1, <1>6, <2>1, <2>3 DEF PromptInv, PromptTypes
<1>10. Starts(a)
  BY <1>2, <1>7, Beginning DEF Takes
<1>11. OutcomeStays
  BY <1>1 DEF OutcomeStays, Terminal
<1>12. ASSUME NEW b \in Drivers, b # a PROVE SameDriver(b) /\ ~Owned(b)'
  <2>1. actor'[b] = actor[b] /\ actor[b].held <= token /\ actor[b].held \in Nat
    BY <1>2, <1>6, <1>12 DEF Actors, PromptInv, TokensCountClaims, ActorState
  <2>2. actor'[b].held # token'
    BY <1>1, <2>1
  <2> QED BY <2>1, <2>2 DEF SameDriver, Owned, Leased
<1>13. DriverKnows(a)'
  BY <1>1, <1>6 DEF DriverKnows, Unclaimed, Holding
<1>14. DriverCounts(a)'
  <2>1. UNCHANGED log
    BY DEF Calls, Takes
  <2>2. token = 0 => Revisions' = {}
    BY <2>1, LogUnmoved DEF PromptInv
  <2> QED BY <1>1, <1>6, <2>2 DEF DriverCounts
<1>15. UNCHANGED Tables /\ UNCHANGED mishaps
  BY DEF Takes, Calls, Tables
<1> QED BY <1>1, <1>8, <1>9, <1>10, <1>11, <1>12, <1>13, <1>14, <1>15, ActorKeeps

\* claim, for a send and for the recovery, and the claim that fails.
LEMMA ClaimKeeps ==
    ASSUME PromptInv, NEW a \in Drivers, Claim(a) \/ Recover(a)
    PROVE  PromptInv'
<1> USE DriverTypes DEF Is, Unclaimed, Holding, Ended
<1>1. CASE Claim(a) /\ ClaimCommand(HostOf(a))
  BY <1>1, TakeKeeps DEF Claim, Takes, ClaimCommand
<1>2. CASE Recover(a) /\ ClaimCommand(HostOf(a))
  <2>1. a \in Recoveries
    BY <1>2 DEF Recover, DriverKnows
  <2> QED BY <1>2, <2>1, TakeKeeps DEF Recover, Takes, ClaimCommand
<1>3. CASE Claim(a) /\ ~ClaimCommand(HostOf(a))
  <2>1. Fits(a, "peeking", actor[a].verdict) /\ "peeking" \in ActorPlaces
    BY <1>3 DEF Claim, Fits, ActorPlaces
  <2>2. /\ UNCHANGED <<Calls, commandVars, hostVars>> /\ Move(a, "peeking")
        /\ call' = call
    BY <1>3 DEF Claim, outboxVars, Calls
  <2> QED BY <2>1, <2>2, DriverGoes
<1>4. CASE Recover(a) /\ ~ClaimCommand(HostOf(a))
  <2>1. Fits(a, "returned", actor[a].verdict) /\ "returned" \in ActorPlaces
    BY <1>4, PromptAssumption DEF Recover, Fits, ActorPlaces, DriverKnows
  <2>2. /\ UNCHANGED <<Calls, commandVars, hostVars>> /\ Move(a, "returned")
        /\ call' = call
    BY <1>4 DEF Recover, outboxVars, Calls
  <2> QED BY <2>1, <2>2, DriverGoes
<1> QED BY <1>1, <1>2, <1>3, <1>4
\* Whoever holds the lease settles the command with s and publishes that.
LEMMA SettleKeeps ==
    ASSUME PromptInv, NEW a \in Actors, NEW s \in Terminal,
           FinishCommand(HostOf(a), actor[a].held, s), Publishes(a, TerminalKey(s)),
           UNCHANGED <<Calls, mishaps>>, HostsTyped,
           NEW x \in {"telling", "retelling", "notifying"}, Goes(a, x, actor[a].verdict),
           a \in Drivers => actor[a].at \in Holding /\ x # "notifying",
           x = "telling" => s = actor[a].verdict
    PROVE  PromptInv'
<1>1. /\ status = "running" /\ status' = s /\ status' \in Terminal /\ status' # "running"
      /\ live' = FALSE /\ token' = token
  BY DEF FinishCommand, Leased, Terminal
<1>2. PromptTypes'
  BY <1>1 DEF PromptInv, PromptTypes, HostsTyped, Goes
<1>3. TokensCountClaims'
  <2>1. \A b \in Drivers : actor'[b].held = actor[b].held
    BY DEF Goes, Actors
  <2> QED BY <1>1, <2>1, NobodyClaims
<1>4. OutcomeStays /\ token' \in {token, token + 1}
  BY <1>1 DEF OutcomeStays, Terminal
<1>5. \A b \in Drivers : ~Owned(b)'
  BY <1>1 DEF Owned, Leased
<1>6. \A b \in Drivers : b # a => SameDriver(b)
  BY DEF Goes, SameDriver, Actors
<1>7. Starts(a) /\ call'[a].want = TerminalKey(s)
  BY <1>1, Beginning
<1>8. UNCHANGED Tables /\ UNCHANGED mishaps
  BY DEF Calls, Tables
<1>9. ASSUME a \in Drivers PROVE DriverKnows(a)' /\ DriverCounts(a)'
  <2>1. actor[a].held # 0 /\ x \in {"telling", "retelling"}
    BY <1>9, DriverTypes DEF DriverKnows
  <2> QED BY <1>5, <1>7, <1>9, <2>1 DEF DriverKnows, DriverCounts, Goes, Unclaimed, Holding
<1> QED BY <1>2, <1>3, <1>4, <1>5, <1>6, <1>7, <1>8, <1>9, ActorKeeps

\* finish at the end of a run, and in its catch block.
LEMMA FinishKeeps ==
    ASSUME PromptInv, NEW a \in Drivers, Finish(a) \/ Abandon(a)
    PROVE  PromptInv'
<1> USE DriverTypes DEF Is, Unclaimed, Holding, Ended
<1>a. UNCHANGED hostVars => HostsTyped
  BY DEF hostVars, HostsTyped, PromptInv, PromptTypes
<1>b. {"telling", "retelling"} \subseteq ActorPlaces
  BY DEF ActorPlaces
<1>1. CASE Finish(a) /\ FinishCommand(HostOf(a), actor[a].held, actor[a].verdict)
           /\ Move(a, "telling") /\ Publishes(a, TerminalKey(actor[a].verdict))
  <2>1. actor[a].verdict \in Terminal
    BY <1>1 DEF Finish, DriverKnows, Terminal
  <2>2. Goes(a, "telling", actor[a].verdict)
    BY <1>1, <1>b, PlaceMoves
  <2>3. UNCHANGED <<Calls, hostVars>> /\ UNCHANGED mishaps /\ actor[a].at = "finishing"
    BY <1>1 DEF Finish, Calls
  <2> QED BY <1>1, <1>a, <2>1, <2>2, <2>3, SettleKeeps
<1>2. CASE Finish(a) /\ UNCHANGED commandVars
  BY <1>2, OvertakenKeeps
<1>3. CASE Abandon(a) /\ UNCHANGED <<outboxVars, commandVars>>
  BY <1>3, LeaveKeeps
<1>4. CASE Abandon(a) /\ ~UNCHANGED <<outboxVars, commandVars>>
  <2>1. PICK s \in {"failed", "cancelled"} :
           /\ FinishCommand(HostOf(a), actor[a].held, s)
           /\ Publishes(a, TerminalKey(s))
    BY <1>4 DEF Abandon
  <2>2. /\ Move(a, "retelling") /\ UNCHANGED <<Calls, hostVars>> /\ UNCHANGED mishaps
        /\ actor[a].at = "abandoning"
    BY <1>4 DEF Abandon, Calls
  <2>3. Goes(a, "retelling", actor[a].verdict)
    BY <1>b, <2>2, PlaceMoves
  <2>4. s \in Terminal
    BY DEF Terminal
  <2> QED BY <1>a, <2>1, <2>2, <2>3, <2>4, SettleKeeps
<1> QED BY <1>1, <1>2, <1>3, <1>4 DEF Finish
\* The interrupt that has a command to cancel, and its event.
LEMMA CancelKeeps ==
    ASSUME PromptInv, NEW i \in Interrupts, Cancel(i) \/ Notified(i)
    PROVE  PromptInv'
<1> USE DEF Is
<1>a. i \in Actors /\ i \notin Drivers
  BY PromptAssumption DEF Actors
<1>b. {"notifying", "threw", "returned"} \subseteq ActorPlaces /\ "cancelled" \in Terminal
  BY DEF ActorPlaces, Ended, Terminal
<1>c. UNCHANGED <<Calls, host, interrupted>> /\ UNCHANGED mishaps /\ UNCHANGED Tables
  BY DEF Cancel, Notified, hostVars, Calls, Tables
<1>d. HostsTyped
  <2>1. /\ active \in [Hosts -> Nat] /\ interrupted' \in [Hosts -> BOOLEAN]
        /\ actor[i].held \in Nat
    BY <1>a, <1>c DEF PromptInv, PromptTypes, ActorState
  <2>2. \/ active' = active
        \/ active' = [active EXCEPT ![HostOf(i)] = IF @ = actor[i].held THEN 0 ELSE @]
    BY DEF Cancel, Notified, hostVars
  <2>3. active' \in [Hosts -> Nat]
    BY <2>1, <2>2
  <2> QED BY <1>c, <2>1, <2>3 DEF HostsTyped
<1>1. CASE /\ FinishCommand(HostOf(i), actor[i].held, "cancelled")
           /\ Publishes(i, TerminalKey("cancelled"))
           /\ Move(i, "notifying")
  <2>1. Goes(i, "notifying", actor[i].verdict)
    BY <1>1, <1>a, <1>b, PlaceMoves
  <2> QED BY <1>1, <1>a, <1>b, <1>c, <1>d, <2>1, SettleKeeps
<1>2. ASSUME UNCHANGED commandVars, Starts(i), NEW x \in ActorPlaces, Move(i, x) PROVE PromptInv'
  <2>1. Goes(i, x, actor[i].verdict)
    BY <1>2, <1>a, PlaceMoves
  <2>2. UNCHANGED <<status, token, owner, live>>
    BY <1>2 DEF commandVars
  <2>3. \A b \in Drivers : SameDriver(b) /\ (Owned(b)' => Owned(b))
    BY <1>a, <2>1, <2>2 DEF Goes, Actors, SameDriver, Owned, Leased
  <2>4. TokensCountClaims'
    BY <2>2, <2>3, NobodyClaims DEF SameDriver
  <2>5. PromptTypes'
    BY <1>d, <2>1, <2>2 DEF PromptInv, PromptTypes, HostsTyped, Goes
  <2>6. OutcomeStays /\ token' \in {token, token + 1}
    BY <2>2 DEF OutcomeStays
  <2> QED BY <1>2, <1>a, <1>c, <2>3, <2>4, <2>5, <2>6, ActorKeeps
<1>3. CASE Cancel(i)
  <2>1. call' = call => Starts(i)
    BY DEF Starts
  <2> QED BY <1>1, <1>2, <1>3, <1>b, <2>1 DEF Cancel
<1>4. CASE Notified(i)
  <2>1. Starts(i) /\ UNCHANGED commandVars
    BY <1>4, <1>a, Beginning DEF Notified
  <2> QED BY <1>2, <1>4, <1>b, <2>1 DEF Notified
<1> QED BY <1>3, <1>4

\* The synchronous part of an interrupt only marks drivers.
LEMMA InterruptKeeps ==
    ASSUME PromptInv, NEW i \in Interrupts, Interrupt(i)
    PROVE  PromptInv'
<1>a. i \in Actors /\ i \notin Drivers
  BY PromptAssumption DEF Actors
<1> DEFINE h == HostOf(i)
           x == IF active[h] # 0 THEN "cancelling" ELSE "returned"
<1>b. h \in Hosts
  BY <1>a, PromptAssumption, OutboxAssumption DEF Hosts, HostOf
<1>c. /\ UNCHANGED outboxVars /\ UNCHANGED <<host, active>> /\ UNCHANGED commandVars
      /\ interrupted' = [interrupted EXCEPT ![h] = @ \/ active[h] # 0]
      /\ actor' = [a \in Actors |->
              IF a = i THEN [actor[i] EXCEPT !.at = x, !.held = active[h]]
              ELSE IF a \in Sends /\ HostOf(a) = h /\ actor[a].at \notin Ended \cup {"idle"}
              THEN [actor[a] EXCEPT !.cut = TRUE] ELSE actor[a]]
  BY DEF Interrupt
<1> HIDE DEF h
<1>d. actor \in [Actors -> ActorState] /\ active[h] \in Nat /\ interrupted \in [Hosts -> BOOLEAN]
  BY <1>b DEF PromptInv, PromptTypes
<1>e. x \in ActorPlaces
  BY DEF ActorPlaces, Ended
<1> HIDE DEF x
<1>1. [actor[i] EXCEPT !.at = x, !.held = active[h]] \in ActorState
  <2> DEFINE r == [actor[i] EXCEPT !.at = x]
  <2>1. r \in ActorState
    BY <1>a, <1>d, <1>e DEF ActorState
  <2> HIDE DEF r
  <2>2. [r EXCEPT !.held = active[h]] \in ActorState
    BY <1>d, <2>1 DEF ActorState
  <2> QED BY <2>2 DEF r
<1>2. ASSUME NEW a \in Actors
      PROVE  LET r == [actor[a] EXCEPT !.cut = TRUE] IN
             /\ r \in ActorState /\ r.at = actor[a].at /\ r.held = actor[a].held
             /\ r.verdict = actor[a].verdict /\ r.rev = actor[a].rev
  BY <1>d DEF ActorState
<1>3. \A a \in Actors : /\ actor'[a] \in ActorState /\ (a # i => SameDriver(a))
  BY <1>c, <1>d, <1>1, <1>2 DEF SameDriver
<1>4. actor' \in [Actors -> ActorState]
  BY <1>c, <1>3
<1>5. interrupted' \in [Hosts -> BOOLEAN]
  BY <1>c, <1>d
<1>6. UNCHANGED <<status, token, owner, live>>
  BY <1>c DEF commandVars
<1>7. PromptTypes'
  BY <1>c, <1>4, <1>5, <1>6 DEF PromptInv, PromptTypes
<1>8. \A b \in Drivers : SameDriver(b) /\ (Owned(b)' => Owned(b))
  BY <1>a, <1>3, <1>6 DEF Actors, SameDriver, Owned, Leased
<1>9. TokensCountClaims'
  BY <1>6, <1>8, NobodyClaims DEF SameDriver
<1>10. UNCHANGED Tables /\ UNCHANGED mishaps /\ Starts(i)
  BY <1>c DEF outboxVars, Tables, Starts
<1>11. OutcomeStays /\ token' \in {token, token + 1}
  BY <1>6 DEF OutcomeStays
<1> QED BY <1>a, <1>7, <1>8, <1>9, <1>10, <1>11, ActorKeeps
----------------------------------------------------------------------------
(* The commit of a checkpoint. *)

\* An event committed with its message as already sent.
LEMMA CommitInv ==
    ASSUME OutboxInv, NEW c \in Callers, NEW k \in Keys, outbox[k] = "none",
           rows' = Append(rows, k), outbox' = [outbox EXCEPT ![k] = "sent"],
           log' = Append(log, k),
           UNCHANGED <<msgToken, msgOwner, msgLive, call, mishaps>>
    PROVE  OutboxInv'
<1>1. /\ rows \in Seq(Keys) /\ log \in Seq(Keys) /\ outbox \in [Keys -> {"none", "pending", "sent"}]
      /\ msgToken \in [Keys -> Nat]
  BY DEF OutboxInv, OutboxTypeOK
<1>2. /\ rows' \in Seq(Keys) /\ DOMAIN rows' = 1..(Len(rows) + 1) /\ DOMAIN rows = 1..Len(rows)
      /\ Len(rows) \in Nat /\ rows'[Len(rows) + 1] = k
      /\ \A i \in 1..Len(rows) : rows'[i] = rows[i]
  BY <1>1, Appended
<1>3. /\ log' \in Seq(Keys) /\ DOMAIN log' = 1..(Len(log) + 1) /\ DOMAIN log = 1..Len(log)
      /\ Len(log) \in Nat /\ log'[Len(log) + 1] = k
      /\ \A i \in 1..Len(log) : log'[i] = log[i]
  BY <1>1, Appended
<1>4. outbox' \in [Keys -> {"none", "pending", "sent"}] /\ outbox'[k] = "sent"
      /\ \A l \in Keys : l # k => outbox'[l] = outbox[l]
  BY <1>1
<1>5. \A i \in DOMAIN rows : rows[i] # k
  BY DEF OutboxInv, RowsAreKeyed
<1>6. \A i \in DOMAIN log : log[i] # k /\ log[i] \in Keys /\ outbox[log[i]] # "none"
  BY <1>1 DEF OutboxInv, RowsAreKeyed
<1>7. OutboxTypeOK'
  BY <1>2, <1>3, <1>4 DEF OutboxInv, OutboxTypeOK
<1>8. RowsAreKeyed'
  <2>1. \A i, j \in DOMAIN rows' : rows'[i] = rows'[j] => i = j
    BY <1>2, <1>5 DEF OutboxInv, RowsAreKeyed
  <2>2. ASSUME NEW l \in Keys
        PROVE  outbox'[l] = "none" <=> \A i \in DOMAIN rows' : rows'[i] # l
    <3>1. outbox[l] = "none" <=> \A i \in DOMAIN rows : rows[i] # l
      BY DEF OutboxInv, RowsAreKeyed
    <3>2. CASE l = k
      BY <1>2, <1>4, <3>2
    <3>3. CASE l # k
      <4>1. (\A i \in DOMAIN rows' : rows'[i] # l) <=> \A i \in DOMAIN rows : rows[i] # l
        BY <1>2, <3>3
      <4> QED BY <1>4, <3>1, <3>3, <4>1
    <3> QED BY <3>2, <3>3
  <2>3. \A i \in DOMAIN log' : outbox'[log'[i]] # "none"
    <3>1. ASSUME NEW i \in 1..Len(log) PROVE outbox'[log'[i]] # "none"
      BY <1>3, <1>4, <1>6
    <3> QED BY <1>3, <1>4, <3>1
  <2> QED BY <2>1, <2>2, <2>3 DEF RowsAreKeyed
<1>9. EventsAreUnique'
  BY <1>3, <1>6 DEF OutboxInv, EventsAreUnique
<1>10. \A l \in Keys : Recorded(l) => Recorded(l)'
  BY <1>3 DEF Recorded
<1>11. Recorded(k)'
  BY <1>3 DEF Recorded
<1>12. SentIsRecorded'
  BY <1>4, <1>10, <1>11 DEF OutboxInv, SentIsRecorded
<1>13. Grows
  BY <1>1, <1>4, <1>10 DEF Grows
<1>14. Alone(c) /\ SameTicket(c)
  BY DEF Alone, SameTicket, Delivering
<1>15. Knows(c)'
  <2>1. Knows(c) /\ call[c].want \in Keys \cup {NoKey} /\ call[c].taken \in Keys \cup {NoKey}
    BY DEF OutboxInv, OutboxTypeOK, CallsKnowTheirMessage, PublishedIsRecorded, Knows
  <2>2. PICK d : d = call[c]
    OBVIOUS
  <2>3. call'[c] = d
    BY <2>2
  <2> QED BY <1>13, <2>1, <2>2, <2>3 DEF Knows, Grows, Recorded, Delivering
<1> QED
  BY <1>7, <1>8, <1>9, <1>12, <1>13, <1>14, <1>15, CallsKeep, TicketsKeep DEF OutboxInv
\* A drive that lost its claim ends with its checkpoint.
LEMMA LostDriveKeeps ==
    ASSUME PromptInv, NEW a \in Drivers, Checkpoint(a),
           ~(active[HostOf(a)] = actor[a].held /\ Owned(a))
    PROVE  PromptInv'
<1>1. /\ actor' = [actor EXCEPT ![a].at = "driven", ![a].verdict = "failed"]
      /\ UNCHANGED <<rows, outbox, log, msgToken, msgOwner, msgLive, call, mishaps>>
      /\ UNCHANGED commandVars /\ UNCHANGED hostVars /\ actor[a].at = "driving"
  BY DEF Checkpoint, Is
<1>2. Goes(a, "driven", "failed")
  BY <1>1, DriverTypes, VerdictMoves DEF ActorPlaces, Holding, Verdicts, Terminal
<1>3. Fits(a, "driven", "failed")
  BY <1>1 DEF Fits, Unclaimed, Holding
<1>4. UNCHANGED Tables /\ HostsTyped /\ Starts(a)
  BY <1>1 DEF Tables, hostVars, HostsTyped, PromptInv, PromptTypes, Starts
<1> QED BY <1>1, <1>2, <1>3, <1>4, MoveKeeps

\* The drive that still has its claim commits the revision after the last one.
LEMMA CommitKeeps ==
    ASSUME PromptInv, NEW a \in Drivers, Checkpoint(a),
           active[HostOf(a)] = actor[a].held /\ Owned(a)
    PROVE  PromptInv'
<1>1. /\ CommitFenced(a, BudgetKey(actor[a].rev + 1)) /\ actor' = [actor EXCEPT ![a].rev = @ + 1]
      /\ UNCHANGED <<msgToken, msgOwner, msgLive, call, mishaps>>
      /\ UNCHANGED <<status, token, owner, live>> /\ UNCHANGED <<host, active, interrupted>>
      /\ actor[a].at = "driving" /\ actor[a].rev < MaxRevision
  BY DEF Checkpoint, Is, commandVars, hostVars
<1>2. /\ a \in Actors /\ a \in Callers /\ actor \in [Actors -> ActorState]
      /\ actor[a].rev \in Nat /\ actor[a].held # 0
  BY <1>1, DriverTypes DEF PromptInv, PromptTypes, ActorState, DriverKnows, Holding
<1>r. PICK r \in 1..MaxRevision : r = actor[a].rev + 1
  BY <1>1, <1>2, PromptAssumption
<1>k. PICK k \in Keys : k = BudgetKey(r)
  BY KeyFacts
<1>4. actor[a].rev = RecoverBudget /\ status = "running" /\ token = actor[a].held
  BY <1>1 DEF PromptInv, DriverCounts, Owned, Leased
<1>5. \A q \in Revisions : q < r /\ q \in 1..MaxRevision
  <2>1. RecoverBudget \in Nat /\ r = RecoverBudget + 1
    BY <1>4, BudgetFound, <1>r
  <2>2. \A q \in Revisions : q <= RecoverBudget /\ q \in 1..MaxRevision
    BY BudgetFound
  <2> QED BY <2>1, <2>2, PromptAssumption
<1>6. ~Recorded(k)
  BY <1>5, <1>k, PromptAssumption DEF Revisions
<1>7. outbox[k] = "none"
  <2>1. outbox[k] # "pending"
    BY <1>k DEF PromptInv, CheckpointsAreCommitted
  <2>2. outbox[k] # "sent"
    BY <1>6 DEF PromptInv, OutboxInv, SentIsRecorded
  <2> QED BY <2>1, <2>2 DEF PromptInv, OutboxInv, OutboxTypeOK
<1>8. /\ rows' = Append(rows, k) /\ outbox' = [outbox EXCEPT ![k] = "sent"]
      /\ log' = Append(log, k)
  BY <1>1, <1>r, <1>k, <1>6, <1>7 DEF CommitFenced, AppendEvent
<1>9. OutboxInv'
  BY <1>1, <1>2, <1>7, <1>8, CommitInv DEF PromptInv
<1>10. /\ log \in Seq(Keys) /\ DOMAIN log' = 1..(Len(log) + 1) /\ DOMAIN log = 1..Len(log)
       /\ Len(log) \in Nat /\ log'[Len(log) + 1] = k
       /\ \A i \in 1..Len(log) : log'[i] = log[i]
  BY <1>8, Appended DEF PromptInv, OutboxInv, OutboxTypeOK
<1>11. StreamStays /\ Recorded(k)' /\ \A l \in Keys : Recorded(l)' => Recorded(l) \/ l = k
  BY <1>10 DEF StreamStays, Recorded
<1>12. Revisions' = Revisions \cup {r}
  <2>1. \A q \in 1..MaxRevision : Recorded(BudgetKey(q))' <=> Recorded(BudgetKey(q)) \/ q = r
    <3> SUFFICES ASSUME NEW q \in 1..MaxRevision
                 PROVE  Recorded(BudgetKey(q))' <=> Recorded(BudgetKey(q)) \/ q = r
      OBVIOUS
    <3>1. PICK l \in Keys : l = BudgetKey(q)
      BY KeyFacts
    <3>2. l = k <=> q = r
      BY <3>1, KeyFacts, <1>k
    <3>3. Recorded(l)' <=> Recorded(l) \/ l = k
      BY <1>11 DEF StreamStays
    <3> QED BY <3>1, <3>2, <3>3 DEF Recorded, BudgetKey
  <2> QED BY <2>1 DEF Revisions, BudgetKey
<1>13. RecoverBudget' = r
  <2>1. /\ Revisions' \subseteq 1..MaxRevision /\ Revisions' # {}
    BY <1>5, <1>12
  <2>2. RecoverBudget' = CHOOSE q \in Revisions' : \A s \in Revisions' : s <= q
    BY <2>1 DEF RecoverBudget
  <2>3. RecoverBudget' \in Revisions' /\ \A s \in Revisions' : s <= RecoverBudget'
    BY <2>1, <2>2, ChosenIsLast
  <2>4. r <= RecoverBudget'
    BY <1>12, <2>3
  <2> QED BY <1>5, <1>12, <2>3, <2>4, PromptAssumption
<1>14. /\ actor' \in [Actors -> ActorState] /\ \A b \in Actors : b # a => actor'[b] = actor[b]
       /\ actor'[a].at = "driving" /\ actor'[a].held = actor[a].held
       /\ actor'[a].verdict = actor[a].verdict /\ actor'[a].rev = r
  <2>1. [actor[a] EXCEPT !.rev = r] \in ActorState
    BY <1>2, PromptAssumption DEF ActorState
  <2>2. actor' = [actor EXCEPT ![a] = [actor[a] EXCEPT !.rev = r]]
    BY <1>1, <1>2, <1>r
  <2> QED BY <1>1, <1>2, <2>1, <2>2 DEF ActorState
<1>15. PromptTypes'
  BY <1>1, <1>14 DEF PromptInv, PromptTypes
<1>16. TokensCountClaims'
  <2>1. \A b \in Drivers : actor'[b].held = actor[b].held
    BY <1>14 DEF Actors
  <2> QED BY <1>1, <2>1, NobodyClaims
<1>17. \A s \in Terminal : TerminalKey(s) # k
  BY KeyFacts, <1>k
<1>18. OutcomeIsEvidence'
  <2>1. \A s \in Terminal : outbox'[TerminalKey(s)] = outbox[TerminalKey(s)]
    BY <1>8, <1>17, KeyFacts DEF PromptInv, OutboxInv, OutboxTypeOK
  <2> QED BY <1>1, <2>1 DEF PromptInv, OutcomeIsEvidence, TerminalKey
<1>19. CheckpointsAreCommitted'
  <2>1. \A q \in 1..MaxRevision : outbox'[BudgetKey(q)] # "pending"
    BY <1>8, KeyFacts DEF PromptInv, CheckpointsAreCommitted, OutboxInv, OutboxTypeOK
  <2> QED BY <1>1, <2>1 DEF PromptInv, CheckpointsAreCommitted, BudgetKey
<1>20. ASSUME NEW b \in Drivers PROVE DriverKnows(b)' /\ DriverCounts(b)'
  <2>1. CASE b = a
    <3>1. DriverKnows(a)'
      BY <1>2, <1>14 DEF DriverKnows, Unclaimed, Holding
    <3>2. DriverCounts(a)'
      BY <1>13, <1>14 DEF DriverCounts
    <3> QED BY <2>1, <3>1, <3>2
  <2>2. CASE b # a
    <3>1. SameDriver(b) /\ call'[b].want = call[b].want
      BY <1>1, <1>14, <2>2 DEF Actors, SameDriver
    <3>2. actor[b].held # token
      BY <1>2, <1>4, <2>2 DEF PromptInv, TokensCountClaims
    <3>3. Owned(b)' => Owned(b)
      BY <1>1, <3>1 DEF SameDriver, Owned, Leased
    <3>4. OutcomeStays /\ token' \in {token, token + 1}
      BY <1>1 DEF OutcomeStays
    <3> QED BY <1>11, <3>1, <3>2, <3>3, <3>4, OthersKnow, OthersCount
  <2> QED BY <2>1, <2>2
<1>21. token' # 0
  BY <1>1, <1>2, <1>4
<1>22. BudgetIsAccounted'
  <2> SUFFICES ASSUME NEW i \in DOMAIN log', NEW j \in DOMAIN log', i < j, log'[j][1] = "budget"
               PROVE  /\ log'[i][1] = "budget" => log'[i][2] < log'[j][2]
                      /\ log'[i][1] \notin Terminal
    BY DEF BudgetIsAccounted
  <2>1. i \in DOMAIN log /\ log'[i] = log[i] /\ log[i] \in Keys
    BY <1>10
  <2>2. CASE j \in DOMAIN log
    <3>1. log'[j] = log[j]
      BY <1>10, <2>2
    <3> QED BY <2>1, <2>2, <3>1 DEF PromptInv, BudgetIsAccounted
  <2>3. CASE j = Len(log) + 1
    <3>1. log'[j] = k /\ k[2] = r
      BY <1>10, <2>3, <1>k DEF BudgetKey
    <3>2. log[i][1] = "budget" => log[i][2] < r
      <4> SUFFICES ASSUME log[i][1] = "budget" PROVE log[i][2] < r
        OBVIOUS
      <4>1. PICK q \in 1..MaxRevision : log[i] = BudgetKey(q) /\ log[i][2] = q
        BY <2>1, KeyShapes
      <4>2. q \in Revisions
        BY <2>1, <4>1 DEF Revisions, Recorded
      <4> QED BY <1>5, <4>1, <4>2
    <3>3. log[i][1] \notin Terminal
      <4> SUFFICES ASSUME log[i][1] \in Terminal PROVE FALSE
        OBVIOUS
      <4>1. PICK s \in Terminal : log[i] = TerminalKey(s)
        BY <2>1, KeyShapes
      <4>2. outbox[TerminalKey(s)] # "none"
        BY <2>1, <4>1 DEF PromptInv, OutboxInv, RowsAreKeyed
      <4>3. status = s
        BY <4>2 DEF PromptInv, OutcomeIsEvidence
      <4> QED BY <1>4, <4>3 DEF Terminal
    <3> QED BY <2>1, <3>1, <3>2, <3>3
  <2> QED BY <1>10, <2>2, <2>3
<1> QED BY <1>9, <1>15, <1>16, <1>18, <1>19, <1>20, <1>21, <1>22 DEF PromptInv
----------------------------------------------------------------------------
(* The acceptance, the steps inside a call, hosts and clocks. *)

LEMMA AcceptKeeps ==
    ASSUME PromptInv, NEW a \in Drivers, Accept(a)
    PROVE  PromptInv'
<1> USE DriverTypes DEF Is, Unclaimed, Holding, Ended
<1>a. /\ a \in Sends /\ actor[a].at = "idle" /\ UNCHANGED <<Calls, hostVars>>
      /\ UNCHANGED <<token, owner, live>> /\ UNCHANGED mishaps /\ UNCHANGED Tables
  BY DEF Accept, Calls, Tables
<1>b. {"claiming", "relaying", "joining"} \subseteq ActorPlaces /\ "none" \notin Terminal
  BY DEF ActorPlaces, Terminal
<1>1. CASE status \in Terminal
  <2>1. status' = status /\ Publishes(a, TerminalKey(status))
    BY <1>1, <1>b DEF Accept
  <2>2. PICK x \in {"relaying", "joining"} :
           actor' = [actor EXCEPT ![a].at = x, ![a].verdict = status]
    BY <1>1 DEF Accept
  <2>3. Starts(a) /\ call'[a].want = TerminalKey(status) /\ UNCHANGED commandVars
    BY <1>1, <1>a, <2>1, Beginning DEF commandVars
  <2>4. Fits(a, x, status)
    BY <1>1, <1>a, <2>3 DEF Fits
  <2> QED BY <1>1, <1>a, <1>b, <2>2, <2>3, <2>4, DriverGoes
<1>2. CASE status \notin Terminal /\ status # "none"
  <2>1. Move(a, "claiming") /\ call' = call /\ UNCHANGED commandVars
    BY <1>2 DEF Accept, commandVars
  <2>2. Fits(a, "claiming", actor[a].verdict)
    BY <1>a DEF Fits
  <2> QED BY <1>a, <1>b, <2>1, <2>2, DriverGoes
<1>3. CASE status = "none"
  <2>1. Move(a, "claiming") /\ Starts(a) /\ status' = "accepted"
    BY <1>3, <1>b DEF Accept
  <2>2. Goes(a, "claiming", actor[a].verdict)
    BY <1>b, <2>1, PlaceMoves
  <2>3. OutcomeStays /\ token' \in {token, token + 1}
    BY <1>3, <1>a, <1>b DEF OutcomeStays
  <2>4. \A b \in Drivers : b # a => SameDriver(b)
    BY <2>2 DEF Goes, SameDriver, Actors
  <2>5. \A b \in Drivers : ~Owned(b)'
    BY <2>1 DEF Owned, Leased
  <2>6. TokensCountClaims'
    <3>1. \A b \in Drivers : actor'[b].held = actor[b].held
      BY <2>2 DEF Goes, Actors
    <3> QED BY <1>a, <3>1, NobodyClaims
  <2>7. PromptTypes'
    BY <1>a, <2>1, <2>2 DEF PromptInv, PromptTypes, hostVars, Goes
  <2>8. DriverKnows(a)' /\ DriverCounts(a)'
    <3>1. actor[a].held = 0 /\ actor[a].rev = 0
      BY <1>a DEF DriverKnows
    <3> QED BY <2>2, <3>1 DEF DriverKnows, DriverCounts, Goes
  <2> QED BY <1>a, <2>1, <2>3, <2>4, <2>5, <2>6, <2>7, <2>8, ActorKeeps
<1> QED BY <1>1, <1>2, <1>3

\* The steps of the outbox deliver events whose publisher is known, and never a
\* checkpoint.
LEMMA CallKeeps ==
    ASSUME PromptInv, NEW c \in Callers, Calling(c) \/ CallFails(c)
    PROVE  PromptInv'
<1>1. /\ CallStep(c) \/ StoreFails(c)
      /\ UNCHANGED <<status, token, owner, live>> /\ UNCHANGED <<host, active, interrupted>>
      /\ actor' = actor
  BY DEF Calling, CallFails, commandVars, hostVars
<1>2. CallMoves
  BY <1>1, CallStepMoves DEF PromptInv
<1>3. OutboxInv'
  BY <1>1, StepInv DEF PromptInv, OutboxNext
<1>4. PromptTypes' /\ TokensCountClaims'
  BY <1>1, NobodyClaims DEF PromptInv, PromptTypes
<1>5. OutcomeIsEvidence'
  <2>1. \A s \in Terminal : outbox'[TerminalKey(s)] # "none" =>
           \/ outbox[TerminalKey(s)] # "none"
           \/ \E d \in Callers : call[d].want = TerminalKey(s)
    BY <1>2, KeyFacts DEF CallMoves
  <2> QED BY <1>1, <1>2, <2>1 DEF PromptInv, OutcomeIsEvidence, CallMoves, TerminalKey
<1>6. CheckpointsAreCommitted'
  <2> SUFFICES ASSUME NEW r \in 1..MaxRevision
               PROVE  /\ outbox'[BudgetKey(r)] # "pending"
                      /\ \A d \in Callers : /\ call'[d].want # BudgetKey(r)
                                            /\ call'[d].taken # BudgetKey(r)
    BY DEF CheckpointsAreCommitted, BudgetKey
  <2>1. PICK k \in Keys : k = BudgetKey(r)
    BY KeyFacts
  <2>2. outbox[k] # "pending" /\ \A d \in Callers : call[d].want # k /\ call[d].taken # k
    BY <2>1 DEF PromptInv, CheckpointsAreCommitted
  <2>3. outbox'[k] # "pending"
    BY <1>2, <2>2 DEF CallMoves
  <2>4. \A d \in Callers : call'[d].want # k /\ call'[d].taken # k
    BY <1>2, <2>2, OutboxAssumption DEF CallMoves
  <2> QED BY <2>1, <2>3, <2>4
<1>7. CASE log' = log
  <2>1. Revisions' = Revisions /\ StreamStays
    BY <1>7, LogUnmoved
  <2>2. \A b \in Drivers : DriverKnows(b)' /\ DriverCounts(b)'
    <3>1. \A b \in Drivers : SameDriver(b) /\ (Owned(b)' => Owned(b)) /\ b \in Callers
      BY <1>1, PromptAssumption DEF SameDriver, Owned, Leased, Actors
    <3>2. OutcomeStays /\ token' \in {token, token + 1}
      BY <1>1 DEF OutcomeStays
    <3> QED BY <1>2, <2>1, <3>1, <3>2, OthersKnow, OthersCount DEF CallMoves
  <2>3. BudgetIsAccounted' /\ (token' = 0 => Revisions' = {})
    BY <1>1, <1>7, <2>1 DEF PromptInv, BudgetIsAccounted
  <2> QED BY <1>3, <1>4, <1>5, <1>6, <2>2, <2>3 DEF PromptInv
<1>8. CASE log' # log
  <2>1. PICK k \in Keys : log' = Append(log, k) /\ \E d \in Callers : call[d].taken = k
    BY <1>2, <1>8 DEF CallMoves
  <2>2. /\ log \in Seq(Keys) /\ DOMAIN log' = 1..(Len(log) + 1) /\ DOMAIN log = 1..Len(log)
        /\ Len(log) \in Nat /\ log'[Len(log) + 1] = k
        /\ \A i \in 1..Len(log) : log'[i] = log[i]
    BY <2>1, Appended DEF PromptInv, OutboxInv, OutboxTypeOK
  <2>3. \A r \in 1..MaxRevision : k # BudgetKey(r)
    BY <2>1 DEF PromptInv, CheckpointsAreCommitted
  <2>4. k[1] # "budget"
    BY <2>3, KeyShapes
  <2>5. StreamStays /\ \A l \in Keys : Recorded(l)' => Recorded(l) \/ l = k
    BY <2>2 DEF StreamStays, Recorded
  <2>6. Revisions' = Revisions
    <3>1. \A r \in 1..MaxRevision : Recorded(BudgetKey(r))' <=> Recorded(BudgetKey(r))
      <4> SUFFICES ASSUME NEW r \in 1..MaxRevision
                   PROVE  Recorded(BudgetKey(r))' <=> Recorded(BudgetKey(r))
        OBVIOUS
      <4>1. PICK l \in Keys : l = BudgetKey(r)
        BY KeyFacts
      <4>2. Recorded(l)' <=> Recorded(l)
        BY <2>3, <2>5, <4>1 DEF StreamStays
      <4> QED BY <4>1, <4>2 DEF Recorded, BudgetKey
    <3> QED BY <3>1 DEF Revisions, BudgetKey
  <2>7. \A b \in Drivers : DriverKnows(b)' /\ DriverCounts(b)'
    <3>1. \A b \in Drivers : SameDriver(b) /\ (Owned(b)' => Owned(b)) /\ b \in Callers
      BY <1>1, PromptAssumption DEF SameDriver, Owned, Leased, Actors
    <3>2. OutcomeStays /\ token' \in {token, token + 1}
      BY <1>1 DEF OutcomeStays
    <3> QED BY <1>2, <2>5, <2>6, <3>1, <3>2, OthersKnow, OthersCount DEF CallMoves
  <2>8. BudgetIsAccounted'
    <3>1. \A j \in DOMAIN log' : log'[j][1] = "budget" => j \in DOMAIN log
      BY <2>2, <2>4
    <3>2. \A i, j \in DOMAIN log' : i < j /\ log'[j][1] = "budget" =>
             i \in DOMAIN log /\ j \in DOMAIN log /\ log'[i] = log[i] /\ log'[j] = log[j]
      BY <2>2, <3>1
    <3> QED BY <3>2 DEF PromptInv, BudgetIsAccounted
  <2>9. token' = 0 => Revisions' = {}
    BY <1>1, <2>6 DEF PromptInv
  <2> QED BY <1>3, <1>4, <1>5, <1>6, <2>7, <2>8, <2>9 DEF PromptInv
<1> QED BY <1>7, <1>8

\* A lease expires, or a host starts.
LEMMA ClocksKeep ==
    ASSUME PromptInv,
           CommandLapses \/ (\E k \in Keys : OutboxLeaseLapses(k)) \/ (\E h \in Hosts : Boot(h))
    PROVE  PromptInv'
<1>1. UNCHANGED <<rows, outbox, log, call, actor, status, token, owner, active, interrupted>>
  BY DEF CommandLapses, OutboxLeaseLapses, MessageLapses, Boot, outboxVars, commandVars, hostVars
<1>2. OutboxInv'
  <2>1. CASE \E k \in Keys : OutboxLeaseLapses(k)
    BY <2>1, MessageLapsesInv DEF OutboxLeaseLapses, PromptInv
  <2>2. CASE CommandLapses \/ \E h \in Hosts : Boot(h)
    <3>1. /\ UNCHANGED <<rows, outbox, msgToken, msgOwner, msgLive, log, call>>
          /\ mishaps' = mishaps \/ (mishaps < MaxMishaps /\ mishaps' = mishaps + 1)
      BY <2>2 DEF CommandLapses, Boot, outboxVars, Mishap
    <3>2. mishaps' \in 0..MaxMishaps
      BY <3>1, OutboxAssumption DEF PromptInv, OutboxInv, OutboxTypeOK
    <3> QED BY <3>1, <3>2 DEF PromptInv, OutboxInv, OutboxTypeOK, RowsAreKeyed, EventsAreUnique,
              SentIsRecorded, CallsKnowTheirMessage, TicketsDiffer, PublishedIsRecorded,
              Recorded, Delivering
  <2> QED BY <2>1, <2>2
<1>3. live' \in BOOLEAN /\ (live' => live) /\ host' \in [Hosts -> {"up", "down", "dead"}]
  <2>1. live \in BOOLEAN /\ host \in [Hosts -> {"up", "down", "dead"}]
    BY DEF PromptInv, PromptTypes
  <2>2. CASE CommandLapses
    BY <2>1, <2>2 DEF CommandLapses, hostVars
  <2>3. CASE \E k \in Keys : OutboxLeaseLapses(k)
    BY <2>1, <2>3 DEF OutboxLeaseLapses, commandVars, hostVars
  <2>4. CASE \E h \in Hosts : Boot(h)
    BY <2>1, <2>4 DEF Boot, commandVars
  <2> QED BY <2>2, <2>3, <2>4
<1>4. PromptTypes' /\ TokensCountClaims'
  BY <1>1, <1>3, NobodyClaims DEF PromptInv, PromptTypes
<1>5. OutcomeIsEvidence' /\ CheckpointsAreCommitted' /\ BudgetIsAccounted'
  BY <1>1 DEF PromptInv, OutcomeIsEvidence, CheckpointsAreCommitted, BudgetIsAccounted,
              TerminalKey, BudgetKey
<1>6. Revisions' = Revisions /\ StreamStays
  BY <1>1, LogUnmoved
<1>7. \A b \in Drivers : DriverKnows(b)' /\ DriverCounts(b)'
  <2>1. \A b \in Drivers : SameDriver(b) /\ (Owned(b)' => Owned(b))
    BY <1>1, <1>3 DEF SameDriver, Owned, Leased
  <2>2. OutcomeStays /\ token' \in {token, token + 1}
    BY <1>1 DEF OutcomeStays
  <2> QED BY <1>1, <1>6, <2>1, <2>2, OthersKnow, OthersCount
<1>8. token' = 0 => Revisions' = {}
  BY <1>1, <1>6 DEF PromptInv
<1> QED BY <1>2, <1>4, <1>5, <1>7, <1>8 DEF PromptInv

\* A host dies with its calls; what its actors had already ended with stays.
LEMMA CrashKeeps ==
    ASSUME PromptInv, NEW h \in Hosts, Crash(h)
    PROVE  PromptInv'
<1> DEFINE S == {c \in Callers : HostOf(c) = h}
<1>1. /\ call' = Gone(S) /\ Mishap
      /\ UNCHANGED <<rows, outbox, msgToken, msgOwner, msgLive, log>>
      /\ UNCHANGED <<status, token, owner, live>> /\ UNCHANGED <<active, interrupted>>
      /\ host' = [host EXCEPT ![h] = "dead"]
      /\ actor' = [a \in Actors |->
                    IF HostOf(a) = h /\ actor[a].at \notin Ended \ {"leaked"}
                    THEN [actor[a] EXCEPT !.at = "crashed"] ELSE actor[a]]
  BY DEF Crash, commandVars
<1>2. OutboxInv'
  BY <1>1, GoneInv DEF PromptInv
<1>3. actor \in [Actors -> ActorState] /\ host \in [Hosts -> {"up", "down", "dead"}]
  BY DEF PromptInv, PromptTypes
<1>4. ASSUME NEW a \in Actors
      PROVE  /\ actor'[a] \in ActorState /\ actor'[a].held = actor[a].held
             /\ \/ actor'[a] = actor[a] /\ (HostOf(a) = h => actor[a].at \in Ended)
                \/ actor'[a].at = "crashed"
  <2>1. CASE HostOf(a) = h /\ actor[a].at \notin Ended \ {"leaked"}
    <3>1. actor'[a] = [actor[a] EXCEPT !.at = "crashed"]
      BY <1>1, <2>1
    <3> QED BY <1>3, <3>1 DEF ActorState, ActorPlaces, Ended
  <2>2. CASE ~(HostOf(a) = h /\ actor[a].at \notin Ended \ {"leaked"})
    <3>1. actor'[a] = actor[a]
      BY <1>1, <2>2
    <3> QED BY <1>3, <2>2, <3>1
  <2> QED BY <2>1, <2>2
<1>5. PromptTypes'
  <2>1. actor' \in [Actors -> ActorState]
    BY <1>1, <1>4
  <2>2. host' \in [Hosts -> {"up", "down", "dead"}]
    BY <1>1, <1>3
  <2> QED BY <1>1, <2>1, <2>2 DEF PromptInv, PromptTypes
<1>6. TokensCountClaims'
  BY <1>1, <1>4, NobodyClaims DEF Actors
<1>7. \A c \in Callers : \/ call'[c] = call[c] /\ HostOf(c) # h
                         \/ call'[c].want = NoKey /\ call'[c].taken = NoKey
  BY <1>1 DEF Gone, Idle
<1>8. OutcomeIsEvidence' /\ CheckpointsAreCommitted'
  <2>1. /\ \A s \in Terminal : NoKey # TerminalKey(s)
        /\ \A q \in 1..MaxRevision : NoKey # BudgetKey(q)
    BY KeyFacts, OutboxAssumption
  <2> QED BY <1>1, <1>7, <2>1
          DEF PromptInv, OutcomeIsEvidence, CheckpointsAreCommitted, TerminalKey, BudgetKey
<1>9. Revisions' = Revisions /\ StreamStays
  BY <1>1, LogUnmoved
<1>10. ASSUME NEW b \in Drivers PROVE DriverKnows(b)' /\ DriverCounts(b)'
  <2>0. b \in Actors /\ b \in Callers
    BY DriverTypes
  <2>1. CASE actor'[b].at = "crashed"
    BY <2>1 DEF DriverKnows, DriverCounts, Unclaimed, Holding
  <2>2. CASE actor'[b] = actor[b] /\ (HostOf(b) = h => actor[b].at \in Ended)
    <3>1. SameDriver(b) /\ (Owned(b)' => Owned(b)) /\ OutcomeStays
          /\ token' \in {token, token + 1}
      BY <1>1, <2>2 DEF SameDriver, Owned, Leased, OutcomeStays
    <3>2. DriverCounts(b)'
      BY <1>9, <3>1, OthersCount
    <3>3. CASE HostOf(b) # h
      <4>1. call'[b] = call[b]
        BY <1>1, <2>0, <3>3 DEF Gone
      <4> QED BY <1>9, <3>1, <3>2, <4>1, OthersKnow
    <3>4. CASE actor[b].at \in Ended
      <4>1. DriverKnows(b)
        BY DEF PromptInv
      <4>2. Recorded(TerminalKey(status)) => Recorded(TerminalKey(status))'
        BY <1>1 DEF Recorded, TerminalKey
      <4> QED BY <1>1, <2>2, <3>2, <3>4, <4>1, <4>2 DEF DriverKnows, Ended, Unclaimed, Holding
    <3> QED BY <2>2, <3>3, <3>4
  <2> QED BY <1>4, <2>0, <2>1, <2>2
<1>11. BudgetIsAccounted' /\ (token' = 0 => Revisions' = {})
  BY <1>1, <1>9 DEF PromptInv, BudgetIsAccounted
<1> QED BY <1>2, <1>5, <1>6, <1>8, <1>10, <1>11 DEF PromptInv
----------------------------------------------------------------------------
(* The theorems. *)

LEMMA InitKeeps == Init => PromptInv
<1> SUFFICES ASSUME Init PROVE PromptInv
  OBVIOUS
<1>1. OutboxInv /\ log = <<>>
  BY InitOutbox DEF Init, OutboxInit
<1>2. /\ status = "none" /\ token = 0 /\ live = FALSE
      /\ host \in [Hosts -> {"up", "down", "dead"}]
      /\ active \in [Hosts -> Nat] /\ interrupted \in [Hosts -> BOOLEAN]
  BY DEF Init
<1>3. actor = [a \in Actors |-> Fresh] /\ Fresh \in ActorState
      /\ Fresh.at = "idle" /\ Fresh.held = 0 /\ Fresh.rev = 0
  BY DEF Init, Fresh, ActorState, ActorPlaces, Unclaimed, Verdicts
<1>4. PromptTypes
  <2>1. actor \in [Actors -> ActorState]
    BY <1>3
  <2> QED BY <1>2, <2>1 DEF PromptTypes
<1>5. TokensCountClaims
  <2>1. \A a \in Drivers : actor[a].held = 0
    BY <1>3 DEF Actors
  <2>2. Claimants = {}
    BY <2>1 DEF Claimants
  <2> QED BY <1>2, <2>1, <2>2, FS_EmptySet DEF TokensCountClaims
<1>6. /\ \A k \in Keys : outbox[k] = "none"
      /\ \A c \in Callers : call[c].want = NoKey /\ call[c].taken = NoKey
  BY DEF Init, OutboxInit, Idle
<1>7. OutcomeIsEvidence /\ CheckpointsAreCommitted
  BY <1>6, KeyFacts, OutboxAssumption DEF OutcomeIsEvidence, CheckpointsAreCommitted
<1>8. Revisions = {} /\ BudgetIsAccounted
  BY <1>1 DEF Revisions, Recorded, BudgetIsAccounted
<1>9. \A a \in Drivers : actor[a].at = "idle" /\ actor[a].held = 0 /\ actor[a].rev = 0
  BY <1>3 DEF Actors
<1>10. \A a \in Drivers : DriverKnows(a) /\ DriverCounts(a)
  BY <1>9 DEF DriverKnows, DriverCounts, Unclaimed, Holding
<1> QED BY <1>1, <1>4, <1>5, <1>7, <1>8, <1>10 DEF PromptInv

LEMMA NextKeeps == PromptInv /\ [Next]_vars => PromptInv'
<1> SUFFICES ASSUME PromptInv, [Next]_vars PROVE PromptInv'
  OBVIOUS
<1>1. ASSUME NEW a \in Drivers,
             Accept(a) \/ DriverStep(a) \/ Checkpoint(a) \/ WaitTimesOut(a)
      PROVE  PromptInv'
  <2>1. CASE DriverStep(a)
    BY <2>1, ClaimKeeps, JoinerKeeps, ScanKeeps, StartKeeps, EndKeeps, FinishKeeps, LeaveKeeps
       DEF DriverStep
  <2>2. CASE Checkpoint(a)
    BY <2>2, LostDriveKeeps, CommitKeeps
  <2> QED BY <1>1, <2>1, <2>2, AcceptKeeps, TimeoutKeeps
<1>2. ASSUME NEW i \in Interrupts, Interrupt(i) \/ InterruptStep(i)
      PROVE  PromptInv'
  BY <1>2, InterruptKeeps, CancelKeeps DEF InterruptStep
<1>3. ASSUME NEW c \in Callers, Calling(c) \/ CallFails(c)
      PROVE  PromptInv'
  BY <1>3, CallKeeps
<1>4. CASE CommandLapses \/ (\E k \in Keys : OutboxLeaseLapses(k)) \/ (\E h \in Hosts : Boot(h))
  BY <1>4, ClocksKeep
<1>5. ASSUME NEW h \in Hosts, Crash(h) PROVE PromptInv'
  BY <1>5, CrashKeeps
<1>6. CASE UNCHANGED vars
  <2>1. /\ UNCHANGED outboxVars /\ UNCHANGED <<status, token, owner, live>>
        /\ UNCHANGED <<host, active, interrupted>> /\ actor' = actor
    BY <1>6 DEF vars, commandVars, hostVars
  <2>2. UNCHANGED Tables /\ UNCHANGED mishaps /\ Starts(NoKey)
    BY <2>1 DEF outboxVars, Tables, Starts
  <2>3. PromptTypes' /\ TokensCountClaims'
    BY <2>1, NobodyClaims DEF PromptInv, PromptTypes
  <2>4. \A b \in Drivers : SameDriver(b) /\ (Owned(b)' => Owned(b))
    BY <2>1 DEF SameDriver, Owned, Leased
  <2>5. OutcomeStays /\ token' \in {token, token + 1}
    BY <2>1 DEF OutcomeStays
  <2>6. Revisions' = Revisions /\ StreamStays /\ call' = call
    BY <2>1, LogUnmoved DEF outboxVars
  <2>7. NoKey \in Drivers => DriverKnows(NoKey)' /\ DriverCounts(NoKey)'
    BY <2>4, <2>5, <2>6, OthersKnow, OthersCount
  <2> QED BY <2>2, <2>3, <2>4, <2>5, <2>7, ActorKeeps
<1> QED BY <1>1, <1>2, <1>3, <1>4, <1>5, <1>6 DEF Next

\* The inductive invariant holds for every number of hosts and calls.
THEOREM PromptInvariant == Spec => []PromptInv
<1> QED BY InitKeeps, NextKeeps, PTL DEF Spec

\* Under the calls of the prompt too, where a checkpoint bypasses the queue, an
\* event is recorded once and acknowledged only after that.
THEOREM PromptOutbox == Spec => []OutboxInv
<1>1. PromptInv => OutboxInv
  BY DEF PromptInv
<1> QED BY <1>1, PromptInvariant, PTL

\* The stream never has another outcome than the inbox: sender, joiner, recovery
\* and interrupt publish what the row holds when they look, and it is then final.
THEOREM PromptHasOneOutcome == Spec => []OneOutcome
<1>1. PromptInv => OneOutcome
  <2> SUFFICES ASSUME PromptInv, NEW s \in Terminal, Recorded(TerminalKey(s))
               PROVE  status = s
    BY DEF OneOutcome
  <2>1. outbox[TerminalKey(s)] # "none"
    BY DEF PromptInv, OutboxInv, RowsAreKeyed, Recorded
  <2> QED BY <2>1 DEF PromptInv, OutcomeIsEvidence
<1> QED BY <1>1, PromptInvariant, PTL

\* A send that returns has the outcome of the row, and its event is in the stream.
THEOREM SendersAreTold == Spec => []SendersAreToldTheOutcome
<1>1. PromptInv => SendersAreToldTheOutcome
  BY DEF PromptInv, DriverKnows, SendersAreToldTheOutcome, Is, Drivers
<1> QED BY <1>1, PromptInvariant, PTL

\* Checkpoints come in order and none after the outcome, whatever claims, crashes
\* and expiries separate them.
THEOREM BudgetIsInOrder == Spec => []BudgetIsAccounted
<1>1. PromptInv => BudgetIsAccounted
  BY DEF PromptInv
<1> QED BY <1>1, PromptInvariant, PTL

\* A drive that may still act on the command knows the last checkpoint, of
\* whichever attempt it was.
THEOREM OwnersKnowTheBudget == Spec => []OwnerKnowsTheBudget
<1>1. PromptInv => OwnerKnowsTheBudget
  BY DEF PromptInv, DriverCounts, OwnerKnowsTheBudget, Is
<1> QED BY <1>1, PromptInvariant, PTL
\* At most one call holds the right to acknowledge a message of the prompt.
THEOREM PromptAcknowledges == Spec => []AcknowledgedByOne
<1>1. PromptInv => AcknowledgedByOne
  BY DEF PromptInv, OutboxInv, TicketsDiffer, AcknowledgedByOne, OwnsMessage
<1> QED BY <1>1, PromptInvariant, PTL

\* A checkpoint adds an event and a message of its own, and takes back none.
LEMMA CheckpointKeepsStream ==
    ASSUME PromptInv, NEW a \in Drivers, Checkpoint(a)
    PROVE  StreamKept
<1>1. log \in Seq(Keys) /\ outbox \in [Keys -> {"none", "pending", "sent"}] /\ Len(log) \in Nat
  BY LenProperties DEF PromptInv, OutboxInv, OutboxTypeOK
<1>2. PICK k \in Keys : CommitFenced(a, k) \/ UNCHANGED <<rows, outbox, log>>
  <2>1. actor[a].rev \in Nat /\ actor[a].rev < MaxRevision
    BY DriverTypes DEF Checkpoint, PromptInv, PromptTypes, ActorState
  <2>2. BudgetKey(actor[a].rev + 1) \in Keys
    BY <2>1, KeyFacts, PromptAssumption
  <2> QED BY <2>2 DEF Checkpoint
<1>3. /\ outbox' = outbox \/ (outbox[k] = "none" /\ outbox' = [outbox EXCEPT ![k] = "sent"])
      /\ log' = log \/ log' = Append(log, k)
  BY <1>2 DEF CommitFenced, AppendEvent
<1>4. \A l \in Keys : outbox[l] = "sent" => outbox'[l] = "sent"
  BY <1>1, <1>3
<1>5. CASE log' = Append(log, k)
  <2>1. /\ DOMAIN log = 1..Len(log) /\ Len(log') = Len(log) + 1
        /\ \A i \in 1..Len(log) : log'[i] = log[i]
    BY <1>1, <1>5, Appended
  <2> QED BY <1>1, <1>4, <2>1 DEF StreamKept
<1>6. CASE log' = log
  BY <1>1, <1>4, <1>6 DEF StreamKept
<1> QED BY <1>3, <1>5, <1>6

\* The stream of the prompt is append-only: no claim, recovery or crash takes an
\* event back, and no acknowledged message is sent again.
THEOREM PromptStreamIsAppendOnly == Spec => StreamOnlyGrows
<1>1. PromptInv /\ [Next]_vars => [StreamKept]_outboxVars
  <2> SUFFICES ASSUME PromptInv, [Next]_vars PROVE StreamKept
    OBVIOUS
  <2>1. CASE UNCHANGED <<outbox, log>>
    <3>1. Len(log) \in Nat
      BY LenProperties DEF PromptInv, OutboxInv, OutboxTypeOK
    <3> QED BY <2>1, <3>1 DEF StreamKept
  <2>2. CASE OutboxNext
    BY <2>2, StepKeepsStream DEF PromptInv
  <2>3. ASSUME NEW a \in Drivers,
               Accept(a) \/ DriverStep(a) \/ Checkpoint(a) \/ WaitTimesOut(a)
        PROVE  StreamKept
    <3>1. CASE Checkpoint(a)
      BY <3>1, CheckpointKeepsStream
    <3>2. CASE ~Checkpoint(a)
      <4>1. UNCHANGED <<outbox, log>>
        BY <2>3, <3>2
           DEF Accept, DriverStep, WaitTimesOut, Claim, Peek, Joined, Wait, Relayed, Announced,
               Scan, Reconciled, Flushed, Recover, Reannounced, Start, ReadBudget, DriveEnds,
               Settle, Yielded, Finish, Catch, Abandon, Told, Retold, Calls, outboxVars
      <4> QED BY <2>1, <4>1
    <3> QED BY <3>1, <3>2
  <2>4. ASSUME NEW i \in Interrupts, Interrupt(i) \/ InterruptStep(i) PROVE StreamKept
    <3>1. UNCHANGED <<outbox, log>>
      BY <2>4 DEF Interrupt, InterruptStep, Cancel, Notified, Calls, outboxVars
    <3> QED BY <2>1, <3>1
  <2>5. ASSUME (\E c \in Callers : Calling(c) \/ CallFails(c)) \/ (\E k \in Keys : OutboxLeaseLapses(k))
        PROVE  StreamKept
    BY <2>2, <2>5 DEF Calling, CallFails, OutboxLeaseLapses, OutboxNext
  <2>6. ASSUME CommandLapses \/ (\E h \in Hosts : Boot(h) \/ Crash(h)) PROVE StreamKept
    <3>1. UNCHANGED <<outbox, log>>
      BY <2>6 DEF CommandLapses, Boot, Crash, outboxVars
    <3> QED BY <2>1, <3>1
  <2>7. CASE UNCHANGED vars
    BY <2>1, <2>7 DEF vars, outboxVars
  <2> QED BY <2>3, <2>4, <2>5, <2>6, <2>7 DEF Next
<1> QED BY <1>1, PromptInvariant, PTL DEF Spec, StreamOnlyGrows, StreamKept


----------------------------------------------------------------------------
(* The contract of the prompt. *)

\* An interrupt that is about to return announces a cancellation.
InterruptsAnnounce ==
    \A i \in Interrupts : Is(i, "notifying") => call[i].want = TerminalKey("cancelled")

ContractStep == Contract!Next \/ UNCHANGED Contract!contractVars

OnlyMoves(a) == \A b \in Actors : b # a => actor'[b] = actor[b]

LEMMA Unseen ==
    ASSUME outcomeOf' = outcomeOf, log' = log, toldOf' = toldOf, confirmedOf' = confirmedOf
    PROVE  ContractStep
<1>1. announcedOf' = announcedOf
  BY DEF announcedOf, Recorded, TerminalKey
<1>2. Revisions' = Revisions
  BY LogUnmoved
<1>3. RecoverBudget' = RecoverBudget
  BY <1>2 DEF RecoverBudget
<1> QED BY <1>1, <1>3 DEF ContractStep, Contract!contractVars

\* The answers, when nobody who has one moves and nobody gets one.
LEMMA AnswersKeep ==
    ASSUME \A a \in Actors : \/ actor'[a].at = actor[a].at /\ actor'[a].held = actor[a].held
                                /\ actor'[a].verdict = actor[a].verdict
                             \/ actor[a].at # "returned" /\ actor'[a].at # "returned"
    PROVE  toldOf' = toldOf /\ confirmedOf' = confirmedOf
<1>1. \A a \in Sends : (IF Is(a, "returned") THEN actor[a].verdict ELSE "none")'
                       = IF Is(a, "returned") THEN actor[a].verdict ELSE "none"
  BY DEF Is, Actors, Drivers
<1>2. \A i \in Interrupts : (Is(i, "returned") /\ actor[i].held # 0)'
                            <=> Is(i, "returned") /\ actor[i].held # 0
  BY DEF Is, Actors
<1> QED BY <1>1, <1>2 DEF toldOf, confirmedOf

\* The stream has no outcome but the one of the row, before and after a step.
LEMMA OneAnnounced ==
    ASSUME PromptInv, PromptInv'
    PROVE  announcedOf \subseteq {status} /\ announcedOf' \subseteq {status'}
<1>1. ASSUME NEW s \in Terminal, Recorded(TerminalKey(s)) PROVE status = s
  <2>1. outbox[TerminalKey(s)] # "none"
    BY <1>1 DEF PromptInv, OutboxInv, RowsAreKeyed, Recorded
  <2> QED BY <2>1 DEF PromptInv, OutcomeIsEvidence
<1>2. ASSUME NEW s \in Terminal, Recorded(TerminalKey(s))' PROVE status' = s
  <2>1. outbox'[TerminalKey(s)] # "none"
    BY <1>2 DEF PromptInv, OutboxInv, RowsAreKeyed, Recorded, TerminalKey
  <2> QED BY <2>1 DEF PromptInv, OutcomeIsEvidence, TerminalKey
<1> QED BY <1>1, <1>2 DEF announcedOf

\* A step of one actor that leaves row and stream alone tells at most that actor
\* what became of the prompt.
LEMMA OneIsTold ==
    ASSUME PromptInv', NEW a \in Actors, OnlyMoves(a), actor[a].at # "returned",
           outcomeOf' = outcomeOf, status' = status, log' = log,
           a \in Interrupts /\ actor'[a].at = "returned" =>
               \/ actor'[a].held = 0
               \/ status = "cancelled" /\ Recorded(TerminalKey(status))
    PROVE  ContractStep
<1>1. Sends \cap Recoveries = {} /\ Drivers \cap Interrupts = {}
  BY PromptAssumption
<1>2. announcedOf' = announcedOf
  BY DEF announcedOf, Recorded, TerminalKey
<1>3. RecoverBudget' = RecoverBudget
  <2>1. Revisions' = Revisions
    BY LogUnmoved
  <2> QED BY <2>1 DEF RecoverBudget
<1>4. CASE actor'[a].at # "returned"
  BY <1>4, AnswersKeep, Unseen DEF OnlyMoves
<1>5. CASE actor'[a].at = "returned" /\ a \in Recoveries
  <2>1. a \notin Sends /\ a \notin Interrupts
    BY <1>1, <1>5 DEF Drivers
  <2>2. \A b \in Sends \cup Interrupts : actor'[b] = actor[b]
    BY <2>1 DEF OnlyMoves, Actors, Drivers
  <2>3. toldOf' = toldOf /\ confirmedOf' = confirmedOf
    BY <2>2 DEF toldOf, confirmedOf, Is
  <2> QED BY <2>3, Unseen
<1>6. CASE actor'[a].at = "returned" /\ a \in Sends
  <2>1. a \notin Interrupts
    BY <1>1, <1>6 DEF Drivers
  <2>2. /\ status \in Terminal /\ actor'[a].verdict = status
        /\ Recorded(TerminalKey(status))
    <3>1. DriverKnows(a)'
      BY <1>6 DEF PromptInv, Drivers
    <3> QED BY <1>6, <3>1 DEF DriverKnows, Recorded, TerminalKey
  <2>3. outcomeOf = status /\ outcomeOf \in announcedOf
    BY <2>2 DEF outcomeOf, announcedOf, Terminal
  <2>4. \A b \in Sends : b # a => actor'[b] = actor[b]
    BY DEF OnlyMoves, Actors, Drivers
  <2>5. toldOf' = [toldOf EXCEPT ![a] = outcomeOf] /\ toldOf[a] = "none"
    BY <1>6, <2>2, <2>3, <2>4 DEF toldOf, Is
  <2>6. confirmedOf' = confirmedOf
    BY <2>1 DEF confirmedOf, OnlyMoves, Actors, Is
  <2>7. Contract!Tell(a)
    BY <1>2, <1>3, <2>3, <2>5, <2>6 DEF Contract!Tell
  <2> QED BY <1>6, <2>7 DEF ContractStep, Contract!Next
<1>7. CASE actor'[a].at = "returned" /\ a \in Interrupts
  <2>1. a \notin Sends
    BY <1>1, <1>7 DEF Drivers
  <2>2. toldOf' = toldOf
    BY <2>1 DEF toldOf, OnlyMoves, Actors, Drivers, Is
  <2>3. \A b \in Interrupts : b # a => actor'[b] = actor[b]
    BY DEF OnlyMoves, Actors
  <2>4. CASE actor'[a].held = 0
    <3>1. confirmedOf' = confirmedOf
      BY <1>7, <2>3, <2>4 DEF confirmedOf, Is
    <3> QED BY <2>2, <3>1, Unseen
  <2>5. CASE actor'[a].held # 0
    <3>1. status = "cancelled" /\ Recorded(TerminalKey(status))
      BY <1>7, <2>5
    <3>2. outcomeOf = "cancelled" /\ outcomeOf \in announcedOf
      BY <3>1 DEF outcomeOf, announcedOf, Terminal
    <3>3. confirmedOf' = confirmedOf \cup {a} /\ a \notin confirmedOf
      BY <1>7, <2>3, <2>5 DEF confirmedOf, Is
    <3>4. Contract!Confirm(a)
      BY <1>2, <1>3, <2>2, <3>2, <3>3 DEF Contract!Confirm
    <3> QED BY <1>7, <3>4 DEF ContractStep, Contract!Next
  <2> QED BY <2>4, <2>5
<1> QED BY <1>4, <1>5, <1>6, <1>7 DEF Actors, Drivers

\* The holder of the lease settles the row, and answers nobody in that step.
LEMMA OneDecides ==
    ASSUME status = "running", status' \in Terminal, log' = log,
           toldOf' = toldOf, confirmedOf' = confirmedOf
    PROVE  ContractStep
<1>1. outcomeOf = "open" /\ outcomeOf' = status'
  BY DEF outcomeOf, Terminal
<1>2. announcedOf' = announcedOf
  BY DEF announcedOf, Recorded, TerminalKey
<1>3. RecoverBudget' = RecoverBudget
  <2>1. Revisions' = Revisions
    BY LogUnmoved
  <2> QED BY <2>1 DEF RecoverBudget
<1>4. Contract!Decide
  BY <1>1, <1>2, <1>3 DEF Contract!Decide, Contract!Outcomes, Terminal
<1> QED BY <1>4 DEF ContractStep, Contract!Next

----------------------------------------------------------------------------
LEMMA Typed ==
    ASSUME PromptInv, NEW a \in Drivers
    PROVE  actor \in [Actors -> ActorState] /\ a \in Actors
  BY DEF PromptInv, PromptTypes, Actors

\* Most steps of a driver neither settle the row nor add to the stream.
LEMMA DriverContract ==
    ASSUME PromptInv, PromptInv', NEW a \in Drivers,
           \/ Claim(a) \/ Peek(a) \/ Joined(a) \/ Wait(a) \/ Relayed(a) \/ Announced(a)
           \/ Scan(a) \/ Reconciled(a) \/ Flushed(a) \/ Recover(a) \/ Reannounced(a)
           \/ Start(a) \/ ReadBudget(a) \/ DriveEnds(a) \/ Settle(a) \/ Yielded(a)
           \/ Catch(a) \/ Told(a) \/ Retold(a) \/ WaitTimesOut(a)
    PROVE  ContractStep
<1>1. actor \in [Actors -> ActorState] /\ a \in Actors /\ a \notin Interrupts
  BY Typed, PromptAssumption
<1>2. OnlyMoves(a)
  BY <1>1
     DEF OnlyMoves, Claim, Peek, Joined, Wait, Relayed, Announced, Scan, Reconciled, Flushed,
         Recover, Reannounced, Start, ReadBudget, DriveEnds, Settle, Yielded, Catch, Told, Retold,
         WaitTimesOut, LookAfterInterrupt, Leave, Move
<1>3. actor[a].at # "returned"
  BY DEF Claim, Peek, Joined, Wait, Relayed, Announced, Scan, Reconciled, Flushed,
         Recover, Reannounced, Start, ReadBudget, DriveEnds, Settle, Yielded, Catch, Told, Retold,
         WaitTimesOut, Is
<1>4. log' = log
  BY DEF Claim, Peek, Joined, Wait, Relayed, Announced, Scan, Reconciled, Flushed,
         Recover, Reannounced, Start, ReadBudget, DriveEnds, Settle, Yielded, Catch, Told, Retold,
         WaitTimesOut, Calls, outboxVars
<1>5. CASE ClaimCommand(HostOf(a)) /\ actor'[a].at \in {"announcing", "reannouncing"}
  <2>1. outcomeOf' = outcomeOf
    BY <1>5 DEF ClaimCommand, ClaimableCommand, outcomeOf
  <2>2. toldOf' = toldOf /\ confirmedOf' = confirmedOf
    BY <1>2, <1>3, <1>5, AnswersKeep DEF OnlyMoves
  <2> QED BY <1>4, <2>1, <2>2, Unseen
<1>6. CASE UNCHANGED commandVars
  <2>1. status' = status /\ outcomeOf' = outcomeOf
    BY <1>6 DEF commandVars, outcomeOf
  <2> QED BY <1>1, <1>2, <1>3, <1>4, <2>1, OneIsTold
<1>7. CASE Claim(a) \/ Recover(a)
  <2>1. \/ UNCHANGED commandVars
        \/ /\ ClaimCommand(HostOf(a))
           /\ \E x \in {"announcing", "reannouncing"} :
                 actor' = [actor EXCEPT ![a].at = x, ![a].held = token + 1]
    BY <1>7 DEF Claim, Recover
  <2>2. ASSUME NEW x, actor' = [actor EXCEPT ![a].at = x, ![a].held = token + 1]
        PROVE  actor'[a].at = x
    BY <1>1, <2>2 DEF ActorState
  <2> QED BY <1>5, <1>6, <2>1, <2>2
<1> QED BY <1>6, <1>7
     DEF Peek, Joined, Wait, Relayed, Announced, Scan, Reconciled, Flushed,
         Reannounced, Start, ReadBudget, DriveEnds, Settle, Yielded, Catch, Told, Retold,
         WaitTimesOut

\* A prompt is accepted once; a send of a known one changes nothing.
LEMMA AcceptContract ==
    ASSUME PromptInv, NEW a \in Drivers, Accept(a)
    PROVE  ContractStep
<1>1. actor \in [Actors -> ActorState] /\ a \in Actors
  BY Typed
<1>2. /\ log' = log /\ actor[a].at = "idle"
      /\ status' = IF status = "none" THEN "accepted" ELSE status
  BY DEF Accept, Calls, Is
<1>3. OnlyMoves(a) /\ actor'[a].at \in {"relaying", "joining", "claiming"}
  <2>1. CASE Move(a, "claiming")
    BY <1>1, <2>1, PlaceMoves DEF Goes, OnlyMoves, ActorPlaces, Unclaimed
  <2>2. ASSUME NEW x \in {"relaying", "joining"},
               actor' = [actor EXCEPT ![a].at = x, ![a].verdict = status]
        PROVE  OnlyMoves(a) /\ actor'[a].at = x
    BY <1>1, <2>2 DEF ActorState, OnlyMoves
  <2>3. \/ Move(a, "claiming")
        \/ \E x \in {"relaying", "joining"} :
              actor' = [actor EXCEPT ![a].at = x, ![a].verdict = status]
    BY DEF Accept
  <2> QED BY <2>1, <2>2, <2>3
<1>4. toldOf' = toldOf /\ confirmedOf' = confirmedOf
  BY <1>2, <1>3, AnswersKeep DEF OnlyMoves
<1>5. CASE status # "none"
  <2>1. outcomeOf' = outcomeOf
    BY <1>2, <1>5 DEF outcomeOf
  <2> QED BY <1>2, <1>4, <2>1, Unseen
<1>6. CASE status = "none"
  <2>1. outcomeOf = "none" /\ outcomeOf' = "open"
    BY <1>2, <1>6 DEF outcomeOf
  <2>2. announcedOf' = announcedOf
    BY <1>2 DEF announcedOf, Recorded, TerminalKey
  <2>3. RecoverBudget' = RecoverBudget
    <3>1. Revisions' = Revisions
      BY <1>2, LogUnmoved
    <3> QED BY <3>1 DEF RecoverBudget
  <2>4. Contract!Accept
    BY <1>4, <2>1, <2>2, <2>3 DEF Contract!Accept
  <2> QED BY <2>4 DEF ContractStep, Contract!Next
<1> QED BY <1>5, <1>6

\* A driver settles the row with its lease, or finds it taken.
LEMMA FinishContract ==
    ASSUME PromptInv, PromptInv', NEW a \in Drivers, Finish(a) \/ Abandon(a)
    PROVE  ContractStep
<1>1. actor \in [Actors -> ActorState] /\ a \in Actors /\ a \notin Interrupts
  BY Typed, PromptAssumption
<1>2. OnlyMoves(a)
  BY <1>1 DEF OnlyMoves, Finish, Abandon, Leave, Move
<1>3. actor[a].at \in {"finishing", "abandoning"} /\ log' = log
  BY DEF Finish, Abandon, Is, Calls, outboxVars
<1>4. CASE UNCHANGED commandVars
  <2>1. status' = status /\ outcomeOf' = outcomeOf
    BY <1>4 DEF commandVars, outcomeOf
  <2> QED BY <1>1, <1>2, <1>3, <2>1, OneIsTold
<1>5. ASSUME NEW s \in Terminal, FinishCommand(HostOf(a), actor[a].held, s),
             NEW x \in {"telling", "retelling"}, Move(a, x)
      PROVE  ContractStep
  <2>1. status = "running" /\ status' = s
    BY <1>5 DEF FinishCommand, Leased
  <2>2. actor'[a].at = x
    BY <1>1, <1>5 DEF Move, ActorState
  <2>3. toldOf' = toldOf /\ confirmedOf' = confirmedOf
    BY <1>2, <1>3, <2>2, AnswersKeep DEF OnlyMoves
  <2> QED BY <1>3, <1>5, <2>1, <2>3, OneDecides
<1>6. CASE Finish(a)
  <2>1. actor[a].verdict \in Terminal
    BY <1>6 DEF PromptInv, DriverKnows, Finish, Is, Terminal
  <2> QED BY <1>4, <1>5, <1>6, <2>1 DEF Finish
<1>7. CASE Abandon(a)
  BY <1>4, <1>5, <1>7 DEF Abandon, Terminal
<1> QED BY <1>6, <1>7

\* A checkpoint of the drive that owns the command spends; any other ends it.
LEMMA CheckpointContract ==
    ASSUME PromptInv, PromptInv', NEW a \in Drivers, Checkpoint(a)
    PROVE  ContractStep
<1>1. actor \in [Actors -> ActorState] /\ a \in Actors /\ actor[a].at = "driving"
  BY Typed DEF Checkpoint, Is
<1>2. UNCHANGED <<status, token, owner, live>> /\ outcomeOf' = outcomeOf
  BY DEF Checkpoint, commandVars, outcomeOf
<1>3. CASE active[HostOf(a)] = actor[a].held /\ Owned(a)
  <2>1. actor' = [actor EXCEPT ![a] = [actor[a] EXCEPT !.rev = actor[a].rev + 1]]
    BY <1>1, <1>3 DEF Checkpoint
  <2>2. /\ OnlyMoves(a) /\ actor'[a].at = "driving" /\ actor'[a].held = actor[a].held
        /\ actor'[a].rev = actor[a].rev + 1
    BY <1>1, <2>1 DEF OnlyMoves, ActorState
  <2>3. toldOf' = toldOf /\ confirmedOf' = confirmedOf
    BY <1>1, <2>2, AnswersKeep DEF OnlyMoves
  <2>4. status = "running" /\ Owned(a)'
    BY <1>2, <1>3, <2>2 DEF Owned, Leased
  <2>5. RecoverBudget' = RecoverBudget + 1
    <3>1. DriverCounts(a) /\ DriverCounts(a)'
      BY DEF PromptInv
    <3> QED BY <1>1, <1>3, <2>2, <2>4, <3>1 DEF DriverCounts
  <2>6. announcedOf = {} /\ announcedOf' = {}
    <3>1. announcedOf \subseteq {status} /\ announcedOf' \subseteq {status'}
      BY OneAnnounced
    <3>2. announcedOf \subseteq Terminal /\ announcedOf' \subseteq Terminal
      BY DEF announcedOf
    <3> QED BY <1>2, <2>4, <3>1, <3>2 DEF Terminal
  <2>7. outcomeOf = "open"
    BY <2>4 DEF outcomeOf
  <2>8. Contract!Spend
    BY <1>2, <2>3, <2>5, <2>6, <2>7 DEF Contract!Spend
  <2> QED BY <2>8 DEF ContractStep, Contract!Next
<1>4. CASE ~(active[HostOf(a)] = actor[a].held /\ Owned(a))
  <2>1. actor' = [actor EXCEPT ![a].at = "driven", ![a].verdict = "failed"] /\ log' = log
    BY <1>4 DEF Checkpoint
  <2>2. OnlyMoves(a) /\ actor'[a].at = "driven"
    BY <1>1, <2>1 DEF OnlyMoves, ActorState
  <2>3. toldOf' = toldOf /\ confirmedOf' = confirmedOf
    BY <1>1, <2>2, AnswersKeep DEF OnlyMoves
  <2> QED BY <1>2, <2>1, <2>3, Unseen
<1> QED BY <1>3, <1>4

\* An interrupt is confirmed when the cancellation it has made is in the stream.
LEMMA InterruptContract ==
    ASSUME PromptInv, PromptInv', InterruptsAnnounce, NEW i \in Interrupts,
           Interrupt(i) \/ Cancel(i) \/ Notified(i)
    PROVE  ContractStep
<1>1. /\ actor \in [Actors -> ActorState] /\ i \in Actors /\ i \in Callers /\ i \notin Drivers
      /\ i \notin Sends
  BY PromptAssumption DEF PromptInv, PromptTypes, Actors, Drivers
<1>2. CASE Interrupt(i)
  <2> DEFINE h == HostOf(i)
             x == IF active[h] # 0 THEN "cancelling" ELSE "returned"
  <2>1. /\ UNCHANGED outboxVars /\ UNCHANGED commandVars /\ actor[i].at = "idle"
        /\ actor' = [a \in Actors |->
              IF a = i THEN [actor[i] EXCEPT !.at = x, !.held = active[h]]
              ELSE IF a \in Sends /\ HostOf(a) = h /\ actor[a].at \notin Ended \cup {"idle"}
              THEN [actor[a] EXCEPT !.cut = TRUE] ELSE actor[a]]
    BY <1>2 DEF Interrupt, Is
  <2> HIDE DEF h
  <2>2. actor'[i].at = x /\ actor'[i].held = active[h]
    <3>1. actor'[i] = [actor[i] EXCEPT !.at = x, !.held = active[h]]
      BY <1>1, <2>1
    <3>2. actor[i] \in ActorState
      BY <1>1
    <3> HIDE DEF x
    <3> QED BY <3>1, <3>2 DEF ActorState
  <2>3. ASSUME NEW a \in Actors, a # i
        PROVE  /\ actor'[a].at = actor[a].at /\ actor'[a].held = actor[a].held
               /\ actor'[a].verdict = actor[a].verdict
    <3>1. actor[a] \in ActorState
      BY <1>1
    <3>2. actor'[a] = actor[a] \/ actor'[a] = [actor[a] EXCEPT !.cut = TRUE]
      BY <2>1, <2>3
    <3> QED BY <3>1, <3>2 DEF ActorState
  <2>4. toldOf' = toldOf
    <3>1. \A a \in Sends : /\ actor'[a].at = actor[a].at
                           /\ actor'[a].verdict = actor[a].verdict
      BY <1>1, <2>3 DEF Actors, Drivers
    <3> QED BY <3>1 DEF toldOf, Is
  <2>5. confirmedOf' = confirmedOf
    <3>1. \A j \in Interrupts : (Is(j, "returned") /\ actor[j].held # 0)'
                                <=> Is(j, "returned") /\ actor[j].held # 0
      BY <2>1, <2>2, <2>3 DEF Actors, Is
    <3> QED BY <3>1 DEF confirmedOf
  <2> QED BY <2>1, <2>4, <2>5, Unseen DEF outboxVars, commandVars, outcomeOf
<1>3. ASSUME Cancel(i) \/ Notified(i)
      PROVE  OnlyMoves(i) /\ log' = log /\ actor[i].at \in {"cancelling", "notifying"}
  BY <1>1, <1>3 DEF OnlyMoves, Cancel, Notified, Move, Calls, outboxVars, Is
<1>4. CASE Cancel(i)
  <2>1. PICK x \in {"notifying", "threw"} :
           /\ Move(i, x)
           /\ \/ FinishCommand(HostOf(i), actor[i].held, "cancelled")
              \/ UNCHANGED commandVars
    BY <1>4 DEF Cancel
  <2>2. actor'[i].at = x
    BY <1>1, <2>1 DEF Move, ActorState
  <2>3. toldOf' = toldOf /\ confirmedOf' = confirmedOf
    BY <1>3, <1>4, <2>2, AnswersKeep DEF OnlyMoves
  <2>4. CASE FinishCommand(HostOf(i), actor[i].held, "cancelled")
    <3>1. status = "running" /\ status' = "cancelled"
      BY <2>4 DEF FinishCommand, Leased
    <3> QED BY <1>3, <1>4, <2>3, <3>1, OneDecides DEF Terminal
  <2>5. CASE UNCHANGED commandVars
    BY <1>3, <1>4, <2>3, <2>5, Unseen DEF commandVars, outcomeOf
  <2> QED BY <2>1, <2>4, <2>5
<1>5. CASE Notified(i)
  <2>1. status' = status /\ outcomeOf' = outcomeOf
    BY <1>5 DEF Notified, commandVars, outcomeOf
  <2>2. actor[i].at = "notifying" /\ call[i].want = TerminalKey("cancelled")
    BY <1>5 DEF Notified, Is, InterruptsAnnounce
  <2>3. status = "cancelled"
    BY <1>1, <2>2 DEF PromptInv, OutcomeIsEvidence, Terminal
  <2>4. actor'[i].at = "returned" => Recorded(TerminalKey(status))
    <3>1. CASE Succeeded(i)
      <4>1. TerminalKey("cancelled") # NoKey
        BY KeyFacts, OutboxAssumption DEF Terminal
      <4> QED BY <1>1, <2>2, <2>3, <3>1, <4>1 DEF Succeeded, PromptInv, OutboxInv, PublishedIsRecorded
    <3>2. CASE Move(i, "threw")
      BY <1>1, <3>2 DEF Move, ActorState
    <3> QED BY <1>5, <3>1, <3>2 DEF Notified
  <2> QED BY <1>1, <1>3, <1>5, <2>1, <2>2, <2>3, <2>4, OneIsTold
<1> QED BY <1>2, <1>4, <1>5

\* A step inside a call announces the outcome of the row, or adds nothing to it.
LEMMA CallContract ==
    ASSUME PromptInv, PromptInv', NEW c \in Callers, Calling(c) \/ CallFails(c)
    PROVE  ContractStep
<1>1. CallMoves /\ UNCHANGED <<status, token, owner, live>> /\ actor' = actor
  BY CallStepMoves DEF Calling, CallFails, commandVars, PromptInv
<1>2. outcomeOf' = outcomeOf /\ toldOf' = toldOf /\ confirmedOf' = confirmedOf
  BY <1>1 DEF outcomeOf, toldOf, confirmedOf, Is
<1>3. CASE log' = log
  BY <1>2, <1>3, Unseen
<1>4. ASSUME NEW k \in Keys, NEW d \in Callers, call[d].taken = k, log' = Append(log, k)
      PROVE  ContractStep
  <2>1. /\ DOMAIN log = 1..Len(log) /\ Len(log) \in Nat /\ DOMAIN log' = 1..(Len(log) + 1)
        /\ log'[Len(log) + 1] = k /\ \A j \in 1..Len(log) : log'[j] = log[j]
    BY <1>4, Appended DEF PromptInv, OutboxInv, OutboxTypeOK
  <2>2. \A l : Recorded(l)' <=> Recorded(l) \/ l = k
    BY <2>1 DEF Recorded
  <2>3. Revisions' = Revisions
    <3>1. \A r \in 1..MaxRevision : BudgetKey(r) # k
      BY <1>4 DEF PromptInv, CheckpointsAreCommitted
    <3> QED BY <2>2, <3>1 DEF Revisions, BudgetKey, Recorded
  <2>4. RecoverBudget' = RecoverBudget
    BY <2>3 DEF RecoverBudget
  <2>5. announcedOf \subseteq announcedOf' /\ announcedOf' \subseteq Terminal
    BY <2>2 DEF announcedOf, TerminalKey, Recorded
  <2>6. announcedOf \subseteq {status} /\ announcedOf' \subseteq {status}
    <3>1. announcedOf \subseteq {status} /\ announcedOf' \subseteq {status'}
      BY OneAnnounced
    <3> QED BY <1>1, <3>1
  <2>7. CASE announcedOf' = announcedOf
    BY <1>2, <2>4, <2>7 DEF ContractStep, Contract!contractVars
  <2>8. CASE announcedOf' # announcedOf
    <3>1. announcedOf = {} /\ announcedOf' = {status} /\ status \in Terminal
      BY <2>5, <2>6, <2>8
    <3>2. outcomeOf = status
      BY <3>1 DEF outcomeOf, Terminal
    <3>3. Contract!Announce
      BY <1>2, <2>4, <3>1, <3>2 DEF Contract!Announce, Contract!Outcomes, Terminal
    <3> QED BY <3>3 DEF ContractStep, Contract!Next
  <2> QED BY <2>7, <2>8
<1> QED BY <1>1, <1>3, <1>4 DEF CallMoves

\* Leases and hosts are not visible; a host takes with it only who has no answer.
LEMMA HostsContract ==
    ASSUME PromptInv,
           \/ CommandLapses \/ \E k \in Keys : OutboxLeaseLapses(k)
           \/ \E h \in Hosts : Boot(h) \/ Crash(h)
    PROVE  ContractStep
<1>1. log' = log /\ status' = status
  BY DEF CommandLapses, OutboxLeaseLapses, MessageLapses, Boot, Crash, outboxVars, commandVars
<1>2. outcomeOf' = outcomeOf
  BY <1>1 DEF outcomeOf
<1>3. CASE actor' = actor
  <2>1. toldOf' = toldOf /\ confirmedOf' = confirmedOf
    BY <1>3 DEF toldOf, confirmedOf, Is
  <2> QED BY <1>1, <1>2, <2>1, Unseen
<1>4. ASSUME NEW h \in Hosts, Crash(h) PROVE ContractStep
  <2>1. \A a \in Actors : \/ actor'[a] = actor[a]
                          \/ /\ actor[a].at \notin Ended \ {"leaked"}
                             /\ actor'[a] = [actor[a] EXCEPT !.at = "crashed"]
    BY <1>4 DEF Crash
  <2>2. ASSUME NEW a \in Actors
        PROVE  [actor[a] EXCEPT !.at = "crashed"].at = "crashed"
    BY DEF PromptInv, PromptTypes, ActorState
  <2>3. toldOf' = toldOf /\ confirmedOf' = confirmedOf
    BY <2>1, <2>2, AnswersKeep DEF Ended
  <2> QED BY <1>1, <1>2, <2>3, Unseen
<1> QED BY <1>3, <1>4 DEF CommandLapses, OutboxLeaseLapses, Boot

\* A driver changes its own place and its own call.
LEMMA DriverMoves ==
    ASSUME PromptInv, NEW a \in Drivers,
           Accept(a) \/ DriverStep(a) \/ Checkpoint(a) \/ WaitTimesOut(a)
    PROVE  OnlyMoves(a) /\ \A c \in Callers : c # a => call'[c] = call[c]
<1>1. /\ actor \in [Actors -> ActorState] /\ a \in Actors
      /\ call \in [Callers -> Records]
  BY Typed DEF PromptInv, OutboxInv, OutboxTypeOK, Records
<1>2. CASE Accept(a) \/ WaitTimesOut(a) \/ Checkpoint(a)
  BY <1>1, <1>2 DEF OnlyMoves, Accept, WaitTimesOut, outboxVars, Checkpoint, Publishes, Begin, Move
<1>3. CASE Claim(a) \/ Peek(a) \/ Joined(a) \/ Wait(a) \/ Relayed(a) \/ Announced(a)
  BY <1>1, <1>3 DEF OnlyMoves, Claim, Peek, Joined, Wait, Relayed, Announced, Publishes, Begin,
                    Move, Calls, outboxVars
<1>4. CASE Scan(a) \/ Reconciled(a) \/ Flushed(a) \/ Recover(a) \/ Reannounced(a)
  BY <1>1, <1>4 DEF OnlyMoves, Scan, Reconciled, Flushed, Recover, Reannounced, Publishes, Begin,
                    Move, Calls, outboxVars
<1>5. CASE Start(a) \/ ReadBudget(a) \/ DriveEnds(a) \/ Settle(a) \/ Yielded(a)
  BY <1>1, <1>5 DEF OnlyMoves, Start, ReadBudget, DriveEnds, Settle, Yielded, LookAfterInterrupt,
                    Publishes, Begin, Move, Calls, outboxVars
<1>6. CASE Finish(a) \/ Catch(a) \/ Abandon(a) \/ Told(a) \/ Retold(a)
  BY <1>1, <1>6 DEF OnlyMoves, Finish, Catch, Abandon, Told, Retold, Leave,
                    Publishes, Begin, Move, Calls, outboxVars
<1> QED BY <1>2, <1>3, <1>4, <1>5, <1>6 DEF DriverStep

LEMMA AnnounceKeeps == PromptInv /\ InterruptsAnnounce /\ [Next]_vars => InterruptsAnnounce'
<1> SUFFICES ASSUME PromptInv, InterruptsAnnounce, [Next]_vars,
                    NEW i \in Interrupts, actor'[i].at = "notifying"
             PROVE  call'[i].want = TerminalKey("cancelled")
  BY DEF InterruptsAnnounce, Is, TerminalKey
<1>1. /\ actor \in [Actors -> ActorState] /\ i \in Actors /\ i \in Callers /\ i \notin Drivers
      /\ call \in [Callers -> Records]
  BY PromptAssumption DEF PromptInv, PromptTypes, Actors, OutboxInv, OutboxTypeOK, Records
<1>2. actor[i].at = "notifying" => call[i].want = TerminalKey("cancelled")
  BY DEF InterruptsAnnounce, Is
<1>3. CASE actor'[i] = actor[i] /\ call'[i].want = call[i].want
  BY <1>2, <1>3
<1>4. ASSUME NEW a \in Drivers,
             Accept(a) \/ DriverStep(a) \/ Checkpoint(a) \/ WaitTimesOut(a)
      PROVE  actor'[i] = actor[i] /\ call'[i].want = call[i].want
  BY <1>1, <1>4, DriverMoves DEF OnlyMoves
<1>5. ASSUME NEW j \in Interrupts, Interrupt(j)
      PROVE  call'[i].want = TerminalKey("cancelled")
  <2>1. call' = call
    BY <1>5 DEF Interrupt, outboxVars
  <2>2. actor[i].at = "notifying"
    <3>1. CASE i = j
      <4>1. PICK x \in {"cancelling", "returned"} :
               actor'[i] = [actor[i] EXCEPT !.at = x, !.held = active[HostOf(i)]]
        BY <1>1, <1>5, <3>1 DEF Interrupt
      <4>2. actor'[i].at = x
        BY <1>1, <4>1 DEF ActorState
      <4> QED BY <4>2
    <3>2. CASE i # j
      <4>1. actor'[i] = actor[i] \/ actor'[i] = [actor[i] EXCEPT !.cut = TRUE]
        BY <1>1, <1>5, <3>2 DEF Interrupt
      <4> QED BY <1>1, <4>1 DEF ActorState
    <3> QED BY <3>1, <3>2
  <2> QED BY <1>2, <2>1, <2>2
<1>6. ASSUME NEW j \in Interrupts, Cancel(j) \/ Notified(j)
      PROVE  call'[i].want = TerminalKey("cancelled")
  <2>1. CASE i # j
    <3>1. actor'[i] = actor[i] /\ call'[i] = call[i]
      BY <1>1, <1>6, <2>1 DEF Cancel, Notified, Move, Publishes, Begin
    <3> QED BY <1>3, <3>1
  <2>2. CASE i = j /\ Notified(j)
    <3>1. actor'[i].at \in {"returned", "threw"}
      BY <1>1, <2>2 DEF Notified, Move, ActorState
    <3> QED BY <3>1
  <2>3. CASE i = j /\ Cancel(j)
    <3>1. CASE Move(i, "threw")
      BY <1>1, <3>1 DEF Move, ActorState
    <3>2. CASE Publishes(i, TerminalKey("cancelled"))
      <4>1. call'[i] = Publishing(TerminalKey("cancelled"))
        BY <1>1, <3>2 DEF Publishes, Begin
      <4> QED BY <4>1 DEF Publishing, Idle
    <3> QED BY <2>3, <3>1, <3>2 DEF Cancel
  <2> QED BY <1>6, <2>1, <2>2, <2>3
<1>7. ASSUME NEW c \in Callers, Calling(c) \/ CallFails(c)
      PROVE  actor'[i] = actor[i] /\ call'[i].want = call[i].want
  BY <1>1, <1>7, CallStepMoves DEF CallMoves, Calling, CallFails, PromptInv
<1>8. ASSUME CommandLapses \/ (\E k \in Keys : OutboxLeaseLapses(k)) \/ (\E h \in Hosts : Boot(h))
      PROVE  actor'[i] = actor[i] /\ call'[i].want = call[i].want
  BY <1>8 DEF CommandLapses, OutboxLeaseLapses, MessageLapses, Boot, outboxVars
<1>9. ASSUME NEW h \in Hosts, Crash(h)
      PROVE  call'[i].want = TerminalKey("cancelled")
  <2>1. actor'[i] = [actor[i] EXCEPT !.at = "crashed"] \/
        (actor'[i] = actor[i] /\ ~(HostOf(i) = h /\ actor[i].at \notin Ended \ {"leaked"}))
    BY <1>1, <1>9 DEF Crash
  <2>2. actor'[i] # [actor[i] EXCEPT !.at = "crashed"]
    BY <1>1 DEF ActorState
  <2>3. actor'[i] = actor[i] /\ HostOf(i) # h
    BY <2>1, <2>2 DEF Ended
  <2>4. call'[i] = call[i]
    BY <1>1, <1>9, <2>3 DEF Crash, Gone
  <2> QED BY <1>2, <2>3, <2>4
<1>10. CASE UNCHANGED vars
  BY <1>3, <1>10 DEF vars, outboxVars
<1> QED
  BY <1>3, <1>4, <1>5, <1>6, <1>7, <1>8, <1>9, <1>10 DEF Next, InterruptStep

\* Nobody has an answer before anybody asks.
LEMMA InitContract == Init => Contract!Init /\ InterruptsAnnounce
<1> SUFFICES ASSUME Init PROVE Contract!Init /\ InterruptsAnnounce
  OBVIOUS
<1>1. log = <<>> /\ status = "none" /\ \A a \in Actors : actor[a].at = "idle"
  BY DEF Init, OutboxInit, Fresh
<1>2. outcomeOf = "none" /\ announcedOf = {} /\ confirmedOf = {}
  BY <1>1 DEF outcomeOf, announcedOf, confirmedOf, Recorded, Is, Actors
<1>3. toldOf = [a \in Sends |-> "none"]
  BY <1>1 DEF toldOf, Is, Actors, Drivers
<1>4. RecoverBudget = 0
  <2>1. Revisions = {}
    BY <1>1 DEF Revisions, Recorded
  <2> QED BY <2>1 DEF RecoverBudget
<1>5. InterruptsAnnounce
  BY <1>1 DEF InterruptsAnnounce, Is, Actors
<1> QED BY <1>2, <1>3, <1>4, <1>5 DEF Contract!Init

LEMMA NextContract ==
    ASSUME PromptInv, PromptInv', InterruptsAnnounce, [Next]_vars
    PROVE  ContractStep
<1>1. ASSUME NEW a \in Drivers,
             Accept(a) \/ DriverStep(a) \/ Checkpoint(a) \/ WaitTimesOut(a)
      PROVE  ContractStep
  BY <1>1, AcceptContract, DriverContract, FinishContract, CheckpointContract DEF DriverStep
<1>2. ASSUME NEW i \in Interrupts, Interrupt(i) \/ InterruptStep(i) PROVE ContractStep
  BY <1>2, InterruptContract DEF InterruptStep
<1>3. ASSUME NEW c \in Callers, Calling(c) \/ CallFails(c) PROVE ContractStep
  BY <1>3, CallContract
<1>4. ASSUME \/ CommandLapses \/ \E k \in Keys : OutboxLeaseLapses(k)
             \/ \E h \in Hosts : Boot(h) \/ Crash(h)
      PROVE  ContractStep
  BY <1>4, HostsContract
<1>5. CASE UNCHANGED vars
  <2>1. log' = log /\ status' = status /\ actor' = actor
    BY <1>5 DEF vars, outboxVars, commandVars
  <2> QED BY <2>1, Unseen DEF outcomeOf, toldOf, confirmedOf, Is
<1> QED BY <1>1, <1>2, <1>3, <1>4, <1>5 DEF Next

\* The prompt implements its contract: of what hosts, senders, recoveries and
\* interrupts do, its senders see one outcome, decided once and announced once,
\* checkpoints that count up until then, and answers that come after it.
THEOREM PromptImplementsContract == Spec => ImplementsPromptContract
<1>1. PromptInv /\ PromptInv' /\ InterruptsAnnounce /\ [Next]_vars
         => [Contract!Next]_(Contract!contractVars)
  BY NextContract DEF ContractStep
<1> QED
  BY <1>1, InitContract, AnnounceKeeps, PromptInvariant, PTL
     DEF Spec, ImplementsPromptContract, Contract!Spec
=============================================================================
