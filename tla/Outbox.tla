------------------------------- MODULE Outbox -------------------------------
(* The transactional outbox of packages/core/src/runtime/commands.ts over     *)
(* the SQLite row store, and the stream of runtime events it delivers to.     *)
(* Every publish inserts a message and then flushes whatever is pending,      *)
(* messages of other publishers included, under a lease and a fencing token.  *)
(* One action is one store transaction of one publish or flush.  An event is  *)
(* its idempotency key.                                                       *)
EXTENDS Naturals, Sequences

CONSTANTS
    Keys,        \* idempotency keys of the events
    NoKey,       \* what a bare flush publishes
    Callers,     \* concurrent calls of publish and flush
    Outboxes,    \* instances of DurableOutbox, one per process
    OutboxOf,    \* the instance a call is made on
    NoOutbox,    \* nobody leases the message
    MaxMishaps   \* bound: failing stores, suspended and dying processes

ASSUME OutboxAssumption ==
    /\ NoKey \notin Keys
    /\ NoOutbox \notin Outboxes
    /\ OutboxOf \in [Callers -> Outboxes]
    /\ MaxMishaps \in Nat

VARIABLES
    rows,      \* the keys of the outbox table in rowid order
    outbox,    \* per key: no row, "pending" or "sent"
    msgToken,  \* per key: fencing_token of the row
    msgOwner,  \* per key: lease_owner
    msgLive,   \* per key: lease_expires_at lies in the future
    log,       \* the runtime events, as the keys in sequence order
    call,      \* per caller: where publish or flush awaits, and its locals
    mishaps

outboxVars == <<rows, outbox, msgToken, msgOwner, msgLive, log, call, mishaps>>

\* The locals of a call: the event to publish, the claimed message with its
\* token, and whether the own event is among those published.
Idle == [at |-> "free", want |-> NoKey, taken |-> NoKey, ticket |-> 0, own |-> FALSE]

Mishap == mishaps < MaxMishaps /\ mishaps' = mishaps + 1

Recorded(k) == \E i \in DOMAIN log : log[i] = k

OutboxInit ==
    /\ rows = <<>>
    /\ outbox = [k \in Keys |-> "none"]
    /\ msgToken = [k \in Keys |-> 0]
    /\ msgOwner = [k \in Keys |-> NoOutbox]
    /\ msgLive = [k \in Keys |-> FALSE]
    /\ log = <<>>
    /\ call = [c \in Callers |-> Idle]
    /\ mishaps = 0

----------------------------------------------------------------------------
At(c, where) == call[c].at = where
Goto(c, where) == call' = [call EXCEPT ![c].at = where]

\* A caller enters publish, or a flush of its own.  (The caller's next state is
\* an expression, for modules that start several calls in one step.)
Publishing(k) == [Idle EXCEPT !.at = "inserting", !.want = k]
Flushing == [Idle EXCEPT !.at = "claiming"]

\* enqueue: a key that has a row already keeps it.
InsertMessage(c) ==
    /\ At(c, "inserting")
    /\ LET k == call[c].want IN
       IF outbox[k] = "none"
       THEN rows' = Append(rows, k) /\ outbox' = [outbox EXCEPT ![k] = "pending"]
       ELSE UNCHANGED <<rows, outbox>>
    /\ Goto(c, "claiming")
    /\ UNCHANGED <<msgToken, msgOwner, msgLive, log, mishaps>>

Claimable(k) == outbox[k] = "pending" /\ ~msgLive[k]

\* claimMessage: the claimable row with the lowest rowid.
ClaimMessage(c) ==
    /\ At(c, "claiming")
    /\ \E i \in DOMAIN rows :
          LET k == rows[i] IN
          /\ Claimable(k)
          /\ \A j \in 1..(i - 1) : ~Claimable(rows[j])
          /\ msgToken' = [msgToken EXCEPT ![k] = @ + 1]
          /\ msgOwner' = [msgOwner EXCEPT ![k] = OutboxOf[c]]
          /\ msgLive' = [msgLive EXCEPT ![k] = TRUE]
          /\ call' = [call EXCEPT ![c] = [@ EXCEPT !.at = "recording", !.taken = k,
                                                   !.ticket = msgToken[k] + 1]]
    /\ UNCHANGED <<rows, outbox, log, mishaps>>

\* No row is claimable: the flush ends, and publish returns the event if its own
\* flush delivered it.
NothingPending(c) ==
    /\ At(c, "claiming")
    /\ \A i \in DOMAIN rows : ~Claimable(rows[i])
    /\ Goto(c, IF call[c].want = NoKey \/ call[c].own THEN "published" ELSE "looking")
    /\ UNCHANGED <<rows, outbox, msgToken, msgOwner, msgLive, log, mishaps>>

\* Mutant: append without the look-up of the idempotency key.
AppendEventTwice(k) == log' = Append(log, k)

\* append: an event whose key the stream has is not stored again.
AppendEvent(k) == log' = IF Recorded(k) THEN log ELSE Append(log, k)

\* runtime.record; the snapshot after the append may fail, and then the flush
\* takes the delivery for failed.
RecordEvent(c) ==
    /\ At(c, "recording")
    /\ AppendEvent(call[c].taken)
    /\ \/ Goto(c, "marking") /\ UNCHANGED mishaps
       \/ Goto(c, "failing") /\ Mishap
    /\ UNCHANGED <<rows, outbox, msgToken, msgOwner, msgLive>>

\* Mutant: the lease owner alone decides; the calls of one process share it.
OwnsMessageByOwner(c) ==
    LET k == call[c].taken IN
    outbox[k] = "pending" /\ msgOwner[k] = OutboxOf[c] /\ msgLive[k]

\* The claim of the call is still the one the row carries.
OwnsMessage(c) ==
    LET k == call[c].taken IN
    /\ outbox[k] = "pending"
    /\ msgOwner[k] = OutboxOf[c]
    /\ msgToken[k] = call[c].ticket
    /\ msgLive[k]

Unlease(k) ==
    /\ msgOwner' = [msgOwner EXCEPT ![k] = NoOutbox]
    /\ msgLive' = [msgLive EXCEPT ![k] = FALSE]

\* markSent; it throws into the catch block when the claim was lost.
MarkSent(c) ==
    /\ At(c, "marking")
    /\ LET k == call[c].taken IN
       \/ /\ OwnsMessage(c)
          /\ outbox' = [outbox EXCEPT ![k] = "sent"]
          /\ Unlease(k)
          /\ call' = [call EXCEPT ![c] = [@ EXCEPT !.at = "claiming", !.taken = NoKey,
                                                   !.ticket = 0,
                                                   !.own = call[c].own \/ k = call[c].want]]
       \/ /\ ~OwnsMessage(c)
          /\ Goto(c, "failing")
          /\ UNCHANGED <<outbox, msgOwner, msgLive>>
    /\ UNCHANGED <<rows, msgToken, log, mishaps>>

\* markFailed hands the message back, or throws itself; flush throws either way.
MarkFailed(c) ==
    /\ At(c, "failing")
    /\ IF OwnsMessage(c) THEN Unlease(call[c].taken) ELSE UNCHANGED <<msgOwner, msgLive>>
    /\ Goto(c, "threw")
    /\ UNCHANGED <<rows, outbox, msgToken, log, mishaps>>

\* publish, after a flush that did not deliver its event: somebody else may have.
\* A message still pending is reported as not published.
LookUp(c) ==
    /\ At(c, "looking")
    /\ LET k == call[c].want IN
       Goto(c, IF outbox[k] = "sent" /\ Recorded(k) THEN "published" ELSE "threw")
    /\ UNCHANGED <<rows, outbox, msgToken, msgOwner, msgLive, log, mishaps>>

\* A transaction of the call fails and leaves no trace.
StoreFails(c) ==
    /\ call[c].at \in {"inserting", "claiming", "recording", "marking", "failing", "looking"}
    /\ Goto(c, IF call[c].at \in {"recording", "marking"} THEN "failing" ELSE "threw")
    /\ Mishap
    /\ UNCHANGED <<rows, outbox, msgToken, msgOwner, msgLive, log>>

Delivering(c) == call[c].at \in {"recording", "marking", "failing"}

\* Some call is delivering k under the claim the row carries.
Held(k) == \E c \in Callers : Delivering(c) /\ call[c].taken = k /\ OwnsMessage(c)

\* The 60 s lease of a message expires; nobody renews it, so a process that is
\* delivering it was suspended.
MessageLapses(k) ==
    /\ msgLive[k]
    /\ msgLive' = [msgLive EXCEPT ![k] = FALSE]
    /\ IF Held(k) THEN Mishap ELSE UNCHANGED mishaps
    /\ UNCHANGED <<rows, outbox, msgToken, msgOwner, log, call>>

\* The calls that end with their process.
Gone(S) == [c \in Callers |-> IF c \in S THEN [Idle EXCEPT !.at = "gone"] ELSE call[c]]

CallStep(c) ==
    \/ InsertMessage(c) \/ ClaimMessage(c) \/ NothingPending(c) \/ RecordEvent(c)
    \/ MarkSent(c) \/ MarkFailed(c) \/ LookUp(c)

----------------------------------------------------------------------------
(* The outbox with callers of its own: each publishes or flushes repeatedly. *)

Publish(c, k) ==
    /\ At(c, "free")
    /\ call' = [call EXCEPT ![c] = Publishing(k)]
    /\ UNCHANGED <<rows, outbox, msgToken, msgOwner, msgLive, log, mishaps>>

Flush(c) ==
    /\ At(c, "free")
    /\ call' = [call EXCEPT ![c] = Flushing]
    /\ UNCHANGED <<rows, outbox, msgToken, msgOwner, msgLive, log, mishaps>>

\* The promise settles.
Return(c) ==
    /\ call[c].at \in {"published", "threw"}
    /\ call' = [call EXCEPT ![c] = Idle]
    /\ UNCHANGED <<rows, outbox, msgToken, msgOwner, msgLive, log, mishaps>>

\* A process ends with all its calls; those of its restart are other callers.
OutboxDies(o) ==
    /\ \E c \in Callers : OutboxOf[c] = o /\ call[c].at # "gone"
    /\ call' = Gone({c \in Callers : OutboxOf[c] = o})
    /\ Mishap
    /\ UNCHANGED <<rows, outbox, msgToken, msgOwner, msgLive, log>>

OutboxNext ==
    \/ \E c \in Callers :
          \/ CallStep(c) \/ StoreFails(c) \/ Flush(c) \/ Return(c)
          \/ \E k \in Keys : Publish(c, k)
    \/ \E k \in Keys : MessageLapses(k)
    \/ \E o \in Outboxes : OutboxDies(o)

OutboxSpec == OutboxInit /\ [][OutboxNext]_outboxVars

----------------------------------------------------------------------------
Places == {"free", "inserting", "claiming", "recording", "marking", "failing",
           "looking", "published", "threw", "gone"}

\* The variables range over what the code puts in them.
OutboxTypeOK ==
    /\ rows \in Seq(Keys)
    /\ outbox \in [Keys -> {"none", "pending", "sent"}]
    /\ msgToken \in [Keys -> Nat]
    /\ msgOwner \in [Keys -> Outboxes \cup {NoOutbox}]
    /\ msgLive \in [Keys -> BOOLEAN]
    /\ log \in Seq(Keys)
    /\ call \in [Callers -> [at : Places, want : Keys \cup {NoKey}, taken : Keys \cup {NoKey},
                             ticket : Nat, own : BOOLEAN]]
    /\ mishaps \in 0..MaxMishaps

\* The table has one row per key, and a row for everything that is recorded.
RowsAreKeyed ==
    /\ \A i, j \in DOMAIN rows : rows[i] = rows[j] => i = j
    /\ \A k \in Keys : outbox[k] = "none" <=> \A i \in DOMAIN rows : rows[i] # k
    /\ \A i \in DOMAIN log : outbox[log[i]] # "none"

\* An event reaches the stream once, however often its message is delivered:
\* after a lapsed lease, a failed acknowledgement, a crash between record and
\* markSent, or by two processes at once.
EventsAreUnique == \A i, j \in DOMAIN log : log[i] = log[j] => i = j

\* A message is acknowledged only when its event is in the stream: no crash or
\* lapsed lease makes a delivery count that did not happen.
SentIsRecorded == \A k \in Keys : outbox[k] = "sent" => Recorded(k)

\* What a call remembers agrees with the table: it delivers a message under a
\* token the row gave out once, and marks only what is recorded.
CallsKnowTheirMessage ==
    \A c \in Callers :
        /\ call[c].at \in {"inserting", "looking"} => call[c].want # NoKey
        /\ call[c].at \in {"claiming", "looking"} /\ call[c].want # NoKey =>
              outbox[call[c].want] # "none"
        /\ call[c].own => call[c].want # NoKey /\ outbox[call[c].want] = "sent"
        /\ Delivering(c) =>
              /\ call[c].taken # NoKey
              /\ outbox[call[c].taken] # "none"
              /\ call[c].ticket <= msgToken[call[c].taken]
              /\ call[c].want # NoKey => outbox[call[c].want] # "none"
        /\ call[c].at = "marking" => Recorded(call[c].taken)

\* No two deliveries hold the same token of the same message.
TicketsDiffer ==
    \A c, d \in Callers :
        c # d /\ Delivering(c) /\ Delivering(d) /\ call[c].taken = call[d].taken =>
            call[c].ticket # call[d].ticket

\* publish returns only when the event is in the stream and acknowledged, also
\* when another publisher or another process delivered it.
PublishedIsRecorded ==
    \A c \in Callers :
        call[c].at = "published" /\ call[c].want # NoKey =>
            outbox[call[c].want] = "sent" /\ Recorded(call[c].want)

\* At most one call can still acknowledge a message or hand it back, also among
\* the calls of one process, which share their lease owner.
AcknowledgedByOne ==
    \A c, d \in Callers :
        c # d /\ Delivering(c) /\ Delivering(d) /\ call[c].taken = call[d].taken =>
            ~(OwnsMessage(c) /\ OwnsMessage(d))

\* The inductive invariant.
OutboxInv ==
    /\ OutboxTypeOK
    /\ RowsAreKeyed
    /\ EventsAreUnique
    /\ SentIsRecorded
    /\ CallsKnowTheirMessage
    /\ TicketsDiffer
    /\ PublishedIsRecorded

\* The stream is append-only, and an acknowledged message is never sent again.
StreamOnlyGrows ==
    [][/\ Len(log) <= Len(log')
       /\ \A i \in DOMAIN log : log'[i] = log[i]
       /\ \A k \in Keys : outbox[k] = "sent" => outbox'[k] = "sent"]_outboxVars
=============================================================================
