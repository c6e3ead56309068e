---------------------------- MODULE OutboxProofs ----------------------------
(* The outbox for any number of calls, processes, messages and mishaps: the   *)
(* inductive invariant, and the properties that follow from it.               *)
EXTENDS Outbox, SequenceTheorems, TLAPS

USE DEF Mishap, Delivering, At

----------------------------------------------------------------------------
(* What holds of every step: the table, the stream and the tokens only grow. *)

\* What a call knows about its messages, and what it may rely on once it has
\* published.
Knows(c) ==
    /\ call[c].at \in {"inserting", "looking"} => call[c].want # NoKey
    /\ call[c].at \in {"claiming", "looking"} /\ call[c].want # NoKey =>
          outbox[call[c].want] # "none"
    /\ call[c].own => call[c].want # NoKey /\ outbox[call[c].want] = "sent"
    /\ Delivering(c) =>
          /\ call[c].taken # NoKey
          /\ outbox[call[c].taken] # "none"
          /\ call[c].ticket <= msgToken[call[c].taken]
          /\ call[c].want # NoKey => outbox[call[c].want] # "none"
    /\ call[c].at = "marking" => Recorded(call[c].taken)
    /\ call[c].at = "published" /\ call[c].want # NoKey =>
          outbox[call[c].want] = "sent" /\ Recorded(call[c].want)

\* The tables of one step to the next.
Grows ==
    /\ \A k \in Keys : outbox[k] # "none" => outbox'[k] # "none"
    /\ \A k \in Keys : outbox[k] = "sent" => outbox'[k] = "sent"
    /\ \A k \in Keys : Recorded(k) => Recorded(k)'
    /\ \A k \in Keys : msgToken[k] <= msgToken'[k]

\* Only the call of c moves.
Alone(c) == \A d \in Callers : d # c => call'[d] = call[d]

\* The call delivers nothing it did not deliver before.
SameTicket(c) ==
    Delivering(c)' => /\ Delivering(c)
                      /\ call'[c].taken = call[c].taken
                      /\ call'[c].ticket = call[c].ticket

Records == [at : Places, want : Keys \cup {NoKey}, taken : Keys \cup {NoKey},
            ticket : Nat, own : BOOLEAN]

\* A call that moves, and no other.
LEMMA Moves ==
    ASSUME OutboxTypeOK, NEW c \in Callers, NEW r \in Records,
           call' = [call EXCEPT ![c] = r]
    PROVE  call' \in [Callers -> Records] /\ call'[c] = r /\ Alone(c)
  BY DEF OutboxTypeOK, Records, Alone

\* A call that only goes to another place.
LEMMA Hops ==
    ASSUME OutboxTypeOK, NEW c \in Callers, NEW where \in Places, Goto(c, where)
    PROVE  /\ call' \in [Callers -> Records] /\ Alone(c)
           /\ call'[c] \in Records /\ call'[c].at = where
           /\ call'[c].want = call[c].want /\ call'[c].taken = call[c].taken
           /\ call'[c].ticket = call[c].ticket /\ call'[c].own = call[c].own
<1>1. call[c] \in Records
  BY DEF OutboxTypeOK, Records
<1>2. [call[c] EXCEPT !.at = where] \in Records
  BY <1>1 DEF Records
<1>3. call' = [call EXCEPT ![c] = [call[c] EXCEPT !.at = where]]
  BY DEF Goto
<1>4. call' \in [Callers -> Records] /\ Alone(c) /\ call'[c] = [call[c] EXCEPT !.at = where]
  BY <1>2, <1>3, Moves
<1> QED
  BY <1>1, <1>2, <1>4 DEF Records

\* The parts of the invariant that are about the calls, from what the call that
\* moved knows afterwards.
LEMMA CallsKeep ==
    ASSUME OutboxInv, OutboxTypeOK', Grows, NEW c \in Callers, Alone(c), Knows(c)'
    PROVE  CallsKnowTheirMessage' /\ PublishedIsRecorded'
<1>1. ASSUME NEW d \in Callers PROVE Knows(d)'
  <2>1. CASE d = c
    BY <2>1
  <2>2. CASE d # c
    <3>1. call'[d] = call[d]
      BY <2>2 DEF Alone
    <3>2. Knows(d)
      BY DEF OutboxInv, CallsKnowTheirMessage, PublishedIsRecorded, Knows
    <3>3. call[d] \in [at : Places, want : Keys \cup {NoKey}, taken : Keys \cup {NoKey},
                       ticket : Nat, own : BOOLEAN]
      BY DEF OutboxInv, OutboxTypeOK
    <3>4. msgToken \in [Keys -> Nat] /\ msgToken' \in [Keys -> Nat]
      BY DEF OutboxInv, OutboxTypeOK
    <3> QED
      BY <3>1, <3>2, <3>3, <3>4 DEF Knows, Grows
  <2> QED
    BY <2>1, <2>2
<1> QED
  BY <1>1 DEF Knows, CallsKnowTheirMessage, PublishedIsRecorded

\* No two deliveries share a ticket after a step that hands out none.
LEMMA TicketsKeep ==
    ASSUME OutboxInv, NEW c \in Callers, Alone(c), SameTicket(c)
    PROVE  TicketsDiffer'
  BY DEF OutboxInv, TicketsDiffer, Alone, SameTicket

\* A step that leaves the table and the stream alone.
LEMMA TablesKeep ==
    ASSUME OutboxInv, UNCHANGED <<rows, outbox, log>>
    PROVE  /\ RowsAreKeyed' /\ EventsAreUnique' /\ SentIsRecorded'
           /\ \A k \in Keys : Recorded(k)' <=> Recorded(k)
  BY DEF OutboxInv, RowsAreKeyed, EventsAreUnique, SentIsRecorded, Recorded

\* Appending to a sequence.
LEMMA Appended ==
    ASSUME NEW S, NEW s \in Seq(S), NEW x \in S
    PROVE  /\ Append(s, x) \in Seq(S)
           /\ DOMAIN Append(s, x) = 1..(Len(s) + 1) /\ DOMAIN s = 1..Len(s)
           /\ Len(s) \in Nat /\ Len(Append(s, x)) = Len(s) + 1
           /\ \A i \in 1..Len(s) : Append(s, x)[i] = s[i]
           /\ Append(s, x)[Len(s) + 1] = x
  BY AppendProperties, LenProperties

----------------------------------------------------------------------------
(* One lemma per action. *)

\* The empty table and the empty stream satisfy the invariant.
LEMMA InitOutbox == OutboxInit => OutboxInv
<1> SUFFICES ASSUME OutboxInit PROVE OutboxInv
  OBVIOUS
<1> USE OutboxAssumption DEF OutboxInit, Idle
<1>1. OutboxTypeOK
  BY DEF OutboxTypeOK, Places
<1>2. RowsAreKeyed /\ EventsAreUnique /\ SentIsRecorded
  BY DEF RowsAreKeyed, EventsAreUnique, SentIsRecorded
<1>3. CallsKnowTheirMessage /\ TicketsDiffer /\ PublishedIsRecorded
  BY DEF CallsKnowTheirMessage, TicketsDiffer, PublishedIsRecorded
<1> QED
  BY <1>1, <1>2, <1>3 DEF OutboxInv

\* A step that leaves table, stream and tokens alone.
LEMMA Quiet ==
    ASSUME OutboxInv, OutboxTypeOK', NEW c \in Callers, Alone(c), SameTicket(c), Knows(c)',
           UNCHANGED <<rows, outbox, msgToken, log>>
    PROVE  OutboxInv'
<1>1. Grows
  BY TablesKeep DEF Grows, OutboxInv, OutboxTypeOK
<1> QED
  BY <1>1, TablesKeep, CallsKeep, TicketsKeep DEF OutboxInv

\* enqueue keeps the invariant: the new row has a key of its own.
LEMMA InsertMessageInv ==
    ASSUME OutboxInv, NEW c \in Callers, InsertMessage(c)
    PROVE  OutboxInv'
<1> DEFINE k == call[c].want
<1>0. k \in Keys
  BY DEF OutboxInv, OutboxTypeOK, CallsKnowTheirMessage, InsertMessage
<1>1. Goto(c, "claiming") /\ UNCHANGED <<msgToken, msgOwner, msgLive, log, mishaps>>
  BY DEF InsertMessage
<1>2. \/ /\ outbox[k] = "none"
         /\ rows' = Append(rows, k) /\ outbox' = [outbox EXCEPT ![k] = "pending"]
      \/ outbox[k] # "none" /\ UNCHANGED <<rows, outbox>>
  BY DEF InsertMessage
<1>3. /\ call' \in [Callers -> Records] /\ Alone(c)
      /\ call'[c] \in Records /\ call'[c].at = "claiming"
      /\ call'[c].want = k /\ call'[c].own = call[c].own
  BY <1>1, Hops DEF OutboxInv, Places
<1>4. rows' \in Seq(Keys) /\ outbox' \in [Keys -> {"none", "pending", "sent"}]
  <2>1. rows \in Seq(Keys) /\ outbox \in [Keys -> {"none", "pending", "sent"}]
    BY DEF OutboxInv, OutboxTypeOK
  <2>2. Append(rows, k) \in Seq(Keys)
    BY <1>0, <2>1, Appended
  <2> QED
    BY <1>0, <1>2, <2>1, <2>2
<1>5. OutboxTypeOK'
  BY <1>1, <1>3, <1>4 DEF OutboxInv, OutboxTypeOK, Records
<1>6. outbox'[k] # "none" /\ Grows
  BY <1>0, <1>1, <1>2 DEF OutboxInv, OutboxTypeOK, Grows, Recorded
<1>7. RowsAreKeyed'
  <2>1. CASE outbox[k] = "none" /\ rows' = Append(rows, k)
             /\ outbox' = [outbox EXCEPT ![k] = "pending"]
    <3>1. rows \in Seq(Keys) /\ log \in Seq(Keys) /\ outbox \in [Keys -> {"none", "pending", "sent"}]
      BY DEF OutboxInv, OutboxTypeOK
    <3>2. \A i \in DOMAIN rows : rows[i] # k
      BY <1>0, <2>1 DEF OutboxInv, RowsAreKeyed
    <3>3. /\ DOMAIN rows' = 1..(Len(rows) + 1) /\ DOMAIN rows = 1..Len(rows)
          /\ Len(rows) \in Nat /\ rows'[Len(rows) + 1] = k
          /\ \A i \in 1..Len(rows) : rows'[i] = rows[i]
      BY <1>0, <2>1, <3>1, Appended
    <3>4. \A i, j \in DOMAIN rows' : rows'[i] = rows'[j] => i = j
      BY <3>2, <3>3 DEF OutboxInv, RowsAreKeyed
    <3>5. \A l \in Keys : outbox'[l] = "none" <=> \A i \in DOMAIN rows' : rows'[i] # l
      <4> SUFFICES ASSUME NEW l \in Keys
                   PROVE  outbox'[l] = "none" <=> \A i \in DOMAIN rows' : rows'[i] # l
        OBVIOUS
      <4>1. outbox[l] = "none" <=> \A i \in DOMAIN rows : rows[i] # l
        BY DEF OutboxInv, RowsAreKeyed
      <4>2. CASE l = k
        BY <1>0, <2>1, <3>1, <3>3, <4>2
      <4>3. CASE l # k
        <5>1. outbox'[l] = outbox[l]
          BY <2>1, <3>1, <4>3
        <5>2. (\A i \in DOMAIN rows' : rows'[i] # l) <=> \A i \in DOMAIN rows : rows[i] # l
          BY <3>3, <4>3
        <5> QED
          BY <4>1, <5>1, <5>2
      <4> QED
        BY <4>2, <4>3
    <3>6. \A i \in DOMAIN log' : outbox'[log'[i]] # "none"
      BY <1>0, <1>1, <2>1, <3>1 DEF OutboxInv, RowsAreKeyed
    <3> QED
      BY <3>4, <3>5, <3>6 DEF RowsAreKeyed
  <2>2. CASE UNCHANGED <<rows, outbox>>
    BY <1>1, <2>2, TablesKeep
  <2> QED
    BY <1>2, <2>1, <2>2
<1>8. EventsAreUnique' /\ SentIsRecorded'
  BY <1>0, <1>1, <1>2 DEF OutboxInv, OutboxTypeOK, EventsAreUnique, SentIsRecorded, Recorded
<1>9. SameTicket(c)
  BY <1>3 DEF SameTicket
<1>10. Knows(c)'
  <2>1. call[c].own => outbox[k] = "sent"
    BY DEF OutboxInv, CallsKnowTheirMessage
  <2> QED
    BY <1>0, <1>3, <1>6, <2>1, OutboxAssumption DEF Knows, Grows
<1> QED
  BY <1>3, <1>5, <1>6, <1>7, <1>8, <1>9, <1>10, CallsKeep, TicketsKeep DEF OutboxInv

\* So does claimMessage: its ticket is younger than every other.
LEMMA ClaimMessageInv ==
    ASSUME OutboxInv, NEW c \in Callers, ClaimMessage(c)
    PROVE  OutboxInv'
<1>1. PICK i \in DOMAIN rows :
         LET k == rows[i] IN
         /\ msgToken' = [msgToken EXCEPT ![k] = @ + 1]
         /\ msgOwner' = [msgOwner EXCEPT ![k] = OutboxOf[c]]
         /\ msgLive' = [msgLive EXCEPT ![k] = TRUE]
         /\ Claimable(k)
         /\ call' = [call EXCEPT ![c] = [@ EXCEPT !.at = "recording", !.taken = k,
                                                  !.ticket = msgToken[k] + 1]]
  BY DEF ClaimMessage
<1> DEFINE k == rows[i]
           r == [call[c] EXCEPT !.at = "recording", !.taken = k, !.ticket = msgToken[k] + 1]
<1>2. UNCHANGED <<rows, outbox, log, mishaps>> /\ call[c].at = "claiming"
  BY DEF ClaimMessage
<1>3. k \in Keys /\ msgToken[k] \in Nat /\ call[c] \in Records
  BY DEF OutboxInv, OutboxTypeOK, Records
<1>4. /\ r \in Records
      /\ r.at = "recording" /\ r.taken = k /\ r.ticket = msgToken[k] + 1
      /\ r.want = call[c].want /\ r.own = call[c].own
  <2>1. msgToken[k] + 1 \in Nat /\ "recording" \in Places
    BY <1>3 DEF Places
  <2> QED
    BY <1>3, <2>1 DEF Records
<1>m. call' = [call EXCEPT ![c] = r]
  BY <1>1
<1> HIDE DEF r
<1>5. call' \in [Callers -> Records] /\ call'[c] = r /\ Alone(c)
  BY <1>4, <1>m, Moves DEF OutboxInv
<1>6. /\ msgToken' \in [Keys -> Nat] /\ msgToken'[k] = msgToken[k] + 1
      /\ msgOwner' \in [Keys -> Outboxes \cup {NoOutbox}] /\ msgLive' \in [Keys -> BOOLEAN]
  <2>1. /\ msgToken \in [Keys -> Nat] /\ msgOwner \in [Keys -> Outboxes \cup {NoOutbox}]
        /\ msgLive \in [Keys -> BOOLEAN]
    BY DEF OutboxInv, OutboxTypeOK
  <2>2. OutboxOf[c] \in Outboxes
    BY OutboxAssumption
  <2>3. msgToken' \in [Keys -> Nat] /\ msgToken'[k] = msgToken[k] + 1
    BY <1>1, <1>3, <2>1
  <2>4. msgOwner' \in [Keys -> Outboxes \cup {NoOutbox}]
    BY <1>1, <2>1, <2>2
  <2>5. msgLive' \in [Keys -> BOOLEAN]
    BY <1>1, <2>1
  <2> QED
    BY <2>3, <2>4, <2>5
<1>7. OutboxTypeOK'
  BY <1>2, <1>5, <1>6 DEF OutboxInv, OutboxTypeOK, Records
<1>8. Grows
  BY <1>1, <1>2, <1>3 DEF OutboxInv, OutboxTypeOK, Grows, Recorded
<1>9. Knows(c)'
  <2>1. outbox[k] = "pending" /\ (call[c].want # NoKey => outbox[call[c].want] # "none")
        /\ (call[c].own => call[c].want # NoKey /\ outbox[call[c].want] = "sent")
    BY <1>1, <1>2 DEF Claimable, OutboxInv, CallsKnowTheirMessage
  <2> QED
    BY <1>2, <1>3, <1>4, <1>5, <1>6, <2>1, OutboxAssumption DEF Knows
<1>10. TicketsDiffer'
  <2>1. ASSUME NEW d \in Callers, d # c, Delivering(d)', call'[d].taken = k
        PROVE  call'[d].ticket # call'[c].ticket
    <3>1. call'[d] = call[d] /\ call[d].ticket \in Nat
      BY <2>1, <1>5 DEF Alone, OutboxInv, OutboxTypeOK
    <3>2. call[d].ticket <= msgToken[k]
      BY <2>1, <3>1 DEF OutboxInv, CallsKnowTheirMessage
    <3> QED
      BY <3>1, <3>2, <1>3, <1>4, <1>5
  <2> QED
    BY <2>1, <1>4, <1>5 DEF OutboxInv, TicketsDiffer, Alone
<1> QED
  BY <1>2, <1>5, <1>7, <1>8, <1>9, <1>10, CallsKeep, TablesKeep DEF OutboxInv

\* So does the end of a flush, which reports only what was acknowledged.
LEMMA NothingPendingInv ==
    ASSUME OutboxInv, NEW c \in Callers, NothingPending(c)
    PROVE  OutboxInv'
<1> DEFINE where == IF call[c].want = NoKey \/ call[c].own THEN "published" ELSE "looking"
<1>1. /\ call[c].at = "claiming" /\ Goto(c, where) /\ where \in Places
      /\ UNCHANGED <<rows, outbox, msgToken, msgOwner, msgLive, log, mishaps>>
  BY DEF NothingPending, Places
<1>2. /\ call' \in [Callers -> Records] /\ Alone(c) /\ call'[c] \in Records
      /\ call'[c].at = where /\ call'[c].want = call[c].want /\ call'[c].own = call[c].own
  BY <1>1, Hops DEF OutboxInv
<1>3. OutboxTypeOK'
  BY <1>1, <1>2 DEF OutboxInv, OutboxTypeOK, Records
<1>4. SameTicket(c)
  BY <1>2 DEF SameTicket
<1>5. call[c].own => outbox[call[c].want] = "sent" /\ Recorded(call[c].want)
  <2>1. call[c].want \in Keys \cup {NoKey}
    BY DEF OutboxInv, OutboxTypeOK
  <2> QED
    BY <2>1 DEF OutboxInv, CallsKnowTheirMessage, SentIsRecorded
<1>6. Knows(c)'
  <2>1. Knows(c) /\ (\A k \in Keys : Recorded(k)' <=> Recorded(k))
    BY <1>1, TablesKeep DEF OutboxInv, CallsKnowTheirMessage, PublishedIsRecorded, Knows
  <2>2. call[c].want \in Keys \cup {NoKey}
    BY DEF OutboxInv, OutboxTypeOK
  <2> QED
    BY <1>1, <1>2, <1>5, <2>1, <2>2 DEF Knows
<1> QED
  BY <1>1, <1>2, <1>3, <1>4, <1>6, Quiet

\* So does runtime.record, which looks the key up before it appends.
LEMMA RecordEventInv ==
    ASSUME OutboxInv, NEW c \in Callers, RecordEvent(c)
    PROVE  OutboxInv'
<1>0. PICK k \in Keys \cup {NoKey} : k = call[c].taken
  BY DEF OutboxInv, OutboxTypeOK
<1>1. /\ call[c].at = "recording" /\ AppendEvent(k)
      /\ UNCHANGED <<rows, outbox, msgToken, msgOwner, msgLive>>
  BY <1>0 DEF RecordEvent
<1>2. k \in Keys /\ outbox[k] # "none"
  BY <1>0, <1>1 DEF OutboxInv, CallsKnowTheirMessage
<1>3. PICK where \in {"marking", "failing"} : Goto(c, where) /\ mishaps' \in 0..MaxMishaps
  <2>1. mishaps \in 0..MaxMishaps /\ MaxMishaps \in Nat
    BY OutboxAssumption DEF OutboxInv, OutboxTypeOK
  <2> QED
    BY <2>1 DEF RecordEvent
<1>4. /\ call' \in [Callers -> Records] /\ Alone(c) /\ call'[c] \in Records
      /\ call'[c].at = where /\ call'[c].want = call[c].want /\ call'[c].taken = k
      /\ call'[c].ticket = call[c].ticket /\ call'[c].own = call[c].own
  BY <1>0, <1>3, Hops DEF OutboxInv, Places
<1>5. log \in Seq(Keys)
  BY DEF OutboxInv, OutboxTypeOK
<1>6. /\ log' \in Seq(Keys) /\ Recorded(k)'
      /\ \A l \in Keys : Recorded(l) => Recorded(l)'
      /\ EventsAreUnique' /\ \A i \in DOMAIN log' : outbox[log'[i]] # "none"
  <2>1. CASE Recorded(k) /\ log' = log
    BY <1>2, <2>1, <1>5 DEF Recorded, OutboxInv, EventsAreUnique, RowsAreKeyed
  <2>2. CASE ~Recorded(k) /\ log' = Append(log, k)
    <3>1. /\ log' \in Seq(Keys)
          /\ DOMAIN log' = 1..(Len(log) + 1) /\ DOMAIN log = 1..Len(log)
          /\ Len(log) \in Nat /\ log'[Len(log) + 1] = k
          /\ \A i \in 1..Len(log) : log'[i] = log[i]
      BY <1>2, <1>5, <2>2, Appended
    <3>2. Recorded(k)' /\ \A l \in Keys : Recorded(l) => Recorded(l)'
      BY <3>1 DEF Recorded
    <3>3. EventsAreUnique'
      BY <2>2, <3>1 DEF OutboxInv, EventsAreUnique, Recorded
    <3>4. \A i \in DOMAIN log' : outbox[log'[i]] # "none"
      BY <1>2, <3>1 DEF OutboxInv, RowsAreKeyed
    <3> QED
      BY <3>1, <3>2, <3>3, <3>4
  <2> QED
    BY <1>1, <2>1, <2>2 DEF AppendEvent
<1>7. OutboxTypeOK'
  BY <1>1, <1>3, <1>4, <1>6 DEF OutboxInv, OutboxTypeOK, Records
<1>8. Grows
  BY <1>1, <1>6 DEF OutboxInv, OutboxTypeOK, Grows
<1>9. RowsAreKeyed' /\ SentIsRecorded'
  BY <1>1, <1>6 DEF OutboxInv, RowsAreKeyed, SentIsRecorded
<1>10. SameTicket(c)
  BY <1>0, <1>1, <1>4 DEF SameTicket
<1>11. Knows(c)'
  <2>1. Knows(c)
    BY DEF OutboxInv, CallsKnowTheirMessage, PublishedIsRecorded, Knows
  <2> QED
    BY <1>0, <1>1, <1>2, <1>4, <1>6, <2>1 DEF Knows
<1> QED
  BY <1>4, <1>6, <1>7, <1>8, <1>9, <1>10, <1>11, CallsKeep, TicketsKeep DEF OutboxInv

\* A message that is handed back or acknowledged loses its lease.
LEMMA Unleased ==
    ASSUME OutboxTypeOK, NEW k \in Keys, Unlease(k)
    PROVE  msgOwner' \in [Keys -> Outboxes \cup {NoOutbox}] /\ msgLive' \in [Keys -> BOOLEAN]
  BY DEF OutboxTypeOK, Unlease

\* So does markSent, with the lease and without.
LEMMA MarkSentInv ==
    ASSUME OutboxInv, NEW c \in Callers, MarkSent(c)
    PROVE  OutboxInv'
<1> DEFINE k == call[c].taken
<1>0. call[c].at = "marking" /\ UNCHANGED <<rows, msgToken, log, mishaps>>
  BY DEF MarkSent
<1>1. /\ k \in Keys /\ outbox[k] # "none" /\ Recorded(k) /\ call[c] \in Records
      /\ OutboxTypeOK /\ Knows(c)
  BY <1>0 DEF OutboxInv, OutboxTypeOK, CallsKnowTheirMessage, PublishedIsRecorded, Knows, Records
<1>2. CASE /\ OwnsMessage(c)
           /\ outbox' = [outbox EXCEPT ![k] = "sent"]
           /\ Unlease(k)
           /\ call' = [call EXCEPT ![c] = [@ EXCEPT !.at = "claiming", !.taken = NoKey,
                                                    !.ticket = 0,
                                                    !.own = call[c].own \/ k = call[c].want]]
  <2> DEFINE b == call[c].own \/ k = call[c].want
             r == [call[c] EXCEPT !.at = "claiming", !.taken = NoKey, !.ticket = 0, !.own = b]
  <2>1. call' = [call EXCEPT ![c] = r]
    BY <1>2
  <2>2. r \in Records /\ r.at = "claiming" /\ r.want = call[c].want /\ r.own = b
    <3>1. "claiming" \in Places /\ 0 \in Nat /\ NoKey \in Keys \cup {NoKey}
      BY DEF Places
    <3>2. b \in BOOLEAN
      BY <1>1 DEF Records
    <3> HIDE DEF b
    <3> QED
      BY <1>1, <3>1, <3>2 DEF Records
  <2> HIDE DEF r
  <2>3. call' \in [Callers -> Records] /\ call'[c] = r /\ Alone(c)
    BY <1>1, <2>1, <2>2, Moves
  <2>4. outbox' \in [Keys -> {"none", "pending", "sent"}] /\ outbox'[k] = "sent"
        /\ \A l \in Keys : l # k => outbox'[l] = outbox[l]
    BY <1>1, <1>2 DEF OutboxTypeOK
  <2>5. OutboxTypeOK'
    BY <1>0, <1>1, <1>2, <2>3, <2>4, Unleased DEF OutboxTypeOK, Records
  <2>6. Grows
    BY <1>0, <1>1, <2>4 DEF OutboxTypeOK, Grows, Recorded
  <2>7. RowsAreKeyed'
    <3>1. \A l \in Keys : outbox'[l] = "none" <=> outbox[l] = "none"
      BY <1>1, <2>4
    <3>2. \A i \in DOMAIN log : log[i] \in Keys
      BY <1>1 DEF OutboxTypeOK
    <3> QED
      BY <1>0, <3>1, <3>2 DEF OutboxInv, RowsAreKeyed
  <2>8. EventsAreUnique' /\ SentIsRecorded'
    BY <1>0, <1>1, <2>4 DEF OutboxInv, EventsAreUnique, SentIsRecorded, Recorded
  <2>9. SameTicket(c)
    BY <2>2, <2>3 DEF SameTicket
  <2>10. Knows(c)'
    <3>1. call[c].want \in Keys \cup {NoKey}
      BY <1>1 DEF Records
    <3> QED
      BY <1>0, <1>1, <2>2, <2>3, <2>4, <3>1, OutboxAssumption DEF Knows
  <2> QED
    BY <2>3, <2>5, <2>6, <2>7, <2>8, <2>9, <2>10, CallsKeep, TicketsKeep DEF OutboxInv
<1>3. CASE Goto(c, "failing") /\ UNCHANGED <<outbox, msgOwner, msgLive>>
  <2>1. /\ call' \in [Callers -> Records] /\ Alone(c) /\ call'[c] \in Records
        /\ call'[c].at = "failing" /\ call'[c].want = call[c].want /\ call'[c].taken = k
        /\ call'[c].ticket = call[c].ticket /\ call'[c].own = call[c].own
    BY <1>1, <1>3, Hops DEF Places
  <2>2. OutboxTypeOK'
    BY <1>0, <1>1, <1>3, <2>1 DEF OutboxTypeOK, Records
  <2>3. SameTicket(c)
    BY <1>0, <2>1 DEF SameTicket
  <2>4. Knows(c)'
    BY <1>0, <1>1, <1>3, <2>1 DEF Knows
  <2> QED
    BY <1>0, <1>3, <2>1, <2>2, <2>3, <2>4, Quiet
<1> QED
  BY <1>2, <1>3 DEF MarkSent

\* So does markFailed.
LEMMA MarkFailedInv ==
    ASSUME OutboxInv, NEW c \in Callers, MarkFailed(c)
    PROVE  OutboxInv'
<1>0. /\ call[c].at = "failing" /\ Goto(c, "threw")
      /\ UNCHANGED <<rows, outbox, msgToken, log, mishaps>>
  BY DEF MarkFailed
<1>1. call[c].taken \in Keys /\ OutboxTypeOK /\ Knows(c)
  BY <1>0 DEF OutboxInv, OutboxTypeOK, CallsKnowTheirMessage, PublishedIsRecorded, Knows
<1>2. msgOwner' \in [Keys -> Outboxes \cup {NoOutbox}] /\ msgLive' \in [Keys -> BOOLEAN]
  BY <1>1, Unleased DEF MarkFailed, OutboxTypeOK
<1>3. /\ call' \in [Callers -> Records] /\ Alone(c) /\ call'[c] \in Records
      /\ call'[c].at = "threw" /\ call'[c].want = call[c].want /\ call'[c].own = call[c].own
  BY <1>0, <1>1, Hops DEF Places
<1>4. OutboxTypeOK'
  BY <1>0, <1>1, <1>2, <1>3 DEF OutboxTypeOK, Records
<1>5. SameTicket(c) /\ Knows(c)'
  BY <1>0, <1>1, <1>3 DEF SameTicket, Knows
<1> QED
  BY <1>0, <1>3, <1>4, <1>5, Quiet

\* So does the look at the row after the flush.
LEMMA LookUpInv ==
    ASSUME OutboxInv, NEW c \in Callers, LookUp(c)
    PROVE  OutboxInv'
<1>k. PICK k \in Keys \cup {NoKey} : k = call[c].want
  BY DEF OutboxInv, OutboxTypeOK
<1> DEFINE where == IF outbox[k] = "sent" /\ Recorded(k) THEN "published" ELSE "threw"
<1>0. /\ call[c].at = "looking" /\ Goto(c, where) /\ where \in Places
      /\ UNCHANGED <<rows, outbox, msgToken, msgOwner, msgLive, log, mishaps>>
  BY <1>k DEF LookUp, Places
<1>1. k \in Keys /\ OutboxTypeOK /\ Knows(c)
  BY <1>0, <1>k DEF OutboxInv, OutboxTypeOK, CallsKnowTheirMessage, PublishedIsRecorded, Knows
<1>2. /\ call' \in [Callers -> Records] /\ Alone(c) /\ call'[c] \in Records
      /\ call'[c].at = where /\ call'[c].want = k /\ call'[c].own = call[c].own
  BY <1>0, <1>1, <1>k, Hops
<1>3. OutboxTypeOK'
  BY <1>0, <1>1, <1>2 DEF OutboxTypeOK, Records
<1>4. SameTicket(c)
  BY <1>2 DEF SameTicket
<1>5. Knows(c)'
  <2>1. Recorded(k)' <=> Recorded(k)
    BY <1>0, <1>1, TablesKeep
  <2> QED
    BY <1>0, <1>1, <1>2, <1>k, <2>1 DEF Knows
<1> QED
  BY <1>0, <1>2, <1>3, <1>4, <1>5, Quiet

\* So does a failing transaction.
LEMMA StoreFailsInv ==
    ASSUME OutboxInv, NEW c \in Callers, StoreFails(c)
    PROVE  OutboxInv'
<1> DEFINE where == IF call[c].at \in {"recording", "marking"} THEN "failing" ELSE "threw"
<1>0. /\ Goto(c, where) /\ where \in Places
      /\ UNCHANGED <<rows, outbox, msgToken, msgOwner, msgLive, log>>
  BY DEF StoreFails, Places
<1>1. OutboxTypeOK /\ Knows(c)
  BY DEF OutboxInv, CallsKnowTheirMessage, PublishedIsRecorded, Knows
<1>2. mishaps' \in 0..MaxMishaps
  BY <1>1, OutboxAssumption DEF OutboxTypeOK, StoreFails
<1>3. /\ call' \in [Callers -> Records] /\ Alone(c) /\ call'[c] \in Records
      /\ call'[c].at = where /\ call'[c].want = call[c].want /\ call'[c].taken = call[c].taken
      /\ call'[c].ticket = call[c].ticket /\ call'[c].own = call[c].own
  BY <1>0, <1>1, Hops
<1>4. OutboxTypeOK'
  BY <1>0, <1>1, <1>2, <1>3 DEF OutboxTypeOK, Records
<1>5. SameTicket(c) /\ Knows(c)'
  BY <1>0, <1>1, <1>3 DEF SameTicket, Knows
<1> QED
  BY <1>0, <1>3, <1>4, <1>5, Quiet

\* What a call is when its caller begins it or lets it go.
Anew == {Idle, Flushing} \cup {Publishing(k) : k \in Keys}

LEMMA AnewIsQuiet ==
    ASSUME NEW r \in Anew
    PROVE  /\ r \in Records /\ r.own = FALSE
           /\ \/ r.at = "free"
              \/ r.at = "inserting" /\ r.want # NoKey
              \/ r.at = "claiming" /\ r.want = NoKey
<1> USE OutboxAssumption DEF Idle, Publishing, Flushing, Records, Places
<1>1. CASE r = Idle
  BY <1>1
<1>2. ASSUME NEW k \in Keys, r = Publishing(k)
      PROVE  r \in Records /\ r.own = FALSE /\ r.at = "inserting" /\ r.want # NoKey
  BY <1>2
<1>3. CASE r = Flushing
  BY <1>3
<1> QED
  BY <1>1, <1>2, <1>3 DEF Anew

\* A call that begins or is over delivers nothing and has nothing to show.
LEMMA BeginInv ==
    ASSUME OutboxInv, NEW c \in Callers, NEW r \in Anew, call' = [call EXCEPT ![c] = r],
           UNCHANGED <<rows, outbox, msgToken, msgOwner, msgLive, log>>,
           UNCHANGED mishaps \/ Mishap
    PROVE  OutboxInv'
<1>1. call' \in [Callers -> Records] /\ call'[c] = r /\ Alone(c)
  BY AnewIsQuiet, Moves DEF OutboxInv
<1>2. mishaps' \in 0..MaxMishaps
  BY OutboxAssumption DEF OutboxInv, OutboxTypeOK
<1>3. OutboxTypeOK'
  BY <1>1, <1>2 DEF OutboxInv, OutboxTypeOK, Records
<1>4. SameTicket(c) /\ Knows(c)'
  BY <1>1, AnewIsQuiet DEF SameTicket, Knows
<1> QED
  BY <1>1, <1>3, <1>4, Quiet

LEMMA FreshInv ==
    ASSUME OutboxInv, NEW c \in Callers,
           (\E k \in Keys : Publish(c, k)) \/ Flush(c) \/ Return(c)
    PROVE  OutboxInv'
<1>1. PICK r \in Anew : call' = [call EXCEPT ![c] = r]
  BY DEF Publish, Flush, Return, Anew
<1>2. UNCHANGED <<rows, outbox, msgToken, msgOwner, msgLive, log, mishaps>>
  BY DEF Publish, Flush, Return
<1> QED
  BY <1>1, <1>2, BeginInv

\* So does the expiry of a message lease.
LEMMA MessageLapsesInv ==
    ASSUME OutboxInv, NEW k \in Keys, MessageLapses(k)
    PROVE  OutboxInv'
<1>1. UNCHANGED <<rows, outbox, msgToken, msgOwner, log, call>>
  BY DEF MessageLapses
<1>2. msgLive' \in [Keys -> BOOLEAN] /\ mishaps' \in 0..MaxMishaps
  BY OutboxAssumption DEF OutboxInv, OutboxTypeOK, MessageLapses
<1>3. OutboxTypeOK'
  BY <1>1, <1>2 DEF OutboxInv, OutboxTypeOK
<1>4. RowsAreKeyed' /\ EventsAreUnique' /\ SentIsRecorded'
  BY <1>1, TablesKeep
<1>5. CallsKnowTheirMessage' /\ TicketsDiffer' /\ PublishedIsRecorded'
  BY <1>1 DEF OutboxInv, CallsKnowTheirMessage, TicketsDiffer, PublishedIsRecorded, Recorded
<1> QED
  BY <1>3, <1>4, <1>5 DEF OutboxInv

\* So does the end of all the calls of a process.
LEMMA GoneInv ==
    ASSUME OutboxInv, NEW S, call' = Gone(S), Mishap,
           UNCHANGED <<rows, outbox, msgToken, msgOwner, msgLive, log>>
    PROVE  OutboxInv'
<1> DEFINE r == [Idle EXCEPT !.at = "gone"]
<1>1. UNCHANGED <<rows, outbox, msgToken, msgOwner, msgLive, log>>
  OBVIOUS
<1>2. r \in Records /\ r.at = "gone" /\ r.own = FALSE
  BY DEF Idle, Records, Places
<1>3. \A c \in Callers : call'[c] = r \/ call'[c] = call[c]
  BY DEF Gone
<1>4. call' \in [Callers -> Records]
  <2>1. call \in [Callers -> Records]
    BY DEF OutboxInv, OutboxTypeOK, Records
  <2> HIDE DEF r
  <2>2. call' = [c \in Callers |-> IF c \in S THEN r ELSE call[c]]
    BY DEF Gone, r
  <2> QED
    BY <1>2, <2>1, <2>2
<1>5. mishaps' \in 0..MaxMishaps
  BY OutboxAssumption DEF OutboxInv, OutboxTypeOK
<1>6. OutboxTypeOK'
  BY <1>1, <1>4, <1>5 DEF OutboxInv, OutboxTypeOK, Records
<1>7. RowsAreKeyed' /\ EventsAreUnique' /\ SentIsRecorded'
  BY <1>1, TablesKeep
<1> HIDE DEF r
<1>8. CallsKnowTheirMessage'
  BY <1>1, <1>2, <1>3 DEF OutboxInv, CallsKnowTheirMessage, Recorded
<1>9. TicketsDiffer'
  BY <1>2, <1>3 DEF OutboxInv, TicketsDiffer
<1>10. PublishedIsRecorded'
  BY <1>1, <1>2, <1>3 DEF OutboxInv, PublishedIsRecorded, Recorded
<1> QED
  BY <1>6, <1>7, <1>8, <1>9, <1>10 DEF OutboxInv

----------------------------------------------------------------------------
\* Every step of the outbox keeps the invariant.
LEMMA StepInv == OutboxInv /\ [OutboxNext]_outboxVars => OutboxInv'
<1> SUFFICES ASSUME OutboxInv, [OutboxNext]_outboxVars PROVE OutboxInv'
  OBVIOUS
<1>1. CASE UNCHANGED outboxVars
  BY <1>1 DEF outboxVars, OutboxInv, OutboxTypeOK, RowsAreKeyed, EventsAreUnique, SentIsRecorded,
              CallsKnowTheirMessage, TicketsDiffer, PublishedIsRecorded, Recorded
<1>2. ASSUME NEW c \in Callers, CallStep(c) PROVE OutboxInv'
  BY <1>2, InsertMessageInv, ClaimMessageInv, NothingPendingInv, RecordEventInv, MarkSentInv,
     MarkFailedInv, LookUpInv DEF CallStep
<1>3. ASSUME NEW c \in Callers, StoreFails(c) PROVE OutboxInv'
  BY <1>3, StoreFailsInv
<1>4. ASSUME NEW c \in Callers, NEW k \in Keys, Publish(c, k) PROVE OutboxInv'
  BY <1>4, FreshInv
<1>5. ASSUME NEW c \in Callers, Flush(c) \/ Return(c) PROVE OutboxInv'
  BY <1>5, FreshInv
<1>6. ASSUME NEW k \in Keys, MessageLapses(k) PROVE OutboxInv'
  BY <1>6, MessageLapsesInv
<1>7. ASSUME NEW o \in Outboxes, OutboxDies(o) PROVE OutboxInv'
  BY <1>7, GoneInv DEF OutboxDies
<1> QED
  BY <1>1, <1>2, <1>3, <1>4, <1>5, <1>6, <1>7 DEF OutboxNext

\* The inductive invariant holds in every reachable state, for any number of
\* calls, processes and messages and any number of mishaps.
THEOREM OutboxInvariant == OutboxSpec => []OutboxInv
<1> QED
  BY InitOutbox, StepInv, PTL DEF OutboxSpec

\* However often a message is claimed, delivered, failed, lapsed and delivered
\* again, by whichever processes, its event is in the stream once, and is there
\* before the message is acknowledged or a publisher is told so.
THEOREM DeliveredExactlyOnce ==
    OutboxSpec => [](EventsAreUnique /\ SentIsRecorded /\ PublishedIsRecorded)
<1>1. OutboxInv => EventsAreUnique /\ SentIsRecorded /\ PublishedIsRecorded
  BY DEF OutboxInv
<1> QED
  BY <1>1, OutboxInvariant, PTL

\* Two calls never both hold the right to acknowledge or hand back a message.
THEOREM OneAcknowledges == OutboxSpec => []AcknowledgedByOne
<1>1. OutboxInv => AcknowledgedByOne
  BY DEF OutboxInv, TicketsDiffer, AcknowledgedByOne, OwnsMessage
<1> QED
  BY <1>1, OutboxInvariant, PTL

\* What no step takes back.
StreamKept ==
    /\ Len(log) <= Len(log')
    /\ \A i \in DOMAIN log : log'[i] = log[i]
    /\ \A k \in Keys : outbox[k] = "sent" => outbox'[k] = "sent"

LEMMA StepKeepsStream ==
    ASSUME OutboxInv, OutboxNext
    PROVE  StreamKept
<1> USE DEF StreamKept
<1>1. log \in Seq(Keys) /\ outbox \in [Keys -> {"none", "pending", "sent"}] /\ Len(log) \in Nat
  BY LenProperties DEF OutboxInv, OutboxTypeOK
<1>2. CASE UNCHANGED <<outbox, log>>
  BY <1>1, <1>2
<1>3. ASSUME NEW c \in Callers, InsertMessage(c) PROVE StreamKept
  <2>1. UNCHANGED log
    BY <1>3 DEF InsertMessage
  <2>2. \/ outbox' = outbox
        \/ /\ outbox' = [outbox EXCEPT ![call[c].want] = "pending"]
           /\ outbox[call[c].want] = "none"
    BY <1>3 DEF InsertMessage
  <2> QED
    BY <1>1, <2>1, <2>2
<1>4. ASSUME NEW c \in Callers, RecordEvent(c) PROVE StreamKept
  <2>1. outbox' = outbox /\ (log' = log \/ log' = Append(log, call[c].taken))
    BY <1>4 DEF RecordEvent, AppendEvent
  <2>2. call[c].taken \in Keys
    BY <1>4 DEF RecordEvent, OutboxInv, OutboxTypeOK, CallsKnowTheirMessage
  <2>3. CASE log' = Append(log, call[c].taken)
    <3>1. /\ DOMAIN log = 1..Len(log) /\ Len(log') = Len(log) + 1
          /\ \A i \in 1..Len(log) : log'[i] = log[i]
      BY <1>1, <2>2, <2>3, Appended
    <3> QED
      BY <1>1, <2>1, <3>1
  <2> QED
    BY <1>1, <2>1, <2>3
<1>5. ASSUME NEW c \in Callers, MarkSent(c) PROVE StreamKept
  <2>1. UNCHANGED log /\ (outbox' = outbox \/ outbox' = [outbox EXCEPT ![call[c].taken] = "sent"])
    BY <1>5 DEF MarkSent
  <2> QED
    BY <1>1, <2>1
<1> QED
  BY <1>2, <1>3, <1>4, <1>5
     DEF OutboxNext, CallStep, ClaimMessage, NothingPending, MarkFailed, LookUp, StoreFails,
         Publish, Flush, Return, MessageLapses, OutboxDies

\* The stream is append-only, and no acknowledged message is sent again.
THEOREM StreamIsAppendOnly == OutboxSpec => StreamOnlyGrows
<1>1. OutboxInv /\ [OutboxNext]_outboxVars => [StreamKept]_outboxVars
  BY StepKeepsStream
<1> QED
  BY <1>1, OutboxInvariant, PTL DEF OutboxSpec, StreamOnlyGrows, StreamKept
=============================================================================
