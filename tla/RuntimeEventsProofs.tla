------------------------ MODULE RuntimeEventsProofs ------------------------
(* The event stream for every number of processes, calls, events, snapshots  *)
(* and retention passes.  First the rows: sequences follow the history and   *)
(* nothing is pruned that the snapshot does not stand for.  Then what is      *)
(* computed from them: snapshots and recoveries are the truth about the      *)
(* history, and a reconciliation closes what it found open.                  *)
EXTENDS RuntimeEvents, FiniteSetTheorems, WellFoundedInduction, TLAPS

\* While the stream is intact, its rows are the end of the history under their
\* own numbers, and the snapshot stands for everything before them.
RowsAreTheRest ==
    \E k \in 0..Len(history) :
        /\ k <= snapshot.sequence
        /\ rows = [n \in (k + 1)..Len(history) |-> n]

\* Sequences are numbers wherever one is kept.  (A projection over a stream
\* that is not intact is not claimed to have one.)
SequencesAreNumbers ==
    /\ snapshot.sequence \in Nat
    /\ \A c \in Calls : /\ call[c].base.sequence \in Nat
                        /\ At(c, "put") => call[c].state.sequence \in Nat

Shapes ==
    /\ history \in Seq(Event)
    /\ DOMAIN call = Calls
    /\ \A c \in Calls : DOMAIN call[c] = DOMAIN Idle

StreamInv == Shapes /\ (intact => RowsAreTheRest /\ SequencesAreNumbers)

\* What the first n events of a history amount to, for any history.
TruthOf(h, n) ==
    LET after[i \in 0..n] ==
            IF i = 0 THEN Blank ELSE Projected(after[i - 1], h[i])
    IN  [after[n] EXCEPT !.sequence = n, !.events = n]

IsTrue(s) ==
    /\ s.sequence \in 0..Len(history)
    /\ s = TruthOf(history, s.sequence)

\* What a call read is the truth about a beginning of the history, and what it
\* has yet to read is there.
CallIsTrue(c) ==
    /\ call[c].at \in {"read", "replay"} =>
          /\ IsTrue(call[c].base)
          /\ (call[c].base.sequence + 1)..Len(history) \subseteq DOMAIN rows
    /\ At(c, "put") => IsTrue(call[c].state)
    /\ At(c, "recovered") => /\ call[c].seen \in 0..Len(history)
                             /\ call[c].state = TruthOf(history, call[c].seen)

TruthInv == IsTrue(snapshot) /\ \A c \in Calls : CallIsTrue(c)

Started(t) == [type |-> "tool.started", tool |-> t]

\* A tool starts once, and is interrupted only after it has started.
ToolsAreOrdered ==
    /\ \A i, j \in DOMAIN history :
          history[i] = history[j] /\ history[i].type = "tool.started" => i = j
    /\ \A i \in DOMAIN history : history[i].type = "tool.interrupted" =>
          \E j \in 1..(i - 1) : history[j] = Started(history[i].tool)

\* A reconciliation interrupts what it found, and has interrupted what it no
\* longer owes.
CallSettles(c) ==
    /\ call[c].owed \subseteq call[c].found
    /\ call[c].task # "reconcile" => call[c].owed = {}
    /\ \A t \in call[c].found : Started(t) \in Range(history)
    /\ \A t \in call[c].found \ call[c].owed : Interruption(t) \in Range(history)
    /\ At(c, "recovered") => call[c].found \cap call[c].state.activeTools = {}

ToolInv == ToolsAreOrdered /\ \A c \in Calls : CallSettles(c)

EventsInv == StreamInv /\ (intact => TruthInv /\ ToolInv)

\* The snapshot stands for an event, or a call has yet to put a projection of it.
Covered(n) ==
    \/ n <= snapshot.sequence
    \/ \E c \in Calls : \/ call[c].at \in {"lock", "get", "read"}
                        \/ At(c, "put") /\ n <= call[c].state.sequence

OutcomesAreCovered ==
    /\ crashes \in Nat
    /\ crashes = 0 /\ intact =>
          \A n \in DOMAIN history : history[n].type \in Terminal => Covered(n)

----------------------------------------------------------------------------
LEMMA MaxOfInterval ==
    ASSUME NEW a \in Int, NEW b \in Int, a <= b
    PROVE  Max(a..b) = b
BY DEF Max

LEMMA InitStream == Init => StreamInv
<1>1. ASSUME Init PROVE Shapes
  BY <1>1 DEF Init, Shapes, Idle
<1>2. ASSUME Init PROVE RowsAreTheRest
  <2>1. Len(history) = 0 /\ snapshot.sequence = 0
    BY <1>2 DEF Init, Blank
  <2>2. rows = [n \in (0 + 1)..0 |-> n]
    BY <1>2 DEF Init
  <2> QED BY <2>1, <2>2 DEF RowsAreTheRest
<1>3. ASSUME Init PROVE SequencesAreNumbers
  BY <1>3 DEF Init, SequencesAreNumbers, At, Idle, Blank
<1> QED BY <1>1, <1>2, <1>3 DEF StreamInv

----------------------------------------------------------------------------
LEMMA MaxOfRows ==
    ASSUME RowsAreTheRest, history \in Seq(Event), DOMAIN rows # {}
    PROVE  Max(DOMAIN rows) = Len(history)
<1>1. PICK k \in 0..Len(history) : rows = [n \in (k + 1)..Len(history) |-> n]
  BY DEF RowsAreTheRest
<1>2. DOMAIN rows = (k + 1)..Len(history) /\ k + 1 <= Len(history) /\ Len(history) \in Nat
  BY <1>1
<1> QED BY <1>2, MaxOfInterval

LEMMA ProjectedSequence ==
    ASSUME NEW base, NEW read
    PROVE  Project(base, read).sequence = IF read = {} THEN base.sequence ELSE Max(read)
BY DEF Project

\* What a projection reads ends with the last row, or is nothing.
LEMMA ProjectionIsNumbered ==
    ASSUME StreamInv, intact, NEW c \in Calls
    PROVE  Project(call[c].base, Unprojected(call[c].base)).sequence \in Nat
<1> DEFINE base == call[c].base
           read == Unprojected(base)
<1>1. base.sequence \in Nat
  BY DEF StreamInv, SequencesAreNumbers
<1>2. PICK k \in 0..Len(history) : rows = [n \in (k + 1)..Len(history) |-> n]
  BY DEF StreamInv, RowsAreTheRest
<1>3. Len(history) \in Nat
  BY DEF StreamInv, Shapes
<1>4. ASSUME read # {} PROVE Max(read) \in Nat
  <2> DEFINE low == IF k < base.sequence THEN base.sequence ELSE k
  <2>1. read = (low + 1)..Len(history)
    BY <1>1, <1>2, <1>3 DEF Unprojected
  <2>2. low \in Nat /\ low + 1 <= Len(history)
    BY <1>1, <1>3, <1>4, <2>1
  <2> QED BY <1>3, <2>1, <2>2, MaxOfInterval
<1> QED BY <1>1, <1>4, ProjectedSequence

\* A new event goes to the end of the rows, under the length of the history.
LEMMA AppendStep ==
    ASSUME StreamInv, NEW e \in Event, AppendEvent(e), UNCHANGED snapshot, intact'
    PROVE  intact /\ RowsAreTheRest'
<1>1. CASE RowsOf(e) # {}
  BY <1>1 DEF AppendEvent, StreamInv, RowsAreTheRest
<1>2. CASE RowsOf(e) = {}
  <2>1. /\ intact
        /\ DOMAIN rows # {} \/ history = <<>>
        /\ history' = Append(history, e)
        /\ rows' = [n \in DOMAIN rows \cup {NextSequence} |->
                      IF n = NextSequence THEN Len(history) + 1 ELSE rows[n]]
    BY <1>2 DEF AppendEvent
  <2>2. RowsAreTheRest /\ history \in Seq(Event) /\ Len(history) \in Nat
    BY <2>1 DEF StreamInv, Shapes
  <2>3. PICK k \in 0..Len(history) : /\ k <= snapshot.sequence
                                     /\ rows = [n \in (k + 1)..Len(history) |-> n]
    BY <2>2 DEF RowsAreTheRest
  <2>4. NextSequence = Len(history) + 1
    <3>1. CASE DOMAIN rows = {}
      BY <2>1, <3>1 DEF NextSequence
    <3>2. CASE DOMAIN rows # {}
      BY <2>2, <3>2, MaxOfRows DEF NextSequence
    <3> QED BY <3>1, <3>2
  <2>5. Len(history') = Len(history) + 1
    BY <2>1, <2>2
  <2>6. DOMAIN rows \cup {NextSequence} = (k + 1)..Len(history')
    BY <2>2, <2>3, <2>4, <2>5
  <2>7. rows' = [n \in (k + 1)..Len(history') |-> n]
    BY <2>1, <2>2, <2>3, <2>4, <2>5, <2>6
  <2> QED BY <2>1, <2>2, <2>3, <2>5, <2>7 DEF RowsAreTheRest
<1> QED BY <1>1, <1>2

----------------------------------------------------------------------------
(* What a step does to the calls. *)

\* The locals of a call keep their form, and stay numbered.
CallStep(c) ==
    /\ DOMAIN call' = Calls
    /\ \A d \in Calls \ {c} : call'[d] = call[d]
    /\ DOMAIN call'[c] = DOMAIN Idle

LEMMA BeganCall ==
    ASSUME Shapes, NEW c \in Calls, NEW where, NEW task, call' = Began(c, where, task),
           where # "put"
    PROVE  CallStep(c) /\ call'[c].base.sequence \in Nat /\ ~At(c, "put")'
  BY DEF Shapes, CallStep, Began, Idle, Blank, At

\* A step that leaves the stream alone, or ends its being intact.
LEMMA StreamKept ==
    ASSUME StreamInv, UNCHANGED <<history, rows, snapshot, intact>>, NEW c \in Calls,
           CallStep(c),
           intact => /\ call'[c].base.sequence \in Nat
                     /\ At(c, "put")' => call'[c].state.sequence \in Nat
    PROVE  StreamInv'
<1>1. Shapes'
  BY DEF StreamInv, Shapes, CallStep
<1>2. ASSUME intact PROVE RowsAreTheRest' /\ SequencesAreNumbers'
  BY <1>2 DEF StreamInv, RowsAreTheRest, SequencesAreNumbers, CallStep, At
<1> QED BY <1>1, <1>2 DEF StreamInv

\* A step that appends, and goes on where it holds no projection.
LEMMA StreamGrows ==
    ASSUME StreamInv, NEW e \in Event, AppendEvent(e), UNCHANGED snapshot, NEW c \in Calls,
           CallStep(c) \/ UNCHANGED call,
           call'[c].base.sequence = call[c].base.sequence \/ call'[c].base.sequence \in Nat,
           ~At(c, "put")'
    PROVE  StreamInv'
<1>1. Shapes'
  BY DEF StreamInv, Shapes, CallStep, AppendEvent
<1>2. ASSUME intact' PROVE RowsAreTheRest' /\ SequencesAreNumbers'
  <2>1. intact /\ RowsAreTheRest'
    BY <1>2, AppendStep
  <2> QED BY <2>1 DEF StreamInv, SequencesAreNumbers, CallStep, At
<1> QED BY <1>1, <1>2 DEF StreamInv

LEMMA RecordStep ==
    ASSUME StreamInv, NEW c \in Calls, NEW e \in Published, Record(c, e)
    PROVE  StreamInv'
<1>1. e \in Event /\ At(c, "free") /\ AppendEvent(e) /\ UNCHANGED snapshot
  BY RuntimeAssumption DEF Record
<1>2. CASE UNCHANGED call
  BY <1>1, <1>2, StreamGrows DEF At
<1>3. CASE call' = Began(c, "get", "record")
  BY <1>1, <1>3, BeganCall, StreamGrows DEF StreamInv
<1> QED BY <1>2, <1>3 DEF Record

LEMMA CommitStep ==
    ASSUME StreamInv, NEW c \in Calls, NEW e \in Published, Commit(c, e)
    PROVE  StreamInv'
<1>1. e \in Event /\ At(c, "free") /\ AppendEvent(e) /\ UNCHANGED snapshot
  BY RuntimeAssumption DEF Commit
<1>2. CASE UNCHANGED call
  BY <1>1, <1>2, StreamGrows DEF At
<1>3. CASE call' = Began(c, "lock", "record")
  BY <1>1, <1>3, BeganCall, StreamGrows DEF StreamInv
<1> QED BY <1>2, <1>3 DEF Commit

LEMMA InterruptStep ==
    ASSUME StreamInv, NEW c \in Calls, NEW t \in Tools, Interrupt(c, t)
    PROVE  StreamInv'
<1>1. Interruption(t) \in Event
  BY DEF Interruption, Event
<1>2. AppendEvent(Interruption(t)) /\ UNCHANGED snapshot
  BY DEF Interrupt
<1>3. CallStep(c) /\ call'[c].base = call[c].base /\ ~At(c, "put")'
  BY DEF Interrupt, StreamInv, Shapes, Idle, CallStep, At
<1> QED BY <1>1, <1>2, <1>3, StreamGrows

\* Steps of a call that touch neither stream nor snapshot.
LEMMA QuietStep ==
    ASSUME StreamInv, NEW c \in Calls,
           \/ TakeLock(c) \/ GetSnapshot(c) \/ Reconciled(c) \/ Return(c)
           \/ \E task \in {"recover", "reconcile"} : Recover(c, task)
    PROVE  StreamInv'
<1> USE DEF StreamInv, Shapes, CallStep, Idle, Blank, At
<1>1. CASE TakeLock(c)
  BY <1>1, StreamKept DEF TakeLock, SequencesAreNumbers
<1>2. CASE GetSnapshot(c)
  BY <1>2, StreamKept DEF GetSnapshot, SequencesAreNumbers
<1>3. CASE Reconciled(c)
  BY <1>3, StreamKept DEF Reconciled
<1>4. CASE Return(c)
  BY <1>4, StreamKept DEF Return
<1>5. ASSUME NEW task \in {"recover", "reconcile"}, Recover(c, task) PROVE StreamInv'
  BY <1>5, BeganCall, StreamKept DEF Recover
<1> QED BY <1>1, <1>2, <1>3, <1>4, <1>5

LEMMA ReadStep ==
    ASSUME StreamInv, NEW c \in Calls, ReadEvents(c) \/ Replay(c)
    PROVE  StreamInv'
<1>1. intact => Project(call[c].base, Unprojected(call[c].base)).sequence \in Nat
  BY ProjectionIsNumbered
<1>2. CASE ReadEvents(c)
  BY <1>1, <1>2, StreamKept
     DEF ReadEvents, StreamInv, Shapes, CallStep, Idle, At, SequencesAreNumbers
<1>3. CASE Replay(c)
  BY <1>3, StreamKept
     DEF Replay, StreamInv, Shapes, CallStep, Idle, At, SequencesAreNumbers
<1> QED BY <1>2, <1>3

\* The snapshot only goes forward.
LEMMA PutStep ==
    ASSUME StreamInv, NEW c \in Calls, PutSnapshot(c)
    PROVE  StreamInv'
<1>1. Shapes'
  BY DEF PutSnapshot, Returned, StreamInv, Shapes, Idle
<1>2. ASSUME intact PROVE RowsAreTheRest' /\ SequencesAreNumbers'
  <2>1. snapshot.sequence \in Nat /\ call[c].state.sequence \in Nat /\ Len(history) \in Nat
    BY <1>2 DEF PutSnapshot, StreamInv, Shapes, SequencesAreNumbers
  <2>2. snapshot'.sequence \in Nat /\ snapshot.sequence <= snapshot'.sequence
    BY <2>1 DEF PutSnapshot, Supersedes
  <2>3. RowsAreTheRest'
    BY <1>2, <2>1, <2>2 DEF PutSnapshot, StreamInv, RowsAreTheRest
  <2>4. \A d \in Calls : call'[d].base.sequence \in Nat
                         /\ (At(d, "put")' => call'[d].state.sequence \in Nat)
    BY <1>2 DEF PutSnapshot, Returned, StreamInv, Shapes, SequencesAreNumbers, Idle, Blank, At
  <2> QED BY <2>2, <2>3, <2>4 DEF SequencesAreNumbers
<1> QED BY <1>1, <1>2 DEF PutSnapshot, StreamInv

LEMMA CrashStep ==
    ASSUME StreamInv, NEW h \in Hosts, Crash(h)
    PROVE  StreamInv'
<1>1. Shapes'
  BY DEF Crash, StreamInv, Shapes, Idle
<1>2. ASSUME intact PROVE RowsAreTheRest' /\ SequencesAreNumbers'
  BY <1>2 DEF Crash, StreamInv, RowsAreTheRest, SequencesAreNumbers, Idle, Blank, At
<1> QED BY <1>1, <1>2 DEF Crash, StreamInv

\* A retention pass takes a beginning of the rows that the snapshot covers.
LEMMA PruneStep ==
    ASSUME StreamInv, NEW age \in 1..Len(history), Prune(age)
    PROVE  StreamInv'
<1>1. Shapes'
  BY DEF Prune, StreamInv, Shapes
<1>2. ASSUME intact' PROVE RowsAreTheRest' /\ SequencesAreNumbers'
  <2>1. intact /\ SequencesAreNumbers'
    BY <1>2 DEF Prune, StreamInv, SequencesAreNumbers, At
  <2>2. Len(history) \in Nat /\ snapshot.sequence \in Nat
    BY <2>1 DEF StreamInv, Shapes, SequencesAreNumbers
  <2>3. PICK k \in 0..Len(history) : /\ k <= snapshot.sequence
                                     /\ rows = [n \in (k + 1)..Len(history) |-> n]
    BY <2>1 DEF StreamInv, RowsAreTheRest
  <2> DEFINE cut == IF age <= snapshot.sequence THEN age ELSE snapshot.sequence
             low == IF cut <= k THEN k ELSE IF cut <= Len(history) THEN cut ELSE Len(history)
  <2>4. low \in 0..Len(history) /\ low <= snapshot.sequence
    BY <2>2, <2>3
  <2>5. Expendable(age) = {n \in (k + 1)..Len(history) : n <= cut}
    BY <2>2, <2>3 DEF Expendable
  <2>6. DOMAIN rows \ Expendable(age) = (low + 1)..Len(history)
    BY <2>2, <2>3, <2>5
  <2>7. rows' = [n \in (low + 1)..Len(history) |-> n]
    BY <2>2, <2>3, <2>4, <2>6 DEF Prune, Restrict
  <2> QED BY <2>1, <2>4, <2>7 DEF Prune, RowsAreTheRest
<1> QED BY <1>1, <1>2 DEF StreamInv

----------------------------------------------------------------------------
LEMMA StutterStep ==
    ASSUME StreamInv, UNCHANGED vars
    PROVE  StreamInv'
BY DEF vars, StreamInv, Shapes, RowsAreTheRest, SequencesAreNumbers, At

LEMMA NextStep ==
    ASSUME StreamInv, Next
    PROVE  StreamInv'
<1>1. CASE \E c \in Calls \ Recoverers, e \in Published : Record(c, e) \/ Commit(c, e)
  BY <1>1, RecordStep, CommitStep
<1>2. CASE \E c \in Recoverers, task \in {"recover", "reconcile"} : Recover(c, task)
  BY <1>2, QuietStep, RuntimeAssumption
<1>3. CASE \E c \in Calls : Continue(c)
  BY <1>3, QuietStep, ReadStep, PutStep, InterruptStep DEF Continue
<1>4. CASE \E h \in Hosts : Crash(h)
  BY <1>4, CrashStep
<1>5. CASE \E age \in 1..Len(history) : Prune(age)
  BY <1>5, PruneStep
<1> QED BY <1>1, <1>2, <1>3, <1>4, <1>5 DEF Next

\* The rows are always the rest of the history after what the snapshot covers,
\* as long as the stream is intact.
THEOREM StreamInvariant == Spec => []StreamInv
<1>1. StreamInv /\ [Next]_vars => StreamInv'
  BY NextStep, StutterStep
<1> QED BY <1>1, InitStream, PTL DEF Spec

\* Sequences follow the history: a client that resumes after the last sequence
\* it saw misses no event, however many were pruned in between.
THEOREM SequencesAreInOrder == Spec => []SequencesFollowHistory
<1>1. StreamInv => SequencesFollowHistory
  BY DEF StreamInv, RowsAreTheRest, SequencesFollowHistory
<1> QED BY <1>1, StreamInvariant, PTL

\* No event is pruned before the snapshot stands for it.
THEOREM NothingIsLost == Spec => []PrunedIsCovered
<1>1. ASSUME StreamInv PROVE PrunedIsCovered
  <2>1. SUFFICES ASSUME intact, NEW n \in DOMAIN history, n \notin DOMAIN rows
                 PROVE  n <= snapshot.sequence
    BY DEF PrunedIsCovered
  <2>2. n \in 1..Len(history) /\ Len(history) \in Nat /\ snapshot.sequence \in Nat
    BY <1>1, <2>1 DEF StreamInv, Shapes, SequencesAreNumbers
  <2> QED BY <1>1, <2>1, <2>2 DEF StreamInv, RowsAreTheRest
<1> QED BY <1>1, StreamInvariant, PTL

----------------------------------------------------------------------------
(* Runs of a projection. *)

LEMMA Least ==
    ASSUME NEW S, S \subseteq Nat, S # {}
    PROVE  \E x \in S : \A y \in S : x <= y
<1>1. PICK x \in S : \A y \in S : ~(<<y, x>> \in OpToRel(<, Nat))
  BY NatLessThanWellFounded, WFMin, Zenon
<1>2. \A y \in S : ~(y < x)
  BY <1>1 DEF OpToRel
<1> QED BY <1>2

\* f takes the state b through the events of h after lo, up to hi.
Runs(f, b, h, lo, hi) ==
    f = [n \in lo..hi |-> IF n = lo THEN b ELSE Projected(f[n - 1], h[n])]

IsState(s) ==
    s = [sequence |-> s.sequence, phase |-> s.phase, activeTools |-> s.activeTools,
         events |-> s.events]

Same(s, t) == s.phase = t.phase /\ s.activeTools = t.activeTools

LEMMA RunExists ==
    ASSUME NEW b, NEW h, NEW lo \in Nat, NEW hi \in Nat, lo <= hi
    PROVE  \E f : Runs(f, b, h, lo, hi)
<1> DEFINE S == {n \in Nat : lo <= n /\ ~\E f : Runs(f, b, h, lo, n)}
<1>1. SUFFICES ASSUME S # {} PROVE FALSE
  OBVIOUS
<1>2. PICK n \in S : \A m \in S : n <= m
  <2> S \subseteq Nat
    OBVIOUS
  <2> HIDE DEF S
  <2> QED BY <1>1, Least
<1>3. n \in Nat /\ lo <= n /\ ~\E f : Runs(f, b, h, lo, n)
  BY <1>2
<1>4. n # lo
  <2> DEFINE f == [i \in lo..lo |-> b]
  <2>1. Runs(f, b, h, lo, lo)
    BY DEF Runs
  <2> QED BY <1>3, <2>1
<1>5. PICK f : Runs(f, b, h, lo, n - 1)
  BY <1>2, <1>3, <1>4
<1> DEFINE g == [i \in lo..n |-> IF i = n THEN Projected(f[n - 1], h[n]) ELSE f[i]]
<1>6. \A i \in lo..n : g[i] = IF i = lo THEN b ELSE Projected(g[i - 1], h[i])
  <2>1. ASSUME NEW i \in lo..n PROVE g[i] = IF i = lo THEN b ELSE Projected(g[i - 1], h[i])
    <3>1. CASE i = n
      <4>1. g[n] = Projected(f[n - 1], h[n]) /\ n - 1 \in lo..n /\ n - 1 # n
        BY <1>3, <1>4
      <4>2. g[n - 1] = f[n - 1]
        BY <4>1
      <4> QED BY <1>4, <3>1, <4>1, <4>2
    <3>2. CASE i # n /\ i # lo
      <4>1. i - 1 \in lo..n /\ i - 1 # n /\ i \in lo..(n - 1)
        BY <1>3, <2>1, <3>2
      <4>2. g[i] = f[i] /\ g[i - 1] = f[i - 1]
        BY <2>1, <3>2, <4>1
      <4>3. f[i] = Projected(f[i - 1], h[i])
        BY <1>5, <3>2, <4>1 DEF Runs
      <4> QED BY <3>2, <4>2, <4>3
    <3>3. CASE i = lo /\ i # n
      <4>1. i \in lo..(n - 1)
        BY <1>3, <2>1, <3>3
      <4> QED BY <1>5, <2>1, <3>3, <4>1 DEF Runs
    <3> QED BY <3>1, <3>2, <3>3
  <2> QED BY <2>1
<1>7. Runs(g, b, h, lo, n)
  BY <1>6 DEF Runs
<1> QED BY <1>3, <1>7

LEMMA ProjectedState ==
    ASSUME NEW s, NEW e, IsState(s)
    PROVE  /\ IsState(Projected(s, e))
           /\ Projected(s, e).sequence = s.sequence /\ Projected(s, e).events = s.events
           /\ Projected(s, e).phase = PhaseAfter(s.phase, e.type)
           /\ Projected(s, e).activeTools = ToolsAfter(s.activeTools, e)
<1>1. PICK q, p, a, v : s = [sequence |-> q, phase |-> p, activeTools |-> a, events |-> v]
  BY DEF IsState
<1>2. Projected(s, e) = [sequence |-> q, phase |-> PhaseAfter(p, e.type),
                         activeTools |-> ToolsAfter(a, e), events |-> v]
  <2>1. Projected(s, e) = [s EXCEPT !.phase = PhaseAfter(p, e.type),
                                    !.activeTools = ToolsAfter(a, e)]
    BY <1>1 DEF Projected
  <2> QED BY <1>1, <2>1
<1> HIDE DEF Projected
<1> QED BY <1>1, <1>2 DEF IsState

LEMMA RunStates ==
    ASSUME NEW f, NEW b, NEW h, NEW lo \in Nat, NEW hi \in Nat, Runs(f, b, h, lo, hi),
           IsState(b)
    PROVE  \A n \in lo..hi : IsState(f[n]) /\ f[n].sequence = b.sequence /\ f[n].events = b.events
<1> DEFINE Good(n) == IsState(f[n]) /\ f[n].sequence = b.sequence /\ f[n].events = b.events
           S == {n \in lo..hi : ~Good(n)}
<1>1. SUFFICES ASSUME S # {} PROVE FALSE
  OBVIOUS
<1>2. PICK n \in S : \A m \in S : n <= m
  <2> S \subseteq Nat
    OBVIOUS
  <2> HIDE DEF S
  <2> QED BY <1>1, Least
<1>3. n # lo
  BY <1>2 DEF Runs
<1>4. Good(n - 1) /\ f[n] = Projected(f[n - 1], h[n])
  BY <1>2, <1>3 DEF Runs
<1> QED BY <1>2, <1>4, ProjectedState

LEMMA RunsAgree ==
    ASSUME NEW f, NEW b, NEW h, NEW lo \in Nat, NEW hi \in Nat, Runs(f, b, h, lo, hi),
           NEW g, NEW c, NEW k, NEW low \in Nat, NEW high \in Nat, Runs(g, c, k, low, high),
           low <= lo, hi <= high, IsState(b), IsState(c),
           lo <= hi => Same(b, g[lo]),
           \A n \in (lo + 1)..hi : h[n] = k[n]
    PROVE  \A n \in lo..hi : Same(f[n], g[n])
<1> DEFINE S == {n \in lo..hi : ~Same(f[n], g[n])}
<1>1. SUFFICES ASSUME S # {} PROVE FALSE
  OBVIOUS
<1>2. PICK n \in S : \A m \in S : n <= m
  <2> S \subseteq Nat
    OBVIOUS
  <2> HIDE DEF S
  <2> QED BY <1>1, Least
<1>3. n # lo
  BY <1>2 DEF Runs
<1>4. Same(f[n - 1], g[n - 1]) /\ f[n] = Projected(f[n - 1], h[n])
  BY <1>2, <1>3 DEF Runs
<1>5. g[n] = Projected(g[n - 1], h[n])
  <2>1. n \in low..high /\ n # low /\ n \in (lo + 1)..hi
    BY <1>2, <1>3
  <2> QED BY <2>1 DEF Runs
<1>6. IsState(f[n - 1]) /\ IsState(g[n - 1])
  <2>1. n - 1 \in lo..hi /\ n - 1 \in low..high
    BY <1>2, <1>3
  <2> QED BY <2>1, RunStates
<1>7. Same(f[n], g[n])
  BY <1>4, <1>5, <1>6, ProjectedState DEF Same
<1> QED BY <1>2, <1>7

----------------------------------------------------------------------------
(* The truth about a history, and projections on top of it. *)

LEMMA TruthIsOfHistory ==
    ASSUME NEW n
    PROVE  Truth(n) = TruthOf(history, n)
BY DEF Truth, TruthOf

LEMMA BlankIsState == IsState(Blank)
BY DEF IsState, Blank

\* The truth comes from a run over the history.
LEMMA TruthRun ==
    ASSUME NEW h, NEW n \in Nat
    PROVE  \E f : /\ Runs(f, Blank, h, 0, n)
                  /\ TruthOf(h, n) = [sequence |-> n, phase |-> f[n].phase,
                                      activeTools |-> f[n].activeTools, events |-> n]
<1> DEFINE f == CHOOSE g : g = [i \in 0..n |-> IF i = 0 THEN Blank ELSE Projected(g[i - 1], h[i])]
<1>1. \E g : g = [i \in 0..n |-> IF i = 0 THEN Blank ELSE Projected(g[i - 1], h[i])]
  <2>1. PICK g : Runs(g, Blank, h, 0, n)
    BY RunExists
  <2> WITNESS g
  <2> QED BY <2>1 DEF Runs
<1>2. f = [i \in 0..n |-> IF i = 0 THEN Blank ELSE Projected(f[i - 1], h[i])]
  BY <1>1, Zenon
<1>3. TruthOf(h, n) = [f[n] EXCEPT !.sequence = n, !.events = n]
  BY Zenon DEF TruthOf
<1> HIDE DEF f
<1>4. Runs(f, Blank, h, 0, n)
  BY <1>2, Zenon DEF Runs
<1>5. IsState(f[n])
  BY <1>4, BlankIsState, RunStates
<1>6. TruthOf(h, n) = [sequence |-> n, phase |-> f[n].phase,
                       activeTools |-> f[n].activeTools, events |-> n]
  <2>1. PICK q, p, a, v : f[n] = [sequence |-> q, phase |-> p, activeTools |-> a, events |-> v]
    BY <1>5 DEF IsState
  <2> QED BY <1>3, <2>1
<1> QED BY <1>4, <1>6

LEMMA BeginningsAgree ==
    ASSUME NEW h, NEW k, NEW m \in Nat, NEW n \in Nat, m <= n, NEW f, NEW g,
           Runs(f, Blank, h, 0, m), Runs(g, Blank, k, 0, n), \A i \in 1..m : h[i] = k[i]
    PROVE  Same(f[m], g[m])
<1>1. Same(Blank, g[0])
  BY DEF Runs, Same
<1>2. \A i \in (0 + 1)..m : h[i] = k[i]
  OBVIOUS
<1> DEFINE zero == 0
<1>3. zero \in Nat /\ zero <= zero /\ \A i \in (zero + 1)..m : h[i] = k[i]
  BY <1>2
<1>4. Runs(f, Blank, h, zero, m) /\ Runs(g, Blank, k, zero, n) /\ Same(Blank, g[zero])
  BY <1>1
<1>5. zero <= m
  OBVIOUS
<1> HIDE DEF zero
<1>6. \A i \in zero..m : Same(f[i], g[i])
  BY <1>3, <1>4, BlankIsState, RunsAgree
<1> QED BY <1>3, <1>5, <1>6

LEMMA TruthAtZero ==
    ASSUME NEW h
    PROVE  TruthOf(h, 0) = Blank
<1>1. PICK f : /\ Runs(f, Blank, h, 0, 0)
               /\ TruthOf(h, 0) = [sequence |-> 0, phase |-> f[0].phase,
                                   activeTools |-> f[0].activeTools, events |-> 0]
  BY TruthRun
<1>2. f[0] = Blank
  BY <1>1 DEF Runs
<1> QED BY <1>1, <1>2 DEF Blank

\* Histories that agree on a beginning have one truth about it.
LEMMA TruthIsStable ==
    ASSUME NEW h, NEW k, NEW n \in Nat, \A i \in 1..n : h[i] = k[i]
    PROVE  TruthOf(h, n) = TruthOf(k, n)
<1>1. PICK f : /\ Runs(f, Blank, h, 0, n)
               /\ TruthOf(h, n) = [sequence |-> n, phase |-> f[n].phase,
                                   activeTools |-> f[n].activeTools, events |-> n]
  BY TruthRun
<1>2. PICK g : /\ Runs(g, Blank, k, 0, n)
               /\ TruthOf(k, n) = [sequence |-> n, phase |-> g[n].phase,
                                   activeTools |-> g[n].activeTools, events |-> n]
  BY TruthRun
<1>3. Same(f[n], g[n])
  BY <1>1, <1>2, BeginningsAgree
<1> QED BY <1>1, <1>2, <1>3 DEF Same

LEMMA TruthStep ==
    ASSUME NEW h, NEW n \in Nat \ {0}
    PROVE  /\ TruthOf(h, n).sequence = n
           /\ TruthOf(h, n).events = n
           /\ TruthOf(h, n).phase = PhaseAfter(TruthOf(h, n - 1).phase, h[n].type)
           /\ TruthOf(h, n).activeTools = ToolsAfter(TruthOf(h, n - 1).activeTools, h[n])
<1>0. n \in Nat /\ n - 1 \in Nat /\ n - 1 \in 0..n /\ n \in 0..n /\ 0 \in Nat
  OBVIOUS
<1>1. PICK f : /\ Runs(f, Blank, h, 0, n)
               /\ TruthOf(h, n) = [sequence |-> n, phase |-> f[n].phase,
                                   activeTools |-> f[n].activeTools, events |-> n]
  BY TruthRun
<1>2. PICK g : /\ Runs(g, Blank, h, 0, n - 1)
               /\ TruthOf(h, n - 1) = [sequence |-> n - 1, phase |-> g[n - 1].phase,
                                   activeTools |-> g[n - 1].activeTools, events |-> n - 1]
  BY <1>0, TruthRun
<1>4. Same(g[n - 1], f[n - 1])
  <2> DEFINE m == n - 1
  <2>1. m \in Nat /\ m <= n /\ n \in Nat /\ Runs(g, Blank, h, 0, m)
    BY <1>0, <1>2
  <2> HIDE DEF m
  <2>2. Same(g[m], f[m])
    BY <1>1, <2>1, BeginningsAgree
  <2> QED BY <2>2 DEF m
<1>5. f[n] = Projected(f[n - 1], h[n]) /\ IsState(f[n - 1])
  <2>1. \A i \in 0..n : IsState(f[i])
    BY <1>1, BlankIsState, RunStates
  <2> QED BY <1>0, <1>1, <2>1 DEF Runs
<1> QED BY <1>1, <1>2, <1>4, <1>5, ProjectedState DEF Same

\* A projection on top of a true state, over the events up to the last one that
\* it does not cover, is the truth again.
LEMMA ProjectIsTruth ==
    ASSUME NEW base, NEW n \in Nat, base.sequence \in Nat, base.sequence <= n,
           base = TruthOf(history, base.sequence),
           \A i \in (base.sequence + 1)..n : rows[i] = i
    PROVE  Project(base, (base.sequence + 1)..n) = TruthOf(history, n)
<1> DEFINE lo == base.sequence
           read == (lo + 1)..n
           f == CHOOSE g : g = [i \in lo..n |->
                    IF i = lo THEN base
                    ELSE IF i \in read THEN Projected(g[i - 1], history[rows[i]]) ELSE g[i - 1]]
<1>1. (IF read = {} THEN lo ELSE Max(read)) = n
  <2>1. CASE lo = n
    BY <2>1
  <2>2. CASE lo # n
    BY <2>2, MaxOfInterval
  <2> QED BY <2>1, <2>2
<1>2. Project(base, read) = [sequence |-> n, phase |-> f[n].phase,
                             activeTools |-> f[n].activeTools,
                             events |-> base.events + Cardinality(read)]
  <2> HIDE DEF read
  <2> QED BY <1>1 DEF Project
<1>3. \E g : g = [i \in lo..n |->
                    IF i = lo THEN base
                    ELSE IF i \in read THEN Projected(g[i - 1], history[rows[i]]) ELSE g[i - 1]]
  <2>1. PICK g : Runs(g, base, history, lo, n)
    BY RunExists
  <2> WITNESS g
  <2> QED BY <2>1 DEF Runs
<1>4. f = [i \in lo..n |->
                    IF i = lo THEN base
                    ELSE IF i \in read THEN Projected(f[i - 1], history[rows[i]]) ELSE f[i - 1]]
  BY <1>3, Zenon
<1> HIDE DEF f
<1>5. Runs(f, base, history, lo, n)
  BY <1>4 DEF Runs
<1>6. PICK g : /\ Runs(g, Blank, history, 0, lo)
               /\ TruthOf(history, lo) = [sequence |-> lo, phase |-> g[lo].phase,
                                   activeTools |-> g[lo].activeTools, events |-> lo]
  BY TruthRun
<1>7. PICK k : /\ Runs(k, Blank, history, 0, n)
               /\ TruthOf(history, n) = [sequence |-> n, phase |-> k[n].phase,
                                   activeTools |-> k[n].activeTools, events |-> n]
  BY TruthRun
<1>8. Same(g[lo], k[lo])
  BY <1>6, <1>7, BeginningsAgree
<1>9. Same(base, k[lo])
  BY <1>6, <1>8 DEF Same
<1>10. IsState(base)
  BY <1>6 DEF IsState
<1>11. Same(f[n], k[n])
  <2>1. \A i \in lo..n : Same(f[i], k[i])
    <3> DEFINE low == 0
    <3>1. low \in Nat /\ low <= lo /\ Runs(k, Blank, history, low, n)
      BY <1>7
    <3>2. \A i \in (lo + 1)..n : history[i] = history[i]
      OBVIOUS
    <3>3. lo \in Nat /\ n <= n
      OBVIOUS
    <3> HIDE DEF low, lo
    <3> QED BY <1>5, <1>9, <1>10, <3>1, <3>2, <3>3, BlankIsState, RunsAgree
  <2> QED BY <2>1
<1>12. base.events + Cardinality(read) = n
  <2>1. base.events = lo
    BY <1>6
  <2>2. Cardinality(read) = n - lo
    BY FS_Interval
  <2> QED BY <2>1, <2>2
<1> QED BY <1>2, <1>7, <1>11, <1>12 DEF Same

----------------------------------------------------------------------------
(* What snapshots and recoveries are made of. *)

LEMMA TruthSequence ==
    ASSUME NEW h, NEW n \in Nat
    PROVE  TruthOf(h, n).sequence = n
BY TruthRun

\* What a step adds to the stream, if anything.
Grows(e) ==
    /\ Len(history') = Len(history) + 1
    /\ \A i \in 1..Len(history) : history'[i] = history[i]
    /\ history'[Len(history) + 1] = e
    /\ DOMAIN rows' = DOMAIN rows \cup {Len(history) + 1}
    /\ RowsOf(e) = {}

LEMMA AppendGrows ==
    ASSUME StreamInv, NEW e, AppendEvent(e), intact'
    PROVE  intact /\ ((UNCHANGED <<history, rows>> /\ RowsOf(e) # {}) \/ Grows(e))
<1>1. CASE RowsOf(e) # {}
  BY <1>1 DEF AppendEvent
<1>2. CASE RowsOf(e) = {}
  <2>1. /\ intact
        /\ DOMAIN rows # {} \/ history = <<>>
        /\ history' = Append(history, e)
        /\ DOMAIN rows' = DOMAIN rows \cup {NextSequence}
    BY <1>2 DEF AppendEvent
  <2>2. RowsAreTheRest /\ history \in Seq(Event) /\ Len(history) \in Nat
    BY <2>1 DEF StreamInv, Shapes
  <2>3. NextSequence = Len(history) + 1
    <3>1. CASE DOMAIN rows = {}
      BY <2>1, <3>1 DEF NextSequence
    <3>2. CASE DOMAIN rows # {}
      BY <2>2, <3>2, MaxOfRows DEF NextSequence
    <3> QED BY <3>1, <3>2
  <2>4. Len(history') = Len(history) + 1 /\ history'[Len(history) + 1] = e
        /\ \A i \in 1..Len(history) : history'[i] = history[i]
    BY <2>1, <2>2
  <2> QED BY <1>2, <2>1, <2>3, <2>4 DEF Grows
<1> QED BY <1>1, <1>2

\* What is true about a beginning of the history stays true.
LEMMA TruthSurvives ==
    ASSUME NEW e, Grows(e), Len(history) \in Nat, NEW n \in 0..Len(history)
    PROVE  TruthOf(history', n) = TruthOf(history, n)
<1>1. n \in Nat /\ \A i \in 1..n : history'[i] = history[i]
  BY DEF Grows
<1> HIDE DEF Grows
<1> QED BY <1>1, TruthIsStable

LEMMA StateSurvives ==
    ASSUME NEW e, Grows(e), Len(history) \in Nat, NEW s, IsTrue(s)
    PROVE  /\ s.sequence \in 0..Len(history')
           /\ s = TruthOf(history', s.sequence)
<1>1. s.sequence \in 0..Len(history) /\ s = TruthOf(history, s.sequence)
  BY DEF IsTrue
<1>2. TruthOf(history', s.sequence) = TruthOf(history, s.sequence)
  BY <1>1, TruthSurvives
<1> QED BY <1>1, <1>2 DEF Grows

\* The second read of a projection gets everything after its base.
LEMMA ReadIsTrue ==
    ASSUME StreamInv, intact, NEW c \in Calls, CallIsTrue(c), call[c].at \in {"read", "replay"}
    PROVE  /\ Len(history) \in Nat
           /\ Project(call[c].base, Unprojected(call[c].base)) = TruthOf(history, Len(history))
<1> DEFINE base == call[c].base
<1>1. /\ IsTrue(base)
      /\ (base.sequence + 1)..Len(history) \subseteq DOMAIN rows
  BY DEF CallIsTrue
<1>2. Len(history) \in Nat /\ base.sequence \in 0..Len(history)
  BY <1>1 DEF StreamInv, Shapes, IsTrue
<1>3. PICK k \in 0..Len(history) : rows = [n \in (k + 1)..Len(history) |-> n]
  BY DEF StreamInv, RowsAreTheRest
<1>4. Unprojected(base) = (base.sequence + 1)..Len(history)
  BY <1>1, <1>2, <1>3 DEF Unprojected
<1>5. \A i \in (base.sequence + 1)..Len(history) : rows[i] = i
  BY <1>1, <1>3
<1>6. base = TruthOf(history, base.sequence)
  BY <1>1 DEF IsTrue
<1> HIDE DEF base
<1>7. Project(base, (base.sequence + 1)..Len(history)) = TruthOf(history, Len(history))
  BY <1>2, <1>5, <1>6, ProjectIsTruth
<1> QED BY <1>2, <1>4, <1>7 DEF base

----------------------------------------------------------------------------
LEMMA InitTruth == Init => TruthInv
<1> SUFFICES ASSUME Init PROVE TruthInv
  OBVIOUS
<1>1. IsTrue(snapshot)
  BY TruthAtZero DEF Init, IsTrue, Blank
<1>2. ASSUME NEW c \in Calls PROVE CallIsTrue(c)
  BY DEF Init, CallIsTrue, Idle, At
<1> QED BY <1>1, <1>2 DEF TruthInv

\* A step of one call that leaves the stream and the snapshot alone.
LEMMA TruthKept ==
    ASSUME TruthInv, UNCHANGED <<history, rows, snapshot>>, NEW c \in Calls,
           CallStep(c), CallIsTrue(c)'
    PROVE  TruthInv'
<1>1. IsTrue(snapshot)'
  BY DEF TruthInv, IsTrue
<1>2. ASSUME NEW d \in Calls, d # c PROVE CallIsTrue(d)'
  <2>1. call'[d] = call[d] /\ CallIsTrue(d)
    BY <1>2 DEF CallStep, TruthInv
  <2> QED BY <2>1 DEF CallIsTrue, IsTrue, At
<1> QED BY <1>1, <1>2 DEF TruthInv

\* A call that holds nothing it has read.
Unread(c) == call[c].at \notin {"read", "replay", "put", "recovered"}

LEMMA TruthGrows ==
    ASSUME StreamInv, TruthInv, NEW e, AppendEvent(e), intact', UNCHANGED snapshot,
           NEW c \in Calls, CallStep(c) \/ UNCHANGED call, Unread(c)'
    PROVE  TruthInv'
<1>0. Len(history) \in Nat
  BY DEF StreamInv, Shapes
<1>1. CASE UNCHANGED <<history, rows>>
  <2>1. CallIsTrue(c)'
    BY DEF Unread, CallIsTrue, At
  <2>2. CASE UNCHANGED call
    BY <1>1, <2>2 DEF TruthInv, CallIsTrue, IsTrue, At
  <2> QED BY <1>1, <2>1, <2>2, TruthKept
<1>2. CASE Grows(e)
  <2>1. IsTrue(snapshot)'
    <3>1. /\ snapshot.sequence \in 0..Len(history')
          /\ snapshot = TruthOf(history', snapshot.sequence)
      BY <1>0, <1>2, StateSurvives DEF TruthInv
    <3> QED BY <3>1 DEF IsTrue
  <2>2. ASSUME NEW d \in Calls PROVE CallIsTrue(d)'
    <3>1. CASE d = c
      BY <3>1 DEF Unread, CallIsTrue, At
    <3>2. CASE d # c
      <4>1. call'[d] = call[d] /\ CallIsTrue(d)
        BY <3>2 DEF CallStep, TruthInv
      <4>2. ASSUME call[d].at \in {"read", "replay"}
            PROVE  /\ IsTrue(call[d].base)'
                   /\ (call[d].base.sequence + 1)..Len(history') \subseteq DOMAIN rows'
        <5>1. /\ IsTrue(call[d].base)
              /\ (call[d].base.sequence + 1)..Len(history) \subseteq DOMAIN rows
          BY <4>1, <4>2 DEF CallIsTrue
        <5> DEFINE base == call[d].base
        <5>2. base.sequence \in 0..Len(history') /\ base = TruthOf(history', base.sequence)
          <6> HIDE DEF base
          <6> QED BY <1>0, <1>2, <5>1, StateSurvives DEF base
        <5>3. (base.sequence + 1)..Len(history') \subseteq DOMAIN rows'
          BY <1>0, <1>2, <5>1 DEF Grows, IsTrue
        <5> QED BY <4>1, <5>2, <5>3 DEF IsTrue
      <4>3. ASSUME At(d, "put") PROVE IsTrue(call[d].state)'
        <5>1. IsTrue(call[d].state)
          BY <4>1, <4>3 DEF CallIsTrue
        <5> DEFINE state == call[d].state
        <5>2. state.sequence \in 0..Len(history') /\ state = TruthOf(history', state.sequence)
          <6> HIDE DEF state
          <6> QED BY <1>0, <1>2, <5>1, StateSurvives DEF state
        <5> QED BY <4>1, <5>2 DEF IsTrue
      <4>4. ASSUME At(d, "recovered")
            PROVE  /\ call[d].seen \in 0..Len(history')
                   /\ call[d].state = TruthOf(history', call[d].seen)
        <5>1. /\ call[d].seen \in 0..Len(history)
              /\ call[d].state = TruthOf(history, call[d].seen)
          BY <4>1, <4>4 DEF CallIsTrue
        <5>2. TruthOf(history', call[d].seen) = TruthOf(history, call[d].seen)
          BY <1>0, <1>2, <5>1, TruthSurvives
        <5> QED BY <1>0, <1>2, <5>1, <5>2 DEF Grows
      <4> QED BY <4>1, <4>2, <4>3, <4>4 DEF CallIsTrue, At
    <3> QED BY <3>1, <3>2
  <2> QED BY <2>1, <2>2 DEF TruthInv
<1> QED BY <1>1, <1>2, AppendGrows

----------------------------------------------------------------------------
LEMMA PublishTruth ==
    ASSUME StreamInv, intact', TruthInv, NEW c \in Calls, NEW e \in Published,
           Record(c, e) \/ Commit(c, e)
    PROVE  TruthInv'
<1>1. AppendEvent(e) /\ UNCHANGED snapshot
  BY DEF Record, Commit
<1>2. At(c, "free") /\ Shapes
  BY DEF Record, Commit, StreamInv
<1>3. CASE UNCHANGED call
  BY <1>1, <1>2, <1>3, TruthGrows DEF Unread, At
<1>4. ASSUME NEW where \in {"get", "lock"}, call' = Began(c, where, "record") PROVE TruthInv'
  <2>1. CallStep(c)
    BY <1>2, <1>4, BeganCall
  <2>2. Unread(c)'
    BY <1>2, <1>4 DEF Began, Unread, Shapes, Idle
  <2> QED BY <1>1, <2>1, <2>2, TruthGrows
<1> QED BY <1>3, <1>4 DEF Record, Commit

LEMMA InterruptTruth ==
    ASSUME StreamInv, intact', TruthInv, NEW c \in Calls, NEW t \in Tools, Interrupt(c, t)
    PROVE  TruthInv'
<1>1. AppendEvent(Interruption(t)) /\ UNCHANGED snapshot
  BY DEF Interrupt
<1>2. CallStep(c) /\ Unread(c)'
  BY DEF Interrupt, StreamInv, Shapes, Idle, CallStep, At, Unread
<1> QED BY <1>1, <1>2, TruthGrows

LEMMA QuietTruth ==
    ASSUME StreamInv, intact, TruthInv, NEW c \in Calls,
           \/ TakeLock(c) \/ Reconciled(c) \/ Return(c)
           \/ \E task \in {"recover", "reconcile"} : Recover(c, task)
    PROVE  TruthInv'
<1>1. UNCHANGED <<history, rows, snapshot>>
  BY DEF TakeLock, Reconciled, Return, Recover
<1>2. CallStep(c) /\ Unread(c)'
  <2> USE DEF StreamInv, Shapes, CallStep, Idle, Unread
  <2>1. CASE TakeLock(c)
    BY <2>1 DEF TakeLock
  <2>2. CASE Reconciled(c)
    BY <2>2 DEF Reconciled
  <2>3. CASE Return(c)
    BY <2>3 DEF Return
  <2>4. ASSUME NEW task \in {"recover", "reconcile"}, Recover(c, task)
        PROVE  CallStep(c) /\ Unread(c)'
    BY <2>4 DEF Recover, Began
  <2> QED BY <2>1, <2>2, <2>3, <2>4
<1>3. CallIsTrue(c)'
  BY <1>2 DEF Unread, CallIsTrue, At
<1> QED BY <1>1, <1>2, <1>3, TruthKept

\* The snapshot stands for everything that has no row.
LEMMA GetTruth ==
    ASSUME StreamInv, intact, TruthInv, NEW c \in Calls, GetSnapshot(c)
    PROVE  TruthInv'
<1>1. UNCHANGED <<history, rows, snapshot>>
  BY DEF GetSnapshot
<1>2. CallStep(c) /\ call'[c].base = snapshot /\ call'[c].at \in {"read", "replay"}
  BY DEF GetSnapshot, StreamInv, Shapes, CallStep, Idle
<1>3. IsTrue(snapshot)
  BY DEF TruthInv
<1>4. (snapshot.sequence + 1)..Len(history) \subseteq DOMAIN rows
  <2>1. PICK k \in 0..Len(history) : /\ k <= snapshot.sequence
                                     /\ rows = [n \in (k + 1)..Len(history) |-> n]
    BY DEF StreamInv, RowsAreTheRest
  <2>2. Len(history) \in Nat /\ snapshot.sequence \in Nat
    BY DEF StreamInv, Shapes, SequencesAreNumbers
  <2> QED BY <2>1, <2>2
<1>5. CallIsTrue(c)'
  BY <1>1, <1>2, <1>3, <1>4 DEF CallIsTrue, IsTrue, At
<1> QED BY <1>1, <1>2, <1>5, TruthKept

LEMMA ReadTruth ==
    ASSUME StreamInv, intact, TruthInv, NEW c \in Calls, ReadEvents(c) \/ Replay(c)
    PROVE  TruthInv'
<1> DEFINE state == Project(call[c].base, Unprojected(call[c].base))
<1>1. UNCHANGED <<history, rows, snapshot>>
  BY DEF ReadEvents, Replay
<1>2. call[c].at \in {"read", "replay"} /\ CallIsTrue(c)
  BY DEF ReadEvents, Replay, At, TruthInv
<1>3. Len(history) \in Nat /\ state = TruthOf(history, Len(history))
  BY <1>2, ReadIsTrue
<1>4. state.sequence = Len(history)
  BY <1>3, TruthSequence
<1>5. CASE ReadEvents(c)
  <2>1. CallStep(c) /\ call'[c].state = state /\ call'[c].at = "put"
    BY <1>5 DEF ReadEvents, StreamInv, Shapes, CallStep, Idle
  <2> HIDE DEF state
  <2>2. CallIsTrue(c)'
    BY <1>1, <1>3, <1>4, <2>1 DEF CallIsTrue, IsTrue, At
  <2> QED BY <1>1, <2>1, <2>2, TruthKept
<1>6. CASE Replay(c)
  <2>1. /\ CallStep(c)
        /\ call'[c].state = state
        /\ call'[c].seen = Len(history)
        /\ call'[c].at \in {"interrupt", "recovered"}
    BY <1>6 DEF Replay, StreamInv, Shapes, CallStep, Idle
  <2> HIDE DEF state
  <2>2. CallIsTrue(c)'
    BY <1>1, <1>3, <1>4, <2>1 DEF CallIsTrue, IsTrue, At
  <2> QED BY <1>1, <2>1, <2>2, TruthKept
<1> QED BY <1>5, <1>6

LEMMA PutTruth ==
    ASSUME StreamInv, intact, TruthInv, NEW c \in Calls, PutSnapshot(c)
    PROVE  TruthInv'
<1>1. UNCHANGED <<history, rows>> /\ At(c, "put")
  BY DEF PutSnapshot
<1>2. IsTrue(call[c].state) /\ IsTrue(snapshot)
  BY <1>1 DEF TruthInv, CallIsTrue
<1>3. snapshot' \in {call[c].state, snapshot}
  BY DEF PutSnapshot
<1>4. IsTrue(snapshot)'
  BY <1>1, <1>2, <1>3 DEF IsTrue
<1>5. CallStep(c) /\ call'[c].at \in {"interrupt", "free"}
  BY DEF PutSnapshot, Returned, StreamInv, Shapes, CallStep, Idle
<1>6. ASSUME NEW d \in Calls PROVE CallIsTrue(d)'
  <2>1. CASE d = c
    BY <1>5, <2>1 DEF CallIsTrue, At
  <2>2. CASE d # c
    <3>1. call'[d] = call[d] /\ CallIsTrue(d)
      BY <1>5, <2>2 DEF CallStep, TruthInv
    <3> QED BY <1>1, <3>1 DEF CallIsTrue, IsTrue, At
  <2> QED BY <2>1, <2>2
<1> QED BY <1>4, <1>6 DEF TruthInv

LEMMA CrashTruth ==
    ASSUME StreamInv, intact, TruthInv, NEW h \in Hosts, Crash(h)
    PROVE  TruthInv'
<1>1. UNCHANGED <<history, rows, snapshot>>
  BY DEF Crash
<1>2. IsTrue(snapshot)'
  BY <1>1 DEF TruthInv, IsTrue
<1>3. ASSUME NEW d \in Calls PROVE CallIsTrue(d)'
  <2>1. CASE call'[d] = Idle
    BY <2>1 DEF Idle, CallIsTrue, At
  <2>2. CASE call'[d] = call[d]
    <3>1. CallIsTrue(d)
      BY DEF TruthInv
    <3> QED BY <1>1, <2>2, <3>1 DEF CallIsTrue, IsTrue, At
  <2> QED BY <2>1, <2>2 DEF Crash
<1> QED BY <1>2, <1>3 DEF TruthInv

\* While the stream stays intact, a retention pass takes no row from under a
\* projection.
LEMMA PruneTruth ==
    ASSUME StreamInv, intact', TruthInv, NEW age \in 1..Len(history), Prune(age)
    PROVE  TruthInv'
<1>1. UNCHANGED <<history, snapshot, call>>
  BY DEF Prune
<1>2. IsTrue(snapshot)'
  BY <1>1 DEF TruthInv, IsTrue
<1>3. ASSUME NEW d \in Calls PROVE CallIsTrue(d)'
  <2>1. CallIsTrue(d)
    BY DEF TruthInv
  <2>2. ASSUME call[d].at \in {"read", "replay"}
        PROVE  (call[d].base.sequence + 1)..Len(history) \subseteq DOMAIN rows'
    <3>1. /\ IsTrue(call[d].base)
          /\ (call[d].base.sequence + 1)..Len(history) \subseteq DOMAIN rows
      BY <2>1, <2>2 DEF CallIsTrue
    <3>2. call[d].base.sequence \in Nat /\ Len(history) \in Nat
      BY <3>1 DEF IsTrue, StreamInv, Shapes
    <3>3. Unprojected(call[d].base) \cap Expendable(age) = {}
      BY <2>2 DEF Prune
    <3>4. DOMAIN rows' = DOMAIN rows \ Expendable(age)
      BY DEF Prune, Restrict
    <3>5. (call[d].base.sequence + 1)..Len(history) \subseteq Unprojected(call[d].base)
      BY <3>1, <3>2 DEF Unprojected
    <3> QED BY <3>1, <3>3, <3>4, <3>5
  <2> QED BY <1>1, <2>1, <2>2 DEF CallIsTrue, IsTrue, At
<1> QED BY <1>2, <1>3 DEF TruthInv

LEMMA NextTruth ==
    ASSUME StreamInv, intact, intact', TruthInv, Next
    PROVE  TruthInv'
<1>1. CASE \E c \in Calls \ Recoverers, e \in Published : Record(c, e) \/ Commit(c, e)
  BY <1>1, PublishTruth
<1>2. CASE \E c \in Recoverers, task \in {"recover", "reconcile"} : Recover(c, task)
  BY <1>2, QuietTruth, RuntimeAssumption
<1>3. CASE \E c \in Calls : Continue(c)
  BY <1>3, QuietTruth, GetTruth, ReadTruth, PutTruth, InterruptTruth DEF Continue
<1>4. CASE \E h \in Hosts : Crash(h)
  BY <1>4, CrashTruth
<1>5. CASE \E age \in 1..Len(history) : Prune(age)
  BY <1>5, PruneTruth
<1> QED BY <1>1, <1>2, <1>3, <1>4, <1>5 DEF Next

----------------------------------------------------------------------------
(* What a reconciliation closes. *)

\* An active tool has started, and was not interrupted since.
LEMMA ActiveToolStarted ==
    ASSUME NEW h, NEW n \in Nat, \A i \in 1..n : h[i] \in Event,
           NEW t \in TruthOf(h, n).activeTools
    PROVE  \E i \in 1..n : /\ h[i] = Started(t)
                           /\ \A j \in (i + 1)..n : h[j] # Interruption(t)
<1> DEFINE Open(m) == \E i \in 1..m : /\ h[i] = Started(t)
                                      /\ \A j \in (i + 1)..m : h[j] # Interruption(t)
           S == {m \in 0..n : t \in TruthOf(h, m).activeTools /\ ~Open(m)}
<1>1. SUFFICES ASSUME S # {} PROVE FALSE
  OBVIOUS
<1>2. PICK m \in S : \A k \in S : m <= k
  <2> S \subseteq Nat
    OBVIOUS
  <2> HIDE DEF S
  <2> QED BY <1>1, Least
<1>3. m \in 0..n /\ t \in TruthOf(h, m).activeTools /\ ~Open(m)
  BY <1>2
<1>4. m # 0
  BY <1>3, TruthAtZero DEF Blank
<1>5. m \in Nat \ {0} /\ m - 1 \in 0..n /\ m \in 1..n /\ h[m] \in Event
  BY <1>3, <1>4
<1>6. TruthOf(h, m).activeTools = ToolsAfter(TruthOf(h, m - 1).activeTools, h[m])
  BY <1>5, TruthStep
<1>7. t \in ToolsAfter(TruthOf(h, m - 1).activeTools, h[m])
  BY <1>3, <1>6
<1>8. CASE h[m] = Started(t)
  <2>1. \A j \in (m + 1)..m : h[j] # Interruption(t)
    BY <1>5
  <2> QED BY <1>3, <1>5, <1>8, <2>1
<1>9. CASE h[m] # Started(t)
  <2> HIDE DEF S
  <2>1. h[m].type = "tool.started" => h[m].tool # t
    <3>1. PICK ty, to : h[m] = [type |-> ty, tool |-> to]
      BY <1>5 DEF Event
    <3> QED BY <1>9, <3>1 DEF Started
  <2>2. t \in TruthOf(h, m - 1).activeTools
    BY <1>7, <2>1 DEF ToolsAfter
  <2>3. h[m] # Interruption(t)
    BY <1>7, <2>1 DEF ToolsAfter, Interruption
  <2>4. Open(m - 1)
    <3>1. m - 1 \notin S
      BY <1>2, <1>5
    <3> QED BY <1>5, <2>2, <3>1 DEF S
  <2>5. PICK i \in 1..(m - 1) : /\ h[i] = Started(t)
                                /\ \A j \in (i + 1)..(m - 1) : h[j] # Interruption(t)
    BY <2>4
  <2>6. \A j \in (i + 1)..m : h[j] # Interruption(t)
    BY <1>5, <2>3, <2>5
  <2> QED BY <1>3, <1>5, <2>5, <2>6
<1> QED BY <1>8, <1>9

\* As a tool starts once, one that was interrupted is no longer active.
LEMMA InterruptedIsInactive ==
    ASSUME Shapes, ToolsAreOrdered, NEW t, Interruption(t) \in Range(history)
    PROVE  t \notin TruthOf(history, Len(history)).activeTools
<1>0. history \in Seq(Event) /\ Len(history) \in Nat /\ DOMAIN history = 1..Len(history)
  BY DEF Shapes
<1>1. PICK p \in 1..Len(history) : history[p] = Interruption(t)
  BY <1>0 DEF Range
<1>2. PICK q \in 1..(p - 1) : history[q] = Started(t)
  BY <1>0, <1>1 DEF ToolsAreOrdered, Interruption
<1>3. SUFFICES ASSUME t \in TruthOf(history, Len(history)).activeTools PROVE FALSE
  OBVIOUS
<1>4. PICK i \in 1..Len(history) :
          /\ history[i] = Started(t)
          /\ \A j \in (i + 1)..Len(history) : history[j] # Interruption(t)
  BY <1>0, <1>3, ActiveToolStarted
<1>5. q \in 1..Len(history)
  BY <1>0, <1>1, <1>2
<1>6. i = q
  BY <1>0, <1>2, <1>4, <1>5 DEF ToolsAreOrdered, Started
<1> QED BY <1>0, <1>1, <1>2, <1>4, <1>6

LEMMA ActiveIsInHistory ==
    ASSUME Shapes, NEW t \in TruthOf(history, Len(history)).activeTools
    PROVE  Started(t) \in Range(history)
<1>1. history \in Seq(Event) /\ Len(history) \in Nat /\ DOMAIN history = 1..Len(history)
  BY DEF Shapes
<1>2. PICK i \in 1..Len(history) : history[i] = Started(t)
  BY <1>1, ActiveToolStarted
<1> QED BY <1>1, <1>2 DEF Range

----------------------------------------------------------------------------
LEMMA InitTools == Init => ToolInv
BY DEF Init, ToolInv, ToolsAreOrdered, CallSettles, Idle, At

\* What one call has settled depends on the history and its own locals only.
LEMMA SettlesStill ==
    ASSUME NEW d \in Calls, CallSettles(d), call'[d] = call[d],
           Range(history) \subseteq Range(history')
    PROVE  CallSettles(d)'
BY DEF CallSettles, At

LEMMA SettlesIdle ==
    ASSUME NEW d \in Calls, call'[d].owed = {}, call'[d].found = {}
    PROVE  CallSettles(d)'
BY DEF CallSettles, At

LEMMA ToolsKept ==
    ASSUME ToolInv, UNCHANGED history, NEW c \in Calls, CallStep(c), CallSettles(c)'
    PROVE  ToolInv'
<1>1. ASSUME NEW d \in Calls, d # c PROVE CallSettles(d)'
  BY <1>1, SettlesStill DEF CallStep, ToolInv
<1> QED BY <1>1 DEF ToolInv, ToolsAreOrdered

\* The history grows by an event that keeps the order of the tools.
LEMMA HistoryGrows ==
    ASSUME Shapes, NEW e, Grows(e), history' \in Seq(Event)
    PROVE  /\ DOMAIN history = 1..Len(history) /\ Len(history) \in Nat
           /\ DOMAIN history' = 1..(Len(history) + 1)
           /\ \A f : f \in Range(history') <=> f \in Range(history) \/ f = e
<1>1. /\ DOMAIN history = 1..Len(history) /\ Len(history) \in Nat
      /\ DOMAIN history' = 1..(Len(history) + 1)
  BY DEF Shapes, Grows
<1>2. \A i \in 1..Len(history) : history'[i] = history[i]
  BY DEF Grows
<1>3. history'[Len(history) + 1] = e
  BY DEF Grows
<1> HIDE DEF Grows
<1>4. ASSUME NEW f, f \in Range(history') PROVE f \in Range(history) \/ f = e
  BY <1>1, <1>2, <1>3, <1>4 DEF Range
<1>5. ASSUME NEW f, f \in Range(history) \/ f = e PROVE f \in Range(history')
  BY <1>1, <1>2, <1>3, <1>5 DEF Range
<1> QED BY <1>1, <1>4, <1>5

LEMMA OrderGrows ==
    ASSUME Shapes, ToolsAreOrdered, NEW e, Grows(e), history' \in Seq(Event),
           e.type = "tool.started" => e \notin Range(history),
           e.type = "tool.interrupted" => Started(e.tool) \in Range(history)
    PROVE  ToolsAreOrdered'
<1>1. /\ DOMAIN history = 1..Len(history) /\ Len(history) \in Nat
      /\ DOMAIN history' = 1..(Len(history) + 1)
  BY HistoryGrows
<1>2. /\ \A i \in 1..Len(history) : history'[i] = history[i]
      /\ history'[Len(history) + 1] = e
  BY DEF Grows
<1>3. ASSUME NEW i \in DOMAIN history', NEW j \in DOMAIN history',
             history'[i] = history'[j], history'[i].type = "tool.started"
      PROVE  i = j
  <2>1. e.type = "tool.started" => \A n \in 1..Len(history) : history[n] # e
    BY <1>1 DEF Range
  <2> QED BY <1>1, <1>2, <1>3, <2>1 DEF ToolsAreOrdered
<1>4. ASSUME NEW i \in DOMAIN history', history'[i].type = "tool.interrupted"
      PROVE  \E j \in 1..(i - 1) : history'[j] = Started(history'[i].tool)
  <2>1. CASE i \in 1..Len(history)
    <3>1. PICK j \in 1..(i - 1) : history[j] = Started(history[i].tool)
      BY <1>1, <1>2, <1>4, <2>1 DEF ToolsAreOrdered
    <3> QED BY <1>1, <1>2, <2>1, <3>1
  <2>2. CASE i = Len(history) + 1
    <3>1. PICK j \in 1..Len(history) : history[j] = Started(e.tool)
      BY <1>1, <1>2, <1>4, <2>2 DEF Range
    <3> QED BY <1>1, <1>2, <2>2, <3>1
  <2> QED BY <1>1, <2>1, <2>2
<1> QED BY <1>3, <1>4 DEF ToolsAreOrdered

----------------------------------------------------------------------------
LEMMA RowIsInHistory ==
    ASSUME Shapes, RowsAreTheRest, NEW e, RowsOf(e) # {}
    PROVE  e \in Range(history)
<1>1. PICK k \in 0..Len(history) : rows = [n \in (k + 1)..Len(history) |-> n]
  BY DEF RowsAreTheRest
<1>2. PICK n \in DOMAIN rows : history[rows[n]] = e
  BY DEF RowsOf
<1>3. Len(history) \in Nat /\ DOMAIN history = 1..Len(history)
  BY DEF Shapes
<1>4. rows[n] \in DOMAIN history
  BY <1>1, <1>2, <1>3
<1> QED BY <1>2, <1>4 DEF Range

LEMMA PublishTools ==
    ASSUME StreamInv, StreamInv', intact', ToolInv, NEW c \in Calls, NEW e \in Published,
           Record(c, e) \/ Commit(c, e)
    PROVE  ToolInv'
<1>1. AppendEvent(e) /\ Deliverable(e) /\ Shapes /\ history' \in Seq(Event)
  BY DEF Record, Commit, StreamInv, Shapes
<1>2. UNCHANGED call \/ \E where \in {"get", "lock"} : call' = Began(c, where, "record")
  BY DEF Record, Commit
<1>3. \A d \in Calls : call'[d] = call[d] \/ (call'[d].owed = {} /\ call'[d].found = {})
  <2>1. ASSUME NEW where, call' = Began(c, where, "record"), NEW d \in Calls
        PROVE  call'[d] = call[d] \/ (call'[d].owed = {} /\ call'[d].found = {})
    BY <1>1, <2>1 DEF Began, Shapes, Idle
  <2> QED BY <1>2, <2>1
<1>4. ToolsAreOrdered' /\ Range(history) \subseteq Range(history')
  <2>1. CASE UNCHANGED history
    BY <2>1 DEF ToolInv, ToolsAreOrdered
  <2>2. CASE Grows(e)
    <3>1. e.type = "tool.started" => e \notin Range(history)
      BY <1>1, <2>2 DEF Grows, Deliverable, Terminal
    <3>2. e.type # "tool.interrupted"
      BY RuntimeAssumption
    <3>3. ToolsAreOrdered'
      BY <1>1, <2>2, <3>1, <3>2, OrderGrows DEF ToolInv
    <3> QED BY <1>1, <2>2, <3>3, HistoryGrows
  <2> QED BY <1>1, <2>1, <2>2, AppendGrows
<1>5. ASSUME NEW d \in Calls PROVE CallSettles(d)'
  BY <1>3, <1>4, SettlesStill, SettlesIdle DEF ToolInv
<1> QED BY <1>4, <1>5 DEF ToolInv

\* The interruption of a tool that was found comes after its start, or is there.
LEMMA InterruptTools ==
    ASSUME StreamInv, StreamInv', intact', ToolInv, NEW c \in Calls, NEW t \in Tools,
           Interrupt(c, t)
    PROVE  ToolInv'
<1> DEFINE e == Interruption(t)
<1>1. AppendEvent(e) /\ Shapes /\ history' \in Seq(Event) /\ t \in call[c].owed
  BY DEF Interrupt, StreamInv, Shapes
<1>2. /\ CallStep(c)
      /\ call'[c].owed = call[c].owed \ {t}
      /\ call'[c].found = call[c].found
      /\ call'[c].task = call[c].task
      /\ call'[c].at \in {"interrupt", "get"}
  BY DEF Interrupt, At, StreamInv, Shapes, CallStep, Idle
<1>3. CallSettles(c) /\ Started(t) \in Range(history)
  BY <1>1 DEF ToolInv, CallSettles
<1>4. /\ ToolsAreOrdered'
      /\ Range(history) \subseteq Range(history')
      /\ e \in Range(history')
  <2>1. CASE UNCHANGED history /\ RowsOf(e) # {}
    <3>1. intact
      BY <1>1, AppendGrows
    <3>2. e \in Range(history)
      BY <1>1, <2>1, <3>1, RowIsInHistory DEF StreamInv
    <3> QED BY <2>1, <3>2 DEF ToolInv, ToolsAreOrdered
  <2>2. CASE Grows(e)
    <3>1. e.type = "tool.interrupted" /\ e.tool = t
      BY DEF Interruption
    <3> HIDE DEF e
    <3>2. ToolsAreOrdered'
      BY <1>1, <1>3, <2>2, <3>1, OrderGrows DEF ToolInv
    <3> QED BY <1>1, <2>2, <3>2, HistoryGrows
  <2> QED BY <1>1, <2>1, <2>2, AppendGrows
<1>5. CallSettles(c)'
  BY <1>2, <1>3, <1>4 DEF CallSettles, At
<1>6. ASSUME NEW d \in Calls, d # c PROVE CallSettles(d)'
  BY <1>2, <1>4, <1>6, SettlesStill DEF CallStep, ToolInv
<1> QED BY <1>4, <1>5, <1>6 DEF ToolInv

LEMMA QuietTools ==
    ASSUME StreamInv, intact, ToolInv, NEW c \in Calls,
           \/ TakeLock(c) \/ GetSnapshot(c) \/ ReadEvents(c) \/ PutSnapshot(c)
           \/ Reconciled(c) \/ Return(c)
           \/ \E task \in {"recover", "reconcile"} : Recover(c, task)
    PROVE  ToolInv'
<1>1. UNCHANGED history
  BY DEF TakeLock, GetSnapshot, ReadEvents, PutSnapshot, Reconciled, Return, Recover
<1>2. /\ CallStep(c)
      /\ \/ call'[c].owed = {} /\ call'[c].found = {}
         \/ /\ call'[c].owed = call[c].owed /\ call'[c].found = call[c].found
            /\ call'[c].owed # {} => call'[c].task = call[c].task
            /\ call'[c].at # "recovered"
  <2> USE DEF StreamInv, Shapes, CallStep, Idle, At
  <2>1. CASE TakeLock(c)
    BY <2>1 DEF TakeLock
  <2>2. CASE GetSnapshot(c)
    BY <2>2 DEF GetSnapshot
  <2>3. CASE ReadEvents(c)
    BY <2>3 DEF ReadEvents
  <2>4. CASE PutSnapshot(c)
    BY <2>4 DEF PutSnapshot, Returned
  <2>5. CASE Reconciled(c)
    BY <2>5 DEF Reconciled
  <2>6. CASE Return(c)
    BY <2>6 DEF Return
  <2>7. ASSUME NEW task \in {"recover", "reconcile"}, Recover(c, task)
        PROVE  CallStep(c) /\ call'[c].owed = {} /\ call'[c].found = {}
    BY <2>7 DEF Recover, Began
  <2> QED BY <2>1, <2>2, <2>3, <2>4, <2>5, <2>6, <2>7
<1>3. CallSettles(c)'
  <2>1. CallSettles(c)
    BY DEF ToolInv
  <2> QED BY <1>1, <1>2, <2>1 DEF CallSettles, At
<1> QED BY <1>1, <1>2, <1>3, ToolsKept

\* A reconciliation finds tools that have started; what it answers with has none
\* of those it found.
LEMMA ReplayTools ==
    ASSUME StreamInv, intact, TruthInv, ToolInv, NEW c \in Calls, Replay(c)
    PROVE  ToolInv'
<1> DEFINE state == Project(call[c].base, Unprojected(call[c].base))
<1>1. UNCHANGED history /\ Shapes
  BY DEF Replay, StreamInv
<1>2. state = TruthOf(history, Len(history))
  <2>1. CallIsTrue(c) /\ call[c].at = "replay"
    BY DEF Replay, At, TruthInv
  <2> QED BY <2>1, ReadIsTrue
<1>3. CallStep(c) /\ call'[c].state = state /\ call'[c].task = call[c].task
  BY DEF Replay, StreamInv, Shapes, CallStep, Idle
<1>4. CallSettles(c)
  BY DEF ToolInv
<1>5. CASE call[c].task = "reconcile"
  <2>1. /\ call'[c].owed = state.activeTools /\ call'[c].found = state.activeTools
        /\ call'[c].at = "interrupt"
    BY <1>5 DEF Replay, StreamInv, Shapes, Idle
  <2>2. \A t \in state.activeTools : Started(t) \in Range(history)
    BY <1>1, <1>2, ActiveIsInHistory
  <2> HIDE DEF state
  <2>3. CallSettles(c)'
    BY <1>1, <1>3, <1>5, <2>1, <2>2 DEF CallSettles, At
  <2> QED BY <1>1, <1>3, <2>3, ToolsKept
<1>6. CASE call[c].task # "reconcile"
  <2>1. /\ call'[c].owed = call[c].owed /\ call'[c].found = call[c].found
    BY <1>6 DEF Replay, StreamInv, Shapes, Idle
  <2>2. \A t \in call[c].found : Interruption(t) \in Range(history)
    BY <1>4, <1>6 DEF CallSettles
  <2>3. call[c].found \cap state.activeTools = {}
    BY <1>1, <1>2, <2>2, InterruptedIsInactive DEF ToolInv
  <2> HIDE DEF state
  <2>4. CallSettles(c)'
    BY <1>1, <1>3, <1>4, <2>1, <2>3 DEF CallSettles, At
  <2> QED BY <1>1, <1>3, <2>4, ToolsKept
<1> QED BY <1>5, <1>6

LEMMA CrashTools ==
    ASSUME ToolInv, NEW h \in Hosts, Crash(h)
    PROVE  ToolInv'
<1>1. UNCHANGED history
  BY DEF Crash
<1>2. \A d \in Calls : call'[d] = call[d] \/ (call'[d].owed = {} /\ call'[d].found = {})
  <2>1. Idle.owed = {} /\ Idle.found = {}
    BY DEF Idle
  <2>2. \A d \in Calls : call'[d] = call[d] \/ call'[d] = Idle
    BY DEF Crash
  <2> QED BY <2>1, <2>2
<1>3. ASSUME NEW d \in Calls PROVE CallSettles(d)'
  BY <1>1, <1>2, SettlesStill, SettlesIdle DEF ToolInv
<1> QED BY <1>1, <1>3 DEF ToolInv, ToolsAreOrdered

LEMMA PruneTools ==
    ASSUME ToolInv, NEW age \in 1..Len(history), Prune(age)
    PROVE  ToolInv'
BY DEF Prune, ToolInv, ToolsAreOrdered, CallSettles, At

LEMMA NextTools ==
    ASSUME StreamInv, StreamInv', intact, intact', TruthInv, ToolInv, Next
    PROVE  ToolInv'
<1>1. CASE \E c \in Calls \ Recoverers, e \in Published : Record(c, e) \/ Commit(c, e)
  BY <1>1, PublishTools
<1>2. CASE \E c \in Recoverers, task \in {"recover", "reconcile"} : Recover(c, task)
  BY <1>2, QuietTools, RuntimeAssumption
<1>3. CASE \E c \in Calls : Continue(c)
  BY <1>3, QuietTools, ReplayTools, InterruptTools DEF Continue
<1>4. CASE \E h \in Hosts : Crash(h)
  BY <1>4, CrashTools
<1>5. CASE \E age \in 1..Len(history) : Prune(age)
  BY <1>5, PruneTools
<1> QED BY <1>1, <1>2, <1>3, <1>4, <1>5 DEF Next

\* A stream that is no longer intact does not become so again.
LEMMA IntactNeverReturns ==
    ASSUME Next, intact'
    PROVE  intact
<1>1. ASSUME NEW e, AppendEvent(e) PROVE intact
  BY <1>1 DEF AppendEvent
<1> QED BY <1>1 DEF Next, Continue, Record, Commit, TakeLock, GetSnapshot, ReadEvents, PutSnapshot,
                    Recover, Replay, Interrupt, Reconciled, Return, Crash, Prune

\* What the snapshot, the projections under way and the reconciliations hold is
\* true, for as long as the stream is intact.
THEOREM EventsInvariant == Spec => []EventsInv
<1>1. Init => EventsInv
  BY InitStream, InitTruth, InitTools DEF EventsInv
<1>2. ASSUME EventsInv, Next PROVE EventsInv'
  <2>1. StreamInv'
    BY <1>2, NextStep DEF EventsInv
  <2>2. ASSUME intact' PROVE TruthInv' /\ ToolInv'
    BY <1>2, <2>1, <2>2, IntactNeverReturns, NextTruth, NextTools DEF EventsInv
  <2> QED BY <2>1, <2>2 DEF EventsInv
<1>3. ASSUME EventsInv, UNCHANGED vars PROVE EventsInv'
  BY <1>3, StutterStep
     DEF EventsInv, vars, TruthInv, ToolInv, IsTrue, CallIsTrue, CallSettles, ToolsAreOrdered, At
<1>4. EventsInv /\ [Next]_vars => EventsInv'
  BY <1>2, <1>3
<1> QED BY <1>1, <1>4, PTL DEF Spec

\* The snapshot is what its events amount to, each counted once, although any
\* process may have projected it on top of any earlier one.
THEOREM SnapshotsAreTrue == Spec => []SnapshotIsTrue
<1>1. EventsInv => SnapshotIsTrue
  BY TruthIsOfHistory DEF EventsInv, TruthInv, IsTrue, SnapshotIsTrue
<1> QED BY <1>1, EventsInvariant, PTL

\* A recovery works with the whole history at the time of its second read,
\* although snapshots and retention passes came between its two reads.
THEOREM RecoveriesAreCurrent == Spec => []RecoveryIsCurrent
<1>1. EventsInv => RecoveryIsCurrent
  BY TruthIsOfHistory DEF EventsInv, TruthInv, CallIsTrue, RecoveryIsCurrent
<1> QED BY <1>1, EventsInvariant, PTL

\* Every tool call a reconciliation found open is closed when it answers,
\* whoever recorded the interruption.
THEOREM FoundToolsAreClosed == Spec => []ReconciledToolsAreClosed
<1>1. EventsInv => ReconciledToolsAreClosed
  BY DEF EventsInv, ToolInv, CallSettles, ReconciledToolsAreClosed
<1> QED BY <1>1, EventsInvariant, PTL

----------------------------------------------------------------------------
\* A projection takes in every event the snapshot does not stand for.
LEMMA ProjectionCovers ==
    ASSUME StreamInv, intact, NEW c \in Calls, NEW n \in DOMAIN history,
           ~(n <= snapshot.sequence)
    PROVE  n <= Project(call[c].base, Unprojected(call[c].base)).sequence
<1> DEFINE base == call[c].base
           read == Unprojected(base)
<1>1. base.sequence \in Nat /\ snapshot.sequence \in Nat /\ Len(history) \in Nat
  BY DEF StreamInv, SequencesAreNumbers, Shapes
<1>2. PICK k \in 0..Len(history) : /\ k <= snapshot.sequence
                                   /\ rows = [i \in (k + 1)..Len(history) |-> i]
  BY DEF StreamInv, RowsAreTheRest
<1>3. n \in 1..Len(history) /\ n \in DOMAIN rows
  BY <1>1, <1>2 DEF StreamInv, Shapes
<1> DEFINE low == IF k < base.sequence THEN base.sequence ELSE k
<1>4. read = (low + 1)..Len(history)
  BY <1>1, <1>2 DEF Unprojected
<1>5. CASE read = {}
  <2>1. n <= base.sequence
    BY <1>1, <1>3, <1>5 DEF Unprojected
  <2> QED BY <1>5, <2>1, ProjectedSequence
<1>6. CASE read # {}
  <2>1. low \in Nat /\ low + 1 <= Len(history)
    BY <1>1, <1>2, <1>4, <1>6
  <2>2. Max(read) = Len(history)
    BY <1>1, <1>4, <2>1, MaxOfInterval
  <2> QED BY <1>3, <1>6, <2>2, ProjectedSequence
<1> QED BY <1>5, <1>6

\* Who covered an event covers it still, or the snapshot does.
LEMMA CoveredStill ==
    ASSUME Next, StreamInv, intact, crashes' = crashes, crashes \in Nat,
           NEW n \in DOMAIN history, Covered(n)
    PROVE  Covered(n)'
<1>1. /\ DOMAIN call = Calls /\ snapshot.sequence \in Nat
      /\ \A c \in Calls : At(c, "put") => call[c].state.sequence \in Nat
      /\ n \in Nat
  BY DEF StreamInv, SequencesAreNumbers, Shapes
<1>2. CASE \E c \in Calls \ Recoverers, e \in Published : Record(c, e) \/ Commit(c, e)
  BY <1>1, <1>2 DEF Record, Commit, Began, Idle, Covered, At
<1>3. CASE \E c \in Recoverers, task \in {"recover", "reconcile"} : Recover(c, task)
  BY <1>1, <1>3, RuntimeAssumption DEF Recover, Began, Idle, Covered, At
<1>4. ASSUME NEW c \in Calls, Continue(c) PROVE Covered(n)'
  <2>1. CASE TakeLock(c) \/ GetSnapshot(c) \/ Replay(c) \/ Reconciled(c) \/ Return(c)
    <3>1. \A d \in Calls : call[d].at \in {"lock", "get", "read"} =>
                              call'[d].at \in {"lock", "get", "read"}
      BY <1>1, <2>1 DEF TakeLock, GetSnapshot, Replay, Reconciled, Return, StreamInv, Shapes,
                        Idle, At
    <3>2. \A d \in Calls : At(d, "put") => call'[d] = call[d]
      BY <1>1, <2>1 DEF TakeLock, GetSnapshot, Replay, Reconciled, Return, At
    <3>3. UNCHANGED snapshot
      BY <2>1 DEF TakeLock, GetSnapshot, Replay, Reconciled, Return
    <3> QED BY <3>1, <3>2, <3>3 DEF Covered, At
  <2>2. CASE ReadEvents(c)
    <3>1. CASE n <= snapshot.sequence
      BY <2>2, <3>1 DEF ReadEvents, Covered
    <3>2. CASE ~(n <= snapshot.sequence)
      <4>1. call'[c].at = "put" /\ n <= call'[c].state.sequence
        BY <1>1, <2>2, <3>2, ProjectionCovers DEF ReadEvents, StreamInv, Shapes, Idle
      <4> QED BY <4>1 DEF Covered, At
    <3> QED BY <3>1, <3>2
  <2>3. CASE PutSnapshot(c)
    BY <1>1, <2>3 DEF PutSnapshot, Supersedes, Covered, At
  <2>4. ASSUME NEW t \in Tools, Interrupt(c, t) PROVE Covered(n)'
    BY <1>1, <2>4 DEF Interrupt, Covered, At
  <2> QED BY <1>4, <2>1, <2>2, <2>3, <2>4 DEF Continue
<1>5. CASE \E h \in Hosts : Crash(h)
  BY <1>5 DEF Crash
<1>6. CASE \E age \in 1..Len(history) : Prune(age)
  BY <1>6 DEF Prune, Covered, At
<1> QED BY <1>2, <1>3, <1>4, <1>5, <1>6 DEF Next

\* A new outcome makes the call that appended it take a snapshot.
LEMMA NewOutcome ==
    ASSUME Next, StreamInv, intact', NEW n \in DOMAIN history', n \notin DOMAIN history,
           history'[n].type \in Terminal
    PROVE  Covered(n)'
<1>1. DOMAIN call = Calls /\ history \in Seq(Event)
  BY DEF StreamInv, Shapes
<1>2. ASSUME NEW e \in Event, AppendEvent(e) PROVE e.type \in Terminal
  <2>1. history' = Append(history, e)
    BY <1>2 DEF AppendEvent
  <2>2. n = Len(history) + 1
    BY <1>1, <2>1
  <2> QED BY <1>1, <2>1, <2>2
<1>3. ASSUME NEW c \in Calls \ Recoverers, NEW e \in Published, Record(c, e)
      PROVE  Covered(n)'
  <2>1. e.type \in Terminal
    BY <1>2, <1>3, RuntimeAssumption DEF Record
  <2>2. call'[c].at = "get"
    BY <1>1, <1>3, <2>1 DEF Record, RequiresSnapshot, Began
  <2> QED BY <2>2 DEF Covered
<1>4. ASSUME NEW c \in Calls \ Recoverers, NEW e \in Published, Commit(c, e)
      PROVE  Covered(n)'
  BY <1>2, <1>4, RuntimeAssumption DEF Commit, Terminal
<1>5. ASSUME NEW c \in Calls, Continue(c) PROVE Covered(n)'
  <2>1. ASSUME NEW t \in Tools, Interrupt(c, t) PROVE FALSE
    BY <1>2, <2>1 DEF Interrupt, Interruption, Event, Terminal
  <2> QED BY <1>5, <2>1 DEF Continue, TakeLock, GetSnapshot, ReadEvents, PutSnapshot, Replay,
                             Reconciled, Return
<1> QED BY <1>3, <1>4, <1>5 DEF Next, Recover, Crash, Prune

LEMMA OutcomesStep ==
    ASSUME OutcomesAreCovered, StreamInv, Next
    PROVE  OutcomesAreCovered'
<1>1. crashes' = crashes \/ crashes' = crashes + 1
  BY DEF Next, Continue, Record, Commit, TakeLock, GetSnapshot, ReadEvents, PutSnapshot,
         Recover, Replay, Interrupt, Reconciled, Return, Crash, Prune
<1>2. ASSUME crashes' = 0, intact', NEW n \in DOMAIN history', history'[n].type \in Terminal
      PROVE  Covered(n)'
  <2>1. crashes = 0 /\ intact
    BY <1>1, <1>2, IntactNeverReturns DEF OutcomesAreCovered
  <2>2. CASE n \notin DOMAIN history
    BY <1>2, <2>2, NewOutcome
  <2>3. CASE n \in DOMAIN history
    <3>1. history'[n] = history[n]
      <4>1. ASSUME NEW e, AppendEvent(e) PROVE history'[n] = history[n]
        BY <2>3, <4>1 DEF AppendEvent, StreamInv, Shapes
      <4> QED BY <4>1
              DEF Next, Continue, Record, Commit, TakeLock, GetSnapshot, ReadEvents, PutSnapshot,
                  Recover, Replay, Interrupt, Reconciled, Return, Crash, Prune
    <3> QED BY <1>2, <2>1, <2>3, <3>1, CoveredStill DEF OutcomesAreCovered
  <2> QED BY <2>2, <2>3
<1> QED BY <1>1, <1>2 DEF OutcomesAreCovered

\* When no call is under way the snapshot stands for every outcome, although
\* older projections are put late and retention passes come at any time.
THEOREM OutcomesReachTheSnapshot == Spec => []OutcomesAreSnapshotted
<1>1. Init => OutcomesAreCovered
  BY DEF Init, OutcomesAreCovered
<1>2. ASSUME OutcomesAreCovered, UNCHANGED vars PROVE OutcomesAreCovered'
  BY <1>2 DEF OutcomesAreCovered, Covered, vars, At
<1>3. OutcomesAreCovered /\ StreamInv /\ [Next]_vars => OutcomesAreCovered'
  BY <1>2, OutcomesStep
<1>4. OutcomesAreCovered => OutcomesAreSnapshotted
  BY DEF OutcomesAreCovered, OutcomesAreSnapshotted, Covered, At
<1> QED BY <1>1, <1>3, <1>4, StreamInvariant, PTL DEF Spec
============================================================================
