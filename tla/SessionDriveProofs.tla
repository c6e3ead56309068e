-------------------------- MODULE SessionDriveProofs --------------------------
(* The drives of one session for any number of texts, turns and interrupts:   *)
(* a text waits in one place, its send is answered once, and the window of    *)
(* the inbox is open only where a steered text can still be taken.            *)
EXTENDS SessionDrive, SequenceTheorems, TLAPS

DriveState ==
    [at : {"idle", "ending"} \cup Awaits, main : Texts \cup {NoText}, turn : Nat,
     back : {"none", "finish", "stop", "tools", "over"}, left : Int, added : BOOLEAN,
     taken : Texts \cup {NoText}, failed : BOOLEAN, threw : BOOLEAN]

DriveTypes ==
    /\ promise \in [Texts -> {"calling", "unsent", "waiting", "queued", "held"} \cup Settled]
    /\ pending \in Seq(Texts) /\ inbox \in Seq(Texts) /\ notices \in Seq(Texts)
    /\ held \in Seq(Texts) /\ history \in Seq(Texts)
    /\ waiters \subseteq Texts /\ doomed \subseteq Texts /\ late \subseteq Texts
    /\ accepting \in BOOLEAN /\ cut \in BOOLEAN /\ stop \in BOOLEAN
    /\ closed \in BOOLEAN /\ interrupting \in BOOLEAN
    /\ drive \in DriveState
    /\ Driving => drive.main \in Texts
    /\ drive.at = "draining" => drive.taken \in Texts

\* A text is in at most one of the next drives, the running one and the
\* interrupt that will reject it, and its promise is open there.
WaitsOnce ==
    /\ \A t \in ToSet(pending) \cup waiters \cup doomed : promise[t] = "waiting"
    /\ \A i, j \in DOMAIN pending : pending[i] = pending[j] => i = j
    /\ ToSet(pending) \cap (waiters \cup doomed) = {}

\* The inbox holds texts of the running drive only, whose senders wait for it, and
\* none while an interrupt is under way.
InboxIsTheDrives ==
    /\ ToSet(inbox) \subseteq waiters
    /\ ~Driving \/ interrupting => inbox = <<>>

\* A notice of the running drive has no send yet.
NoticesAreQueued == \A n \in ToSet(notices) : promise[n] = "queued"

\* Inside interrupt the window is closed, and what is sent there waits behind it.
InterruptsAreBrief ==
    /\ ~interrupting => doomed = {} /\ late = {}
    /\ interrupting => ~accepting
    /\ closed \/ late \subseteq ToSet(pending)

\* The main text is in the history from the moment its drive gets past the hook.
Recorded == {"opening", "model", "tools", "draining", "stopping", "verifying"}

WindowFollowsHistory ==
    /\ drive.at \in Recorded => drive.main \in ToSet(history)
    /\ accepting => drive.at \notin {"preparing", "opening"}

DriveInv ==
    /\ DriveTypes
    /\ WaitsOnce
    /\ InboxIsTheDrives
    /\ NoticesAreQueued
    /\ InterruptsAreBrief
    /\ WindowFollowsHistory
    /\ WindowIsTimely

----------------------------------------------------------------------------
(* Sequences as sets. *)

LEMMA Appending ==
    ASSUME NEW s \in Seq(Texts), NEW x \in Texts
    PROVE  Append(s, x) \in Seq(Texts) /\ ToSet(Append(s, x)) = ToSet(s) \cup {x}
<1>1. /\ Append(s, x) \in Seq(Texts) /\ Len(s) \in Nat /\ DOMAIN s = 1..Len(s)
      /\ DOMAIN Append(s, x) = 1..(Len(s) + 1) /\ Append(s, x)[Len(s) + 1] = x
      /\ \A i \in 1..Len(s) : Append(s, x)[i] = s[i]
  BY AppendProperties, LenProperties
<1>2. 1..(Len(s) + 1) = 1..Len(s) \cup {Len(s) + 1}
  BY <1>1
<1> QED BY <1>1, <1>2 DEF ToSet

LEMMA Joining ==
    ASSUME NEW s \in Seq(Texts), NEW t \in Seq(Texts)
    PROVE  s \o t \in Seq(Texts) /\ ToSet(s) \subseteq ToSet(s \o t)
<1>1. /\ s \o t \in Seq(Texts) /\ Len(s) \in Nat /\ Len(t) \in Nat /\ DOMAIN s = 1..Len(s)
      /\ DOMAIN (s \o t) = 1..(Len(s) + Len(t)) /\ \A i \in 1..Len(s) : (s \o t)[i] = s[i]
  BY ConcatProperties, LenProperties
<1> QED BY <1>1 DEF ToSet

LEMMA Taking ==
    ASSUME NEW s \in Seq(Texts), s # <<>>
    PROVE  /\ Head(s) \in ToSet(s) /\ Tail(s) \in Seq(Texts)
           /\ ToSet(Tail(s)) \subseteq ToSet(s) /\ Head(s) \in Texts
           /\ (\A i, j \in DOMAIN s : s[i] = s[j] => i = j) =>
                 /\ Head(s) \notin ToSet(Tail(s))
                 /\ \A i, j \in DOMAIN Tail(s) : Tail(s)[i] = Tail(s)[j] => i = j
<1>1. /\ Tail(s) \in Seq(Texts) /\ Len(s) \in Nat /\ DOMAIN s = 1..Len(s) /\ Len(s) # 0
      /\ DOMAIN Tail(s) = 1..(Len(s) - 1) /\ \A i \in 1..(Len(s) - 1) : Tail(s)[i] = s[i + 1]
      /\ Head(s) = s[1] /\ Head(s) \in Texts
  BY HeadTailProperties, LenProperties, EmptySeq
<1>2. 1 \in DOMAIN s /\ \A i \in 1..(Len(s) - 1) : i + 1 \in DOMAIN s /\ i + 1 # 1
  BY <1>1
<1>3. Head(s) \in ToSet(s) /\ ToSet(Tail(s)) \subseteq ToSet(s)
  BY <1>1, <1>2 DEF ToSet
<1>4. ASSUME \A i, j \in DOMAIN s : s[i] = s[j] => i = j
      PROVE  /\ Head(s) \notin ToSet(Tail(s))
             /\ \A i, j \in DOMAIN Tail(s) : Tail(s)[i] = Tail(s)[j] => i = j
  <2>1. \A i \in 1..(Len(s) - 1) : Tail(s)[i] # s[1]
    BY <1>1, <1>2, <1>4
  <2>2. ASSUME NEW i \in 1..(Len(s) - 1), NEW j \in 1..(Len(s) - 1), Tail(s)[i] = Tail(s)[j]
        PROVE  i = j
    <3>1. s[i + 1] = s[j + 1]
      BY <1>1, <2>2
    <3>2. i + 1 = j + 1
      BY <1>2, <1>4, <3>1
    <3> QED BY <1>1, <3>2
  <2> QED BY <1>1, <2>1, <2>2 DEF ToSet
<1> QED BY <1>1, <1>3, <1>4

----------------------------------------------------------------------------
(* Where the loop goes. *)

\* A drive past its hook goes on with its main text, or ends.
Loops ==
    /\ drive' \in DriveState /\ drive'.main = drive.main
    /\ drive'.at \in (Recorded \ {"opening"}) \cup {"ending"}
    /\ accepting' \in BOOLEAN /\ (accepting' => accepting)
    /\ inbox' \in Seq(Texts) /\ ToSet(inbox') \subseteq ToSet(inbox)
    /\ drive'.at = "draining" => drive'.taken \in Texts

LEMMA GoLoops ==
    ASSUME DriveInv, NEW where \in Recorded \ {"opening", "draining"}, NEW failed \in BOOLEAN,
           Go(where, failed), UNCHANGED <<accepting, inbox>>
    PROVE  Loops
<1>1. drive \in DriveState /\ drive' = [drive EXCEPT !.at = where, !.failed = @ \/ failed]
  BY DEF Go, DriveInv, DriveTypes
<1>2. drive' \in DriveState /\ drive'.main = drive.main /\ drive'.at = where
  BY <1>1 DEF DriveState, Awaits, Recorded
<1> QED BY <1>2 DEF Loops, DriveInv, DriveTypes

LEMMA EndLoops ==
    ASSUME DriveInv, NEW failed \in BOOLEAN, End(failed), inbox' = inbox
    PROVE  Loops /\ drive'.at = "ending" /\ ~accepting'
<1>1. /\ drive \in DriveState /\ accepting' = FALSE
      /\ drive' = [drive EXCEPT !.at = "ending", !.failed = @ \/ failed, !.taken = NoText]
  BY DEF End, DriveInv, DriveTypes
<1>2. drive' \in DriveState /\ drive'.main = drive.main /\ drive'.at = "ending"
  BY <1>1 DEF DriveState
<1> QED BY <1>1, <1>2 DEF Loops, DriveInv, DriveTypes

LEMMA DrainLoops ==
    ASSUME DriveInv, NEW back \in {"finish", "stop", "tools", "over"}, Drain(back), inbox # <<>>,
           accepting' \in BOOLEAN, accepting' => accepting
    PROVE  Loops
<1>1. /\ drive \in DriveState /\ inbox \in Seq(Texts) /\ inbox' = Tail(inbox)
      /\ drive' = [drive EXCEPT !.at = "draining", !.back = back, !.taken = Head(inbox),
                                !.left = Len(inbox) - 1, !.added = FALSE]
  BY DEF Drain, DriveInv, DriveTypes
<1>2. Head(inbox) \in Texts /\ Len(inbox) - 1 \in Int /\ inbox' \in Seq(Texts)
  BY <1>1, Taking, LenProperties
<1>4. ToSet(inbox') \subseteq ToSet(inbox)
  BY <1>1, Taking
<1>3. drive' \in DriveState /\ drive'.main = drive.main /\ drive'.at = "draining"
      /\ drive'.taken \in Texts
  BY <1>1, <1>2 DEF DriveState, Awaits
<1> QED BY <1>2, <1>3, <1>4 DEF Loops, Recorded

LEMMA EndDrainingLoops ==
    ASSUME DriveInv, EndDraining
    PROVE  Loops
BY EndLoops, DrainLoops DEF EndDraining

LEMMA NextTurnLoops ==
    ASSUME DriveInv, NEW failed \in BOOLEAN, NextTurn(failed)
    PROVE  Loops
<1>1. CASE /\ drive' = [drive EXCEPT !.at = "model", !.turn = @ + 1, !.taken = NoText,
                                   !.failed = @ \/ failed]
           /\ UNCHANGED <<accepting, inbox>>
  <2>1. drive \in DriveState
    BY DEF DriveInv, DriveTypes
  <2>2. drive.turn \in Nat /\ drive.turn + 1 \in Nat
    BY <2>1 DEF DriveState
  <2>3. drive' = [drive EXCEPT !.at = "model", !.turn = drive.turn + 1, !.taken = NoText,
                               !.failed = @ \/ failed]
    BY <1>1
  <2>4. drive' \in DriveState /\ drive'.main = drive.main /\ drive'.at = "model"
    BY <2>1, <2>2, <2>3 DEF DriveState, Awaits
  <2> QED BY <1>1, <2>4 DEF Loops, DriveInv, DriveTypes, Recorded
<1> QED BY <1>1, EndLoops, EndDrainingLoops DEF NextTurn

LEMMA DrainReturnsLoops ==
    ASSUME DriveInv, NEW added \in BOOLEAN, NEW failed \in BOOLEAN,
           DrainReturns(added, failed)
    PROVE  Loops
BY GoLoops, EndLoops, NextTurnLoops DEF DrainReturns, Recorded

\* A step of the loop that moves no promise, and adds to the history at most.
LEMMA LoopKeeps ==
    ASSUME DriveInv, Loops, ~interrupting, UNCHANGED <<sendVars, held>>,
           UNCHANGED <<cut, closed, interrupting, doomed, late, interrupts>>,
           stop' \in BOOLEAN, notices' \in {notices, <<>>}, history' \in Seq(Texts),
           ToSet(history) \subseteq ToSet(history'),
           Driving, drive.at \in Recorded \/ (drive'.at = "ending" /\ ~accepting')
    PROVE  DriveInv'
<1>1. UNCHANGED <<promise, pending, waiters, held>>
  BY DEF sendVars
<1>2. DriveTypes'
  <2>1. notices' \in Seq(Texts)
    BY EmptySeq DEF DriveInv, DriveTypes
  <2>2. drive' \in DriveState /\ drive'.main \in Texts
        /\ (drive'.at = "draining" => drive'.taken \in Texts)
    BY DEF DriveInv, DriveTypes, Loops
  <2> QED BY <1>1, <2>1, <2>2 DEF DriveInv, DriveTypes, Loops
<1>3. WaitsOnce' /\ InterruptsAreBrief'
  BY <1>1 DEF DriveInv, WaitsOnce, InterruptsAreBrief
<1>4. NoticesAreQueued'
  <2>1. ToSet(<<>>) = {}
    BY DEF ToSet
  <2> QED BY <1>1, <2>1 DEF DriveInv, NoticesAreQueued
<1>5. WindowFollowsHistory' /\ WindowIsTimely'
  BY DEF DriveInv, WindowFollowsHistory, WindowIsTimely, Loops, Recorded, Driving
<1>6. InboxIsTheDrives'
  BY <1>1 DEF DriveInv, InboxIsTheDrives, Loops, Recorded, Driving
<1> QED BY <1>2, <1>3, <1>4, <1>5, <1>6 DEF DriveInv

----------------------------------------------------------------------------
(* The steps of the drive. *)

\* The boundaries of the loop, and what ends it.
LEMMA BoundaryKeeps ==
    ASSUME DriveInv,
           \/ ModelFails \/ ModelTooLate \/ ModelCallsTools \/ ModelFinishes \/ ToolsReturn
           \/ StopHookReturns \/ VerifierReturns \/ (\E passes \in BOOLEAN : Drained(passes))
    PROVE  DriveInv'
<1>1. /\ ~interrupting /\ UNCHANGED sendVars /\ UNCHANGED <<held, cut, stop, closed, interrupting,
                                                             doomed, late, interrupts>>
      /\ drive.at \in Recorded
  <2>1. ~interrupting /\ drive.at \in Recorded
    BY DEF ModelFails, ModelTooLate, ModelCallsTools, ModelFinishes, ToolsReturn, StopHookReturns,
           VerifierReturns, Drained, At, Recorded
  <2>2. UNCHANGED sendVars /\ UNCHANGED abortVars /\ UNCHANGED held
    BY DEF ModelFails, ModelTooLate, ModelCallsTools, ModelFinishes, ToolsReturn, StopHookReturns,
           VerifierReturns, Drained, inboxVars
  <2> QED BY <2>1, <2>2 DEF abortVars
<1>2. history \in Seq(Texts) /\ notices \in Seq(Texts) /\ stop \in BOOLEAN
  BY DEF DriveInv, DriveTypes
<1>3. Loops
  <2>1. CASE ModelFails
    BY <2>1, EndDrainingLoops DEF ModelFails
  <2>2. CASE ModelTooLate
    BY <2>2, EndLoops DEF ModelTooLate
  <2>3. CASE ModelCallsTools
    BY <2>3, GoLoops DEF ModelCallsTools, inboxVars, Recorded
  <2>4. CASE ModelFinishes
    <3>1. \/ NextTurn(FALSE)
          \/ inbox # <<>> /\ Drain("finish") /\ accepting' = accepting
          \/ Go("stopping", FALSE) /\ UNCHANGED <<accepting, inbox>>
      BY <2>4 DEF ModelFinishes
    <3>2. accepting \in BOOLEAN
      BY DEF DriveInv, DriveTypes
    <3>3. CASE inbox # <<>> /\ Drain("finish") /\ accepting' = accepting
      BY <3>2, <3>3, DrainLoops
    <3>4. CASE Go("stopping", FALSE) /\ UNCHANGED <<accepting, inbox>>
      BY <3>4, GoLoops DEF Recorded
    <3> QED BY <3>1, <3>3, <3>4, NextTurnLoops
  <2>5. CASE ToolsReturn
    <3>1. \/ End(TRUE) /\ inbox' = inbox
          \/ NextTurn(FALSE)
          \/ inbox # <<>> /\ Drain("tools") /\ accepting' = accepting
      BY <2>5 DEF ToolsReturn
    <3>2. accepting \in BOOLEAN
      BY DEF DriveInv, DriveTypes
    <3>3. CASE End(TRUE) /\ inbox' = inbox
      BY <3>3, EndLoops
    <3>4. CASE inbox # <<>> /\ Drain("tools") /\ accepting' = accepting
      BY <3>2, <3>4, DrainLoops
    <3> QED BY <3>1, <3>3, <3>4, NextTurnLoops
  <2>6. CASE StopHookReturns
    <3>1. \/ NextTurn(FALSE)
          \/ inbox # <<>> /\ Drain("stop") /\ accepting' = accepting
          \/ Go("verifying", FALSE) /\ UNCHANGED <<accepting, inbox>>
      BY <2>6 DEF StopHookReturns
    <3>2. accepting \in BOOLEAN
      BY DEF DriveInv, DriveTypes
    <3>3. CASE inbox # <<>> /\ Drain("stop") /\ accepting' = accepting
      BY <3>2, <3>3, DrainLoops
    <3>4. CASE Go("verifying", FALSE) /\ UNCHANGED <<accepting, inbox>>
      BY <3>4, GoLoops DEF Recorded
    <3> QED BY <3>1, <3>3, <3>4, NextTurnLoops
  <2>7. CASE VerifierReturns
    BY <2>7, EndLoops, NextTurnLoops DEF VerifierReturns
  <2>8. ASSUME NEW passes \in BOOLEAN, Drained(passes) PROVE Loops
    <3>1. drive \in DriveState
      BY DEF DriveInv, DriveTypes
    <3>2. CASE ~(drive.left > 0 /\ inbox # <<>>)
      <4>1. /\ DrainReturns(drive.added \/ passes, ~passes)
            /\ (drive.added \/ passes) \in BOOLEAN /\ (~passes) \in BOOLEAN
        BY <2>8, <3>2 DEF Drained
      <4> QED BY <4>1, DrainReturnsLoops
    <3>3. CASE drive.left > 0 /\ inbox # <<>>
      <4>1. /\ inbox' = Tail(inbox) /\ accepting' = accepting
            /\ drive' = [drive EXCEPT !.taken = Head(inbox), !.left = @ - 1,
                                      !.added = @ \/ passes, !.failed = @ \/ ~passes]
        BY <2>8, <3>3 DEF Drained
      <4>2. /\ inbox' \in Seq(Texts) /\ Head(inbox) \in Texts
            /\ ToSet(inbox') \subseteq ToSet(inbox)
        BY <3>3, <4>1, Taking DEF DriveInv, DriveTypes
      <4>3. drive.left - 1 \in Int
        BY <3>1 DEF DriveState
      <4>4. /\ drive' \in DriveState /\ drive'.main = drive.main /\ drive'.at = drive.at
            /\ drive'.taken \in Texts
        BY <3>1, <4>1, <4>2, <4>3 DEF DriveState
      <4>5. drive.at = "draining"
        BY <2>8 DEF Drained, At
      <4> QED BY <4>1, <4>2, <4>4, <4>5 DEF Loops, Recorded, DriveInv, DriveTypes
    <3> QED BY <3>2, <3>3
  <2> QED BY <2>1, <2>2, <2>3, <2>4, <2>5, <2>6, <2>7, <2>8
<1>4. notices' \in {notices, <<>>}
  BY DEF ModelFails, ModelTooLate, ModelCallsTools, ModelFinishes, ToolsReturn, StopHookReturns,
         VerifierReturns, Drained, inboxVars
<1>5. history' = history \/ history' = history \o notices \/ history' = Append(history, drive.taken)
  BY DEF ModelFails, ModelTooLate, ModelCallsTools, ModelFinishes, ToolsReturn, StopHookReturns,
         VerifierReturns, Drained
<1>6. history' \in Seq(Texts) /\ ToSet(history) \subseteq ToSet(history')
  <2>1. CASE history' = Append(history, drive.taken) /\ drive.taken \in Texts
    BY <1>2, <2>1, Appending
  <2>2. CASE history' = history \/ history' = history \o notices
    BY <1>2, <2>2, Joining
  <2>3. CASE history' = Append(history, drive.taken) /\ history' # history /\ history' # history \o notices
    <3>1. drive.at = "draining"
      BY <2>3 DEF ModelFails, ModelTooLate, ModelCallsTools, ModelFinishes, ToolsReturn,
                  StopHookReturns, VerifierReturns, Drained, At
    <3> QED BY <2>1, <2>3, <3>1 DEF DriveInv, DriveTypes
  <2> QED BY <1>5, <2>1, <2>2, <2>3
<1>7. Driving
  BY <1>1 DEF Driving, Recorded
<1> QED BY <1>1, <1>2, <1>3, <1>4, <1>6, <1>7, LoopKeeps

\* The hook of the main text, and what ends a drive at any await.
LEMMA EndKeeps ==
    ASSUME DriveInv, PromptBlocked \/ Throws \/ Breaks
    PROVE  DriveInv'
<1>1. /\ ~interrupting /\ UNCHANGED sendVars /\ drive.at \in Awaits
      /\ UNCHANGED <<held, cut, stop, closed, interrupting, doomed, late, interrupts>>
      /\ UNCHANGED <<history, notices, inbox>>
  BY DEF PromptBlocked, Throws, Breaks, At, Awaits, abortVars, inboxVars
<1>2. drive \in DriveState /\ stop \in BOOLEAN /\ history \in Seq(Texts)
      /\ inbox \in Seq(Texts) /\ accepting \in BOOLEAN
  BY DEF DriveInv, DriveTypes
<1>3. Loops /\ drive'.at = "ending" /\ (drive.at = "preparing" => ~accepting')
  <2>1. CASE PromptBlocked \/ Throws
    BY <1>1, <2>1, EndLoops DEF PromptBlocked, Throws
  <2>2. CASE Breaks
    <3>1. /\ drive' = [drive EXCEPT !.at = "ending", !.threw = TRUE, !.taken = NoText]
          /\ accepting' = accepting
      BY <2>2 DEF Breaks, inboxVars
    <3>2. drive' \in DriveState /\ drive'.main = drive.main /\ drive'.at = "ending"
      BY <1>2, <3>1 DEF DriveState
    <3> QED BY <1>1, <1>2, <3>1, <3>2 DEF Loops, DriveInv, WindowFollowsHistory
  <2> QED BY <2>1, <2>2
<1>4. Driving /\ (drive.at \in Recorded \/ (drive'.at = "ending" /\ ~accepting'))
  BY <1>1, <1>3 DEF Driving, Awaits, Recorded
<1> QED BY <1>1, <1>2, <1>3, <1>4, LoopKeeps

\* The main text passes the hook, the window opens, and the budget stops a drive.
LEMMA OpeningKeeps ==
    ASSUME DriveInv, PromptPasses \/ Opened \/ BudgetStops
    PROVE  DriveInv'
<1>1. /\ ~interrupting /\ UNCHANGED sendVars /\ drive.at \in Awaits
      /\ UNCHANGED <<cut, closed, interrupting, doomed, late, interrupts>>
      /\ UNCHANGED <<notices, inbox>>
  BY DEF PromptPasses, Opened, BudgetStops, At, Awaits, abortVars, inboxVars
<1>2. UNCHANGED <<promise, pending, waiters>>
  BY <1>1 DEF sendVars
<1>3. drive \in DriveState /\ drive.main \in Texts /\ history \in Seq(Texts) /\ held \in Seq(Texts)
  BY <1>1 DEF DriveInv, DriveTypes, Driving, Awaits
<1>4. NoticesAreQueued' /\ WaitsOnce'
  BY <1>1, <1>2 DEF DriveInv, NoticesAreQueued, WaitsOnce
<1>5. InterruptsAreBrief'
  BY <1>1, <1>2 DEF DriveInv, InterruptsAreBrief
<1>9. drive'.at # "idle" => InboxIsTheDrives'
  BY <1>1, <1>2 DEF DriveInv, InboxIsTheDrives, Driving
<1>6. CASE PromptPasses
  <2>1. /\ drive' = [drive EXCEPT !.at = "opening", !.failed = @ \/ FALSE] /\ accepting' = accepting /\ held' = <<>>
        /\ history' = Append(history, drive.main) \o held /\ stop' = stop
        /\ drive.at = "preparing"
    BY <1>6 DEF PromptPasses, Go, At, abortVars
  <2>2. drive' \in DriveState /\ drive'.at = "opening" /\ drive'.main = drive.main
    BY <1>3, <2>1 DEF DriveState, Awaits
  <2>3. history' \in Seq(Texts) /\ drive.main \in ToSet(history')
    <3>1. /\ Append(history, drive.main) \in Seq(Texts)
          /\ drive.main \in ToSet(Append(history, drive.main))
      BY <1>3, Appending
    <3> QED BY <1>3, <2>1, <3>1, Joining
  <2>4. DriveTypes'
    BY <1>1, <1>2, <1>3, <2>1, <2>2, <2>3, EmptySeq DEF DriveInv, DriveTypes
  <2>5. ~accepting
    BY <2>1 DEF DriveInv, WindowFollowsHistory
  <2>6. WindowFollowsHistory' /\ WindowIsTimely'
    BY <2>1, <2>2, <2>3, <2>5 DEF WindowFollowsHistory, WindowIsTimely
  <2> QED BY <1>4, <1>5, <1>9, <2>2, <2>4, <2>6 DEF DriveInv
<1>7. CASE Opened
  <2>1. drive.at = "opening" /\ held' = held /\ history' = history /\ stop' = stop
    BY <1>7 DEF Opened, At, abortVars
  <2>2. CASE End(TRUE)
    <3>1. Loops /\ drive'.at = "ending" /\ ~accepting'
      BY <1>1, <2>2, EndLoops
    <3>2. Driving /\ stop' \in BOOLEAN
      BY <2>1 DEF Driving, DriveInv, DriveTypes
    <3> QED BY <1>1, <1>3, <2>1, <3>1, <3>2, LoopKeeps
  <2>3. CASE accepting' = ~cut /\ drive' = [drive EXCEPT !.at = "model", !.turn = 1]
    <3>1. drive' \in DriveState /\ drive'.at = "model" /\ drive'.main = drive.main
      BY <1>3, <2>3 DEF DriveState, Awaits
    <3>2. DriveTypes'
      BY <1>1, <1>2, <1>3, <2>1, <2>3, <3>1 DEF DriveInv, DriveTypes
    <3>3. drive.main \in ToSet(history)
      BY <2>1 DEF DriveInv, WindowFollowsHistory, Recorded
    <3>4. WindowFollowsHistory' /\ WindowIsTimely'
      BY <1>1, <2>1, <2>3, <3>1, <3>3 DEF WindowFollowsHistory, WindowIsTimely, Driving
    <3> QED BY <1>4, <1>5, <1>9, <3>1, <3>2, <3>4 DEF DriveInv
  <2> QED BY <1>7, <2>2, <2>3 DEF Opened
<1>8. CASE BudgetStops
  <2>1. stop' = TRUE /\ UNCHANGED <<accepting, held, history, drive>>
    BY <1>8 DEF BudgetStops, inboxVars, driveVars
  <2>2. DriveTypes'
    BY <1>1, <1>2, <2>1 DEF DriveInv, DriveTypes, Driving
  <2>3. WindowFollowsHistory' /\ WindowIsTimely'
    BY <1>1, <2>1 DEF DriveInv, WindowFollowsHistory, WindowIsTimely, Driving
  <2>4. drive'.at # "idle"
    BY <1>1, <2>1 DEF Awaits
  <2> QED BY <1>4, <1>5, <1>9, <2>2, <2>3, <2>4 DEF DriveInv
<1> QED BY <1>6, <1>7, <1>8

----------------------------------------------------------------------------
(* The calls of clients and tasks, and the end of a drive. *)

LEMMA Idles == Idle \in DriveState /\ Idle.at = "idle"
BY DEF Idle, DriveState

LEMMA Begins ==
    ASSUME NEW t \in Texts, Begin(t)
    PROVE  /\ drive' \in DriveState /\ drive'.at = "preparing" /\ drive'.main = t
           /\ waiters' = {t} /\ cut' = FALSE /\ stop' = FALSE
<1>1. /\ drive' = [Idle EXCEPT !.at = "preparing", !.main = t]
      /\ waiters' = {t} /\ cut' = FALSE /\ stop' = FALSE
  BY DEF Begin
<1>2. drive' \in DriveState /\ drive'.at = "preparing" /\ drive'.main = t
  BY <1>1, Idles DEF DriveState, Awaits
<1> QED BY <1>1, <1>2

\* A text waits in one of the queues, or is refused.
LEMMA SendKeeps ==
    ASSUME DriveInv, NEW t \in Texts, Send(t)
    PROVE  DriveInv'
<1> USE DEF Driving
<1>1. /\ promise[t] = "calling" /\ (interrupting => Driving)
      /\ UNCHANGED <<accepting, notices, held, history, closed, interrupting, doomed, interrupts>>
      /\ late' = IF interrupting THEN late \cup {t} ELSE late
  BY DEF Send
<1>2. /\ promise \in [Texts -> {"calling", "unsent", "waiting", "queued", "held"} \cup Settled]
      /\ pending \in Seq(Texts) /\ inbox \in Seq(Texts) /\ drive \in DriveState
      /\ waiters \subseteq Texts /\ late \subseteq Texts
      /\ cut \in BOOLEAN /\ stop \in BOOLEAN
  BY DEF DriveInv, DriveTypes
<1>3. PICK answer \in {"rejected", "waiting"} : promise' = [promise EXCEPT ![t] = answer]
  BY DEF Send
<1>4. /\ promise' \in [Texts -> {"calling", "unsent", "waiting", "queued", "held"} \cup Settled]
      /\ promise'[t] = answer /\ \A x \in Texts : x # t => promise'[x] = promise[x]
  BY <1>2, <1>3 DEF Settled
<1>5. t \notin ToSet(pending) \cup waiters \cup doomed /\ t \notin ToSet(notices)
  BY <1>1 DEF DriveInv, WaitsOnce, NoticesAreQueued
<1>6. ToSet(pending) \subseteq Texts /\ ToSet(notices) \subseteq Texts /\ doomed \subseteq Texts
  BY DEF DriveInv, DriveTypes, ToSet
<1>7. NoticesAreQueued'
  BY <1>1, <1>4, <1>5, <1>6 DEF DriveInv, NoticesAreQueued
<1>8. late' \subseteq Texts
  BY <1>1, <1>2
<1>9. CASE closed /\ UNCHANGED <<pending, waiters, inbox, drive, cut, stop>>
  <2>1. DriveTypes'
    BY <1>1, <1>4, <1>8, <1>9 DEF DriveInv, DriveTypes
  <2>2. WaitsOnce'
    BY <1>1, <1>4, <1>5, <1>6, <1>9 DEF DriveInv, WaitsOnce, DriveTypes
  <2>3. InterruptsAreBrief' /\ WindowFollowsHistory' /\ WindowIsTimely'
    BY <1>1, <1>9 DEF DriveInv, InterruptsAreBrief, WindowFollowsHistory, WindowIsTimely
  <2>4. InboxIsTheDrives'
    BY <1>1, <1>9 DEF DriveInv, InboxIsTheDrives
  <2> QED BY <1>7, <2>1, <2>2, <2>3, <2>4 DEF DriveInv
<1>10. CASE /\ Steers /\ answer = "waiting" /\ inbox' = Append(inbox, t)
            /\ waiters' = waiters \cup {t} /\ UNCHANGED <<pending, drive, cut, stop>>
  <2>1. inbox' \in Seq(Texts) /\ ToSet(inbox') = ToSet(inbox) \cup {t}
    BY <1>2, <1>10, Appending
  <2>2. DriveTypes'
    BY <1>1, <1>4, <1>8, <1>10, <2>1 DEF DriveInv, DriveTypes
  <2>3. WaitsOnce'
    BY <1>1, <1>4, <1>5, <1>6, <1>10 DEF DriveInv, WaitsOnce, DriveTypes
  <2>4. InterruptsAreBrief' /\ WindowFollowsHistory' /\ WindowIsTimely'
    BY <1>1, <1>10 DEF DriveInv, InterruptsAreBrief, WindowFollowsHistory, WindowIsTimely, Steers
  <2>5. InboxIsTheDrives'
    <3>1. ~interrupting
      BY <1>10 DEF DriveInv, InterruptsAreBrief, Steers
    <3> QED BY <1>1, <1>10, <2>1, <3>1 DEF DriveInv, InboxIsTheDrives, Steers
  <2> QED BY <1>7, <2>2, <2>3, <2>4, <2>5 DEF DriveInv
<1>11. CASE /\ answer = "waiting" /\ pending' = Append(pending, t)
            /\ UNCHANGED <<waiters, inbox, drive, cut, stop>>
  <2>1. pending' \in Seq(Texts) /\ ToSet(pending') = ToSet(pending) \cup {t}
    BY <1>2, <1>11, Appending
  <2>2. DriveTypes'
    BY <1>1, <1>4, <1>8, <1>11, <2>1 DEF DriveInv, DriveTypes
  <2>3. \A i, j \in DOMAIN pending' : pending'[i] = pending'[j] => i = j
    <3>1. /\ Len(pending) \in Nat /\ DOMAIN pending = 1..Len(pending)
          /\ DOMAIN pending' = 1..(Len(pending) + 1) /\ pending'[Len(pending) + 1] = t
          /\ \A i \in 1..Len(pending) : pending'[i] = pending[i]
      BY <1>2, <1>11, AppendProperties, LenProperties
    <3>2. \A i \in 1..Len(pending) : pending[i] # t
      BY <1>5, <3>1 DEF ToSet
    <3> QED BY <3>1, <3>2 DEF DriveInv, WaitsOnce
  <2>4. WaitsOnce'
    <3>1. \A x \in ToSet(pending') \cup waiters' \cup doomed' : promise'[x] = "waiting"
      BY <1>1, <1>4, <1>5, <1>6, <1>11, <2>1 DEF DriveInv, WaitsOnce, DriveTypes
    <3>2. ToSet(pending') \cap (waiters' \cup doomed') = {}
      BY <1>1, <1>5, <1>11, <2>1 DEF DriveInv, WaitsOnce
    <3> QED BY <2>3, <3>1, <3>2 DEF WaitsOnce
  <2>5. InterruptsAreBrief' /\ WindowFollowsHistory' /\ WindowIsTimely'
    BY <1>1, <1>11, <2>1 DEF DriveInv, InterruptsAreBrief, WindowFollowsHistory, WindowIsTimely
  <2>6. InboxIsTheDrives'
    BY <1>1, <1>11 DEF DriveInv, InboxIsTheDrives
  <2> QED BY <1>7, <2>2, <2>4, <2>5, <2>6 DEF DriveInv
<1>12. CASE ~Driving /\ answer = "waiting" /\ Begin(t) /\ UNCHANGED <<pending, inbox>>
  <2>1. /\ drive' \in DriveState /\ drive'.at = "preparing" /\ drive'.main = t
        /\ waiters' = {t} /\ cut' = FALSE /\ stop' = FALSE
    BY <1>12, Begins
  <2>2. DriveTypes'
    BY <1>1, <1>4, <1>8, <1>12, <2>1 DEF DriveInv, DriveTypes
  <2>3. WaitsOnce'
    BY <1>1, <1>4, <1>5, <1>6, <1>12, <2>1 DEF DriveInv, WaitsOnce, DriveTypes
  <2>4. ~accepting /\ ~interrupting
    BY <1>1, <1>12 DEF DriveInv, WindowIsTimely
  <2>5. InterruptsAreBrief' /\ WindowFollowsHistory' /\ WindowIsTimely'
    BY <1>1, <1>12, <2>1, <2>4
       DEF DriveInv, InterruptsAreBrief, WindowFollowsHistory, WindowIsTimely, Recorded
  <2>6. InboxIsTheDrives'
    <3>1. inbox' = <<>>
      BY <1>12 DEF DriveInv, InboxIsTheDrives
    <3> QED BY <3>1 DEF InboxIsTheDrives, ToSet
  <2> QED BY <1>7, <2>2, <2>3, <2>5, <2>6 DEF DriveInv
<1>13. \/ closed /\ UNCHANGED <<pending, waiters, inbox, drive, cut, stop>>
       \/ /\ Steers /\ promise' = [promise EXCEPT ![t] = "waiting"] /\ inbox' = Append(inbox, t)
          /\ waiters' = waiters \cup {t} /\ UNCHANGED <<pending, drive, cut, stop>>
       \/ /\ promise' = [promise EXCEPT ![t] = "waiting"] /\ pending' = Append(pending, t)
          /\ UNCHANGED <<waiters, inbox, drive, cut, stop>>
       \/ /\ ~Driving /\ promise' = [promise EXCEPT ![t] = "waiting"] /\ Begin(t)
          /\ UNCHANGED <<pending, inbox>>
  BY DEF Send
<1>14. promise' = [promise EXCEPT ![t] = "waiting"] => answer = "waiting"
  BY <1>2, <1>4
<1> QED BY <1>9, <1>10, <1>11, <1>12, <1>13, <1>14
\* interrupt closes the window and takes what waits for the next drive.
LEMMA InterruptBeginsKeeps ==
    ASSUME DriveInv, InterruptBegins
    PROVE  DriveInv'
<1>1. /\ ~interrupting /\ interrupting' = TRUE /\ closed' \in BOOLEAN
      /\ accepting' = FALSE /\ inbox' = <<>> /\ doomed' = ToSet(pending) /\ pending' = <<>>
      /\ cut' = Driving
      /\ UNCHANGED <<promise, waiters, notices, held, history, drive, stop, late>>
  BY DEF InterruptBegins, driveVars
<1>2. ToSet(pending) \subseteq Texts /\ ToSet(pending') = {} /\ DOMAIN pending' = {}
  BY <1>1 DEF DriveInv, DriveTypes, ToSet
<1>3. DriveTypes'
  BY <1>1, <1>2, EmptySeq DEF DriveInv, DriveTypes, Driving
<1>4. WaitsOnce' /\ NoticesAreQueued'
  BY <1>1, <1>2 DEF DriveInv, WaitsOnce, NoticesAreQueued
<1>5. late = {}
  BY <1>1 DEF DriveInv, InterruptsAreBrief
<1>6. InterruptsAreBrief' /\ WindowFollowsHistory' /\ WindowIsTimely'
  BY <1>1, <1>5 DEF DriveInv, InterruptsAreBrief, WindowFollowsHistory, WindowIsTimely
<1>7. InboxIsTheDrives'
  BY <1>1 DEF InboxIsTheDrives, ToSet
<1> QED BY <1>3, <1>4, <1>6, <1>7 DEF DriveInv

\* The rest of interrupt rejects whoever waits, but for the main text and what
\* was sent meanwhile.
LEMMA InterruptEndsKeeps ==
    ASSUME DriveInv, InterruptEnds
    PROVE  DriveInv'
<1> DEFINE rejected == (waiters \ {drive.main}) \cup doomed
<1>1. /\ interrupting /\ interrupting' = FALSE /\ doomed' = {} /\ late' = {}
      /\ promise' = [t \in Texts |-> IF t \in rejected THEN "rejected" ELSE promise[t]]
      /\ waiters' = waiters \ rejected
      /\ UNCHANGED <<pending, accepting, inbox, notices, held, history, drive, cut, stop, closed>>
  BY DEF InterruptEnds, inboxVars, driveVars
<1>2. DriveTypes'
  BY <1>1 DEF DriveInv, DriveTypes, Settled, Driving
<1>3. ToSet(notices) \subseteq Texts /\ ToSet(pending) \subseteq Texts /\ waiters \subseteq Texts
  BY DEF DriveInv, DriveTypes, ToSet
<1>4. ToSet(pending) \cap rejected = {} /\ \A t \in rejected : promise[t] = "waiting"
  BY DEF DriveInv, WaitsOnce
<1>5. WaitsOnce'
  <2>1. \A t \in ToSet(pending) \cup (waiters \ rejected) : promise'[t] = promise[t]
    BY <1>1, <1>3, <1>4
  <2> QED BY <1>1, <2>1 DEF DriveInv, WaitsOnce
<1>6. NoticesAreQueued'
  BY <1>1, <1>3, <1>4 DEF DriveInv, NoticesAreQueued
<1>7. InterruptsAreBrief' /\ WindowFollowsHistory' /\ WindowIsTimely'
  BY <1>1 DEF DriveInv, InterruptsAreBrief, WindowFollowsHistory, WindowIsTimely, Driving
<1>8. InboxIsTheDrives'
  <2>1. inbox' = <<>>
    BY <1>1 DEF DriveInv, InboxIsTheDrives
  <2> QED BY <2>1 DEF InboxIsTheDrives, ToSet
<1> QED BY <1>2, <1>5, <1>6, <1>7, <1>8 DEF DriveInv

LEMMA Verdicts == Verdict \in Settled
BY DEF Verdict, Settled

\* The drive is over: its waiters are told, and the next text begins.
LEMMA SettleKeeps ==
    ASSUME DriveInv, Settle
    PROVE  DriveInv'
<1>1. /\ ~interrupting /\ accepting' = FALSE /\ inbox' = <<>> /\ notices' = <<>>
      /\ promise' = [t \in Texts |-> IF t \in waiters THEN Verdict
                                     ELSE IF t \in ToSet(notices) THEN "calling" ELSE promise[t]]
      /\ pending' = IF pending = <<>> THEN pending ELSE Tail(pending)
      /\ UNCHANGED <<held, history, closed, interrupting, doomed, late>>
  BY DEF Settle, At
<1>2. /\ pending = <<>> => drive' = Idle /\ waiters' = {} /\ cut' = FALSE /\ stop' = FALSE
      /\ pending # <<>> => Begin(Head(pending))
  BY DEF Settle
<1>3. pending \in Seq(Texts) /\ ToSet(pending) \subseteq Texts
  BY DEF DriveInv, DriveTypes, ToSet
<1>4. promise' \in [Texts -> {"calling", "unsent", "waiting", "queued", "held"} \cup Settled]
  BY <1>1, Verdicts DEF DriveInv, DriveTypes
<1>5. /\ doomed = {} /\ late = {} /\ ToSet(pending) \cap waiters = {}
      /\ \A t \in ToSet(pending) : promise[t] = "waiting" /\ promise'[t] = "waiting"
  <2>1. /\ doomed = {} /\ late = {} /\ ToSet(pending) \cap waiters = {}
        /\ \A t \in ToSet(pending) : promise[t] = "waiting"
    BY <1>1 DEF DriveInv, WaitsOnce, InterruptsAreBrief
  <2>2. ToSet(pending) \cap ToSet(notices) = {}
    BY <2>1 DEF DriveInv, NoticesAreQueued
  <2> QED BY <1>1, <1>3, <2>1, <2>2
<1>6. NoticesAreQueued' /\ InterruptsAreBrief'
  BY <1>1, <1>5 DEF NoticesAreQueued, InterruptsAreBrief, ToSet
<1>9. InboxIsTheDrives'
  BY <1>1 DEF InboxIsTheDrives, ToSet
<1>7. CASE pending = <<>>
  <2>1. drive' = Idle /\ waiters' = {} /\ cut' = FALSE /\ stop' = FALSE /\ pending' = pending
    BY <1>1, <1>2, <1>7
  <2>2. DriveTypes'
    BY <1>1, <1>3, <1>4, <1>5, <2>1, Idles, EmptySeq DEF DriveInv, DriveTypes, Driving
  <2>3. WaitsOnce'
    BY <1>1, <1>5, <2>1 DEF DriveInv, WaitsOnce
  <2>4. WindowFollowsHistory' /\ WindowIsTimely'
    BY <1>1, <2>1, Idles DEF WindowFollowsHistory, WindowIsTimely, Recorded
  <2> QED BY <1>6, <1>9, <2>2, <2>3, <2>4 DEF DriveInv
<1>8. CASE pending # <<>>
  <2>1. /\ Head(pending) \in ToSet(pending) /\ Head(pending) \in Texts
        /\ pending' \in Seq(Texts) /\ ToSet(pending') \subseteq ToSet(pending)
        /\ Head(pending) \notin ToSet(pending')
        /\ \A i, j \in DOMAIN pending' : pending'[i] = pending'[j] => i = j
    BY <1>1, <1>3, <1>8, Taking DEF DriveInv, WaitsOnce
  <2>2. /\ drive' \in DriveState /\ drive'.at = "preparing" /\ drive'.main = Head(pending)
        /\ waiters' = {Head(pending)} /\ cut' = FALSE /\ stop' = FALSE
    BY <1>2, <1>8, <2>1, Begins
  <2>3. DriveTypes'
    BY <1>1, <1>4, <1>5, <2>1, <2>2, EmptySeq DEF DriveInv, DriveTypes, Driving
  <2>4. WaitsOnce'
    BY <1>1, <1>5, <2>1, <2>2 DEF WaitsOnce
  <2>5. WindowFollowsHistory' /\ WindowIsTimely'
    BY <1>1, <2>2 DEF WindowFollowsHistory, WindowIsTimely, Recorded
  <2> QED BY <1>6, <1>9, <2>3, <2>4, <2>5 DEF DriveInv
<1> QED BY <1>7, <1>8

\* A notice is queued, held or called; nothing waits for it yet.
LEMMA TaskKeeps ==
    ASSUME DriveInv, NEW n \in Notices, TaskEnds(n) \/ Restored(n)
    PROVE  DriveInv'
<1>1. /\ n \in Texts /\ promise[n] = "unsent"
      /\ UNCHANGED <<pending, waiters, accepting, inbox, history, drive>>
      /\ UNCHANGED <<cut, stop, closed, interrupting, doomed, late>>
  BY DEF TaskEnds, Restored, Texts, driveVars, abortVars
<1>2. PICK now \in {"calling", "queued", "held"} :
         /\ promise' = [promise EXCEPT ![n] = now]
         /\ notices' = notices \/ (notices' = Append(notices, n) /\ now = "queued")
         /\ held' = held \/ held' = Append(held, n)
  BY DEF TaskEnds, Restored
<1>3. /\ promise' \in [Texts -> {"calling", "unsent", "waiting", "queued", "held"} \cup Settled]
      /\ promise'[n] = now /\ \A x \in Texts : x # n => promise'[x] = promise[x]
  BY <1>1, <1>2 DEF DriveInv, DriveTypes
<1>4. notices \in Seq(Texts) /\ held \in Seq(Texts) /\ ToSet(notices) \subseteq Texts
  BY DEF DriveInv, DriveTypes, ToSet
<1>5. /\ notices' \in Seq(Texts) /\ held' \in Seq(Texts)
      /\ ToSet(notices') = ToSet(notices) \/ (ToSet(notices') = ToSet(notices) \cup {n} /\ now = "queued")
  BY <1>1, <1>2, <1>4, Appending
<1>6. DriveTypes'
  BY <1>1, <1>3, <1>5 DEF DriveInv, DriveTypes, Driving
<1>7. NoticesAreQueued'
  BY <1>1, <1>3, <1>4, <1>5 DEF DriveInv, NoticesAreQueued
<1>8. WaitsOnce'
  <2>1. ToSet(pending) \cup waiters \cup doomed \subseteq Texts
    BY DEF DriveInv, DriveTypes, ToSet
  <2> QED BY <1>1, <1>3, <2>1 DEF DriveInv, WaitsOnce
<1>9. InterruptsAreBrief' /\ WindowFollowsHistory' /\ WindowIsTimely'
  BY <1>1 DEF DriveInv, InterruptsAreBrief, WindowFollowsHistory, WindowIsTimely, Driving
<1>10. InboxIsTheDrives'
  BY <1>1 DEF DriveInv, InboxIsTheDrives, Driving
<1> QED BY <1>6, <1>7, <1>8, <1>9, <1>10 DEF DriveInv

----------------------------------------------------------------------------
(* The specification. *)

LEMMA DriveInits ==
    ASSUME Init
    PROVE  DriveInv
<1>1. ToSet(<<>>) = {} /\ DOMAIN <<>> = {} /\ <<>> \in Seq(Texts)
  BY EmptySeq DEF ToSet
<1>2. drive = Idle /\ drive \in DriveState /\ drive.at = "idle"
  BY Idles DEF Init
<1>3. promise \in [Texts -> {"calling", "unsent", "waiting", "queued", "held"} \cup Settled]
  BY DEF Init
<1>4. DriveTypes
  BY <1>1, <1>2, <1>3 DEF Init, DriveTypes, Driving
<1>5. WaitsOnce /\ InboxIsTheDrives /\ NoticesAreQueued /\ InterruptsAreBrief
  BY <1>1 DEF Init, WaitsOnce, InboxIsTheDrives, NoticesAreQueued, InterruptsAreBrief
<1>6. WindowFollowsHistory /\ WindowIsTimely
  BY <1>2 DEF Init, WindowFollowsHistory, WindowIsTimely, Recorded
<1> QED BY <1>4, <1>5, <1>6 DEF DriveInv

\* One of the drive's own steps, sorted by the lemma that covers it.
LEMMA NextCases ==
    ASSUME Next
    PROVE  \/ \E t \in Texts : Send(t)
           \/ \E n \in Notices : TaskEnds(n) \/ Restored(n)
           \/ InterruptBegins \/ InterruptEnds \/ Settle
           \/ PromptBlocked \/ Throws \/ Breaks
           \/ PromptPasses \/ Opened \/ BudgetStops
           \/ ModelFails \/ ModelTooLate \/ ModelCallsTools \/ ModelFinishes \/ ToolsReturn
           \/ StopHookReturns \/ VerifierReturns \/ (\E passes \in BOOLEAN : Drained(passes))
BY DEF Next, DriveStep

LEMMA DriveSteps ==
    ASSUME DriveInv, [Next]_vars
    PROVE  DriveInv'
<1>1. CASE Next
  BY <1>1, NextCases, SendKeeps, TaskKeeps, InterruptBeginsKeeps, InterruptEndsKeeps, SettleKeeps,
     EndKeeps, OpeningKeeps, BoundaryKeeps
<1>2. CASE UNCHANGED vars
  <2>1. UNCHANGED sendVars /\ UNCHANGED inboxVars /\ UNCHANGED driveVars /\ UNCHANGED abortVars
    BY <1>2 DEF vars
  <2>2. /\ UNCHANGED <<promise, pending, waiters, accepting, inbox, notices, held, history, drive>>
        /\ UNCHANGED <<cut, stop, closed, interrupting, doomed, late>>
    BY <2>1 DEF sendVars, inboxVars, driveVars, abortVars
  <2>3. DriveTypes'
    BY <2>2 DEF DriveInv, DriveTypes, Driving
  <2> QED BY <2>2, <2>3 DEF DriveInv, WaitsOnce, InboxIsTheDrives, NoticesAreQueued, InterruptsAreBrief,
             WindowFollowsHistory, WindowIsTimely, Driving
<1> QED BY <1>1, <1>2

\* Over any number of texts, turns and interrupts: every text waits in one place
\* with an open promise, and the window, the history and the drive agree.
THEOREM DriveInvariant == Spec => []DriveInv
<1>1. Init => DriveInv
  BY DriveInits
<1>2. DriveInv /\ [Next]_vars => DriveInv'
  BY DriveSteps
<1> QED BY <1>1, <1>2, PTL DEF Spec

\* The inbox takes texts only in a drive whose main text is in the history, and
\* never once an interrupt has closed it, whatever the hooks and the model do
\* between two awaits (agent.ts, steering.ts).
THEOREM WindowOpensInTime == Spec => []WindowIsTimely
<1>1. DriveInv => WindowIsTimely
  BY DEF DriveInv
<1> QED BY <1>1, DriveInvariant, PTL

\* A text whose send was answered waits in no queue: neither a later drive nor the
\* next boundary of the running one takes it, and no later verdict reaches it.
THEOREM AnsweredIsGone == Spec => []RejectedIsGone
<1>1. DriveInv => RejectedIsGone
  BY DEF DriveInv, WaitsOnce, InboxIsTheDrives, RejectedIsGone, Settled
<1> QED BY <1>1, DriveInvariant, PTL

\* An interrupt, the end of a drive and a closed session answer only sends that
\* are still open: the first answer of a send is its last.
THEOREM AnsweredOnce == Spec => SettledOnce
<1>1. ASSUME DriveInv, [Next]_vars, NEW t \in Texts, promise[t] \in Settled
      PROVE  promise'[t] = promise[t]
  <2>1. t \notin ToSet(pending) \cup waiters \cup doomed /\ t \notin ToSet(notices)
        /\ promise[t] \notin {"calling", "unsent"}
    BY <1>1 DEF DriveInv, WaitsOnce, NoticesAreQueued, Settled
  <2>2. promise \in [Texts -> {"calling", "unsent", "waiting", "queued", "held"} \cup Settled]
    BY <1>1 DEF DriveInv, DriveTypes
  <2>3. ASSUME NEW x \in Texts, Send(x) PROVE promise'[t] = promise[t]
    <3>1. x # t /\ \E answer \in {"rejected", "waiting"} : promise' = [promise EXCEPT ![x] = answer]
      BY <2>1, <2>3 DEF Send
    <3> QED BY <2>2, <3>1
  <2>4. ASSUME NEW n \in Notices, TaskEnds(n) \/ Restored(n) PROVE promise'[t] = promise[t]
    <3>1. n # t /\ \E now \in {"calling", "queued", "held"} : promise' = [promise EXCEPT ![n] = now]
      BY <2>1, <2>4 DEF TaskEnds, Restored
    <3> QED BY <2>2, <3>1
  <2>5. CASE InterruptEnds
    BY <2>1, <2>5 DEF InterruptEnds
  <2>6. CASE Settle
    BY <2>1, <2>6 DEF Settle
  <2>7. CASE InterruptBegins
    BY <2>7 DEF InterruptBegins
  <2>8. CASE \/ PromptBlocked \/ Throws \/ Breaks \/ PromptPasses \/ Opened \/ BudgetStops
             \/ ModelFails \/ ModelTooLate \/ ModelCallsTools \/ ModelFinishes \/ ToolsReturn
             \/ StopHookReturns \/ VerifierReturns \/ (\E passes \in BOOLEAN : Drained(passes))
    <3>1. UNCHANGED sendVars
      BY <2>8 DEF PromptBlocked, Throws, Breaks, PromptPasses, Opened, BudgetStops, ModelFails,
                  ModelTooLate, ModelCallsTools, ModelFinishes, ToolsReturn, StopHookReturns,
                  VerifierReturns, Drained
    <3> QED BY <3>1 DEF sendVars
  <2>9. CASE UNCHANGED vars
    BY <2>9 DEF vars, sendVars
  <2> QED BY <1>1, <2>3, <2>4, <2>5, <2>6, <2>7, <2>8, <2>9, NextCases
<1>2. DriveInv /\ [Next]_vars =>
         [\A t \in Texts : promise[t] \in Settled => promise'[t] = promise[t]]_vars
  BY <1>1
<1> QED BY <1>2, DriveInvariant, PTL DEF Spec, SettledOnce

\* A send made from a callback of an interrupt outlives it: when the interrupt
\* has answered the sends it found, this one still waits for the next drive.
THEOREM LateSendsSurvive == Spec => SameTickSendSurvives
<1>1. ASSUME DriveInv, [Next]_vars, interrupting, ~interrupting'
      PROVE  \A t \in late : closed \/ (promise'[t] = "waiting" /\ t \in ToSet(pending'))
  <2>1. InterruptEnds
    <3>1. CASE UNCHANGED vars
      BY <1>1, <3>1 DEF vars, abortVars
    <3>2. CASE InterruptBegins \/ Settle \/ \E n \in Notices : TaskEnds(n) \/ Restored(n)
      BY <1>1, <3>2 DEF InterruptBegins, Settle, TaskEnds, Restored, abortVars, At
    <3>3. CASE \E t \in Texts : Send(t)
      BY <1>1, <3>3 DEF Send
    <3>4. CASE \/ PromptBlocked \/ Throws \/ Breaks \/ PromptPasses \/ Opened \/ BudgetStops
               \/ ModelFails \/ ModelTooLate \/ ModelCallsTools \/ ModelFinishes \/ ToolsReturn
               \/ StopHookReturns \/ VerifierReturns \/ (\E passes \in BOOLEAN : Drained(passes))
      BY <1>1, <3>4 DEF PromptBlocked, Throws, Breaks, PromptPasses, Opened, BudgetStops, ModelFails,
                  ModelTooLate, ModelCallsTools, ModelFinishes, ToolsReturn, StopHookReturns,
                  VerifierReturns, Drained, At
    <3> QED BY <1>1, <3>1, <3>2, <3>3, <3>4, NextCases
  <2>2. SUFFICES ASSUME NEW t \in late, ~closed
                 PROVE  promise'[t] = "waiting" /\ t \in ToSet(pending')
    OBVIOUS
  <2>3. t \in Texts /\ t \in ToSet(pending)
    BY <1>1, <2>2 DEF DriveInv, DriveTypes, InterruptsAreBrief
  <2>4. promise[t] = "waiting" /\ t \notin (waiters \ {drive.main}) \cup doomed
    BY <1>1, <2>3 DEF DriveInv, WaitsOnce
  <2> QED BY <2>1, <2>3, <2>4 DEF InterruptEnds
<1>2. DriveInv /\ [Next]_vars =>
         [interrupting /\ ~interrupting' =>
            \A t \in late : closed \/ (promise'[t] = "waiting" /\ t \in ToSet(pending'))]_vars
  BY <1>1
<1> QED BY <1>2, DriveInvariant, PTL DEF Spec, SameTickSendSurvives
=============================================================================
