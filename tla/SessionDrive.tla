----------------------------- MODULE SessionDrive -----------------------------
(* The drives of one live session: ManagedSession of session-manager.ts      *)
(* (send, pump, interrupt, close), the turn loop of Agent.send in agent.ts,  *)
(* and the inbox of steering.ts between them.  A text sent while a drive     *)
(* runs is steered into it or waits for the next one; the notice of a        *)
(* background task is injected, or comes back as a send.  A step between two *)
(* awaits is one action; what runs in the synchronous callbacks of an abort  *)
(* comes between InterruptBegins and InterruptEnds.                          *)
EXTENDS Integers, Sequences, SequencesExt

CONSTANTS
    Sends,         \* texts clients send
    Notices,       \* notices of background tasks
    NoText,        \* no text
    MaxTurns,      \* maxTurns of a drive
    MaxInterrupts  \* bound: calls of interrupt and close

ASSUME DriveAssumption ==
    /\ Sends \cap Notices = {} /\ NoText \notin Sends \cup Notices
    /\ MaxTurns \in Nat \ {0} /\ MaxInterrupts \in Nat

Texts == Sends \cup Notices

VARIABLES
    promise,       \* per text: what its caller knows of it
    pending,       \* pendingSends
    waiters,       \* currentWaiters
    accepting,     \* the window of the inbox is open
    inbox,         \* queuedInputs
    notices,       \* notices of the running drive
    held,          \* notices kept for the next drive when the agent was built
    history,       \* the user messages of the conversation, in order
    drive,         \* where the drive awaits, and its locals
    cut,           \* its signal was aborted by an interrupt
    stop,          \* its signal was aborted by its budget
    closed,        \* closed
    interrupting,  \* inside interrupt()
    doomed,        \* interruptedPending of that call
    late,          \* history: the texts sent from inside that call
    interrupts

sendVars == <<promise, pending, waiters>>
inboxVars == <<accepting, inbox, notices, held>>
driveVars == <<history, drive>>
abortVars == <<cut, stop, closed, interrupting, doomed, late, interrupts>>
vars == <<sendVars, inboxVars, driveVars, abortVars>>

Idle == [at |-> "idle", main |-> NoText, turn |-> 0, back |-> "none", left |-> 0,
         added |-> FALSE, taken |-> NoText, failed |-> FALSE, threw |-> FALSE]

Driving == drive.at # "idle"
Aborted == cut \/ stop

Init ==
    /\ promise = [t \in Texts |-> IF t \in Sends THEN "calling" ELSE "unsent"]
    /\ pending = <<>> /\ waiters = {}
    /\ accepting = FALSE /\ inbox = <<>> /\ notices = <<>> /\ held = <<>>
    /\ history = <<>> /\ drive = Idle
    /\ cut = FALSE /\ stop = FALSE /\ closed = FALSE
    /\ interrupting = FALSE /\ doomed = {} /\ late = {} /\ interrupts = 0

----------------------------------------------------------------------------
(* ManagedSession. *)

\* pump takes a text and Agent.send runs up to its first await.
Begin(t) ==
    /\ drive' = [Idle EXCEPT !.at = "preparing", !.main = t]
    /\ waiters' = {t}
    /\ cut' = FALSE /\ stop' = FALSE

\* queue: only a running agent with an open window takes the text.
Steers == Driving /\ accepting

\* send, also from a callback of interrupt.
Send(t) ==
    /\ promise[t] = "calling"
    /\ interrupting => Driving
    /\ \/ /\ closed
          /\ promise' = [promise EXCEPT ![t] = "rejected"]
          /\ UNCHANGED <<pending, waiters, inbox, drive, cut, stop>>
       \/ /\ ~closed /\ Steers
          /\ promise' = [promise EXCEPT ![t] = "waiting"]
          /\ inbox' = Append(inbox, t)
          /\ waiters' = waiters \cup {t}
          /\ UNCHANGED <<pending, drive, cut, stop>>
       \/ /\ ~closed /\ Driving /\ ~accepting
          /\ promise' = [promise EXCEPT ![t] = "waiting"]
          /\ pending' = Append(pending, t)
          /\ UNCHANGED <<waiters, inbox, drive, cut, stop>>
       \/ /\ ~closed /\ ~Driving
          /\ promise' = [promise EXCEPT ![t] = "waiting"]
          /\ Begin(t)
          /\ UNCHANGED <<pending, inbox>>
    /\ late' = IF interrupting THEN late \cup {t} ELSE late
    /\ UNCHANGED <<accepting, notices, held, history, closed, interrupting, doomed, interrupts>>

\* Mutant: the abort comes before the window is closed and the queues are cut.
InterruptAbortsFirst ==
    /\ ~interrupting /\ ~closed /\ interrupts < MaxInterrupts
    /\ interrupts' = interrupts + 1
    /\ interrupting' = TRUE
    /\ closed' \in BOOLEAN
    /\ cut' = Driving
    /\ doomed' = ToSet(pending) /\ pending' = <<>>
    /\ UNCHANGED <<promise, waiters, accepting, inbox, notices, held, driveVars, stop, late>>

\* Mutant: the window is closed, but what was steered stays in the inbox.
InterruptSparesInbox ==
    /\ ~interrupting /\ ~closed /\ interrupts < MaxInterrupts
    /\ interrupts' = interrupts + 1
    /\ interrupting' = TRUE
    /\ closed' \in BOOLEAN
    /\ accepting' = FALSE
    /\ doomed' = ToSet(pending) /\ pending' = <<>>
    /\ cut' = Driving
    /\ UNCHANGED <<promise, waiters, inbox, notices, held, driveVars, stop, late>>

\* interrupt, up to and including abort(); close sets closed before.
InterruptBegins ==
    /\ ~interrupting /\ ~closed /\ interrupts < MaxInterrupts
    /\ interrupts' = interrupts + 1
    /\ interrupting' = TRUE
    /\ closed' \in BOOLEAN
    /\ accepting' = FALSE /\ inbox' = <<>>
    /\ doomed' = ToSet(pending) /\ pending' = <<>>
    /\ cut' = Driving
    /\ UNCHANGED <<promise, waiters, notices, held, driveVars, stop, late>>

\* Mutant: the steering waiters are rejected and stay with the drive.
InterruptKeepsWaiters ==
    /\ interrupting
    /\ LET rejected == (waiters \ {drive.main}) \cup doomed
       IN  promise' = [t \in Texts |-> IF t \in rejected THEN "rejected" ELSE promise[t]]
    /\ interrupting' = FALSE /\ doomed' = {} /\ late' = {}
    /\ UNCHANGED <<pending, waiters, inboxVars, driveVars, cut, stop, closed, interrupts>>

\* The rest of interrupt: it rejects the steering waiters and the sends that
\* were pending when it began.
InterruptEnds ==
    /\ interrupting
    /\ LET rejected == (waiters \ {drive.main}) \cup doomed
       IN  /\ promise' = [t \in Texts |-> IF t \in rejected THEN "rejected" ELSE promise[t]]
           /\ waiters' = waiters \ rejected
    /\ interrupting' = FALSE /\ doomed' = {} /\ late' = {}
    /\ UNCHANGED <<pending, inboxVars, driveVars, cut, stop, closed, interrupts>>

----------------------------------------------------------------------------
(* The drive.  Moves to the next await of its loop; "failed" says that the    *)
(* step reported an error on the way.                                        *)

At(where) == drive.at = where /\ ~interrupting

Go(where, failed) == drive' = [drive EXCEPT !.at = where, !.failed = @ \/ failed]

\* The window closes and the generator runs into its finally block.
End(failed) ==
    /\ accepting' = FALSE
    /\ drive' = [drive EXCEPT !.at = "ending", !.failed = @ \/ failed, !.taken = NoText]

\* drainQueued takes the first of the texts that are queued at this boundary.
Drain(back) ==
    /\ inbox' = Tail(inbox)
    /\ drive' = [drive EXCEPT !.at = "draining", !.back = back, !.taken = Head(inbox),
                              !.left = Len(inbox) - 1, !.added = FALSE]

\* An error or the last turn: what was accepted is injected, and the drive ends.
EndDraining ==
    IF inbox = <<>> THEN End(TRUE) /\ UNCHANGED inbox
    ELSE accepting' = FALSE /\ Drain("over")

\* The loop head: the turn limit, the budget, then the model.
NextTurn(failed) ==
    \/ drive.turn = MaxTurns /\ EndDraining
    \/ drive.turn < MaxTurns /\ stop /\ End(TRUE) /\ UNCHANGED inbox
    \/ /\ drive.turn < MaxTurns /\ ~stop
       /\ drive' = [drive EXCEPT !.at = "model", !.turn = @ + 1, !.taken = NoText,
                                 !.failed = @ \/ failed]
       /\ UNCHANGED <<accepting, inbox>>

\* Mutant: closing becomes active again.
OpenedRegardless ==
    /\ At("opening")
    /\ IF stop THEN End(TRUE)
       ELSE accepting' = TRUE /\ drive' = [drive EXCEPT !.at = "model", !.turn = 1]
    /\ UNCHANGED <<sendVars, inbox, notices, held, history, abortVars>>

\* UserPromptSubmit blocks the main text, or lets it into the history together
\* with the notices kept from before.
PromptBlocked ==
    /\ At("preparing")
    /\ End(TRUE)
    /\ UNCHANGED <<sendVars, inbox, notices, held, history, abortVars>>

PromptPasses ==
    /\ At("preparing")
    /\ history' = Append(history, drive.main) \o held
    /\ held' = <<>>
    /\ Go("opening", FALSE)
    /\ UNCHANGED <<sendVars, accepting, inbox, notices, abortVars>>

\* The main text is persisted: the window opens, unless it is too late.
Opened ==
    /\ At("opening")
    /\ IF stop THEN End(TRUE)
       ELSE accepting' = ~cut /\ drive' = [drive EXCEPT !.at = "model", !.turn = 1]
    /\ UNCHANGED <<sendVars, inbox, notices, held, history, abortVars>>

ModelFails ==
    /\ At("model")
    /\ EndDraining
    /\ UNCHANGED <<sendVars, notices, held, history, abortVars>>

\* A response that crossed the abort is dropped.
ModelTooLate ==
    /\ At("model") /\ Aborted
    /\ End(TRUE)
    /\ UNCHANGED <<sendVars, inbox, notices, held, history, abortVars>>

ModelCallsTools ==
    /\ At("model") /\ ~Aborted
    /\ Go("tools", FALSE)
    /\ UNCHANGED <<sendVars, inboxVars, history, abortVars>>

\* The model has nothing more to do: notices and steering keep the drive going.
ModelFinishes ==
    /\ At("model") /\ ~Aborted
    /\ history' = history \o notices
    /\ notices' = <<>>
    /\ \/ notices # <<>> /\ NextTurn(FALSE)
       \/ notices = <<>> /\ inbox # <<>> /\ Drain("finish") /\ UNCHANGED accepting
       \/ notices = <<>> /\ inbox = <<>> /\ Go("stopping", FALSE) /\ UNCHANGED <<accepting, inbox>>
    /\ UNCHANGED <<sendVars, held, abortVars>>

\* The tool results are recorded, and the inbox is drained; an abort, or a third
\* round of unreadable arguments, is the end.
ToolsReturn ==
    /\ At("tools")
    /\ \/ End(TRUE) /\ UNCHANGED <<inbox, notices, history>>
       \/ /\ ~Aborted
          /\ history' = history \o notices
          /\ notices' = <<>>
          /\ \/ inbox = <<>> /\ NextTurn(FALSE)
             \/ inbox # <<>> /\ Drain("tools") /\ UNCHANGED accepting
    /\ UNCHANGED <<sendVars, held, abortVars>>

\* Where drainQueued returns to; "added" is whether it let a text pass.
DrainReturns(added, failed) ==
    \/ /\ drive.back \in {"finish", "stop", "tools"} /\ (added \/ drive.back = "tools")
       /\ NextTurn(failed)
    \/ drive.back = "finish" /\ ~added /\ Go("stopping", failed) /\ UNCHANGED <<accepting, inbox>>
    \/ drive.back = "stop" /\ ~added /\ Go("verifying", failed) /\ UNCHANGED <<accepting, inbox>>
    \/ drive.back = "over" /\ End(TRUE) /\ UNCHANGED inbox

\* The hook lets the taken text into the history, or blocks it with an error.
Drained(passes) ==
    /\ At("draining")
    /\ history' = IF passes THEN Append(history, drive.taken) ELSE history
    /\ IF drive.left > 0 /\ inbox # <<>>
       THEN /\ inbox' = Tail(inbox)
            /\ drive' = [drive EXCEPT !.taken = Head(inbox), !.left = @ - 1,
                                      !.added = @ \/ passes, !.failed = @ \/ ~passes]
            /\ UNCHANGED accepting
       ELSE DrainReturns(drive.added \/ passes, ~passes)
    /\ UNCHANGED <<sendVars, notices, held, abortVars>>

\* The Stop hook asks for another turn, or the inbox is looked at a last time.
StopHookReturns ==
    /\ At("stopping")
    /\ \/ NextTurn(FALSE)
       \/ inbox # <<>> /\ Drain("stop") /\ UNCHANGED accepting
       \/ inbox = <<>> /\ Go("verifying", FALSE) /\ UNCHANGED <<accepting, inbox>>
    /\ UNCHANGED <<sendVars, notices, held, history, abortVars>>

\* The Notification hook and the verifier: done, failed for good, or repaired
\* in another turn.
VerifierReturns ==
    /\ At("verifying")
    /\ \/ \E failed \in BOOLEAN : End(failed) /\ UNCHANGED inbox
       \/ NextTurn(FALSE)
    /\ UNCHANGED <<sendVars, notices, held, history, abortVars>>

\* Mutant: the hook of a steered text is not raced with the signal.
AwaitsWithoutDrain == {"preparing", "opening", "model", "tools", "stopping", "verifying"}

Awaits == {"preparing", "opening", "model", "tools", "draining", "stopping", "verifying"}

\* What is awaited is raced with the signal; send turns that into an error.
Throws ==
    /\ ~interrupting /\ drive.at \in Awaits /\ Aborted
    /\ End(TRUE)
    /\ UNCHANGED <<sendVars, inbox, notices, held, history, abortVars>>

\* Anything else that throws leaves the window as it is.
Breaks ==
    /\ ~interrupting /\ drive.at \in Awaits /\ ~Aborted
    /\ drive' = [drive EXCEPT !.at = "ending", !.threw = TRUE, !.taken = NoText]
    /\ UNCHANGED <<sendVars, inboxVars, history, abortVars>>

Verdict == IF drive.threw THEN "rejected" ELSE IF drive.failed THEN "errored" ELSE "resolved"

\* Mutant: send clears its notices as it clears its inbox.
SettleForgetting ==
    /\ At("ending")
    /\ promise' = [t \in Texts |-> IF t \in waiters THEN Verdict ELSE promise[t]]
    /\ accepting' = FALSE /\ inbox' = <<>> /\ notices' = <<>>
    /\ IF pending = <<>>
       THEN drive' = Idle /\ waiters' = {} /\ cut' = FALSE /\ stop' = FALSE
       ELSE Begin(Head(pending))
    /\ pending' = IF pending = <<>> THEN pending ELSE Tail(pending)
    /\ UNCHANGED <<held, history, closed, interrupting, doomed, late, interrupts>>

\* The finally block once the tools are idle: notices that missed the last turn
\* become sends, the waiters learn the outcome, and pump takes the next text.
Settle ==
    /\ At("ending")
    /\ promise' = [t \in Texts |-> IF t \in waiters THEN Verdict
                                   ELSE IF t \in ToSet(notices) THEN "calling" ELSE promise[t]]
    /\ accepting' = FALSE /\ inbox' = <<>> /\ notices' = <<>>
    /\ IF pending = <<>>
       THEN drive' = Idle /\ waiters' = {} /\ cut' = FALSE /\ stop' = FALSE
       ELSE Begin(Head(pending))
    /\ pending' = IF pending = <<>> THEN pending ELSE Tail(pending)
    /\ UNCHANGED <<held, history, closed, interrupting, doomed, late, interrupts>>

----------------------------------------------------------------------------
(* Around the drive. *)

\* A background task ends: its notice is for the running drive, or becomes a send.
TaskEnds(n) ==
    /\ promise[n] = "unsent" /\ ~interrupting
    /\ IF Steers
       THEN notices' = Append(notices, n) /\ promise' = [promise EXCEPT ![n] = "queued"]
       ELSE promise' = [promise EXCEPT ![n] = "calling"] /\ UNCHANGED notices
    /\ UNCHANGED <<pending, waiters, accepting, inbox, held, driveVars, abortVars>>

\* An agent restored from its tasks starts with their notices.
Restored(n) ==
    /\ promise[n] = "unsent" /\ ~Driving /\ history = <<>>
    /\ held' = Append(held, n)
    /\ promise' = [promise EXCEPT ![n] = "held"]
    /\ UNCHANGED <<pending, waiters, accepting, inbox, notices, driveVars, abortVars>>

\* The wall clock, or any other limit of the run budget.
BudgetStops ==
    /\ ~interrupting /\ drive.at \in Awaits /\ ~stop
    /\ stop' = TRUE
    /\ UNCHANGED <<sendVars, inboxVars, driveVars, cut, closed, interrupting, doomed, late,
                   interrupts>>

DriveStep ==
    \/ PromptBlocked \/ PromptPasses \/ Opened
    \/ ModelFails \/ ModelTooLate \/ ModelCallsTools \/ ModelFinishes \/ ToolsReturn
    \/ \E passes \in BOOLEAN : Drained(passes)
    \/ StopHookReturns \/ VerifierReturns

Next ==
    \/ \E t \in Texts : Send(t)
    \/ \E n \in Notices : TaskEnds(n) \/ Restored(n)
    \/ InterruptBegins \/ InterruptEnds
    \/ DriveStep \/ Throws \/ Breaks \/ BudgetStops \/ Settle

Spec == Init /\ [][Next]_vars

\* Hooks, the model and the tools may hang for ever: the wall clock of the
\* budget aborts the drive, its awaits are raced with the signal, and what runs
\* on after that settles.  The send of a notice is called.
FairSpec ==
    /\ Spec
    /\ WF_vars(BudgetStops) /\ WF_vars(Throws) /\ WF_vars(Settle) /\ WF_vars(InterruptEnds)
    /\ \A n \in Notices : WF_vars(Send(n))

----------------------------------------------------------------------------
Settled == {"resolved", "errored", "rejected"}

\* agent.ts:1137 and steering.ts:11-15: the window is open only in a drive whose
\* text is in the history, and once an interrupt closed it, it stays closed.
WindowIsTimely ==
    accepting => /\ Driving /\ drive.main \in ToSet(history)
                 /\ ~cut

\* A text whose send was answered does not come back: it waits neither for the
\* next drive, nor in the inbox of the running one, and nobody will answer it
\* again.  (What the loop has taken out of the inbox may still be with its hook.)
RejectedIsGone ==
    \A t \in Texts :
        promise[t] \in Settled => t \notin ToSet(pending) \cup ToSet(inbox) \cup waiters

\* What an interrupt, the end of a drive or a failure told a caller is final,
\* although each of them settles whoever is waiting.
SettledOnce ==
    [][\A t \in Texts : promise[t] \in Settled => promise'[t] = promise[t]]_vars

\* A send from inside the callbacks of an interrupt is for the next drive: the
\* interrupt that is under way does not reject it.
SameTickSendSurvives ==
    [][interrupting /\ ~interrupting' =>
          \A t \in late : closed \/ (promise'[t] = "waiting" /\ t \in ToSet(pending'))]_vars

\* Every send is answered, whatever hooks, model and tools do.
SendsSettle == \A t \in Texts : promise[t] = "waiting" ~> promise[t] \in Settled

\* The notice of a task is not lost with the drive it arrived in: it is injected,
\* or a send of its own carries it and is answered.
NoticesAreDelivered ==
    \A n \in Notices :
        promise[n] \in {"queued", "calling"} ~> (n \in ToSet(history) \/ promise[n] \in Settled)

\* agent.features.test.ts:548: the promise of a steering send completes only after
\* its input has been processed and persisted.
SteeringIsProcessed == \A t \in Texts : promise[t] = "resolved" => t \in ToSet(history)
=============================================================================
