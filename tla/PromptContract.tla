--------------------------- MODULE PromptContract ---------------------------
(* What the runtime promises about one prompt, without hosts, leases, claims  *)
(* or the outbox: an accepted prompt spends its budget until it has its one   *)
(* outcome, the stream announces that outcome once, and only then a send or   *)
(* an interrupt is told of it.                                                *)
EXTENDS Integers

CONSTANTS Sends, Interrupts

VARIABLES
    outcome,    \* "none" before the prompt is accepted, "open" until it is settled
    announced,  \* the outcomes the stream has
    spent,      \* the revision of the last budget checkpoint
    told,       \* per send: what it was told, or "none"
    confirmed   \* the interrupts that were told that they stopped the prompt

contractVars == <<outcome, announced, spent, told, confirmed>>

Outcomes == {"completed", "failed", "cancelled"}

Init ==
    /\ outcome = "none"
    /\ announced = {}
    /\ spent = 0
    /\ told = [a \in Sends |-> "none"]
    /\ confirmed = {}

Accept ==
    /\ outcome = "none"
    /\ outcome' = "open"
    /\ UNCHANGED <<announced, spent, told, confirmed>>

Spend ==
    /\ outcome = "open"
    /\ spent' = spent + 1
    /\ UNCHANGED <<outcome, announced, told, confirmed>>

Decide ==
    /\ outcome = "open"
    /\ outcome' \in Outcomes
    /\ UNCHANGED <<announced, spent, told, confirmed>>

Announce ==
    /\ outcome \in Outcomes
    /\ announced = {}
    /\ announced' = {outcome}
    /\ UNCHANGED <<outcome, spent, told, confirmed>>

Tell(a) ==
    /\ told[a] = "none"
    /\ outcome \in announced
    /\ told' = [told EXCEPT ![a] = outcome]
    /\ UNCHANGED <<outcome, announced, spent, confirmed>>

Confirm(i) ==
    /\ i \notin confirmed
    /\ outcome = "cancelled"
    /\ outcome \in announced
    /\ confirmed' = confirmed \cup {i}
    /\ UNCHANGED <<outcome, announced, spent, told>>

Next ==
    \/ Accept \/ Spend \/ Decide \/ Announce
    \/ \E a \in Sends : Tell(a)
    \/ \E i \in Interrupts : Confirm(i)

Spec == Init /\ [][Next]_contractVars
=============================================================================
