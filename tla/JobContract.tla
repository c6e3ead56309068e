----------------------------- MODULE JobContract -----------------------------
(* What the worker queue promises a producer about each job, without leases,  *)
(* owners or the order of claims: a submitted job is tried at most its budget *)
(* of times, gets at most one outcome, a success carries the result of its    *)
(* last try, and an accepted cancellation excludes success.  One store        *)
(* transaction may move several jobs, each by one of these steps.             *)
EXTENDS Integers

CONSTANTS Jobs, KeyOf, MaxAttempts

VARIABLES
    phase,   \* where a job stands
    tries,   \* how often it was handed out
    winner   \* the try whose result is stored, 0 for none

contractVars == <<phase, tries, winner>>

Settled == {"succeeded", "failed", "cancelled"}

Init ==
    /\ phase = [j \in Jobs |-> "absent"]
    /\ tries = [j \in Jobs |-> 0]
    /\ winner = [j \in Jobs |-> 0]

Becomes(j, p) == phase'[j] = p /\ tries'[j] = tries[j]

Stay(j) == Becomes(j, phase[j]) /\ winner'[j] = winner[j]

Submit(j) ==
    /\ phase[j] = "absent"
    /\ \A i \in Jobs : phase[i] \notin {"absent", "forgotten"} => KeyOf[i] # KeyOf[j]
    /\ Becomes(j, "open")
    /\ winner'[j] = winner[j]

Try(j) ==
    /\ phase[j] = "open"
    /\ tries[j] < MaxAttempts[j]
    /\ phase'[j] = "open"
    /\ tries'[j] = tries[j] + 1
    /\ winner'[j] = winner[j]

Succeed(j) ==
    /\ phase[j] = "open"
    /\ tries[j] > 0
    /\ Becomes(j, "succeeded")
    /\ winner'[j] = tries[j]

GiveUp(j) ==
    /\ phase[j] \in {"open", "cancelling"}
    /\ tries[j] > 0
    /\ Becomes(j, "failed")
    /\ winner'[j] = winner[j]

\* Cancelling a job that is being tried needs its holder's acknowledgement.
Cancel(j) ==
    /\ \/ phase[j] = "open" /\ Becomes(j, "cancelled")
       \/ phase[j] = "open" /\ tries[j] > 0 /\ Becomes(j, "cancelling")
       \/ phase[j] = "cancelling" /\ Becomes(j, "cancelled")
    /\ winner'[j] = winner[j]

Forget(j) ==
    /\ phase[j] \in Settled
    /\ Becomes(j, "forgotten")
    /\ winner'[j] = winner[j]

JobStep(j) ==
    Stay(j) \/ Submit(j) \/ Try(j) \/ Succeed(j) \/ GiveUp(j) \/ Cancel(j) \/ Forget(j)

\* A transaction submits at most one job, so no two of one key at once.
Next ==
    /\ \A j \in Jobs : JobStep(j)
    /\ \A i, j \in Jobs : phase[i] = "absent" /\ phase[j] = "absent"
                            /\ phase'[i] = "open" /\ phase'[j] = "open" => i = j

Spec == Init /\ [][Next]_contractVars
==============================================================================
