-------------------------- MODULE SessionLifecycle --------------------------
(* The lifecycle store of packages/core/src/runtime/session-lifecycle.ts     *)
(* and its SQL form in sqlite.ts, for one session: operation leases of       *)
(* producers, the fence a deletion raises, the claim of one deleter, and the *)
(* tombstone.  Every method is one store transaction, so one action.         *)
EXTENDS Integers

CONSTANTS
    Operations,   \* producers' operations; each asks for one lease, a fresh leaseId
    Managers,     \* session managers, by workerId (random per process)
    Nobody        \* the absent deleteOwner

ASSUME ManagersAssumption == Nobody \notin Managers

VARIABLES
    state,        \* SessionLifecycleState, or "none" while there is no row
    epoch,        \* epoch of the row
    lease,        \* per operation: no lease yet, an unexpired lease row, or gone
    leaseEpoch,   \* the epoch an operation's lease was granted in
    deleteOwner,  \* deleteOwner of the row
    deleteToken,  \* deleteToken of the row; 0 is absent
    claimLive,    \* deleteLeaseExpiresAt > now
    tokens        \* how many deletion tokens were drawn

storeVars ==
    <<state, epoch, lease, leaseEpoch, deleteOwner, deleteToken, claimLive, tokens>>

States == {"none", "active", "deleting", "deleted"}

\* activeLeaseCount = 0; an expired row no longer counts.
Drained == \A o \in Operations : lease[o] # "live"

----------------------------------------------------------------------------
LifecycleInit ==
    /\ state = "none"
    /\ epoch = 0
    /\ lease = [o \in Operations |-> "none"]
    /\ leaseEpoch = [o \in Operations |-> 0]
    /\ deleteOwner = Nobody
    /\ deleteToken = 0
    /\ claimLive = FALSE
    /\ tokens = 0

\* Mutant: the fence is looked at only once the tombstone is written.
AcceptsDeleting == state # "deleted"

\* acquireOperation throws unless the row is active; a missing row is inserted.
Accepts == state \in {"none", "active"}

\* acquireOperation
AcquireOperation(o) ==
    /\ lease[o] = "none"
    /\ Accepts
    /\ state' = "active"
    /\ lease' = [lease EXCEPT ![o] = "live"]
    /\ leaseEpoch' = [leaseEpoch EXCEPT ![o] = epoch]
    /\ UNCHANGED <<epoch, deleteOwner, deleteToken, claimLive, tokens>>

\* renewOperation succeeds on an unexpired row, in any lifecycle state, and
\* only moves its expiry.
Renewable(o) == lease[o] = "live"

\* releaseOperation deletes the row, if it is still there.
ReleaseOperation(o) ==
    /\ lease[o] # "none"
    /\ lease' = [lease EXCEPT ![o] = "gone"]
    /\ UNCHANGED <<state, epoch, leaseEpoch, deleteOwner, deleteToken, claimLive, tokens>>

\* The clock passes expiresAt of a lease.
OperationExpires(o) ==
    /\ lease[o] = "live"
    /\ lease' = [lease EXCEPT ![o] = "gone"]
    /\ UNCHANGED <<state, epoch, leaseEpoch, deleteOwner, deleteToken, claimLive, tokens>>

----------------------------------------------------------------------------
\* Mutant: a claim is its deleter's for good.
ClaimFreeOnce == state # "deleting"

\* claimDeletion finds the claim free, after raising the fence itself or not.
ClaimFree == state # "deleting" \/ ~claimLive

\* claimDeletion finds the caller's own claim unexpired.
Reentrant(m) == state = "deleting" /\ claimLive /\ deleteOwner = m

\* claimDeletion, for a caller that it grants the claim: an active or missing
\* row becomes deleting, a free claim changes hands under a fresh token, and
\* the caller's own unexpired claim is prolonged under its old one.
ClaimDeletion(m) ==
    /\ state # "deleted"
    /\ state' = "deleting"
    /\ epoch' = IF state = "deleting" THEN epoch ELSE epoch + 1
    /\ \/ /\ Reentrant(m)
          /\ UNCHANGED <<deleteOwner, deleteToken, claimLive, tokens>>
       \/ /\ ClaimFree
          /\ tokens' = tokens + 1
          /\ deleteOwner' = m
          /\ deleteToken' = tokens'
          /\ claimLive' = TRUE
    /\ UNCHANGED <<lease, leaseEpoch>>

\* The row names a claim; the claim may have expired unnoticed.
ClaimNamed(m, t) == state = "deleting" /\ deleteOwner = m /\ deleteToken = t

\* renewDeletion and completeDeletion compare owner, token and expiry.
ClaimHeld(m, t) == ClaimNamed(m, t) /\ claimLive

\* Mutant: the tombstone keeps the claim it was written under.
CompleteDeletionKeepsClaim(m, t) ==
    /\ ClaimHeld(m, t)
    /\ Drained
    /\ state' = "deleted"
    /\ UNCHANGED <<epoch, lease, leaseEpoch, deleteOwner, deleteToken, claimLive, tokens>>

\* completeDeletion, for a caller it answers true.
CompleteDeletion(m, t) ==
    /\ ClaimHeld(m, t)
    /\ Drained
    /\ state' = "deleted"
    /\ deleteOwner' = Nobody
    /\ deleteToken' = 0
    /\ claimLive' = FALSE
    /\ UNCHANGED <<epoch, lease, leaseEpoch, tokens>>

\* The clock passes deleteLeaseExpiresAt.
ClaimExpires ==
    /\ claimLive
    /\ claimLive' = FALSE
    /\ UNCHANGED <<state, epoch, lease, leaseEpoch, deleteOwner, deleteToken, tokens>>

----------------------------------------------------------------------------
LifecycleNext ==
    \/ \E o \in Operations :
          \/ AcquireOperation(o)
          \/ ReleaseOperation(o)
          \/ OperationExpires(o)
    \/ \E m \in Managers :
          \/ ClaimDeletion(m)
          \/ \E t \in 1..tokens : CompleteDeletion(m, t)
    \/ ClaimExpires

LifecycleSpec == LifecycleInit /\ [][LifecycleNext]_storeVars

----------------------------------------------------------------------------
\* The rows range over the values the store writes.
LifecycleTypeOK ==
    /\ state \in States
    /\ epoch \in Nat
    /\ lease \in [Operations -> {"none", "live", "gone"}]
    /\ leaseEpoch \in [Operations -> Nat]
    /\ deleteOwner \in Managers \cup {Nobody}
    /\ deleteToken \in Nat
    /\ claimLive \in BOOLEAN
    /\ tokens \in Nat

\* A tombstone is written over a drained session: no producer holds a lease
\* and no deleter a claim (completeDeletion against every late renewal).
DeletedIsDrained ==
    state = "deleted" => Drained /\ ~claimLive /\ deleteOwner = Nobody

\* Once a deletion has been claimed, every lease ever granted is of an older
\* epoch than the row, the one a backend could fence late producers by.
LeasesPredateFence ==
    state \in {"deleting", "deleted"} =>
        \A o \in Operations : lease[o] # "none" => leaseEpoch[o] < epoch

\* The fence is permanent: after the claim no operation gets a lease, and
\* neither a failed deletion nor a lapsed claim makes the session active again.
FenceIsPermanent ==
    [][ /\ state \in {"deleting", "deleted"} => state' \in {"deleting", "deleted"}
        /\ state = "deleted" => state' = "deleted"
        /\ \A o \in Operations :
              state \in {"deleting", "deleted"} /\ lease[o] # "live" => lease'[o] # "live"
      ]_storeVars

\* What a live claim says: the row is deleting and names its claimant, under
\* the token drawn last.
ClaimNamesRow ==
    claimLive => /\ state = "deleting"
                 /\ deleteOwner \in Managers
                 /\ deleteToken = tokens
                 /\ tokens > 0

\* Before the first claim every lease is of the row's epoch.
LeasesOfThisEpoch ==
    state \in {"none", "active"} =>
        \A o \in Operations : lease[o] # "none" => leaseEpoch[o] = epoch

\* The inductive invariant.
LifecycleInv ==
    /\ LifecycleTypeOK
    /\ ClaimNamesRow
    /\ DeletedIsDrained
    /\ LeasesPredateFence
    /\ LeasesOfThisEpoch
=============================================================================
