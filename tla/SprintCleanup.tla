---------------------------- MODULE SprintCleanup ----------------------------
(***************************************************************************)
(* The removal of a completed sprint's artifact directory.  The row is     *)
(* claimed with a lease and a generation, the directory is removed under a *)
(* repository lock, and every write of an executor is fenced by its claim. *)
(* Executors: the cleanup workers of the running server and of one that    *)
(* was told to stop and still works.                                       *)
(***************************************************************************)
EXTENDS Naturals

CONSTANTS
    Executors,
    MaxTries,    \* max_attempts
    Keys         \* idempotency keys of manual retries

ASSUME CleanupBounds == MaxTries \in Nat \ {0} /\ "free" \notin Executors

VARIABLES
    target,     \* the row of sprint_cleanup_targets
    tree,       \* the directory
    unsafe,     \* the path is no longer the one that was scheduled
    lock,       \* the executor holding sc-sprint-cleanup.lock
    hands,      \* where each executor is
    requests    \* the keys of recorded manual retries

cvars == <<target, tree, unsafe, lock, hands, requests>>

Steps == {"idle", "claimed", "locked", "recorded", "deleting", "removed",
          "unsafe", "broken"}

\* mine: the claim_generation an executor works for is still the row's.
Hand == [at : Steps, mine : BOOLEAN]
NoHand == [at |-> "idle", mine |-> FALSE]

TargetRow == [state : {"none", "pending", "running", "succeeded", "failed"},
              waits : BOOLEAN,     \* retry not due
              lapsed : BOOLEAN,    \* lease_expires_at is past
              tries : 0..MaxTries] \* attempt_count, up to max_attempts

CleanupInit ==
    /\ target = [state |-> "none", waits |-> FALSE, lapsed |-> FALSE, tries |-> 0]
    /\ tree = "whole" /\ unsafe = FALSE /\ lock = "free"
    /\ hands = [e \in Executors |-> NoHand]
    /\ requests = {}

\* schedule_in_transaction, inside the sprint's completion.
Schedule ==
    /\ target' = [target EXCEPT !.state = "pending"]
    /\ UNCHANGED <<tree, unsafe, lock, hands, requests>>

-----------------------------------------------------------------------------
(* An executor. *)

\* A mistake to be caught: an expired claim is left to its owner.
ClaimablePending == target.state = "pending" /\ ~target.waits

Claimable ==
    \/ target.state = "pending" /\ ~target.waits
    \/ target.state = "running" /\ target.lapsed

\* claim_next: a new generation supersedes whoever worked for the last one.
ClaimTarget(e) ==
    /\ hands[e].at = "idle" /\ Claimable
    /\ target' = [target EXCEPT !.state = "running", !.lapsed = FALSE,
                                !.waits = FALSE]
    /\ hands' = [f \in Executors |-> IF f = e
                   THEN [at |-> "claimed", mine |-> TRUE]
                   ELSE [hands[f] EXCEPT !.mine = FALSE]]
    /\ UNCHANGED <<tree, unsafe, lock, requests>>

\* A mistake to be caught: any running row will do.
CurrentLease(e) == target.state = "running" /\ ~target.lapsed

\* claim_is_current, and the fence of _fenced_update.
Current(e) == target.state = "running" /\ hands[e].mine /\ ~target.lapsed

Goes(e, at) == hands' = [hands EXCEPT ![e].at = at]
Leaves(e) == hands' = [hands EXCEPT ![e] = NoHand]

\* One fenced update.
Fenced(e, row) == target' = IF Current(e) THEN row ELSE target

\* A mistake to be caught: the lease is lock enough.
TakeLockBlindly(e) ==
    /\ hands[e].at = "claimed"
    /\ lock' = e /\ Goes(e, "locked")
    /\ UNCHANGED <<target, tree, unsafe, requests>>

TakeLock(e) ==
    /\ hands[e].at = "claimed" /\ lock = "free"
    /\ lock' = e /\ Goes(e, "locked")
    /\ UNCHANGED <<target, tree, unsafe, requests>>

\* release_waiting, when the lock stays busy past its timeout.
LockBusy(e) ==
    /\ hands[e].at = "claimed" /\ lock # "free"
    /\ Fenced(e, [target EXCEPT !.state = "pending", !.waits = TRUE])
    /\ Leaves(e)
    /\ UNCHANGED <<tree, unsafe, lock, requests>>

\* _validate_under_lock, then record_before: a superseded claim lets go.
Inspect(e) ==
    /\ hands[e].at = "locked"
    /\ \/ ~Current(e) /\ Leaves(e) /\ lock' = "free"
       \/ Current(e) /\ unsafe /\ Goes(e, "unsafe") /\ lock' = "free"
       \/ Current(e) /\ ~unsafe /\ Goes(e, "recorded") /\ UNCHANGED lock
    /\ UNCHANGED <<target, tree, unsafe, requests>>

\* Validated again, the lease is renewed and the attempt counted.
BeginAttempt(e) ==
    /\ hands[e].at = "recorded"
    /\ \/ ~Current(e) /\ Leaves(e) /\ lock' = "free" /\ UNCHANGED target
       \/ /\ Current(e) /\ unsafe
          /\ Goes(e, "unsafe") /\ lock' = "free" /\ UNCHANGED target
       \/ /\ Current(e) /\ ~unsafe
          /\ Goes(e, "deleting") /\ UNCHANGED lock
          /\ target' = [target EXCEPT
                          !.tries = IF @ = MaxTries THEN @ ELSE @ + 1]
    /\ UNCHANGED <<tree, unsafe, requests>>

\* A mistake to be caught: what could not be removed is passed over.
RemoveTreeLoosely(e) ==
    /\ hands[e].at = "deleting"
    /\ \/ tree' = "gone" /\ Goes(e, "removed") /\ UNCHANGED lock
       \/ /\ tree # "gone" /\ tree' = "partial"
          /\ Goes(e, "removed") /\ UNCHANGED lock
    /\ UNCHANGED <<target, unsafe, requests>>

\* shutil.rmtree removes everything or fails half way; the failure is raised
\* out of the lock.
RemoveTree(e) ==
    /\ hands[e].at = "deleting"
    /\ \/ tree' = "gone" /\ Goes(e, "removed") /\ UNCHANGED lock
       \/ /\ tree # "gone" /\ tree' = "partial"
          /\ Goes(e, "broken") /\ lock' = "free"
    /\ UNCHANGED <<target, unsafe, requests>>

MarkSucceeded(e) ==
    /\ hands[e].at = "removed"
    /\ Fenced(e, [target EXCEPT !.state = "succeeded"])
    /\ Leaves(e) /\ lock' = "free"
    /\ UNCHANGED <<tree, unsafe, requests>>

FailSafety(e) ==
    /\ hands[e].at = "unsafe"
    /\ Fenced(e, [target EXCEPT !.state = "failed"])
    /\ Leaves(e)
    /\ UNCHANGED <<tree, unsafe, lock, requests>>

\* fail_mutation: the last attempt is terminal, another waits for its backoff.
FailMutation(e) ==
    /\ hands[e].at = "broken"
    /\ Fenced(e, IF target.tries >= MaxTries
                 THEN [target EXCEPT !.state = "failed"]
                 ELSE [target EXCEPT !.state = "pending", !.waits = TRUE])
    /\ Leaves(e)
    /\ UNCHANGED <<tree, unsafe, lock, requests>>

ExecutorStep(e) ==
    \/ ClaimTarget(e) \/ TakeLock(e) \/ LockBusy(e) \/ Inspect(e)
    \/ BeginAttempt(e) \/ RemoveTree(e) \/ MarkSucceeded(e)
    \/ FailSafety(e) \/ FailMutation(e)

-----------------------------------------------------------------------------
(* Time, people and crashes. *)

RetryDue ==
    /\ target.waits /\ target' = [target EXCEPT !.waits = FALSE]
    /\ UNCHANGED <<tree, unsafe, lock, hands, requests>>

Lapse ==
    /\ target.state = "running" /\ ~target.lapsed
    /\ target' = [target EXCEPT !.lapsed = TRUE]
    /\ UNCHANGED <<tree, unsafe, lock, hands, requests>>

\* The claimant is gone, so its lease runs out without anyone's delay.
Orphaned == \A e \in Executors : ~hands[e].mine

ExecutorDies(e) ==
    /\ hands[e].at # "idle"
    /\ Leaves(e)
    /\ lock' = IF lock = e THEN "free" ELSE lock
    /\ UNCHANGED <<target, tree, unsafe, requests>>

\* A person moves the directory or links it elsewhere, or puts it back.
Meddle ==
    /\ unsafe' = ~unsafe
    /\ UNCHANGED <<target, tree, lock, hands, requests>>

\* recover: a failed target is queued again, once for every key; the attempts
\* already made stay counted.
RetryByHand(key) ==
    /\ key \notin requests /\ target.state = "failed"
    /\ target' = [target EXCEPT !.state = "pending", !.lapsed = FALSE]
    /\ requests' = requests \cup {key}
    /\ UNCHANGED <<tree, unsafe, lock, hands>>

=============================================================================
