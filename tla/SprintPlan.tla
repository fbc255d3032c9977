----------------------------- MODULE SprintPlan -----------------------------
(***************************************************************************)
(* One sprint's plan: its lifecycle, its work units with their assignments *)
(* and review requests, its registered pull requests, and the closeout     *)
(* owner.  A verb of the planner, a developer or the pulse is one          *)
(* transaction, so most of them compose functions from book to book.       *)
(***************************************************************************)
EXTENDS Naturals, FiniteSets, Sequences

CONSTANTS
    MaxUnits,      \* work units ever planned
    MaxPrs,        \* pull requests ever registered
    MaxHeads,      \* commits ever pushed to one pull request
    MaxRounds,     \* verdicts ever recorded for a unit
    MaxTerms,      \* changes of the closeout owner
    RoundCeiling,  \* REVIEW_ROUND_CEILING
    Devs,          \* the developers
    Owners         \* the reviewers who may own the closeout

ASSUME SprintBounds ==
    /\ {MaxUnits, MaxPrs, MaxRounds, MaxTerms} \subseteq Nat
    /\ {MaxHeads, RoundCeiling} \subseteq Nat \ {0}
    /\ Devs # {} /\ "none" \notin Owners

VARIABLE book   \* the sprint's rows

Units == 1..MaxUnits
Prs   == 1..MaxPrs

Phases == {"prepared", "armed", "paused", "completed", "aborted"}
Occupying == {"ready", "active", "in_review", "fixing", "merge_ready"}
Closed == {"completed", "cancelled"}
Statuses == {"none", "planned"} \cup Occupying \cup Closed

\* An actionable message: sent, delivered, then accepted or declined.
Mails == {"none", "sent", "open", "accepted", "declined"}
Waiting == {"sent", "open"}

UnitRow == [status : Statuses, dev : Devs, code : BOOLEAN,
            needs : SUBSET Units, task : Mails, ask : Mails,
            rounds : 0..MaxRounds,
            via : {"none", "work", "merge", "override"}]

PrStates == {"none", "created", "red", "green", "merged", "closed"}

\* A pull request: its subscription with the latest transition the watcher
\* recorded (state, head), and the unit it is registered for with the latest
\* transition recorded for the sprint (own), which only a registered pull
\* request has.
PrRow == [watched : BOOLEAN, owner : Devs, state : PrStates,
          head : 0..MaxHeads, unit : 0..MaxUnits, linked : BOOLEAN,
          own : PrStates]

Book == [phase : Phases, owner : Owners \cup {"none"}, gen : 0..MaxTerms,
         fit : SUBSET Owners,            \* eligible closeout owners
         notices : SUBSET ((0..MaxUnits) \X Owners \X (0..MaxTerms)),
         bypassed : SUBSET Prs, units : [Units -> UnitRow],
         prs : [Prs -> PrRow]]

Exists(b) == {u \in Units : b.units[u].status # "none"}
InPlay(b) == b.phase \in {"armed", "paused"}
AllClosed(b) ==
    /\ Exists(b) # {}
    /\ \A u \in Exists(b) : b.units[u].status \in Closed

Paused(b) == [b EXCEPT !.phase = "paused"]

Notice(b) == <<Cardinality(Exists(b)), b.owner, b.gen>>

\* _queue_delivery_terminal: once the last unit closes, the owner is told; a
\* sprint without an eligible owner pauses.
Announced(b) ==
    IF b.phase # "armed" \/ ~AllClosed(b) THEN b
    ELSE IF b.owner \notin b.fit THEN Paused(b)
    ELSE [b EXCEPT !.notices = @ \cup {Notice(b)}]

-----------------------------------------------------------------------------
(* Dispatch. *)

\* The units a developer holds: an occupied lane takes nothing else.
Lanes(b, d) ==
    {u \in Units : b.units[u].dev = d /\ b.units[u].status \in Occupying}

\* A mistake to be caught: a developer is free once his unit is under review.
OccupiedUntilReview(b, d) ==
    \E u \in Lanes(b, d) : b.units[u].status \in {"ready", "active"}

Occupied(b, d) == Lanes(b, d) # {}

\* A mistake to be caught: a cancelled unit counts as done.
ReleasableOnceClosed(b, u) ==
    /\ b.units[u].status = "planned"
    /\ \A n \in b.units[u].needs : b.units[n].status \in Closed

Releasable(b, u) ==
    /\ b.units[u].status = "planned"
    /\ \A n \in b.units[u].needs : b.units[n].status = "completed"

\* The units _dispatch_ready_locked takes: a free developer's first.
Taken(b) ==
    {u \in Units :
        /\ Releasable(b, u) /\ ~Occupied(b, b.units[u].dev)
        /\ \A v \in 1..(u - 1) :
             ~Releasable(b, v) \/ b.units[v].dev # b.units[u].dev}

Dispatched(b) ==
    [b EXCEPT !.units = [u \in Units |->
        IF u \in Taken(b) THEN [b.units[u] EXCEPT !.status = "ready",
                                                  !.task = "sent"]
        ELSE b.units[u]]]

\* A mistake to be caught: the lifecycle is not looked at.
DispatchedAlways(b) == Dispatched(b)

DispatchedIfArmed(b) == IF b.phase = "armed" THEN Dispatched(b) ELSE b

-----------------------------------------------------------------------------
(* Planning. *)

\* A mistake to be caught: a completed sprint takes new units.
AddUnitAnytime(u, dev, code, needs) ==
    /\ book.phase # "aborted"
    /\ book.units[u].status = "none"
    /\ \A v \in 1..(u - 1) : book.units[v].status # "none"
    /\ needs \subseteq Exists(book)
    /\ book' = [book EXCEPT !.units[u] =
         [@ EXCEPT !.status = "planned", !.dev = dev, !.code = code,
                   !.needs = needs]]

\* create: any sprint that is not over takes new units.
AddUnit(u, dev, code, needs) ==
    /\ book.phase \notin {"completed", "aborted"}
    /\ book.units[u].status = "none"
    /\ \A v \in 1..(u - 1) : book.units[v].status # "none"
    /\ needs \subseteq Exists(book)
    /\ book' = [book EXCEPT !.units[u] =
         [@ EXCEPT !.status = "planned", !.dev = dev, !.code = code,
                   !.needs = needs]]

\* _require_acyclic: the unit is not upstream of what it is to need.
Acyclic(b, u, needs) ==
    \E up \in SUBSET (Units \ {u}) :
        needs \subseteq up /\ \A v \in up : b.units[v].needs \subseteq up

Replan(u, dev, needs) ==
    /\ book.units[u].status = "planned"
    /\ needs \subseteq Exists(book) /\ Acyclic(book, u, needs)
    /\ <<dev, needs>> # <<book.units[u].dev, book.units[u].needs>>
    /\ book' = [book EXCEPT !.units[u] = [@ EXCEPT !.dev = dev,
                                                   !.needs = needs]]

\* A mistake to be caught: nobody is told of the last unit.
CancelUnitSilently(u) ==
    /\ book.units[u].status = "planned"
    /\ book' = [book EXCEPT !.units[u].status = "cancelled"]

CancelUnit(u) ==
    /\ book.units[u].status = "planned"
    /\ book' = Announced([book EXCEPT !.units[u].status = "cancelled"])

Retired(mail) == IF mail \in Waiting THEN "declined" ELSE mail

Linked(b, u) == {p \in Prs : b.prs[p].unit = u /\ b.prs[p].linked}

\* A mistake to be caught: the assignment stays open.
RecallUnitOnly(u) ==
    /\ book.phase = "paused"
    /\ book.units[u].status \in Occupying
    /\ Linked(book, u) = {}
    /\ book' = [book EXCEPT !.units[u] = [@ EXCEPT !.status = "planned"]]

\* recall: a released unit without a pull request goes back to the plan.
RecallUnit(u) ==
    /\ book.phase = "paused"
    /\ book.units[u].status \in Occupying
    /\ Linked(book, u) = {}
    /\ book' = [book EXCEPT !.units[u] =
         [@ EXCEPT !.status = "planned", !.task = Retired(book.units[u].task)]]

\* resolve: the planner closes a unit by decree; its messages are retired and
\* its pull requests no longer drive it.
ResolveUnit(u, ending) ==
    LET unit == book.units[u] IN
    /\ book.phase = "paused"
    /\ unit.status \in Occupying \cup {"planned"}
    /\ book' = [book EXCEPT
         !.units[u] = [unit EXCEPT !.status = ending, !.via = "override",
                                   !.task = Retired(unit.task),
                                   !.ask = Retired(unit.ask)],
         !.prs = [p \in Prs |-> IF book.prs[p].unit = u
                    THEN [book.prs[p] EXCEPT !.linked = FALSE]
                    ELSE book.prs[p]]]

\* reroute of a developer: refused while a message to him is on its way or a
\* unit of his waits for another seat; what he is working on is assigned anew.
RerouteDeveloper(d) ==
    LET mine == Lanes(book, d) IN
    /\ book.phase = "paused"
    /\ \A u \in mine : /\ book.units[u].status \notin {"ready", "in_review"}
                       /\ book.units[u].task # "sent"
    /\ \E u \in mine : book.units[u].status # "merge_ready"
    /\ book' = [book EXCEPT !.units = [u \in Units |->
         IF u \in mine /\ book.units[u].status # "merge_ready"
         THEN [book.units[u] EXCEPT !.task = "sent"] ELSE book.units[u]]]

\* reroute of the reviewer: each open request is replaced by a fresh one.
RerouteReviewer ==
    LET held == {u \in Units : book.units[u].status = "in_review"} IN
    /\ book.phase = "paused"
    /\ held # {}
    /\ \A u \in held : book.units[u].ask \in {"open", "accepted"}
    /\ \A u \in Units : book.units[u].ask # "sent"
    /\ book' = [book EXCEPT !.units = [u \in Units |->
         IF u \in held THEN [book.units[u] EXCEPT !.ask = "sent"]
         ELSE book.units[u]]]

-----------------------------------------------------------------------------
(* Lifecycle. *)

\* arm: owner, lifecycle, first release and notice are one transaction.
Arm(owner) ==
    /\ book.phase = "prepared" /\ MaxTerms > 0
    /\ Exists(book) # {} /\ owner \in book.fit
    /\ book' = Announced(Dispatched(
         [book EXCEPT !.phase = "armed", !.owner = owner, !.gen = @ + 1]))

Pause == book.phase = "armed" /\ book' = Paused(book)

Abort ==
    /\ book.phase \in {"prepared", "armed", "paused"}
    /\ book' = [book EXCEPT !.phase = "aborted"]

\* An assignment whose turn ended unread, or a message whose wake failed for
\* good, pauses the sprint for the planner.
MailStuck ==
    \E u \in Units : \/ book.units[u].task \in Waiting
                     \/ book.units[u].ask = "sent"

SystemPauses == book.phase = "armed" /\ MailStuck /\ book' = Paused(book)

\* The pulse of an armed sprint.
DispatchReady ==
    /\ book.phase = "armed"
    /\ book' = DispatchedIfArmed(Announced(book))
    /\ book' # book

\* complete, by the planner or with the owner's conformance.
CompleteSprint ==
    /\ book.phase = "armed" /\ AllClosed(book)
    /\ book' = [book EXCEPT !.phase = "completed"]

\* A conformance reviewer declines or its shell is deleted.
OwnerLeaves(r) ==
    /\ r \in book.fit
    /\ book' = [book EXCEPT !.fit = @ \ {r}]

-----------------------------------------------------------------------------
(* The developers' messages and results. *)

\* Wake delivery holds a sprint's messages back until it is armed.
DeliverMail(u) ==
    /\ book.phase = "armed"
    /\ \/ /\ book.units[u].task = "sent"
          /\ book' = [book EXCEPT !.units[u].task = "open"]
       \/ /\ book.units[u].ask = "sent"
          /\ book' = [book EXCEPT !.units[u].ask = "open"]

\* mark_read accepts an assignment, in a paused sprint too.
AcceptTask(u) ==
    LET status == book.units[u].status IN
    /\ book.units[u].task = "open"
    /\ status \in {"ready", "active", "fixing"}
    /\ book' = [book EXCEPT !.units[u] =
         [@ EXCEPT !.task = "accepted",
                   !.status = IF status = "ready" THEN "active" ELSE status]]

DeclineTask(u) ==
    LET status == book.units[u].status IN
    /\ book.units[u].task = "open"
    /\ book' = [book EXCEPT !.units[u] =
         [@ EXCEPT !.task = "declined",
                   !.status = IF status = "ready" THEN "planned" ELSE status]]

\* complete: a unit without code, whatever the sprint's lifecycle.
FinishUnit(u) ==
    /\ book.units[u].status = "active" /\ ~book.units[u].code
    /\ book' = DispatchedIfArmed(Announced(
         [book EXCEPT !.units[u] = [@ EXCEPT !.status = "completed",
                                             !.via = "work"]]))

=============================================================================
