---------------------------- MODULE SprintSystem ----------------------------
(***************************************************************************)
(* A sprint from plan to close: the planner, the developers, the reviewer, *)
(* the pulse, the pull-request watcher and GitHub, interleaved, and the    *)
(* cleanup its completion schedules.                                       *)
(***************************************************************************)
EXTENDS ReviewLane, SprintCleanup

\* An agenda: the units the planner adds, in order, as <<developer, has code,
\* needs>>, the pull requests opened (prs), those the watcher may find before
\* they are registered (finds), and how often the planner steps in (verbs), a
\* participant refuses or a message gets stuck (refusals), a pull request gains
\* commits or closes (pushes), the server restarts or a closeout owner leaves
\* (losses), and a cleanup is slow, dies or is tampered with (faults) among its
\* executors (crew).
CONSTANT Agendas

AgendaRow == [plan : Seq(Devs \X BOOLEAN \X SUBSET Units), prs : 0..MaxPrs,
              finds : Nat, verbs : Nat, refusals : Nat, pushes : Nat, losses : Nat,
              faults : Nat, crew : SUBSET Executors]

ASSUME AgendaRows == Agendas \subseteq AgendaRow

VARIABLE agenda   \* what is left of it

svars == <<book, hub, held, agenda, cvars>>

SprintInit ==
    /\ agenda \in Agendas
    /\ book = [phase |-> "prepared", owner |-> "none", gen |-> 0,
               fit |-> Owners, notices |-> {}, bypassed |-> {},
               units |-> [u \in Units |->
                   [status |-> "none", dev |-> CHOOSE d \in Devs : TRUE,
                    code |-> FALSE, needs |-> {}, task |-> "none",
                    ask |-> "none", rounds |-> 0, via |-> "none"]],
               prs |-> [p \in Prs |->
                   [watched |-> FALSE, owner |-> CHOOSE d \in Devs : TRUE,
                    state |-> "none", head |-> 0, unit |-> 0,
                    linked |-> FALSE, own |-> "none"]]]
    /\ hub = [p \in Prs |-> NoHub]
    /\ held = NoHeld
    /\ CleanupInit

Spend(item) ==
    /\ agenda[item] > 0
    /\ agenda' = [agenda EXCEPT ![item] = @ - 1]

Plan ==
    /\ agenda.plan # <<>>
    /\ LET next == Head(agenda.plan) IN
       \E u \in Units : AddUnit(u, next[1], next[2], next[3])
    /\ agenda' = [agenda EXCEPT !.plan = Tail(@)]
    /\ UNCHANGED <<hub, held>>

PlannerVerb ==
    /\ \/ \E u \in Units :
            \/ \E d \in Devs, needs \in SUBSET Units : Replan(u, d, needs)
            \/ CancelUnit(u) \/ RecallUnit(u)
            \/ \E ending \in Closed : ResolveUnit(u, ending)
       \/ \E d \in Devs : RerouteDeveloper(d)
       \/ RerouteReviewer \/ Pause \/ Abort
    /\ Spend("verbs")
    /\ UNCHANGED <<hub, held>>

Lifecycle ==
    /\ (\E r \in Owners : Arm(r)) \/ DispatchReady
    /\ UNCHANGED <<hub, held, agenda>>

\* Completion and the cleanup's row are one transaction.
Completion ==
    /\ CompleteSprint /\ Schedule
    /\ UNCHANGED <<hub, held, agenda>>

Developer ==
    /\ \E u \in Units : DeliverMail(u) \/ AcceptTask(u) \/ FinishUnit(u)
    /\ UNCHANGED <<hub, held, agenda>>

Review ==
    /\ \/ \E p \in 1..agenda.prs : OpenPr(p) \/ \E u \in Units : RegisterPr(p, u)
       \/ \E p \in Prs, u \in Units :
            RequestReview(p, u) \/ Verdict(p, u, TRUE)
       \/ \E u \in Units : AnswerAsk(u, "accepted")
       \/ \E p \in Prs : Checks(p, "green") \/ CloseOnHub(p, "merged")
    /\ UNCHANGED agenda

Finding ==
    /\ \E p \in Prs, d \in Devs : Discover(p, d)
    /\ Spend("finds")

Refusal ==
    /\ \/ /\ SystemPauses \/ (\E u \in Units : DeclineTask(u))
          /\ UNCHANGED <<hub, held>>
       \/ \E u \in Units : AnswerAsk(u, "declined")
       \/ \E p \in Prs, u \in Units : Verdict(p, u, FALSE)
    /\ Spend("refusals")

Rework ==
    /\ \E p \in Prs : Push(p) \/ Checks(p, "red") \/ CloseOnHub(p, "closed")
    /\ Spend("pushes")

Watch == (\E p \in Prs : PollRead(p)) \/ PollRecord

Resume ==
    \/ ResumeRead \/ ResumeRefused
    \/ \E r \in Owners, stuck \in BOOLEAN : ResumeCommit(r, stuck)

Loss ==
    /\ \/ Restart
       \/ \E r \in Owners : OwnerLeaves(r) /\ UNCHANGED <<hub, held>>
    /\ Spend("losses")

\* A worker of the crew, the time that frees its row, and a manual retry.
Sweep ==
    \/ \E e \in agenda.crew : ExecutorStep(e)
    \/ RetryDue
    \/ Orphaned /\ Lapse
    \/ agenda.crew # {} /\ \E key \in Keys : RetryByHand(key)

Mishap ==
    /\ agenda.crew # {} /\ target.state # "none"
    /\ (\E e \in agenda.crew : ExecutorDies(e)) \/ Lapse \/ Meddle
    /\ Spend("faults")

Quiet == UNCHANGED <<book, hub, held>>
KeepsTree == UNCHANGED cvars

SprintNext ==
    \/ (Plan \/ PlannerVerb \/ Lifecycle \/ Developer \/ Review) /\ KeepsTree
    \/ (Finding \/ Refusal \/ Rework \/ Loss) /\ KeepsTree
    \/ (Watch \/ Resume) /\ UNCHANGED agenda /\ KeepsTree
    \/ Completion
    \/ Sweep /\ UNCHANGED agenda /\ Quiet
    \/ Mishap /\ Quiet

\* The pulse comes again and again, whatever the sprint does: it polls every
\* open pull request and starts a cleanup worker, and time passes.
SprintFairness ==
    /\ WF_svars(PollRecord /\ UNCHANGED agenda /\ KeepsTree)
    /\ \A p \in Prs : SF_svars(PollRead(p) /\ UNCHANGED agenda /\ KeepsTree)
    /\ \A e \in Executors :
         WF_svars(e \in agenda.crew /\ ExecutorStep(e) /\ UNCHANGED agenda /\ Quiet)
    /\ WF_svars((RetryDue \/ (Orphaned /\ Lapse)) /\ UNCHANGED agenda /\ Quiet)

SprintSpec == SprintInit /\ [][SprintNext]_svars /\ SprintFairness

-----------------------------------------------------------------------------
(* Properties. *)

\* Every row is well formed.
SprintTypeOK ==
    /\ book \in Book
    /\ hub \in [Prs -> HubRow]
    /\ held \in HeldRow
    /\ target \in TargetRow
    /\ hands \in [Executors -> Hand]

\* A developer holds one released unit at a time, however units are released,
\* recalled, declined, replanned and rerouted.
OneLanePerDeveloper ==
    \A d \in Devs : \A u, v \in Lanes(book, d) : u = v

\* A released unit stands on completed work only, though the plan is edited
\* and units are recalled after others were released.
ReleasedAfterUpstream ==
    \A u \in Units : book.units[u].status \in Occupying =>
        \A n \in book.units[u].needs : book.units[n].status = "completed"

\* Whenever an armed sprint has no open unit left, its current closeout owner
\* was told so: no way of closing the last unit, and no change of owner, skips
\* the notice.
ClosedIsAnnounced ==
    book.phase = "armed" /\ AllClosed(book) => Notice(book) \in book.notices

\* A ready unit has an assignment the developer can still answer, and a
\* planned one has none that could be answered by mistake.
AssignmentMatchesLane ==
    \A u \in Units :
        /\ book.units[u].status = "ready" => book.units[u].task \in Waiting
        /\ book.units[u].status = "planned" => book.units[u].task \notin Waiting

\* A unit is ready to merge, or was completed by a merge, only on the verdict
\* that answered an accepted request, and no later request is open.
MergeNeedsVerdict ==
    \A u \in Units :
        book.units[u].status = "merge_ready" \/ book.units[u].via = "merge"
          => book.units[u].ask = "accepted" /\ book.units[u].rounds > 0

\* A completed sprint has no open unit, and no later event reopens one.
CompletedSprintIsDone == book.phase = "completed" => AllClosed(book)

\* While a sprint stays paused nothing is released, sent to review or
\* approved, though results and merges still arrive.
PausedHoldsStill ==
    [][book.phase = "paused" /\ book'.phase = "paused" =>
         \A u \in Units :
            book'.units[u].status \in {"ready", "in_review", "merge_ready"}
              => book'.units[u].status = book.units[u].status]_svars

MergeUnseen(p) ==
    /\ InPlay(book) /\ book.prs[p].linked
    /\ hub[p].state = "merged" /\ book.prs[p].state # "merged"

MergeSettled(p) ==
    \/ p \in book.bypassed \/ ~InPlay(book) \/ ~book.prs[p].linked
    \/ \E u \in Units : book.prs[p].unit = u /\ book.units[u].status \in Closed

\* A merge on GitHub of a linked pull request, still to be recorded, reaches the
\* plan at last: its unit is closed, or the merge is on record as a bypass, or
\* the sprint ended.  A merge the watcher recorded earlier, before the pull
\* request was registered or the sprint armed, is outside this promise: the
\* code never projects the first.
MergeReachesThePlan ==
    \A p \in Prs : MergeUnseen(p) ~> MergeSettled(p)

\* Two workers never remove the directory at once, though a lease can lapse
\* under one of them and the row be claimed by the other.
OneRemover ==
    \A e, f \in Executors :
        hands[e].at = "deleting" /\ hands[f].at = "deleting" => e = f

\* What a worker does once its claim is superseded leaves the row alone.
SupersededWritesNothing ==
    [][\A e \in Executors :
         hands[e].at # "idle" /\ ~hands[e].mine /\ hands'[e] # hands[e]
           => target' = target]_svars

\* A cleanup reported succeeded removed the whole directory, whoever removed
\* it and whichever attempt was counted.
SuccessMeansGone == target.state = "succeeded" => tree = "gone"

\* A completed sprint's cleanup ends: it succeeds, or it fails and says so.
CleanupSettles ==
    target.state \in {"pending", "running"} /\ agenda.crew # {}
      ~> target.state \in {"succeeded", "failed"}

=============================================================================
