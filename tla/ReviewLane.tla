----------------------------- MODULE ReviewLane -----------------------------
(***************************************************************************)
(* Pull requests of a sprint: registration, the watcher that reads GitHub  *)
(* in one step and records what it read in another, review rounds, and the *)
(* merge that closes a unit.                                               *)
(***************************************************************************)
EXTENDS SprintPlan

VARIABLES
    hub,    \* GitHub: the pull requests as they are
    held    \* observations read and not yet recorded

HubRow == [state : PrStates, head : 0..MaxHeads]

\* poll: the pull request being polled (0: none) and what was read of it;
\* resume: everything a resume read before its transaction.
HeldRow == [poll : 0..MaxPrs, seen : HubRow, resume : BOOLEAN,
            all : [Prs -> HubRow]]

NoHub  == [state |-> "none", head |-> 0]
NoHeld == [poll |-> 0, seen |-> NoHub, resume |-> FALSE,
           all |-> [p \in Prs |-> NoHub]]

Registered(b, p) == b.prs[p].unit # 0

-----------------------------------------------------------------------------
(* Subscription, registration and the watcher. *)

\* A developer opens a pull request.
OpenPr(p) ==
    /\ hub[p].state = "none"
    /\ \A q \in 1..(p - 1) : hub[q].state # "none"
    /\ hub' = [hub EXCEPT ![p] = [state |-> "created", head |-> 1]]
    /\ UNCHANGED <<book, held>>

\* discover_once, or a subscription by hand: the watcher follows a pull request
\* for a developer, whether or not a unit has it.
Discover(p, d) ==
    /\ hub[p].state # "none" /\ ~book.prs[p].watched
    /\ book' = [book EXCEPT !.prs[p] = [@ EXCEPT !.watched = TRUE, !.owner = d]]
    /\ UNCHANGED <<hub, held>>

\* A developer registers a pull request for a unit of his.  One the watcher
\* follows already is only linked: what was recorded of it stays as it is.
RegisterPr(p, u) ==
    /\ hub[p].state # "none" /\ ~Registered(book, p)
    /\ book.units[u].status # "none"
    /\ book.prs[p].watched => book.prs[p].owner = book.units[u].dev
    /\ book' = [book EXCEPT !.prs[p] =
         [@ EXCEPT !.unit = u, !.owner = book.units[u].dev, !.linked = TRUE,
                   !.watched = TRUE]]
    /\ UNCHANGED <<hub, held>>

\* complete_from_merge, for all the merges one transaction learns of: approved
\* units are completed, the other merges are recorded as having bypassed the
\* grant; a sprint not in play ignores them.
MergesSeen(b, ps, dispatch) ==
    LET live == {p \in ps : b.prs[p].linked}
        won  == {u \in Units : b.units[u].status = "merge_ready"
                                /\ \E p \in live : b.prs[p].unit = u}
        lost == {p \in live : b.units[b.prs[p].unit].status
                                 \notin {"merge_ready", "completed"}}
        noted == [b EXCEPT !.bypassed = @ \cup lost,
                    !.units = [u \in Units |-> IF u \in won
                       THEN [b.units[u] EXCEPT !.status = "completed",
                                               !.via = "merge"]
                       ELSE b.units[u]]]
    IN
    IF ~InPlay(b) THEN b
    ELSE IF won = {} THEN noted
    ELSE IF dispatch THEN DispatchedIfArmed(Announced(noted))
    ELSE Announced(noted)

\* What a reading tells that the latest transition does not.
News(b, seen) ==
    {p \in DOMAIN seen :
        b.prs[p].watched
        /\ seen[p] # [state |-> b.prs[p].state, head |-> b.prs[p].head]}

\* A transition is the sprint's too once the pull request is registered.
Moved(b, seen) ==
    [b EXCEPT !.prs = [p \in Prs |-> IF p \in News(b, seen)
        THEN [b.prs[p] EXCEPT !.state = seen[p].state, !.head = seen[p].head,
                !.own = IF Registered(b, p) THEN seen[p].state ELSE @]
        ELSE b.prs[p]]]

\* A mistake to be caught: a merge is recorded and left at that.
ObservedOnly(b, seen, dispatch) == Moved(b, seen)

\* observe_in_transaction: readings against the latest transitions.
Observed(b, seen, dispatch) ==
    MergesSeen(Moved(b, seen),
               {p \in News(b, seen) : seen[p].state = "merged"}, dispatch)

\* _reconcile_registered_prs: the merges recorded for the sprint are projected
\* again.
Reprojected(b) ==
    MergesSeen(b, {p \in Prs : b.prs[p].own = "merged"}, FALSE)

\* poll_once passes over pull requests recorded merged or closed.
PollRead(p) ==
    /\ held.poll = 0
    /\ book.prs[p].watched /\ book.prs[p].state \notin {"merged", "closed"}
    /\ hub[p] # [state |-> book.prs[p].state, head |-> book.prs[p].head]
    /\ held' = [held EXCEPT !.poll = p, !.seen = hub[p]]
    /\ UNCHANGED <<book, hub>>

PollRecord ==
    /\ held.poll # 0
    /\ book' = Observed(book, [p \in {held.poll} |-> held.seen], TRUE)
    /\ held' = [held EXCEPT !.poll = 0, !.seen = NoHub]
    /\ UNCHANGED hub

-----------------------------------------------------------------------------
(* Review. *)

\* The lane of a pull request: its unit while the owner still has it.
LaneOf(p, u) ==
    /\ book.prs[p].unit = u /\ Registered(book, p)
    /\ book.prs[p].owner = book.units[u].dev

\* request_review: at a green recorded for the sprint; a newer request
\* supersedes the open one.
RequestReview(p, u) ==
    /\ book.phase = "armed" /\ LaneOf(p, u)
    /\ book.prs[p].own = "green"
    /\ book.units[u].status \in {"active", "fixing", "in_review"}
    /\ book' = [book EXCEPT !.units[u] = [@ EXCEPT !.status = "in_review",
                                                   !.ask = "sent"]]
    /\ UNCHANGED <<hub, held>>

AnswerAsk(u, answer) ==
    /\ book.units[u].ask = "open"
    /\ book' = [book EXCEPT !.units[u].ask = answer]
    /\ UNCHANGED <<hub, held>>

\* A mistake to be caught: a verdict needs no accepted request.
VerdictUnasked(p, u, approved) ==
    LET n == book.units[u].rounds + 1
        judged == [book EXCEPT !.units[u] = [@ EXCEPT !.rounds = n,
                     !.status = IF approved THEN "merge_ready" ELSE "fixing"]]
    IN
    /\ book.phase = "armed" /\ LaneOf(p, u) /\ n <= MaxRounds
    /\ book.units[u].status = "in_review"
    /\ book' = IF ~approved /\ n >= RoundCeiling THEN Paused(judged) ELSE judged
    /\ UNCHANGED <<hub, held>>

\* record_review: a verdict answers the latest request, once accepted; a lane
\* that does not converge pauses the sprint.
Verdict(p, u, approved) ==
    LET n == book.units[u].rounds + 1
        judged == [book EXCEPT !.units[u] = [@ EXCEPT !.rounds = n,
                     !.status = IF approved THEN "merge_ready" ELSE "fixing"]]
    IN
    /\ book.phase = "armed" /\ LaneOf(p, u) /\ n <= MaxRounds
    /\ book.units[u].ask = "accepted" /\ book.units[u].status = "in_review"
    /\ book' = IF ~approved /\ n >= RoundCeiling THEN Paused(judged) ELSE judged
    /\ UNCHANGED <<hub, held>>

-----------------------------------------------------------------------------
(* Resume and restart. *)

\* resume reads every registered pull request first, outside its transaction.
ResumeRead ==
    /\ book.phase = "paused" /\ ~held.resume
    /\ held' = [held EXCEPT !.resume = TRUE, !.all =
                  [p \in Prs |-> IF Registered(book, p) THEN hub[p] ELSE NoHub]]
    /\ UNCHANGED <<book, hub>>

AllObserved(b) ==
    Observed(b, [p \in {q \in Prs : held.all[q].state # "none"} |-> held.all[p]],
             FALSE)

\* The transaction: owner, armed, what was read, recorded merges, the notice
\* and the release.  An assignment left unread pauses it again first.
ResumeCommit(owner, stuck) ==
    LET armed == AllObserved([book EXCEPT !.phase = "armed", !.owner = owner,
                    !.gen = IF owner = book.owner THEN @ ELSE @ + 1])
    IN
    /\ held.resume /\ book.phase = "paused"
    /\ owner \in book.fit
    /\ owner = book.owner \/ book.gen < MaxTerms
    /\ stuck => \E u \in Units : book.units[u].task = "open"
    /\ book' = IF stuck THEN Paused(armed)
               ELSE DispatchedIfArmed(Announced(Reprojected(armed)))
    /\ held' = [held EXCEPT !.resume = FALSE, !.all = NoHeld.all]
    /\ UNCHANGED hub

\* A resume that lost the race for the lifecycle is refused.
ResumeRefused ==
    /\ held.resume /\ book.phase # "paused"
    /\ held' = [held EXCEPT !.resume = FALSE, !.all = NoHeld.all]
    /\ UNCHANGED <<book, hub>>

\* The server restarts: readings are lost, an armed sprint's recorded merges
\* and notice are asserted again.
Restart ==
    /\ held' = NoHeld
    /\ book' = IF book.phase = "armed" THEN Announced(Reprojected(book)) ELSE book
    /\ UNCHANGED hub

-----------------------------------------------------------------------------
(* GitHub. *)

OpenOnHub(p) == hub[p].state \in {"created", "red", "green"}

Checks(p, result) ==
    /\ hub[p].state = "created"
    /\ hub' = [hub EXCEPT ![p].state = result]
    /\ UNCHANGED <<book, held>>

Push(p) ==
    /\ OpenOnHub(p) /\ hub[p].head < MaxHeads
    /\ hub' = [hub EXCEPT ![p] = [state |-> "created", head |-> @.head + 1]]
    /\ UNCHANGED <<book, held>>

\* A pull request may be merged with or without the sprint's grant, or closed.
CloseOnHub(p, how) ==
    /\ OpenOnHub(p)
    /\ hub' = [hub EXCEPT ![p].state = how]
    /\ UNCHANGED <<book, held>>

=============================================================================
