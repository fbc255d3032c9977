----------------------------- MODULE MC_Runtime -----------------------------
(* Small instances of a sprint beside wake delivery for TLC. *)
EXTENDS SprintRuntime, MC_Wakes

\* One unit with a pull request; one that waits for it; one of another seat.
OneLane   == <<<<"ann", TRUE, {}>>>>
Chained   == <<<<"ann", TRUE, {}>>, <<"ann", FALSE, {1}>>>>
TwoLanes  == <<<<"ann", TRUE, {}>>, <<"bob", FALSE, {}>>>>
NoCode    == <<<<"ann", FALSE, {}>>, <<"ann", FALSE, {}>>, <<"bob", FALSE, {}>>>>

Quiescent == [plan |-> <<>>, prs |-> 1, finds |-> 0, verbs |-> 0, refusals |-> 0,
              pushes |-> 0, losses |-> 0, faults |-> 0, crew |-> {}]

\* What may interfere with each plan.
SmallAgendas ==
    LET A(plan) == [Quiescent EXCEPT !.plan = plan] IN
    {[A(OneLane) EXCEPT !.verbs = 1, !.pushes = 1],
     [A(OneLane) EXCEPT !.verbs = 1, !.refusals = 1],
     [A(OneLane) EXCEPT !.verbs = 1, !.losses = 1],
     [A(OneLane) EXCEPT !.refusals = 1, !.pushes = 1],
     [A(OneLane) EXCEPT !.refusals = 1, !.losses = 1],
     [A(OneLane) EXCEPT !.finds = 1, !.verbs = 1],
     [A(OneLane) EXCEPT !.finds = 1, !.losses = 1],
     [A(OneLane) EXCEPT !.verbs = 2],
     [A(OneLane) EXCEPT !.refusals = 2],
     [A(Chained) EXCEPT !.verbs = 1],
     [A(Chained) EXCEPT !.refusals = 1],
     [A(TwoLanes) EXCEPT !.verbs = 1],
     [A(TwoLanes) EXCEPT !.prs = 2],
     [A(NoCode) EXCEPT !.prs = 0, !.verbs = 2],
     [A(NoCode) EXCEPT !.prs = 0, !.refusals = 1],
     [A(<<<<"ann", FALSE, {}>>>>) EXCEPT !.prs = 0, !.faults = 2,
                                         !.crew = Executors]}

\* For the promises that take time: fewer of them.
BriefAgendas ==
    LET A(plan) == [Quiescent EXCEPT !.plan = plan] IN
    {[A(OneLane) EXCEPT !.losses = 1],
     [A(OneLane) EXCEPT !.verbs = 1],
     [A(OneLane) EXCEPT !.finds = 1],
     [A(<<<<"ann", FALSE, {}>>>>) EXCEPT !.prs = 0, !.faults = 2,
                                         !.crew = Executors]}

\* Commands for an installation, and a quiet one to vary: one runtime, one
\* person, one thing that fails.
Fetch(floor) == [verb |-> "update", want |-> {floor}]
NoFetch      == [verb |-> "update", want |-> {}]
Verb(verb)   == [verb |-> verb, want |-> {}]

Calm == [start |-> "fresh", runtimes |-> {"docker"}, up |-> {"docker"},
         crew |-> {"ops"}, chores |-> <<>>, writes |-> 1, launches |-> 1,
         deaths |-> 1, rush |-> FALSE, readopt |-> FALSE]

SmallOutings ==
    LET O(start, chores) == [Calm EXCEPT !.start = start, !.chores = chores]
        Both(o) == [o EXCEPT !.crew = {"ops", "aux"}, !.launches = 2]
        Rush(o) == [o EXCEPT !.rush = TRUE]
        There(floor) == <<Fetch(floor), Verb("rollback"), Fetch(2)>>
    IN
    \* Moves that die, twice; there and back again.
    {[O(start, <<NoFetch, NoFetch>>) EXCEPT !.deaths = 2, !.writes = 2]
        : start \in {"adopting", "pinned"}}
    \cup {[O(start, There(1)) EXCEPT !.readopt = TRUE, !.launches = 2]
        : start \in {"adopting", "pinned"}}
    \cup {[O("fresh", <<Fetch(2), Verb("rollback"), NoFetch>>) EXCEPT
               !.writes = 2, !.launches = 2],
          O("fresh", <<Verb("engine_only"), Fetch(2), Verb("rollback"), Verb("rollback")>>),
          O("newer", <<Verb("engine_only"), Fetch(2)>>),
          O("newer", <<Verb("migrate"), Verb("rollback"), NoFetch>>),
          [O("fresh", <<Fetch(2), NoFetch>>) EXCEPT !.deaths = 2,
               !.runtimes = {"docker", "pm2", "host"}, !.up = {"docker", "host"}]}
    \* Two people; and servers launched while commands run, die and go back.
    \cup {Both(O("fresh", <<Fetch(2), Verb("migrate")>>)),
          Both(O("adopting", <<NoFetch, Verb("migrate")>>)),
          Rush(Both(O("adopting", <<NoFetch>>))),
          Rush(Both(O("fresh", <<Fetch(2), Verb("migrate")>>))),
          Rush(Both(O("newer", <<Verb("migrate"), Fetch(2)>>))),
          Rush(Both(O("fresh", <<Fetch(2), Verb("rollback")>>))),
          Rush(O("adopting", <<NoFetch, NoFetch>>)),
          Rush(O("pinned", There(1))),
          Rush(O("fresh", <<Fetch(2), Verb("rollback"), NoFetch>>)),
          Rush(O("newer", <<Verb("migrate"), Verb("engine_only"), Fetch(1)>>))}

\* The first engine with private state needs no migration, the next one does.
SmallLedger == [floor \in 0 .. MaxFloor |-> IF floor = 2 THEN 2 ELSE 1]

\* Nothing happens to the installation.
Undisturbed == {[Calm EXCEPT !.up = {}]}

=============================================================================
