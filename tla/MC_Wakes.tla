------------------------------ MODULE MC_Wakes ------------------------------
(* Small instances of wake delivery for TLC. *)
EXTENDS WakeSystem

Load(mail, runs, crashes, deaths, faults, visits, refusals) ==
    [mail |-> mail, runs |-> runs, coordinate |-> mail = <<"task", "report">>,
     crashes |-> crashes, deaths |-> deaths, faults |-> faults,
     visits |-> visits, refusals |-> refusals]

\* Kinds of messages and runs whose deliveries meet in an interesting way,
\* with what may go wrong meanwhile.
MixedLoads ==
    {Load(<<"assignment", "report">>, <<>>, 1, 0, 0, 1, 1),
     Load(<<"assignment", "report">>, <<>>, 0, 0, 1, 1, 1),
     Load(<<"task", "report">>, <<>>, 1, 0, 0, 0, 0),
     Load(<<"note", "note">>, <<>>, 1, 0, 0, 0, 0),
     Load(<<"note", "note">>, <<>>, 0, 0, 0, 0, 1),
     Load(<<"note">>, <<"job">>, 0, 0, 1, 0, 0),
     Load(<<"note">>, <<>>, 0, 0, 0, 2, 0),
     Load(<<>>, <<"job">>, 1, 1, 0, 0, 2),
     Load(<<>>, <<"job">>, 0, 0, 1, 1, 2),
     Load(<<>>, <<"devkit", "job">>, 0, 0, 0, 0, 0),
     Load(<<>>, <<"foreground">>, 0, 1, 1, 0, 0)}

\* A bound: a second run is started once the command of the first has ended.
RunsInTurn ==
    \A j \in Jobs, i \in Jobs :
        i < j /\ jobs[j].state # "none" => sups[i].pc \in {"submitting", "gone"}

\* Three reports to one receiver and two failed deliveries, nothing else.
WedgeLoad == {Load(<<"report", "report", "report">>, <<>>, 0, 0, 2, 0, 0)}

\* Short of the wedge that MC_VWedge shows.
SettlingLoads ==
    {Load(<<"assignment", "report">>, <<>>, 0, 0, 1, 1, 0),
     Load(<<"task", "report">>, <<>>, 1, 0, 0, 0, 0),
     Load(<<>>, <<"job">>, 1, 1, 0, 0, 0),
     Load(<<>>, <<"job">>, 0, 0, 1, 1, 2),
     Load(<<>>, <<"foreground">>, 0, 1, 1, 0, 0)}

=============================================================================
