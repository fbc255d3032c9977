---------------------------- MODULE SprintRuntime ----------------------------
(***************************************************************************)
(* What one installation runs: the delivery of wakes and the sprint they   *)
(* carry messages for, which the sprint runtime's pulse serves, and below  *)
(* them the files that maintenance commands move.  A behaviour is one of   *)
(* the three.  Wakes and sprints meet only in the messages, which          *)
(* SprintPlan abstracts (DeliverMail) and WakeDelivery details; both keep   *)
(* their rows in the one database of OneStore, whose servers are stopped    *)
(* while it moves.                                                         *)
(***************************************************************************)
EXTENDS SprintSystem, WakeSystem, InstanceSystem

VARIABLE part   \* which of the three this behaviour is about

RuntimeInit ==
    /\ part \in {"wakes", "sprint", "files"}
    /\ SprintInit /\ WakesInit /\ InstanceInit
    /\ part # "sprint" => agenda = CHOOSE a \in Agendas : TRUE
    /\ part # "wakes"  => supply = CHOOSE w \in Workloads : TRUE
    /\ part # "files"  => outing = CHOOSE o \in Outings : TRUE

RuntimeNext ==
    \/ part = "wakes"  /\ WakesNext /\ UNCHANGED <<svars, fvars, part>>
    \/ part = "sprint" /\ SprintNext /\ UNCHANGED <<wvars, fvars, part>>
    \/ part = "files"  /\ InstanceNext /\ UNCHANGED <<svars, wvars, part>>

\* One thread pulses for both services; people run commands when they please.
\* A part that is not served asks for nothing.
RuntimeSpec ==
    /\ RuntimeInit /\ [][RuntimeNext]_<<svars, wvars, fvars, part>>
    /\ SprintFairness /\ WakesFairness

\* Every row of the two services, and every file below them, is well formed.
RuntimeTypeOK == SprintTypeOK /\ WakesTypeOK /\ InstanceTypeOK

=============================================================================
