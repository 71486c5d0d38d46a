---------------------------- MODULE JobLifecycle ----------------------------
(***************************************************************************)
(* What the job queue promises whoever enqueues a job, with no workers,    *)
(* claims, leases or locks: an accepted job stays open until its effect is *)
(* delivered once or it stops for an operator, who may reopen it or declare*)
(* it done; a delivered job is never opened again.                         *)
(***************************************************************************)
EXTENDS Naturals

CONSTANT Jobs

VARIABLES
    state,      \* where each job is
    delivered   \* how many times its writes were committed as done

vars == <<state, delivered>>

State == {"absent", "open", "stopped", "done", "forgotten"}

Init ==
    /\ state = [j \in Jobs |-> "absent"]
    /\ delivered = [j \in Jobs |-> 0]

Move(j, from, to) ==
    /\ state[j] = from
    /\ state' = [state EXCEPT ![j] = to]

Accept(j)  == Move(j, "absent", "open") /\ UNCHANGED delivered

\* The one step that commits the writes of a run
Deliver(j) ==
    /\ Move(j, "open", "done")
    /\ delivered[j] = 0
    /\ delivered' = [delivered EXCEPT ![j] = 1]

GiveUp(j)  == Move(j, "open", "stopped") /\ UNCHANGED delivered
Reopen(j)  == Move(j, "stopped", "open") /\ UNCHANGED delivered
Confirm(j) == Move(j, "stopped", "done") /\ UNCHANGED delivered
Forget(j)  == Move(j, "done", "forgotten") /\ UNCHANGED delivered

Next == \E j \in Jobs :
    Accept(j) \/ Deliver(j) \/ GiveUp(j) \/ Reopen(j) \/ Confirm(j) \/ Forget(j)

Spec == Init /\ [][Next]_vars
=============================================================================
