----------------------------- MODULE TaskLease -----------------------------
(***************************************************************************)
(* What the tower promises the agents that share its claimable tasks: a    *)
(* task is open, held under one lease, parked, stopped or finished; only   *)
(* an open task is granted, under a lease id never used before; whoever    *)
(* held the task has let go of it, or lost it, before it is granted again; *)
(* a finished task is never touched again.  TaskLifecycle, with its rows,  *)
(* statements, locks, versions and expiries, is shown to implement this    *)
(* for exclusive tasks without dependencies.                               *)
(***************************************************************************)
EXTENDS Naturals

CONSTANT Tasks

VARIABLES
    phase,      \* per task, where it is
    lease,      \* per task, the lease it is held under, 0 when it is not held
    issued      \* lease ids handed out so far

Phases == {"absent", "open", "parked", "held", "stopped", "finished"}

Init ==
    /\ phase \in [Tasks -> {"absent", "open"}]
    /\ lease = [t \in Tasks |-> 0]
    /\ issued = 0

(* A move of t that hands out no lease and leaves t unheld.                *)
Move(t, from, to) ==
    /\ phase[t] \in from
    /\ \E p \in to : phase' = [phase EXCEPT ![t] = p]
    /\ lease' = [lease EXCEPT ![t] = 0]
    /\ UNCHANGED issued

Create(t) == Move(t, {"absent"}, {"open"})

Grant(t) ==
    /\ phase[t] = "open"
    /\ phase' = [phase EXCEPT ![t] = "held"]
    /\ lease' = [lease EXCEPT ![t] = issued + 1]
    /\ issued' = issued + 1

Release(t) == Move(t, {"held"}, {"open", "parked"})

Unpark(t) == Move(t, {"parked"}, {"open"})

Stop(t) == Move(t, {"open", "parked", "held"}, {"stopped"})

Reopen(t) == Move(t, {"stopped"}, {"open"})

Finish(t) == Move(t, {"open", "parked", "held", "stopped"}, {"finished"})

Next ==
    \E t \in Tasks :
        \/ Create(t) \/ Grant(t) \/ Release(t) \/ Unpark(t)
        \/ Stop(t) \/ Reopen(t) \/ Finish(t)

Spec == Init /\ [][Next]_<<phase, lease, issued>>
=============================================================================
