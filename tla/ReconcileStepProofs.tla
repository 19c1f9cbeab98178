------------------------ MODULE ReconcileStepProofs ------------------------
(* Proof that the running map is changed only with good reason             *)
(* (ChangesWarranted): a plan is made once, under the running lock, and    *)
(* what it says of the agents it has not come to yet stays true.           *)
EXTENDS AgentReconcileProofs

-----------------------------------------------------------------------------
(* The invariant.  PlanFresh already says that what is to be spawned does  *)
(* not run; an agent to be removed is one the list leaves out, an agent to *)
(* be restarted that runs is one the list wants otherwise, and the one     *)
(* being restarted is not restarted again.                                 *)
PlanDue(plan) ==
    /\ \A i \in plan.remove : plan.desired[i] = NoSpec /\ ~Covers(plan.desired, i)
    /\ \A i \in plan.restart : IsRunning(i) => ~SpecsMatch(running[i].spec, plan.desired[i])

DueAt(r) ==
    /\ Applies(r) => PlanDue(rec[r].plan)
    /\ rec[r].pc \in {"stop_changed", "respawn"} => rec[r].id \notin rec[r].plan.restart

PlansDue == \A r \in Reconcilers : DueAt(r)

(* A step of r on i that ChangesWarranted allows.                          *)
Warranted(r, i) ==
    /\ rec[r].pc \in Applying
    /\ \/ IsRunning(i) /\ running'[i] = NotRunning /\ Unwanted(i, rec[r].plan.desired)
       \/ ~IsRunning(i) /\ running'[i].spec = rec[r].plan.desired[i]

(* What is shown of every step of a reconciler.                            *)
Justified(r) ==
    /\ DueAt(r)'
    /\ \A i \in Ids : running'[i] # running[i] => Warranted(r, i)

LEMMA Moved ==
    ASSUME TypeOK, NEW r \in Reconcilers, NEW x, Goto(r, x)
    PROVE  rec'[r] = x
  BY DEF TypeOK, Goto

LEMMA Nowhere ==
    ASSUME NEW r \in Reconcilers, running' = running, rec'[r].pc \notin Applying
    PROVE  Justified(r)
  BY DEF Justified, DueAt, Applies, Applying

(* A plan with less left to do stays due, if the agents it still restarts  *)
(* have not been touched, or only stopped.                                 *)
LEMMA StaysDue ==
    ASSUME IInv, NEW r \in Reconcilers, Applies(r), DueAt(r), NEW x, rec'[r] = x,
           x.plan.desired = rec[r].plan.desired,
           x.plan.remove \subseteq rec[r].plan.remove, x.plan.restart \subseteq rec[r].plan.restart,
           x.pc \in {"stop_changed", "respawn"} => x.id \notin x.plan.restart,
           \A j \in Ids : \/ running'[j] = running[j] \/ running'[j] = NotRunning
                          \/ j \notin x.plan.restart
    PROVE  DueAt(r)'
<1> DEFINE plan == rec[r].plan
           rest == x.plan
<1>1. PlanDue(plan) /\ plan.restart \subseteq Ids
  BY DEF DueAt, IInv, PlansFresh, FreshAt, PlanFresh, Listed
<1> HIDE DEF plan
<1>2. rest.desired = plan.desired /\ rest.remove \subseteq plan.remove /\ rest.restart \subseteq plan.restart
  BY DEF plan
<1>3. \A j \in rest.restart : \/ running'[j] = running[j] \/ running'[j] = NotRunning
  BY <1>1, <1>2
<1> HIDE DEF rest
<1>4. \A i \in rest.remove : rest.desired[i] = NoSpec /\ ~Covers(rest.desired, i)
  BY <1>1, <1>2 DEF PlanDue
<1>5. \A i \in rest.restart : running'[i] # NotRunning => ~SpecsMatch(running'[i].spec, rest.desired[i])
  BY <1>1, <1>2, <1>3 DEF PlanDue, IsRunning
<1>6. /\ \A i \in rec'[r].plan.remove :
           rec'[r].plan.desired[i] = NoSpec /\ ~Covers(rec'[r].plan.desired, i)
      /\ \A i \in rec'[r].plan.restart :
           running'[i] # NotRunning => ~SpecsMatch(running'[i].spec, rec'[r].plan.desired[i])
  BY <1>4, <1>5 DEF rest
<1>7. PlanDue(rec[r].plan)'
  BY <1>6 DEF PlanDue, IsRunning
<1> QED BY <1>7 DEF DueAt

(* diff_specs tells why.                                                   *)
LEMMA DiffDue ==
    ASSUME NEW desired \in Specs
    PROVE  PlanDue(DiffSpecs(desired))
<1> DEFINE plan == DiffSpecs(desired)
<1>1. /\ plan.desired = desired
      /\ plan.remove = {i \in Ids : IsRunning(i) /\ desired[i] = NoSpec /\ ~Covers(desired, i)}
      /\ plan.restart = {i \in Listed(desired) : RunsAs(desired, i) # NoId /\ ~Unchanged(desired, i)}
  BY DEF DiffSpecs
<1>2. ASSUME NEW i \in plan.restart, IsRunning(i)
      PROVE  ~SpecsMatch(running[i].spec, desired[i])
  <2>1. RunsAs(desired, i) = i
    BY <1>2 DEF RunsAs
  <2>2. i \in Ids /\ i # NoId /\ ~Unchanged(desired, i)
    BY <1>1, <1>2, LocalIds DEF Listed
  <2> QED BY <2>1, <2>2 DEF Unchanged
<1> QED BY <1>1, <1>2 DEF PlanDue

LEMMA DiffJustified ==
    ASSUME IInv, NEW r \in Reconcilers, Diff(r)
    PROVE  Justified(r)
<1> DEFINE plan == DiffSpecs(rec[r].desired)
           x == [pc |-> "apply", plan |-> plan]
<1>1. rec[r].desired \in Specs
  BY ReconcilerShape DEF Diff, IInv, TypeOK
<1>2. PlanDue(plan)
  BY <1>1, DiffDue
<1> HIDE DEF plan
<1>3. rec'[r] = x /\ running' = running /\ x.plan = plan /\ x.pc = "apply"
  BY Moved DEF Diff, IInv, spawned, plan
<1>4. DueAt(r)'
  BY <1>2, <1>3 DEF DueAt, PlanDue, IsRunning
<1> QED BY <1>3, <1>4 DEF Justified

-----------------------------------------------------------------------------
(* apply_plan, step by step.                                               *)

(* What is known of the plan that is applied.                              *)
LEMMA Planned ==
    ASSUME IInv, NEW r \in Reconcilers, Applies(r), DueAt(r)
    PROVE  /\ rec[r].plan \in Plan /\ PlanDue(rec[r].plan) /\ PlanFresh(rec[r].plan)
           /\ rec[r].plan.restart \subseteq Ids /\ rec[r].plan.spawn \subseteq Ids
           /\ rec[r].plan.remove \subseteq Ids /\ rec[r].pc \in Applying
<1>1. rec[r].plan \in Plan
  BY PlanShape DEF IInv
<1> QED BY <1>1 DEF DueAt, IInv, PlansFresh, FreshAt, PlanFresh, Listed, Plan, Applies

LEMMA ShutdownRemovedJustified ==
    ASSUME IInv, NEW r \in Reconcilers, DueAt(r), ShutdownRemoved(r)
    PROVE  Justified(r)
<1> DEFINE plan == rec[r].plan
<1>1. Applies(r) /\ rec[r].pc = "apply"
  BY DEF ShutdownRemoved, Applies, Applying
<1>2. plan \in Plan /\ PlanDue(plan) /\ plan.remove \subseteq Ids
  BY <1>1, Planned
<1>3. PICK i \in plan.remove :
        /\ running' = [running EXCEPT ![i] = NotRunning]
        /\ Goto(r, [pc |-> "stop_removed", plan |-> [plan EXCEPT !.remove = @ \ {i}],
                    id |-> i, task |-> running[i].task])
  BY DEF ShutdownRemoved
<1> DEFINE rest == [plan EXCEPT !.remove = @ \ {i}]
           x == [pc |-> "stop_removed", plan |-> rest, id |-> i, task |-> running[i].task]
<1>4. rest.desired = plan.desired /\ rest.remove \subseteq plan.remove /\ rest.restart = plan.restart
  BY <1>2 DEF Plan
<1>5. rec'[r] = x
  BY <1>3, Moved DEF IInv
<1>6. \A j \in Ids : IF j = i THEN running'[j] = NotRunning ELSE running'[j] = running[j]
  BY <1>3 DEF IInv, TypeOK
<1>7. IsRunning(i) => Unwanted(i, plan.desired)
  BY <1>2 DEF PlanDue, Unwanted
<1> HIDE DEF rest
<1>8. x.plan = rest /\ x.pc = "stop_removed"
  OBVIOUS
<1> HIDE DEF x
<1>9. DueAt(r)'
  BY <1>1, <1>4, <1>5, <1>6, <1>8, StaysDue
<1>10. ASSUME NEW j \in Ids, running'[j] # running[j] PROVE Warranted(r, j)
  <2>1. j = i /\ running'[i] = NotRunning /\ IsRunning(i)
    BY <1>6, <1>10 DEF IsRunning
  <2> QED BY <1>1, <1>7, <2>1 DEF Warranted, Applies
<1> QED BY <1>9, <1>10 DEF Justified

LEMMA StoppedJustified ==
    ASSUME IInv, NEW r \in Reconcilers, DueAt(r), RemovedStopped(r) \/ ChangedStopped(r)
    PROVE  Justified(r)
<1> DEFINE plan == rec[r].plan
<1>1. Applies(r) /\ running' = running
  BY DEF RemovedStopped, ChangedStopped, Applies, Applying
<1>2. CASE RemovedStopped(r)
  <2> DEFINE x == [pc |-> "apply", plan |-> plan]
  <2>1. rec'[r] = x
    BY <1>2, Moved DEF IInv, RemovedStopped
  <2>2. x.plan = plan /\ x.pc = "apply"
    OBVIOUS
  <2> HIDE DEF x
  <2>3. DueAt(r)'
    BY <1>1, <2>1, <2>2, StaysDue
  <2> QED BY <1>1, <2>3 DEF Justified
<1>3. CASE ChangedStopped(r)
  <2> DEFINE x == [pc |-> "respawn", plan |-> plan, id |-> rec[r].id]
  <2>1. rec'[r] = x
    BY <1>3, Moved DEF IInv, ChangedStopped
  <2>2. x.plan = plan /\ x.pc = "respawn" /\ x.id = rec[r].id
    OBVIOUS
  <2>3. rec[r].id \notin plan.restart
    BY <1>3 DEF ChangedStopped, DueAt
  <2> HIDE DEF x
  <2>4. DueAt(r)'
    BY <1>1, <2>1, <2>2, <2>3, StaysDue
  <2> QED BY <1>1, <2>4 DEF Justified
<1> QED BY <1>2, <1>3

LEMMA ShutdownChangedJustified ==
    ASSUME IInv, NEW r \in Reconcilers, DueAt(r), ShutdownChanged(r)
    PROVE  Justified(r)
<1> DEFINE plan == rec[r].plan
<1>1. Applies(r) /\ rec[r].pc = "apply"
  BY DEF ShutdownChanged, Applies, Applying
<1>2. plan \in Plan /\ PlanDue(plan) /\ PlanFresh(plan) /\ plan.restart \subseteq Ids
  BY <1>1, Planned
<1>3. PICK i \in plan.restart :
        \/ /\ IsRunning(i)
           /\ running' = [running EXCEPT ![i] = NotRunning]
           /\ Goto(r, [pc |-> "stop_changed", plan |-> [plan EXCEPT !.restart = @ \ {i}],
                       id |-> i, task |-> running[i].task])
        \/ /\ Goto(r, [pc |-> "respawn", plan |-> [plan EXCEPT !.restart = @ \ {i}], id |-> i])
           /\ running' = running
  BY DEF ShutdownChanged
<1> DEFINE rest == [plan EXCEPT !.restart = @ \ {i}]
<1>4. rest.desired = plan.desired /\ rest.remove = plan.remove /\ rest.restart = plan.restart \ {i}
  BY <1>2 DEF Plan
<1>5. PICK x : /\ rec'[r] = x /\ x.plan = rest /\ x.id = i
               /\ \/ running' = running
                  \/ IsRunning(i) /\ running' = [running EXCEPT ![i] = NotRunning]
  <2>1. TypeOK
    BY DEF IInv
  <2> HIDE DEF rest
  <2>2. CASE /\ IsRunning(i) /\ running' = [running EXCEPT ![i] = NotRunning]
             /\ Goto(r, [pc |-> "stop_changed", plan |-> rest, id |-> i, task |-> running[i].task])
    <3> DEFINE x == [pc |-> "stop_changed", plan |-> rest, id |-> i, task |-> running[i].task]
    <3>1. rec'[r] = x /\ x.plan = rest /\ x.id = i
      BY <2>1, <2>2, Moved
    <3> QED BY <2>2, <3>1
  <2>3. CASE running' = running /\ Goto(r, [pc |-> "respawn", plan |-> rest, id |-> i])
    <3> DEFINE x == [pc |-> "respawn", plan |-> rest, id |-> i]
    <3>1. rec'[r] = x /\ x.plan = rest /\ x.id = i
      BY <2>1, <2>3, Moved
    <3> QED BY <2>3, <3>1
  <2> QED BY <1>3, <2>2, <2>3 DEF rest
<1> HIDE DEF rest
<1>6. \A j \in Ids : \/ running'[j] = running[j]
                     \/ j = i /\ running'[j] = NotRunning /\ IsRunning(i)
  BY <1>5 DEF IInv, TypeOK
<1>7. DueAt(r)'
  BY <1>1, <1>4, <1>5, <1>6, StaysDue
<1>8. ASSUME NEW j \in Ids, running'[j] # running[j] PROVE Warranted(r, j)
  <2>1. j = i /\ running'[i] = NotRunning /\ IsRunning(i)
    BY <1>6, <1>8
  <2>2. plan.desired[i] # NoSpec /\ ~SpecsMatch(running[i].spec, plan.desired[i])
    BY <1>2, <2>1 DEF PlanDue, PlanFresh, Listed
  <2> QED BY <1>1, <2>1, <2>2 DEF Warranted, Applies, Unwanted
<1> QED BY <1>7, <1>8 DEF Justified

(* spawn_one puts i into the map with the spec, or fails.                  *)
LEMMA Spawned ==
    ASSUME TypeOK, NEW i \in Ids, NEW spec, SpawnOne(i, spec) \/ SpawnFails(i, spec)
    PROVE  \A j \in Ids : running'[j] = running[j] \/ (j = i /\ running'[j].spec = spec)
<1>1. CASE SpawnFails(i, spec)
  BY <1>1 DEF SpawnFails
<1>2. CASE SpawnOne(i, spec)
  <2>1. PICK n : running' = [running EXCEPT ![i] = [spec |-> spec, task |-> n]]
    BY <1>2 DEF SpawnOne
  <2> QED BY <2>1 DEF TypeOK
<1> QED BY <1>1, <1>2

LEMMA RespawnJustified ==
    ASSUME IInv, NEW r \in Reconcilers, DueAt(r), Respawn(r)
    PROVE  Justified(r)
<1> DEFINE plan == rec[r].plan
           i == rec[r].id
           x == [pc |-> "apply", plan |-> plan]
<1>1. Applies(r) /\ rec[r].pc = "respawn" /\ TypeOK
  BY DEF Respawn, Applies, Applying, IInv
<1>2. i \in Ids /\ ~IsRunning(i) /\ i \notin plan.restart
  BY <1>1, ReconcilerShape DEF IInv, TypeOK, PlansFresh, FreshAt, DueAt, Applying
<1>3. rec'[r] = x /\ x.plan = plan /\ x.pc = "apply"
  BY <1>1, Moved DEF Respawn
<1>4. SpawnOne(i, plan.desired[i]) \/ SpawnFails(i, plan.desired[i])
  BY DEF Respawn
<1> HIDE DEF x
<1>5. \A j \in Ids : running'[j] = running[j] \/ (j = i /\ running'[j].spec = plan.desired[i])
  BY <1>1, <1>2, <1>4, Spawned
<1>6. DueAt(r)'
  BY <1>1, <1>2, <1>3, <1>5, StaysDue
<1>7. ASSUME NEW j \in Ids, running'[j] # running[j] PROVE Warranted(r, j)
  BY <1>1, <1>2, <1>5, <1>7 DEF Warranted, Applies
<1> QED BY <1>6, <1>7 DEF Justified

LEMMA SpawnNewJustified ==
    ASSUME IInv, NEW r \in Reconcilers, DueAt(r), SpawnNew(r)
    PROVE  Justified(r)
<1> DEFINE plan == rec[r].plan
<1>1. Applies(r) /\ rec[r].pc = "apply" /\ TypeOK
  BY DEF SpawnNew, Applies, Applying, IInv
<1>2. plan \in Plan /\ PlanFresh(plan) /\ plan.spawn \subseteq Ids
  BY <1>1, Planned
<1>3. PICK i \in plan.spawn :
        /\ SpawnOne(i, plan.desired[i]) \/ SpawnFails(i, plan.desired[i])
        /\ Goto(r, [pc |-> "apply", plan |-> [plan EXCEPT !.spawn = @ \ {i}]])
  BY DEF SpawnNew
<1> DEFINE rest == [plan EXCEPT !.spawn = @ \ {i}]
           x == [pc |-> "apply", plan |-> rest]
<1>4. i \in Ids /\ ~IsRunning(i) /\ i \notin plan.restart
  BY <1>2 DEF PlanFresh
<1>5. rest.desired = plan.desired /\ rest.remove = plan.remove /\ rest.restart = plan.restart
  BY <1>2 DEF Plan
<1>6. rec'[r] = x
  BY <1>1, <1>3, Moved
<1> HIDE DEF rest
<1>7. x.plan = rest /\ x.pc = "apply"
  OBVIOUS
<1> HIDE DEF x
<1>8. \A j \in Ids : running'[j] = running[j] \/ (j = i /\ running'[j].spec = plan.desired[i])
  BY <1>1, <1>3, <1>4, Spawned
<1>9. DueAt(r)'
  BY <1>1, <1>4, <1>5, <1>6, <1>7, <1>8, StaysDue
<1>10. ASSUME NEW j \in Ids, running'[j] # running[j] PROVE Warranted(r, j)
  BY <1>1, <1>4, <1>8, <1>10 DEF Warranted, Applies
<1> QED BY <1>9, <1>10 DEF Justified

LEMMA RegisterAliasesJustified ==
    ASSUME IInv, NEW r \in Reconcilers, RegisterAliases(r)
    PROVE  Justified(r)
<1>1. rec'[r] = Idle /\ running' = running
  BY Moved DEF RegisterAliases, IInv, spawned
<1> QED BY <1>1, Nowhere DEF Idle, Applying

-----------------------------------------------------------------------------
(* All plans stay due.                                                     *)

(* A reconciler that does not move keeps its plan, which stays due while   *)
(* the map is as it was.                                                   *)
LEMMA OthersDue ==
    ASSUME NEW q \in Reconcilers, DueAt(q), rec'[q] = rec[q],
           ~Applies(q) \/ running' = running
    PROVE  DueAt(q)'
<1>1. CASE ~Applies(q)
  BY <1>1 DEF DueAt, Applies, Applying
<1>2. CASE running' = running
  BY <1>2 DEF DueAt, Applies, PlanDue, IsRunning
<1> QED BY <1>1, <1>2

LEMMA ReconcileJustified ==
    ASSUME IInv, NEW r \in Reconcilers, DueAt(r), Fetch(r) \/ Reconcile(r)
    PROVE  Justified(r)
<1>1. CASE Fetch(r) \/ Persist(r) \/ ReadBack(r)
  <2>1. running' = running /\ rec'[r].pc \in {"fetched", "persisted", "resolved"}
    BY <1>1, ListStep DEF IInv
  <2> QED BY <2>1, Nowhere DEF Applying
<1>2. CASE RemovedStopped(r) \/ ChangedStopped(r)
  BY <1>2, StoppedJustified
<1>3. CASE Diff(r) \/ ShutdownRemoved(r) \/ ShutdownChanged(r)
  BY <1>3, DiffJustified, ShutdownRemovedJustified, ShutdownChangedJustified
<1>4. CASE Respawn(r) \/ SpawnNew(r) \/ RegisterAliases(r)
  BY <1>4, RespawnJustified, SpawnNewJustified, RegisterAliasesJustified
<1> QED BY <1>1, <1>2, <1>3, <1>4 DEF Reconcile

(* Only the holder of the lock touches the map: a reconciler that does is  *)
(* the one whose plan is applied.                                          *)
LEMMA ReconcileDue ==
    ASSUME IInv, PlansDue, NEW r \in Reconcilers, Fetch(r) \/ Reconcile(r)
    PROVE  /\ PlansDue'
           /\ \A i \in Ids : running'[i] # running[i] => Warranted(r, i)
<1>1. Justified(r) /\ OthersStay(r)
  BY ReconcileJustified, OneMoves DEF PlansDue, IInv
<1>2. Applies(r) \/ running' = running
  <2>1. CASE Fetch(r) \/ Persist(r) \/ ReadBack(r)
    BY <2>1, ListStep DEF IInv
  <2>2. CASE Diff(r)
    BY <2>2 DEF Diff, spawned
  <2>3. CASE ShutdownRemoved(r) \/ RemovedStopped(r) \/ ShutdownChanged(r) \/ ChangedStopped(r)
    BY <2>3 DEF ShutdownRemoved, RemovedStopped, ShutdownChanged, ChangedStopped, Applies, Applying
  <2>4. CASE Respawn(r) \/ SpawnNew(r) \/ RegisterAliases(r)
    BY <2>4 DEF Respawn, SpawnNew, RegisterAliases, Applies, Applying
  <2> QED BY <2>1, <2>2, <2>3, <2>4 DEF Reconcile
<1>3. ASSUME NEW q \in Reconcilers, q # r PROVE DueAt(q)'
  <2>1. ~Applies(q) \/ running' = running
    BY <1>2, <1>3 DEF IInv, OneApplies
  <2> QED BY <1>1, <1>3, <2>1, OthersDue DEF OthersStay, PlansDue
<1>4. DueAt(r)'
  BY <1>1 DEF Justified
<1>5. PlansDue'
  BY <1>3, <1>4 DEF PlansDue
<1> QED BY <1>1, <1>5 DEF Justified

(* The tower and the tasks leave map and plans alone.                      *)
LEMMA OtherSteps ==
    ASSUME [Next]_vars, ~(\E r \in Reconcilers : Fetch(r) \/ Reconcile(r))
    PROVE  UNCHANGED <<running, rec>>
<1>1. ASSUME NEW p \in Public, AssignNodeAgent(p) \/ RevokeNodeAgent(p) \/ UpdateAgentProfile(p)
      PROVE  UNCHANGED <<running, rec>>
  BY <1>1 DEF AssignNodeAgent, RevokeNodeAgent, UpdateAgentProfile, Changed, spawned
<1>2. ASSUME NEW n \in TaskSlots, TaskStep(n) \/ Cancelled(n)
      PROVE  UNCHANGED <<running, rec>>
  BY <1>2 DEF TaskStep, Register, SessionEnds, Unregister, Cancelled
<1>3. CASE UNCHANGED vars
  BY <1>3 DEF vars
<1> QED BY <1>1, <1>2, <1>3 DEF Next

LEMMA InitDue == Init => PlansDue
<1> SUFFICES ASSUME Init, NEW r \in Reconcilers PROVE DueAt(r)
  BY DEF PlansDue
<1>1. rec[r].pc \in {"resolved", "idle"}
  BY DEF Init, Idle
<1> QED BY <1>1 DEF DueAt, Applies, Applying

LEMMA StepDue == IInv /\ PlansDue /\ [Next]_vars => PlansDue'
<1> SUFFICES ASSUME IInv, PlansDue, [Next]_vars PROVE PlansDue'
  OBVIOUS
<1>1. CASE \E r \in Reconcilers : Fetch(r) \/ Reconcile(r)
  BY <1>1, ReconcileDue
<1>2. CASE ~(\E r \in Reconcilers : Fetch(r) \/ Reconcile(r))
  <2>1. UNCHANGED <<running, rec>>
    BY <1>2, OtherSteps
  <2> QED BY <2>1, OthersDue DEF PlansDue
<1> QED BY <1>1, <1>2

-----------------------------------------------------------------------------
(* The theorems.                                                           *)

(* What a plan has yet to do stays due, from diff_specs to the release of  *)
(* the running lock: an agent it will remove is one its list leaves out,   *)
(* an agent it will restart still runs as its list does not want it, and   *)
(* none is restarted twice.                                                *)
THEOREM PlansStayDue == Spec => []PlansDue
<1> QED BY InitDue, StepDue, ReconcileInvariance, PTL DEF Spec

(* The running map changes only in the hands of the holder of its lock,    *)
(* and only for a reason that still holds at that moment, however many     *)
(* awaits, shutdowns and failed spawns lie between diff and change.        *)
THEOREM WarrantedSafe == Spec => ChangesWarranted
<1>1. IInv /\ PlansDue /\ [Next]_vars
        => [\A i \in Ids : running'[i] # running[i] =>
              \E r \in Reconcilers :
                 /\ rec[r].pc \in Applying
                 /\ \/ IsRunning(i) /\ running'[i] = NotRunning /\ Unwanted(i, rec[r].plan.desired)
                    \/ ~IsRunning(i) /\ running'[i].spec = rec[r].plan.desired[i]]_vars
  <2> SUFFICES ASSUME IInv, PlansDue, [Next]_vars, NEW i \in Ids, running'[i] # running[i]
               PROVE  \E r \in Reconcilers : Warranted(r, i)
    BY DEF Warranted
  <2>1. PICK r \in Reconcilers : Fetch(r) \/ Reconcile(r)
    BY OtherSteps
  <2> QED BY <2>1, ReconcileDue
<1> QED BY <1>1, PlansStayDue, ReconcileInvariance, PTL DEF Spec, ChangesWarranted
=============================================================================
