------------------------ MODULE AgentReconcileProofs ------------------------
(* Proofs of the safety properties of AgentReconcile, for any number of    *)
(* agents, launch contexts, tokio tasks, changes and failures.             *)
EXTENDS AgentReconcile, TLAPS

-----------------------------------------------------------------------------
(* The inductive invariant.                                                *)

Applies(r) == rec[r].pc \in Applying
Stops(r) == rec[r].pc \in {"stop_removed", "stop_changed"}

(* The tasks that may touch the registry: not a task loop.                 *)
Session(n) == tasks[n].pc \notin {"free", "loop", "orphan"}

(* Only an agent of the tower stands for another: the alias of a spec is   *)
(* set by merge_federated_overrides alone.                                 *)
Unaliased(specs) == \A l \in Local : specs[l] # NoSpec => specs[l].alias = NoId
SpecsFederated ==
    /\ Unaliased(assigned)
    /\ Unaliased(db)
    /\ \A r \in Reconcilers :
         /\ rec[r].pc \in {"fetched", "persisted"} => Unaliased(rec[r].specs)
         /\ rec[r].pc = "resolved" => Unaliased(rec[r].desired)
         /\ Applies(r) => Unaliased(rec[r].plan.desired)

(* The running lock has one holder.                                        *)
OneApplies == \A q, r \in Reconcilers : Applies(q) /\ Applies(r) => q = r

(* A plan stays true while it is applied: what it will spawn does not run, *)
(* nor does the agent it has just shut down.                               *)
PlanFresh(plan) ==
    /\ plan.spawn \cup plan.restart \cup plan.register \subseteq Listed(plan.desired)
    /\ plan.spawn \cap plan.restart = {}
    /\ \A i \in plan.spawn : ~IsRunning(i)
FreshAt(r) ==
    /\ Applies(r) => PlanFresh(rec[r].plan)
    /\ Applies(r) /\ rec[r].pc # "apply" => ~IsRunning(rec[r].id)
    /\ rec[r].pc \in {"stop_changed", "respawn"} =>
         /\ rec[r].id \in Listed(rec[r].plan.desired)
         /\ rec[r].id \notin rec[r].plan.spawn
PlansFresh == \A r \in Reconcilers : FreshAt(r)

(* An entry of the running map holds a task of its own agent.              *)
MapHoldsOwn ==
    \A i \in Ids : running[i].task \in TaskSlots =>
        LET n == running[i].task IN
        tasks[n].pc # "free" /\ tasks[n].agent = i /\ ~tasks[n].aborted

(* A session is in the map, or the reconciler that took it out waits for   *)
(* it.                                                                     *)
Awaited(n) ==
    \E r \in Reconcilers : Stops(r) /\ rec[r].task = n /\ rec[r].id = tasks[n].agent
SessionsAccounted ==
    \A n \in TaskSlots : Session(n) =>
        \/ running[tasks[n].agent].task = n
        \/ tasks[n].aborted /\ Awaited(n)

(* A session being pumped has its endpoints in the registry.               *)
UpRegistered ==
    \A n \in TaskSlots : tasks[n].pc = "up" => endpoints[tasks[n].agent] = n

IInv ==
    /\ TypeOK /\ SpecsFederated
    /\ OneApplies /\ PlansFresh
    /\ MapHoldsOwn /\ SessionsAccounted
    /\ UpRegistered
-----------------------------------------------------------------------------
(* Shapes: what the program counters say of the records.                   *)

LEMMA ReconcilerShape ==
    ASSUME NEW x \in Reconciler
    PROVE  /\ x.pc \in {"fetched", "persisted"} => x.specs \in Specs
           /\ x.pc = "resolved" => x.desired \in Specs
           /\ x.pc \in Applying => x.plan \in Plan
           /\ x.pc \in Applying \ {"apply"} => x.id \in Ids
           /\ x.pc \in {"stop_removed", "stop_changed"} => x.task \in 0 .. MaxTasks
  BY DEF Reconciler, Applying, Idle

LEMMA TaskShape ==
    ASSUME TypeOK, NEW n \in TaskSlots
    PROVE  /\ tasks[n] \in Task \cup {Free}
           /\ tasks[n].pc # "free" <=> tasks[n] \in Task
           /\ tasks[n].pc = "free" <=> tasks[n] = Free
<1>1. tasks[n] \in Task \cup {Free}
  BY DEF TypeOK
<1> QED BY <1>1 DEF Task, Free

LEMMA RunningShape ==
    ASSUME TypeOK, NEW i \in Ids
    PROVE  /\ IsRunning(i) => running[i] \in [spec : Spec0, task : 0 .. MaxTasks]
           /\ ~IsRunning(i) => running[i].task \notin TaskSlots
           /\ running[i].task \in 0 .. MaxTasks
<1>1. running[i] \in [spec : Spec0, task : 0 .. MaxTasks] \cup {NotRunning}
  BY DEF TypeOK
<1>2. 0 \in 0 .. MaxTasks /\ 0 \notin TaskSlots
  BY ReconcileBounds DEF TaskSlots
<1> QED BY <1>1, <1>2 DEF IsRunning, NotRunning, NoTask

LEMMA NoSpecShape == NoSpec \notin Spec0
  BY DEF NoSpec, Spec0, Kinds

LEMMA SpecShape ==
    ASSUME NEW specs \in Specs, NEW i \in Ids
    PROVE  /\ specs[i] \in Spec0 \cup {NoSpec}
           /\ specs[i] \in Spec0 <=> specs[i] # NoSpec
           /\ specs[i].kind # "none" => specs[i] \in Spec0
<1>1. specs[i] \in Spec0 \cup {NoSpec}
  BY DEF Specs
<1> QED BY <1>1, NoSpecShape DEF NoSpec

LEMMA LocalIds == Public \subseteq Ids /\ Local \subseteq Ids /\ NoId \notin Ids
  BY IdsAssumption DEF Ids

-----------------------------------------------------------------------------
(* What the registry, the merge and the diff make of a list.               *)

LEMMA StoredTyped ==
    ASSUME NEW specs \in Specs, Unaliased(specs)
    PROVE  Stored(specs) \in Specs /\ Unaliased(Stored(specs))
<1>1. \A i \in Ids : specs[i] # NoSpec =>
        /\ [specs[i] EXCEPT !.webhook = FALSE] \in Spec0
        /\ [specs[i] EXCEPT !.webhook = FALSE].alias = specs[i].alias
  <2>1. \A x \in Spec0 : [x EXCEPT !.webhook = FALSE] \in Spec0
                        /\ [x EXCEPT !.webhook = FALSE].alias = x.alias
    BY DEF Spec0
  <2> QED BY <2>1, SpecShape
<1>2. Stored(specs) \in Specs
  BY <1>1 DEF Stored, Specs
<1>3. \A l \in Local : Stored(specs)[l] # NoSpec =>
        specs[l] # NoSpec /\ Stored(specs)[l].alias = specs[l].alias
  BY <1>1, LocalIds DEF Stored
<1> QED BY <1>2, <1>3 DEF Unaliased

LEMMA MergedTyped ==
    ASSUME NEW specs \in Specs, Unaliased(specs)
    PROVE  Merged(specs) \in Specs /\ Unaliased(Merged(specs))
<1>1. \A i \in Ids : specs[i].kind = "zellij" => specs[i] \in Spec0
  BY SpecShape
<1>2. \A i \in Public : Alias[i] \in Local \cup {NoId}
  BY IdsAssumption
<1>3. \A i \in Ids : specs[i].kind = "zellij" /\ i \in Public =>
        [specs[i] EXCEPT !.alias = Alias[i], !.bridge = TRUE] \in Spec0
  <2>1. \A x \in Spec0, a \in Local \cup {NoId} : [x EXCEPT !.alias = a, !.bridge = TRUE] \in Spec0
    BY DEF Spec0
  <2> QED BY <1>1, <1>2, <2>1
<1>4. Merged(specs) \in Specs
  BY <1>3 DEF Merged, Specs
<1>5. \A l \in Local : Merged(specs)[l] = specs[l]
  BY LocalIds, IdsAssumption DEF Merged
<1> QED BY <1>4, <1>5 DEF Unaliased

LEMMA BootTyped ==
    ASSUME NEW specs \in Specs, Unaliased(specs)
    PROVE  BootSpecs(specs) \in Specs /\ Unaliased(BootSpecs(specs))
<1> DEFINE merged == Merged(specs)
<1>1. merged \in Specs /\ Unaliased(merged)
  BY MergedTyped
<1>2. \A l \in Local : LocalSpec[l] \in Spec0 /\ LocalSpec[l].alias = NoId
  BY SpecsAssumption
<1>3. BootSpecs(specs) =
        [i \in Ids |-> IF i \in Local /\ ~Covers(merged, i) THEN LocalSpec[i] ELSE merged[i]]
  BY DEF BootSpecs
<1> HIDE DEF merged
<1>4. BootSpecs(specs) \in Specs
  BY <1>1, <1>2, <1>3 DEF Specs
<1>5. \A l \in Local : BootSpecs(specs)[l] \in {LocalSpec[l], merged[l]}
  BY <1>3, LocalIds
<1> QED BY <1>1, <1>2, <1>4, <1>5 DEF Unaliased

(* A diff spawns only what does not run and restarts only what does; only  *)
(* an agent of the tower is given an alias.                                *)
LEMMA DiffTyped ==
    ASSUME TypeOK, NEW desired \in Specs, Unaliased(desired)
    PROVE  /\ DiffSpecs(desired) \in Plan /\ DiffSpecs(desired).desired = desired
           /\ PlanFresh(DiffSpecs(desired))
<1> DEFINE plan == DiffSpecs(desired)
<1>1. \A i \in Ids : IsRunning(i) => RunsAs(desired, i) # NoId
  BY LocalIds DEF RunsAs
<1>2. \A i \in Listed(desired) : ~IsRunning(i) /\ Unchanged(desired, i) => i \in Public
  <2> SUFFICES ASSUME NEW i \in Listed(desired), ~IsRunning(i), Unchanged(desired, i)
               PROVE  i \in Public
    OBVIOUS
  <2>1. i \in Ids /\ desired[i] # NoSpec
    BY DEF Listed
  <2>2. desired[i].alias # NoId
    BY DEF Unchanged, RunsAs
  <2> QED BY <2>1, <2>2 DEF Unaliased, Ids
<1>3. Listed(desired) \subseteq Ids
  BY DEF Listed
<1>4. AliasRegistrations(desired) \subseteq Public
  BY <1>2 DEF AliasRegistrations
<1>5. plan \in Plan /\ plan.desired = desired
  BY <1>3, <1>4 DEF DiffSpecs, Plan
<1>6. PlanFresh(plan)
  <2>1. plan.spawn = {i \in Listed(desired) : RunsAs(desired, i) = NoId}
        /\ plan.restart = {i \in Listed(desired) : RunsAs(desired, i) # NoId /\ ~Unchanged(desired, i)}
        /\ plan.register \subseteq Listed(desired)
    BY DEF DiffSpecs, AliasRegistrations
  <2> QED BY <1>1, <1>3, <1>5, <2>1 DEF PlanFresh
<1> QED BY <1>5, <1>6

-----------------------------------------------------------------------------
(* The invariant holds initially and gives the properties.                 *)

LEMMA InitIInv == Init => IInv
<1> SUFFICES ASSUME Init PROVE IInv
  OBVIOUS
<1>1. assigned \in Specs /\ Unaliased(assigned)
  <2>1. UNION {Offers[p] : p \in Public} \subseteq Spec0
    BY SpecsAssumption
  <2>2. assigned \in [Ids -> (UNION {Offers[p] : p \in Public}) \cup {NoSpec}]
        /\ \A i \in Listed(assigned) : i \in Public
    BY DEF Init
  <2>3. assigned \in Specs
    BY <2>1, <2>2 DEF Specs
  <2>4. \A l \in Local : assigned[l] = NoSpec
    BY <2>2, IdsAssumption, LocalIds DEF Listed
  <2> QED BY <2>3, <2>4 DEF Unaliased
<1>2. Nothing \in Specs /\ Unaliased(Nothing)
  BY LocalIds DEF Nothing, Specs, Unaliased
<1>3. PICK fetched \in {assigned, Nothing} :
        rec = [r \in Reconcilers |-> IF r = "boot"
                                     THEN [pc |-> "resolved", desired |-> BootSpecs(fetched)]
                                     ELSE Idle]
  BY DEF Init
<1>4. BootSpecs(fetched) \in Specs /\ Unaliased(BootSpecs(fetched))
  BY <1>1, <1>2, BootTyped
<1>5. \A r \in Reconcilers :
        /\ rec[r] \in Reconciler
        /\ ~Applies(r)
        /\ rec[r].pc \in {"resolved", "idle"}
        /\ rec[r].pc = "resolved" => rec[r].desired = BootSpecs(fetched)
  BY <1>3, <1>4 DEF Reconciler, Applies, Applying, Idle
<1>6. TypeOK
  <2>1. rec \in [Reconcilers -> Reconciler]
    BY <1>3, <1>5
  <2> QED BY <1>1, <1>2, <2>1, ReconcileBounds
       DEF Init, TypeOK, NoTask, Dead, TaskSlots, Specs
<1>7. SpecsFederated
  BY <1>1, <1>2, <1>4, <1>5 DEF SpecsFederated, Init
<1>8. OneApplies /\ PlansFresh
  BY <1>5 DEF OneApplies, PlansFresh, FreshAt, Applies, Applying
<1>9. MapHoldsOwn /\ SessionsAccounted /\ UpRegistered
  BY DEF Init, MapHoldsOwn, SessionsAccounted, UpRegistered, NotRunning, Free, NoTask, TaskSlots, Session
<1> QED BY <1>6, <1>7, <1>8, <1>9 DEF IInv

(* An agent has one session: of two, both are in the map, or the one that  *)
(* is awaited keeps the other from being spawned.                          *)
LEMMA OneSession ==
    ASSUME IInv, NEW m \in TaskSlots, NEW n \in TaskSlots,
           Session(m), Session(n), tasks[m].agent = tasks[n].agent
    PROVE  m = n
<1> DEFINE i == tasks[n].agent
<1>1. i \in Ids
  BY TaskShape DEF Session, IInv, Task
<1>2. \A k \in TaskSlots : Awaited(k) /\ tasks[k].agent = i => running[i].task \notin TaskSlots
  <2> SUFFICES ASSUME NEW k \in TaskSlots, Awaited(k), tasks[k].agent = i
               PROVE  running[i].task \notin TaskSlots
    OBVIOUS
  <2>1. PICK r \in Reconcilers : Stops(r) /\ rec[r].id = i
    BY DEF Awaited
  <2>2. ~IsRunning(i)
    BY <2>1 DEF IInv, PlansFresh, FreshAt, Stops, Applies, Applying
  <2> QED BY <1>1, <2>2, RunningShape DEF IInv
<1>3. Awaited(m) /\ Awaited(n) => m = n
  BY DEF Awaited, IInv, OneApplies, Applies, Applying, Stops
<1> QED BY <1>2, <1>3 DEF IInv, SessionsAccounted

LEMMA InvHeld == IInv => SessionsHeld
  BY DEF IInv, SessionsHeld, SessionsAccounted, Session

LEMMA InvReachable == IInv => LiveSessionReachable
<1> SUFFICES ASSUME IInv, NEW n \in TaskSlots, tasks[n].pc = "up"
             PROVE  Get(tasks[n].agent) = n
  BY DEF LiveSessionReachable
<1>1. endpoints[tasks[n].agent] = n /\ n # NoTask
  BY ReconcileBounds DEF IInv, UpRegistered, NoTask, TaskSlots
<1> QED BY <1>1 DEF Get

-----------------------------------------------------------------------------
(* Types are preserved, and lists stay free of local aliases.              *)

LEMMA GotoTyped ==
    ASSUME TypeOK, NEW r \in Reconcilers, NEW x \in Reconciler, Goto(r, x)
    PROVE  /\ rec' \in [Reconcilers -> Reconciler]
           /\ rec'[r] = x
           /\ \A q \in Reconcilers \ {r} : rec'[q] = rec[q]
  BY DEF TypeOK, Goto

(* The reconciler that moves keeps a list in which no local agent has an   *)
(* alias; the others keep what they had.                                   *)
Carries(x) ==
    /\ x.pc \in {"fetched", "persisted"} => Unaliased(x.specs)
    /\ x.pc = "resolved" => Unaliased(x.desired)
    /\ x.pc \in Applying => Unaliased(x.plan.desired)

LEMMA GotoFederated ==
    ASSUME TypeOK, SpecsFederated, NEW r \in Reconcilers, NEW x \in Reconciler, Goto(r, x),
           Carries(x), UNCHANGED assigned, Unaliased(db)'
    PROVE  SpecsFederated'
<1>1. \A q \in Reconcilers : rec'[q] = x \/ rec'[q] = rec[q]
  BY GotoTyped
<1>2. \A q \in Reconcilers : Carries(rec[q])
  BY DEF SpecsFederated, Carries, Applies
<1>3. Unaliased(assigned')
  BY DEF SpecsFederated
<1> QED BY <1>1, <1>2, <1>3 DEF SpecsFederated, Carries, Applies, Unaliased

LEMMA AbortTyped ==
    ASSUME TypeOK, NEW i \in Ids, Abort(i)
    PROVE  tasks' \in [TaskSlots -> Task \cup {Free}]
<1> SUFFICES ASSUME NEW n \in TaskSlots PROVE tasks'[n] \in Task \cup {Free}
  BY DEF Abort
<1>1. tasks'[n] = tasks[n] \/ tasks'[n] = [tasks[n] EXCEPT !.aborted = TRUE]
  BY DEF Abort
<1>2. tasks[n] \in Task \cup {Free}
  BY TaskShape
<1>3. \A x \in Task : [x EXCEPT !.aborted = TRUE] \in Task
  BY DEF Task
<1>4. [Free EXCEPT !.aborted = TRUE] = Free
  BY DEF Free
<1> QED BY <1>1, <1>2, <1>3, <1>4

(* spawn_one, successful.                                                  *)
LEMMA SpawnEffect ==
    ASSUME TypeOK, NEW i \in Ids, NEW spec \in Spec0, SpawnOne(i, spec)
    PROVE  \E n \in 0 .. MaxTasks :
             /\ n \in TaskSlots => tasks[n] = Free
             /\ running' = [running EXCEPT ![i] = [spec |-> spec, task |-> n]]
             /\ tasks' = [m \in TaskSlots |-> IF m = n
                            THEN [agent |-> i, aborted |-> FALSE, pc |-> FirstPc(spec)]
                            ELSE tasks[m]]
             /\ runtime_map' \subseteq Ids /\ supervised' \subseteq Ids
             /\ UNCHANGED failures
<1> DEFINE free == {n \in TaskSlots : tasks[n] = Free}
           n == IF Owned(spec) THEN CHOOSE m \in free : TRUE ELSE NoTask
<1>1. Owned(spec) => free # {}
  BY DEF SpawnOne
<1>2. n \in 0 .. MaxTasks /\ (n \in TaskSlots => tasks[n] = Free)
  BY <1>1, ReconcileBounds DEF TaskSlots, NoTask
<1>3. runtime_map' \subseteq Ids /\ supervised' \subseteq Ids
  BY DEF SpawnOne, TypeOK
<1> QED BY <1>2, <1>3 DEF SpawnOne

LEMMA SpawnTyped ==
    ASSUME TypeOK, NEW i \in Ids, NEW spec \in Spec0, SpawnOne(i, spec) \/ SpawnFails(i, spec)
    PROVE  /\ running' \in [Ids -> [spec : Spec0, task : 0 .. MaxTasks] \cup {NotRunning}]
           /\ tasks' \in [TaskSlots -> Task \cup {Free}]
           /\ runtime_map' \subseteq Ids /\ supervised' \subseteq Ids
           /\ failures' \in 0 .. MaxFailures
<1>1. CASE SpawnOne(i, spec)
  <2>1. PICK n \in 0 .. MaxTasks :
             /\ running' = [running EXCEPT ![i] = [spec |-> spec, task |-> n]]
             /\ tasks' = [m \in TaskSlots |-> IF m = n
                            THEN [agent |-> i, aborted |-> FALSE, pc |-> FirstPc(spec)]
                            ELSE tasks[m]]
             /\ runtime_map' \subseteq Ids /\ supervised' \subseteq Ids
             /\ UNCHANGED failures
    BY <1>1, SpawnEffect
  <2>2. [agent |-> i, aborted |-> FALSE, pc |-> FirstPc(spec)] \in Task
    BY DEF Task, FirstPc
  <2>3. [spec |-> spec, task |-> n] \in [spec : Spec0, task : 0 .. MaxTasks]
    OBVIOUS
  <2> QED BY <2>1, <2>2, <2>3 DEF TypeOK
<1>2. CASE SpawnFails(i, spec)
  BY <1>2, ReconcileBounds DEF SpawnFails, TypeOK
<1> QED BY <1>1, <1>2

LEMMA ChangedStep ==
    ASSUME TypeOK, SpecsFederated, NEW p \in Public, NEW spec \in Spec0 \cup {NoSpec}, Changed(p, spec)
    PROVE  TypeOK' /\ SpecsFederated'
<1>1. assigned' \in Specs
  BY DEF Changed, TypeOK, Specs
<1>2. changes' \in 0 .. MaxChanges
  BY ReconcileBounds DEF Changed, TypeOK
<1>3. TypeOK'
  BY <1>1, <1>2 DEF Changed, TypeOK, spawned, registries
<1>4. \A l \in Local : assigned'[l] = assigned[l]
  BY IdsAssumption, LocalIds DEF Changed, TypeOK, Specs
<1>5. SpecsFederated'
  BY <1>4 DEF Changed, SpecsFederated, Unaliased, Applies
<1> QED BY <1>3, <1>5

LEMMA TowerStep ==
    ASSUME TypeOK, SpecsFederated, NEW p \in Public,
           AssignNodeAgent(p) \/ RevokeNodeAgent(p) \/ UpdateAgentProfile(p)
    PROVE  TypeOK' /\ SpecsFederated'
<1>1. Offers[p] \subseteq Spec0
  BY SpecsAssumption
<1>2. \E s \in Spec0 \cup {NoSpec} : Changed(p, s)
  BY <1>1 DEF AssignNodeAgent, RevokeNodeAgent, UpdateAgentProfile
<1> QED BY <1>2, ChangedStep

(* A plan, and a plan with less left to do.                                *)
LEMMA PlanShape ==
    ASSUME TypeOK, SpecsFederated, PlansFresh, NEW r \in Reconcilers, Applies(r)
    PROVE  /\ rec[r].plan \in Plan
           /\ rec[r].plan.desired \in Specs /\ Unaliased(rec[r].plan.desired)
           /\ \A i \in rec[r].plan.spawn \cup rec[r].plan.restart :
                i \in Ids /\ rec[r].plan.desired[i] \in Spec0
<1>1. rec[r].plan \in Plan
  BY ReconcilerShape DEF TypeOK, Applies
<1>2. rec[r].plan.desired \in Specs
  BY <1>1 DEF Plan
<1>3. \A i \in rec[r].plan.spawn \cup rec[r].plan.restart :
        i \in Ids /\ rec[r].plan.desired[i] # NoSpec
  BY DEF PlansFresh, FreshAt, PlanFresh, Listed
<1>4. \A i \in Ids : rec[r].plan.desired[i] # NoSpec => rec[r].plan.desired[i] \in Spec0
  BY <1>2, SpecShape
<1> QED BY <1>1, <1>2, <1>3, <1>4 DEF SpecsFederated

LEMMA FewerToRemove ==
    ASSUME NEW plan \in Plan, NEW i
    PROVE  /\ [plan EXCEPT !.remove = @ \ {i}] \in Plan
           /\ [plan EXCEPT !.remove = @ \ {i}].desired = plan.desired
           /\ [plan EXCEPT !.remove = @ \ {i}].register = plan.register
           /\ [plan EXCEPT !.remove = @ \ {i}].spawn = plan.spawn
           /\ [plan EXCEPT !.remove = @ \ {i}].restart = plan.restart
  BY DEF Plan

LEMMA FewerToRestart ==
    ASSUME NEW plan \in Plan, NEW i
    PROVE  /\ [plan EXCEPT !.restart = @ \ {i}] \in Plan
           /\ [plan EXCEPT !.restart = @ \ {i}].desired = plan.desired
           /\ [plan EXCEPT !.restart = @ \ {i}].register = plan.register
           /\ [plan EXCEPT !.restart = @ \ {i}].spawn = plan.spawn
           /\ [plan EXCEPT !.restart = @ \ {i}].restart = plan.restart \ {i}
  BY DEF Plan

LEMMA FewerToSpawn ==
    ASSUME NEW plan \in Plan, NEW i
    PROVE  /\ [plan EXCEPT !.spawn = @ \ {i}] \in Plan
           /\ [plan EXCEPT !.spawn = @ \ {i}].desired = plan.desired
           /\ [plan EXCEPT !.spawn = @ \ {i}].register = plan.register
           /\ [plan EXCEPT !.spawn = @ \ {i}].spawn = plan.spawn \ {i}
           /\ [plan EXCEPT !.spawn = @ \ {i}].restart = plan.restart
  BY DEF Plan

(* Fetch, persist and read back; nothing but the lists changes.            *)
LEMMA ListStep ==
    ASSUME TypeOK, SpecsFederated, NEW r \in Reconcilers, Fetch(r) \/ Persist(r) \/ ReadBack(r)
    PROVE  /\ TypeOK' /\ SpecsFederated'
           /\ UNCHANGED <<running, tasks, endpoints>>
           /\ rec' = [rec EXCEPT ![r] = rec'[r]] /\ rec'[r].pc \in {"fetched", "persisted", "resolved"}
           /\ ~Applies(r)
<1> DEFINE x == rec'[r]
<1>0. rec[r] \in Reconciler
  BY DEF TypeOK
<1>1. /\ x \in Reconciler /\ Carries(x) /\ Goto(r, x)
      /\ x.pc \in {"fetched", "persisted", "resolved"}
      /\ db' \in Specs /\ Unaliased(db') /\ failures' \in 0 .. MaxFailures
      /\ UNCHANGED <<assigned, spawned, registries, changes>>
      /\ ~Applies(r)
  <2>1. CASE Fetch(r)
    <3>1. assigned \in Specs /\ Unaliased(assigned)
      BY DEF TypeOK, SpecsFederated
    <3>2. x = [pc |-> "fetched", specs |-> assigned]
      BY <2>1 DEF Fetch, Goto, TypeOK
    <3>3. x \in Reconciler /\ Carries(x)
      BY <3>1, <3>2 DEF Reconciler, Carries, Applying
    <3>4. ~Applies(r)
      BY <2>1 DEF Fetch, Idle, Applies, Applying
    <3> QED BY <2>1, <3>2, <3>3, <3>4 DEF Fetch, TypeOK, SpecsFederated, Unaliased
  <2>2. CASE Persist(r)
    <3> DEFINE specs == rec[r].specs
    <3>1. specs \in Specs /\ Unaliased(specs)
      BY <1>0, <2>2, ReconcilerShape DEF Persist, SpecsFederated
    <3>2. Stored(specs) \in Specs /\ Unaliased(Stored(specs))
      BY <3>1, StoredTyped
    <3>3. ~Applies(r)
      BY <2>2 DEF Persist, Applies, Applying
    <3>4. \/ x = [pc |-> "persisted", specs |-> specs]
          \/ x = [pc |-> "resolved", desired |-> specs]
      BY <2>2 DEF Persist, Goto, TypeOK
    <3>5. x \in Reconciler /\ Carries(x) /\ x.pc \in {"persisted", "resolved"}
      BY <3>1, <3>4 DEF Reconciler, Carries, Applying
    <3>6. db' \in {db, Stored(specs)} /\ failures' \in 0 .. MaxFailures
      BY <2>2, ReconcileBounds DEF Persist, TypeOK
    <3>7. Unaliased(db') /\ db' \in Specs
      BY <3>2, <3>6 DEF TypeOK, SpecsFederated
    <3>8. Goto(r, x)
      BY <2>2, <3>4 DEF Persist, Goto, TypeOK
    <3> QED BY <2>2, <3>3, <3>5, <3>6, <3>7, <3>8 DEF Persist
  <2>3. CASE ReadBack(r)
    <3> DEFINE specs == rec[r].specs
    <3>1. specs \in Specs /\ Unaliased(specs)
      BY <1>0, <2>3, ReconcilerShape DEF ReadBack, SpecsFederated
    <3>2. db \in Specs /\ Unaliased(db) /\ Merged(db) \in Specs /\ Unaliased(Merged(db))
      BY MergedTyped DEF TypeOK, SpecsFederated
    <3>3. \E desired \in {Merged(db), specs, db} : Goto(r, [pc |-> "resolved", desired |-> desired])
      BY <2>3 DEF ReadBack
    <3>4. PICK desired \in {Merged(db), specs, db} : Goto(r, [pc |-> "resolved", desired |-> desired])
      BY <3>3
    <3>5. x = [pc |-> "resolved", desired |-> desired] /\ Goto(r, x)
      BY <3>4 DEF Goto, TypeOK
    <3>6. desired \in Specs /\ Unaliased(desired)
      BY <3>1, <3>2
    <3>7. x \in Reconciler /\ Carries(x)
      BY <3>5, <3>6 DEF Reconciler, Carries, Applying
    <3>8. failures' \in 0 .. MaxFailures
      BY <2>3, ReconcileBounds DEF ReadBack, TypeOK
    <3>9. db' = db /\ ~Applies(r)
      BY <2>3 DEF ReadBack, Applies, Applying
    <3> QED BY <2>3, <3>2, <3>5, <3>7, <3>8, <3>9 DEF ReadBack
  <2> QED BY <2>1, <2>2, <2>3
<1> HIDE DEF x
<1>2. rec' \in [Reconcilers -> Reconciler]
  BY <1>1, GotoTyped
<1>3. TypeOK'
  BY <1>1, <1>2 DEF TypeOK, spawned, registries
<1>4. SpecsFederated'
  BY <1>1, GotoFederated DEF Unaliased
<1> QED BY <1>1, <1>3, <1>4 DEF Goto, spawned, registries, x

-----------------------------------------------------------------------------
(* A step of the reconciler that holds the running lock, or takes it.      *)

(* The others do not apply a plan, so only the plan of r can go stale.     *)
LEMMA LockKept ==
    ASSUME OneApplies, NEW r \in Reconcilers, Applies(r) \/ RunningLockFree,
           \A q \in Reconcilers \ {r} : rec'[q] = rec[q], FreshAt(r)'
    PROVE  OneApplies' /\ PlansFresh'
<1>1. \A q \in Reconcilers \ {r} : ~Applies(q)
  BY DEF OneApplies, RunningLockFree, Applies
<1>2. \A q \in Reconcilers \ {r} : rec'[q].pc \notin Applying
  BY <1>1 DEF Applies
<1>3. OneApplies'
  BY <1>2 DEF OneApplies, Applies
<1>4. \A q \in Reconcilers \ {r} : FreshAt(q)'
  BY <1>2 DEF FreshAt, Applies, Applying
<1> QED BY <1>3, <1>4 DEF PlansFresh

(* What the lemmas below say of a step of r to the state x.                *)
Sound(r) == TypeOK' /\ SpecsFederated' /\ OneApplies' /\ PlansFresh'

LEMMA SoundStep ==
    ASSUME IInv, NEW r \in Reconcilers, Applies(r) \/ RunningLockFree,
           NEW x \in Reconciler, Goto(r, x), Carries(x), FreshAt(r)',
           UNCHANGED <<assigned, db, changes>>,
           running' \in [Ids -> [spec : Spec0, task : 0 .. MaxTasks] \cup {NotRunning}],
           tasks' \in [TaskSlots -> Task \cup {Free}],
           endpoints' \in [Ids -> 0 .. Dead],
           aliases' \in [Ids -> Ids \cup {NoId}],
           runtime_map' \subseteq Ids, supervised' \subseteq Ids,
           name_aliases' \in [Local -> Public \cup {NoId}],
           failures' \in 0 .. MaxFailures
    PROVE  Sound(r)
<1>1. /\ rec' \in [Reconcilers -> Reconciler]
      /\ \A q \in Reconcilers \ {r} : rec'[q] = rec[q]
  BY GotoTyped DEF IInv
<1>2. TypeOK'
  BY <1>1 DEF IInv, TypeOK
<1>3. SpecsFederated'
  BY GotoFederated DEF IInv, SpecsFederated, Unaliased
<1>4. OneApplies' /\ PlansFresh'
  BY <1>1, LockKept DEF IInv
<1> QED BY <1>2, <1>3, <1>4 DEF Sound

LEMMA DiffStep ==
    ASSUME IInv, NEW r \in Reconcilers, Diff(r)
    PROVE  Sound(r) /\ UNCHANGED <<running, tasks, endpoints>> /\ ~Stops(r)
<1> DEFINE plan == DiffSpecs(rec[r].desired)
           x == [pc |-> "apply", plan |-> plan]
<1>1. rec[r].desired \in Specs /\ Unaliased(rec[r].desired)
  BY ReconcilerShape DEF Diff, IInv, TypeOK, SpecsFederated
<1>2. plan \in Plan /\ plan.desired = rec[r].desired /\ PlanFresh(plan)
  BY <1>1, DiffTyped DEF IInv
<1>3. x \in Reconciler /\ Goto(r, x) /\ x.pc = "apply" /\ x.plan = plan
  BY <1>2 DEF Reconciler, Diff
<1>4. rec'[r] = x
  BY <1>3, GotoTyped DEF IInv
<1>5. UNCHANGED <<assigned, db, spawned, registries, changes, failures>> /\ RunningLockFree /\ ~Stops(r)
  BY DEF Diff, Stops
<1> HIDE DEF plan, x
<1>6. FreshAt(r)'
  BY <1>2, <1>3, <1>4, <1>5 DEF FreshAt, Applies, PlanFresh, IsRunning, spawned
<1>7. Carries(x)
  BY <1>1, <1>2, <1>3 DEF Carries, Applying
<1> QED BY <1>3, <1>5, <1>6, <1>7, SoundStep DEF IInv, TypeOK, spawned, registries

(* apply_plan takes i out of the map and aborts what it held.              *)
Takes(r, i) ==
    /\ Applies(r) /\ ~Stops(r)
    /\ running' = [running EXCEPT ![i] = NotRunning]
    /\ Abort(i)
    /\ Stops(r)' /\ rec'[r].id = i /\ rec'[r].task = running[i].task
    /\ UNCHANGED endpoints


LEMMA ShutdownRemovedStep ==
    ASSUME IInv, NEW r \in Reconcilers, ShutdownRemoved(r)
    PROVE  Sound(r) /\ \E i \in Ids : Takes(r, i)
<1> DEFINE plan == rec[r].plan
<1>1. Applies(r) /\ ~Stops(r) /\ rec[r].pc = "apply"
  BY DEF ShutdownRemoved, Applies, Applying, Stops
<1>2. plan \in Plan /\ Unaliased(plan.desired) /\ PlanFresh(plan)
  BY <1>1, PlanShape DEF IInv, PlansFresh, FreshAt
<1>3. PICK i \in plan.remove :
        /\ running' = [running EXCEPT ![i] = NotRunning]
        /\ Abort(i)
        /\ Goto(r, [pc |-> "stop_removed", plan |-> [plan EXCEPT !.remove = @ \ {i}],
                    id |-> i, task |-> running[i].task])
  BY DEF ShutdownRemoved
<1>4. i \in Ids
  BY <1>2 DEF Plan
<1> DEFINE rest == [plan EXCEPT !.remove = @ \ {i}]
           x == [pc |-> "stop_removed", plan |-> rest, id |-> i, task |-> running[i].task]
<1>5. /\ rest \in Plan /\ rest.desired = plan.desired
      /\ rest.spawn = plan.spawn /\ rest.restart = plan.restart /\ rest.register = plan.register
  BY <1>2, FewerToRemove
<1>6. running[i].task \in 0 .. MaxTasks
  BY <1>4, RunningShape DEF IInv
<1> HIDE DEF rest
<1>7. /\ x \in Reconciler /\ x.pc = "stop_removed"
      /\ x.plan = rest /\ x.id = i /\ x.task = running[i].task
  BY <1>4, <1>5, <1>6 DEF Reconciler
<1>8. Goto(r, x)
  BY <1>3 DEF rest
<1> HIDE DEF x, plan
<1>9. rec'[r] = x
  BY <1>7, <1>8, GotoTyped DEF IInv
<1>10. /\ running' \in [Ids -> [spec : Spec0, task : 0 .. MaxTasks] \cup {NotRunning}]
       /\ ~IsRunning(i)'
       /\ \A j \in Ids : ~IsRunning(j) => ~IsRunning(j)'
  BY <1>3, <1>4 DEF IInv, TypeOK, IsRunning
<1>11. /\ rest.spawn \cup rest.restart \cup rest.register \subseteq Listed(rest.desired)
       /\ rest.spawn \cap rest.restart = {}
       /\ \A j \in rest.spawn : j \in Ids /\ ~IsRunning(j)
  BY <1>2, <1>5 DEF PlanFresh, Listed
<1>12. FreshAt(r)'
  BY <1>7, <1>9, <1>10, <1>11 DEF FreshAt, Applies, PlanFresh, Listed
<1>13. Carries(x)
  BY <1>2, <1>5, <1>7 DEF Carries, Applying
<1>14. tasks' \in [TaskSlots -> Task \cup {Free}]
  BY <1>3, <1>4, AbortTyped DEF IInv
<1>15. /\ UNCHANGED <<assigned, db, runtime_map, supervised, name_aliases, registries, changes,
                      failures>>
  BY DEF ShutdownRemoved
<1>16. Sound(r)
  BY <1>1, <1>7, <1>8, <1>10, <1>12, <1>13, <1>14, <1>15, SoundStep DEF IInv, TypeOK, registries
<1>17. Takes(r, i)
  BY <1>1, <1>3, <1>7, <1>9, <1>15 DEF Takes, Stops, registries
<1> QED BY <1>4, <1>16, <1>17

(* A reconciler that waited finds its task gone.                           *)
Lets(r) ==
    /\ Applies(r) /\ Stops(r) /\ ~Stops(r)'
    /\ ShutdownDone(rec[r].task)
    /\ UNCHANGED <<running, tasks, endpoints>>

LEMMA RemovedStoppedStep ==
    ASSUME IInv, NEW r \in Reconcilers, RemovedStopped(r)
    PROVE  Sound(r) /\ Lets(r)
<1> DEFINE plan == rec[r].plan
           x == [pc |-> "apply", plan |-> plan]
<1>1. Applies(r) /\ Stops(r)
  BY DEF RemovedStopped, Applies, Applying, Stops
<1>2. plan \in Plan /\ Unaliased(plan.desired) /\ PlanFresh(plan)
  BY <1>1, PlanShape DEF IInv, PlansFresh, FreshAt
<1>3. x \in Reconciler /\ x.pc = "apply" /\ x.plan = plan /\ Goto(r, x)
  BY <1>2 DEF Reconciler, RemovedStopped
<1> HIDE DEF x, plan
<1>4. rec'[r] = x
  BY <1>3, GotoTyped DEF IInv
<1>5. /\ UNCHANGED <<assigned, db, running, tasks, supervised, name_aliases, registries, changes,
                     failures>>
      /\ runtime_map' \subseteq Ids /\ ShutdownDone(rec[r].task)
  BY DEF RemovedStopped, IInv, TypeOK
<1>6. FreshAt(r)'
  BY <1>2, <1>3, <1>4, <1>5 DEF FreshAt, Applies, PlanFresh, IsRunning
<1>7. Carries(x)
  BY <1>2, <1>3 DEF Carries, Applying
<1>8. Sound(r)
  BY <1>1, <1>3, <1>5, <1>6, <1>7, SoundStep DEF IInv, TypeOK, registries
<1> QED BY <1>1, <1>3, <1>4, <1>5, <1>8 DEF Lets, Stops, registries

LEMMA ChangedStoppedStep ==
    ASSUME IInv, NEW r \in Reconcilers, ChangedStopped(r)
    PROVE  Sound(r) /\ Lets(r)
<1> DEFINE plan == rec[r].plan
           x == [pc |-> "respawn", plan |-> plan, id |-> rec[r].id]
<1>1. Applies(r) /\ Stops(r) /\ rec[r].pc = "stop_changed"
  BY DEF ChangedStopped, Applies, Applying, Stops
<1>2. plan \in Plan /\ Unaliased(plan.desired) /\ PlanFresh(plan)
  BY <1>1, PlanShape DEF IInv, PlansFresh, FreshAt
<1>3. /\ rec[r].id \in Ids /\ ~IsRunning(rec[r].id)
      /\ rec[r].id \in Listed(plan.desired) /\ rec[r].id \notin plan.spawn
  BY <1>1, ReconcilerShape DEF IInv, TypeOK, PlansFresh, FreshAt, Applying
<1>4. x \in Reconciler /\ x.pc = "respawn" /\ x.plan = plan /\ x.id = rec[r].id /\ Goto(r, x)
  BY <1>2, <1>3 DEF Reconciler, ChangedStopped
<1> HIDE DEF x, plan
<1>5. rec'[r] = x
  BY <1>4, GotoTyped DEF IInv
<1>6. /\ UNCHANGED <<assigned, db, running, tasks, supervised, name_aliases, registries, changes,
                     failures>>
      /\ runtime_map' \subseteq Ids /\ ShutdownDone(rec[r].task)
  BY DEF ChangedStopped, IInv, TypeOK
<1>7. FreshAt(r)'
  BY <1>2, <1>3, <1>4, <1>5, <1>6 DEF FreshAt, Applies, PlanFresh, IsRunning, Listed
<1>8. Carries(x)
  BY <1>2, <1>4 DEF Carries, Applying
<1>9. Sound(r)
  BY <1>1, <1>4, <1>6, <1>7, <1>8, SoundStep DEF IInv, TypeOK, registries
<1> QED BY <1>1, <1>4, <1>5, <1>6, <1>9 DEF Lets, Stops, registries

(* A step that leaves the map and the tasks alone.                         *)
Keeps(r) == ~Stops(r) /\ ~Stops(r)' /\ UNCHANGED <<running, tasks, endpoints>>

LEMMA ShutdownChangedStep ==
    ASSUME IInv, NEW r \in Reconcilers, ShutdownChanged(r)
    PROVE  /\ Sound(r)
           /\ \/ \E i \in Ids : Takes(r, i)
              \/ Keeps(r)
<1> DEFINE plan == rec[r].plan
<1>1. Applies(r) /\ ~Stops(r) /\ rec[r].pc = "apply"
  BY DEF ShutdownChanged, Applies, Applying, Stops
<1>2. plan \in Plan /\ Unaliased(plan.desired) /\ PlanFresh(plan)
  BY <1>1, PlanShape DEF IInv, PlansFresh, FreshAt
<1>3. PICK i \in plan.restart :
        \/ /\ IsRunning(i)
           /\ running' = [running EXCEPT ![i] = NotRunning]
           /\ Abort(i)
           /\ Goto(r, [pc |-> "stop_changed", plan |-> [plan EXCEPT !.restart = @ \ {i}],
                       id |-> i, task |-> running[i].task])
        \/ /\ ~IsRunning(i)
           /\ Goto(r, [pc |-> "respawn", plan |-> [plan EXCEPT !.restart = @ \ {i}], id |-> i])
           /\ UNCHANGED <<running, tasks>>
  BY DEF ShutdownChanged
<1>4. i \in Ids /\ i \in Listed(plan.desired) /\ i \notin plan.spawn
  BY <1>2 DEF PlanFresh, Listed
<1> DEFINE rest == [plan EXCEPT !.restart = @ \ {i}]
<1>5. /\ rest \in Plan /\ rest.desired = plan.desired
      /\ rest.spawn = plan.spawn /\ rest.restart = plan.restart \ {i} /\ rest.register = plan.register
  BY <1>2, FewerToRestart
<1>6. running[i].task \in 0 .. MaxTasks
  BY <1>4, RunningShape DEF IInv
<1>7. UNCHANGED <<assigned, db, runtime_map, supervised, name_aliases, registries, changes, failures>>
  BY DEF ShutdownChanged
<1>8. /\ rest.spawn \cup rest.restart \cup rest.register \subseteq Listed(rest.desired)
      /\ rest.spawn \cap rest.restart = {}
      /\ \A j \in rest.spawn : j \in Ids /\ ~IsRunning(j)
      /\ i \in Listed(rest.desired) /\ i \notin rest.spawn
  BY <1>2, <1>4, <1>5 DEF PlanFresh, Listed
<1>9. CASE IsRunning(i)
  <2> DEFINE x == [pc |-> "stop_changed", plan |-> rest, id |-> i, task |-> running[i].task]
  <2> HIDE DEF rest
  <2>1. /\ x \in Reconciler /\ x.pc = "stop_changed"
        /\ x.plan = rest /\ x.id = i /\ x.task = running[i].task
    BY <1>4, <1>5, <1>6 DEF Reconciler
  <2>2. Goto(r, x) /\ running' = [running EXCEPT ![i] = NotRunning] /\ Abort(i)
    BY <1>3, <1>9 DEF rest
  <2> HIDE DEF x, plan
  <2>3. rec'[r] = x
    BY <2>1, <2>2, GotoTyped DEF IInv
  <2>4. /\ running' \in [Ids -> [spec : Spec0, task : 0 .. MaxTasks] \cup {NotRunning}]
        /\ ~IsRunning(i)'
        /\ \A j \in Ids : ~IsRunning(j) => ~IsRunning(j)'
    BY <1>4, <2>2 DEF IInv, TypeOK, IsRunning
  <2>5. FreshAt(r)'
    BY <1>8, <2>1, <2>3, <2>4 DEF FreshAt, Applies, PlanFresh, Listed
  <2>6. Carries(x)
    BY <1>2, <1>5, <2>1 DEF Carries, Applying
  <2>7. tasks' \in [TaskSlots -> Task \cup {Free}]
    BY <1>4, <2>2, AbortTyped DEF IInv
  <2>8. Sound(r)
    BY <1>1, <1>7, <2>1, <2>2, <2>4, <2>5, <2>6, <2>7, SoundStep DEF IInv, TypeOK, registries
  <2>9. Takes(r, i)
    BY <1>1, <1>7, <2>1, <2>2, <2>3 DEF Takes, Stops, registries
  <2> QED BY <1>4, <2>8, <2>9
<1>10. CASE ~IsRunning(i)
  <2> DEFINE x == [pc |-> "respawn", plan |-> rest, id |-> i]
  <2> HIDE DEF rest
  <2>1. x \in Reconciler /\ x.pc = "respawn" /\ x.plan = rest /\ x.id = i
    BY <1>4, <1>5 DEF Reconciler
  <2>2. Goto(r, x) /\ UNCHANGED <<running, tasks>>
    BY <1>3, <1>10 DEF rest
  <2> HIDE DEF x, plan
  <2>3. rec'[r] = x
    BY <2>1, <2>2, GotoTyped DEF IInv
  <2>4. ~IsRunning(i)' /\ \A j \in Ids : ~IsRunning(j) => ~IsRunning(j)'
    BY <1>10, <2>2 DEF IsRunning
  <2>5. FreshAt(r)'
    BY <1>8, <2>1, <2>3, <2>4 DEF FreshAt, Applies, PlanFresh, Listed
  <2>6. Carries(x)
    BY <1>2, <1>5, <2>1 DEF Carries, Applying
  <2>7. Sound(r)
    BY <1>1, <1>7, <2>1, <2>2, <2>5, <2>6, SoundStep DEF IInv, TypeOK, registries
  <2> QED BY <1>1, <1>7, <2>1, <2>2, <2>3, <2>7 DEF Keeps, Stops, registries
<1> QED BY <1>9, <1>10

(* apply_plan puts i into the map, with a new task or none.                *)
Puts(r, i) ==
    /\ Applies(r) /\ ~Stops(r) /\ ~Stops(r)'
    /\ ~IsRunning(i)
    /\ \E n \in 0 .. MaxTasks, spec \in Spec0 :
         /\ n \in TaskSlots => tasks[n] = Free
         /\ running' = [running EXCEPT ![i] = [spec |-> spec, task |-> n]]
         /\ tasks' = [m \in TaskSlots |-> IF m = n
                        THEN [agent |-> i, aborted |-> FALSE, pc |-> FirstPc(spec)]
                        ELSE tasks[m]]
    /\ UNCHANGED endpoints

LEMMA RespawnStep ==
    ASSUME IInv, NEW r \in Reconcilers, Respawn(r)
    PROVE  Sound(r) /\ (Keeps(r) \/ \E i \in Ids : Puts(r, i))
<1> DEFINE plan == rec[r].plan
           i == rec[r].id
           spec == plan.desired[i]
           x == [pc |-> "apply", plan |-> plan]
<1>1. Applies(r) /\ ~Stops(r) /\ rec[r].pc = "respawn"
  BY DEF Respawn, Applies, Applying, Stops
<1>2. plan \in Plan /\ plan.desired \in Specs /\ Unaliased(plan.desired) /\ PlanFresh(plan)
  BY <1>1, PlanShape DEF IInv, PlansFresh, FreshAt
<1>3. i \in Ids /\ ~IsRunning(i) /\ i \in Listed(plan.desired) /\ i \notin plan.spawn
  BY <1>1, ReconcilerShape DEF IInv, TypeOK, PlansFresh, FreshAt, Applying
<1>4. spec \in Spec0
  BY <1>2, <1>3, SpecShape DEF Listed
<1>5. x \in Reconciler /\ x.pc = "apply" /\ x.plan = plan /\ Goto(r, x)
  BY <1>2 DEF Reconciler, Respawn
<1>6. /\ SpawnOne(i, spec) \/ SpawnFails(i, spec)
      /\ UNCHANGED <<assigned, db, name_aliases, registries, changes>>
  BY DEF Respawn
<1> HIDE DEF x, plan, i, spec
<1>7. rec'[r] = x
  BY <1>5, GotoTyped DEF IInv
<1>8. /\ running' \in [Ids -> [spec : Spec0, task : 0 .. MaxTasks] \cup {NotRunning}]
      /\ tasks' \in [TaskSlots -> Task \cup {Free}]
      /\ runtime_map' \subseteq Ids /\ supervised' \subseteq Ids
      /\ failures' \in 0 .. MaxFailures
  BY <1>3, <1>4, <1>6, SpawnTyped DEF IInv
<1>9. \A j \in Ids \ {i} : ~IsRunning(j) => ~IsRunning(j)'
  BY <1>6 DEF SpawnOne, SpawnFails, IsRunning, IInv, TypeOK
<1>10. FreshAt(r)'
  BY <1>2, <1>3, <1>5, <1>7, <1>9 DEF FreshAt, Applies, PlanFresh, Listed
<1>11. Carries(x)
  BY <1>2, <1>5 DEF Carries, Applying
<1>12. Sound(r)
  BY <1>1, <1>5, <1>6, <1>8, <1>10, <1>11, SoundStep DEF IInv, TypeOK, registries
<1>13. ~Stops(r)'
  BY <1>5, <1>7 DEF Stops
<1>14. SpawnFails(i, spec) => Keeps(r)
  BY <1>1, <1>6, <1>13 DEF SpawnFails, Keeps, registries
<1>15. SpawnOne(i, spec) => Puts(r, i)
  BY <1>1, <1>3, <1>4, <1>6, <1>13, SpawnEffect DEF Puts, IInv, registries
<1> QED BY <1>3, <1>6, <1>12, <1>14, <1>15

LEMMA SpawnNewStep ==
    ASSUME IInv, NEW r \in Reconcilers, SpawnNew(r)
    PROVE  Sound(r) /\ (Keeps(r) \/ \E i \in Ids : Puts(r, i))
<1> DEFINE plan == rec[r].plan
<1>1. Applies(r) /\ ~Stops(r) /\ rec[r].pc = "apply"
  BY DEF SpawnNew, Applies, Applying, Stops
<1>2. plan \in Plan /\ plan.desired \in Specs /\ Unaliased(plan.desired) /\ PlanFresh(plan)
  BY <1>1, PlanShape DEF IInv, PlansFresh, FreshAt
<1>3. PICK i \in plan.spawn :
        /\ \/ /\ SpawnOne(i, plan.desired[i])
              /\ name_aliases' = [l \in Local |-> IF l = plan.desired[i].alias THEN i
                                                                           ELSE name_aliases[l]]
           \/ SpawnFails(i, plan.desired[i]) /\ UNCHANGED name_aliases
        /\ Goto(r, [pc |-> "apply", plan |-> [plan EXCEPT !.spawn = @ \ {i}]])
  BY DEF SpawnNew
<1> DEFINE spec == plan.desired[i]
           rest == [plan EXCEPT !.spawn = @ \ {i}]
           x == [pc |-> "apply", plan |-> rest]
<1>4. i \in Ids /\ ~IsRunning(i) /\ spec # NoSpec
  BY <1>2 DEF PlanFresh, Listed
<1>5. spec \in Spec0
  BY <1>2, <1>4, SpecShape
<1>6. /\ rest \in Plan /\ rest.desired = plan.desired
      /\ rest.spawn = plan.spawn \ {i} /\ rest.restart = plan.restart /\ rest.register = plan.register
  BY <1>2, FewerToSpawn
<1>7. /\ rest.spawn \cup rest.restart \cup rest.register \subseteq Listed(rest.desired)
      /\ rest.spawn \cap rest.restart = {}
      /\ \A j \in rest.spawn : j \in Ids /\ j # i /\ ~IsRunning(j)
  BY <1>2, <1>6 DEF PlanFresh, Listed
<1>8. SpawnOne(i, spec) \/ SpawnFails(i, spec)
  BY <1>3
<1>9. name_aliases' \in [Local -> Public \cup {NoId}]
  <2>1. name_aliases \in [Local -> Public \cup {NoId}]
    BY DEF IInv, TypeOK
  <2>2. \A l \in Local : l = spec.alias => i \in Public
    BY <1>2, <1>4, LocalIds DEF Unaliased, Ids
  <2> QED BY <1>3, <2>1, <2>2
<1> HIDE DEF rest
<1>10. x \in Reconciler /\ x.pc = "apply" /\ x.plan = rest
  BY <1>6 DEF Reconciler
<1>11. Goto(r, x)
  BY <1>3 DEF rest
<1> HIDE DEF x, plan, spec
<1>12. rec'[r] = x
  BY <1>10, <1>11, GotoTyped DEF IInv
<1>13. /\ running' \in [Ids -> [spec : Spec0, task : 0 .. MaxTasks] \cup {NotRunning}]
       /\ tasks' \in [TaskSlots -> Task \cup {Free}]
       /\ runtime_map' \subseteq Ids /\ supervised' \subseteq Ids
       /\ failures' \in 0 .. MaxFailures
  BY <1>4, <1>5, <1>8, SpawnTyped DEF IInv
<1>14. \A j \in Ids \ {i} : ~IsRunning(j) => ~IsRunning(j)'
  BY <1>8 DEF SpawnOne, SpawnFails, IsRunning, IInv, TypeOK
<1>15. FreshAt(r)'
  BY <1>7, <1>10, <1>12, <1>14 DEF FreshAt, Applies, PlanFresh, Listed
<1>16. Carries(x)
  BY <1>2, <1>6, <1>10 DEF Carries, Applying
<1>17. UNCHANGED <<assigned, db, registries, changes>>
  BY DEF SpawnNew
<1>18. Sound(r)
  BY <1>1, <1>9, <1>10, <1>11, <1>13, <1>15, <1>16, <1>17, SoundStep DEF IInv, TypeOK, registries
<1>19. ~Stops(r)'
  BY <1>10, <1>12 DEF Stops
<1>20. SpawnFails(i, spec) => Keeps(r)
  BY <1>1, <1>17, <1>19 DEF SpawnFails, Keeps, registries
<1>21. SpawnOne(i, spec) => Puts(r, i)
  BY <1>1, <1>4, <1>5, <1>17, <1>19, SpawnEffect DEF Puts, IInv, registries
<1> QED BY <1>4, <1>8, <1>18, <1>20, <1>21

LEMMA RegisterAliasesStep ==
    ASSUME IInv, NEW r \in Reconcilers, RegisterAliases(r)
    PROVE  Sound(r) /\ Keeps(r)
<1> DEFINE plan == rec[r].plan
<1>1. Applies(r) /\ ~Stops(r)
  BY DEF RegisterAliases, Applies, Applying, Stops
<1>2. plan \in Plan /\ plan.desired \in Specs
  BY <1>1, PlanShape DEF IInv
<1>3. Idle \in Reconciler /\ Idle.pc = "idle" /\ Goto(r, Idle) /\ Carries(Idle)
  BY DEF Reconciler, RegisterAliases, Idle, Carries, Applying
<1>4. rec'[r] = Idle
  BY <1>3, GotoTyped DEF IInv
<1>5. UNCHANGED <<assigned, db, spawned, endpoints, changes, failures>>
  BY DEF RegisterAliases
<1>6. FreshAt(r)' /\ ~Stops(r)'
  BY <1>3, <1>4 DEF FreshAt, Applies, Applying, Stops
<1>7. aliases' \in [Ids -> Ids \cup {NoId}]
  <2>1. plan.register \subseteq Listed(plan.desired)
    BY <1>1 DEF IInv, PlansFresh, FreshAt, PlanFresh
  <2>2. \A i \in plan.register : plan.desired[i] \in Spec0
    BY <1>2, <2>1, SpecShape DEF Listed
  <2>3. \A i \in plan.register : plan.desired[i].alias \in Ids \cup {NoId}
    BY <2>2 DEF Spec0, Ids
  <2>4. aliases \in [Ids -> Ids \cup {NoId}]
    BY DEF IInv, TypeOK
  <2> QED BY <2>3, <2>4 DEF RegisterAliases
<1> QED BY <1>1, <1>3, <1>5, <1>6, <1>7, SoundStep DEF IInv, TypeOK, Keeps, spawned

-----------------------------------------------------------------------------
(* Map, tasks and registry after a step of a reconciler.                   *)

TasksKept == MapHoldsOwn /\ SessionsAccounted /\ UpRegistered

OthersStay(r) == \A q \in Reconcilers \ {r} : rec'[q] = rec[q]

LEMMA OneMoves ==
    ASSUME TypeOK, NEW r \in Reconcilers, Fetch(r) \/ Reconcile(r)
    PROVE  OthersStay(r)
<1>1. \E x : Goto(r, x)
  BY DEF Fetch, Reconcile, Persist, ReadBack, Diff, ShutdownRemoved, RemovedStopped,
         ShutdownChanged, ChangedStopped, Respawn, SpawnNew, RegisterAliases
<1> QED BY <1>1 DEF OthersStay, Goto, TypeOK

LEMMA KeepsKept ==
    ASSUME IInv, NEW r \in Reconcilers, OthersStay(r), ~Stops(r),
           UNCHANGED <<running, tasks, endpoints>>
    PROVE  TasksKept'
<1>1. MapHoldsOwn' /\ UpRegistered'
  BY DEF IInv, MapHoldsOwn, UpRegistered
<1>2. \A n \in TaskSlots : Awaited(n) => Awaited(n)'
  BY DEF Awaited, Stops, OthersStay
<1>3. SessionsAccounted'
  BY <1>2 DEF IInv, SessionsAccounted, Session
<1> QED BY <1>1, <1>3 DEF TasksKept

LEMMA LetsKept ==
    ASSUME IInv, NEW r \in Reconcilers, OthersStay(r), Lets(r)
    PROVE  TasksKept'
<1>1. MapHoldsOwn' /\ UpRegistered'
  BY DEF IInv, MapHoldsOwn, UpRegistered, Lets
<1>2. \A n \in TaskSlots : Session(n) => rec[r].task # n
  BY DEF Lets, ShutdownDone, Session
<1>3. \A n \in TaskSlots : Session(n) /\ Awaited(n) => Awaited(n)'
  BY <1>2 DEF Awaited, Stops, OthersStay, Lets
<1>4. SessionsAccounted'
  BY <1>3 DEF IInv, SessionsAccounted, Session, Lets
<1> QED BY <1>1, <1>4 DEF TasksKept

(* No other reconciler waits while r holds the lock and does not.          *)
LEMMA NoneAwaited ==
    ASSUME IInv, NEW r \in Reconcilers, Applies(r), ~Stops(r)
    PROVE  \A n \in TaskSlots : Session(n) => running[tasks[n].agent].task = n
<1>1. \A q \in Reconcilers : ~Stops(q)
  BY DEF IInv, OneApplies, Applies, Applying, Stops
<1> QED BY <1>1 DEF IInv, SessionsAccounted, Awaited

LEMMA TakesKept ==
    ASSUME IInv, NEW r \in Reconcilers, OthersStay(r), NEW i \in Ids, Takes(r, i)
    PROVE  TasksKept'
<1> DEFINE k == running[i].task
<1>1. /\ running' = [running EXCEPT ![i] = NotRunning]
      /\ running \in [Ids -> [spec : Spec0, task : 0 .. MaxTasks] \cup {NotRunning}]
      /\ NotRunning.task \notin TaskSlots
  BY DEF Takes, IInv, TypeOK, NotRunning, NoTask, TaskSlots
<1>2. \A n \in TaskSlots :
        /\ n # k => tasks'[n] = tasks[n]
        /\ n = k => tasks'[n] = [tasks[n] EXCEPT !.aborted = TRUE]
  BY DEF Takes, Abort
<1>3. \A n \in TaskSlots : tasks[n].pc # "free" =>
        tasks'[n].pc = tasks[n].pc /\ tasks'[n].agent = tasks[n].agent
  <2>1. \A x \in Task : [x EXCEPT !.aborted = TRUE].pc = x.pc /\ [x EXCEPT !.aborted = TRUE].agent = x.agent
    BY DEF Task
  <2> QED BY <1>2, <2>1, TaskShape DEF IInv
<1>4. \A n \in TaskSlots : tasks[n].pc = "free" => tasks'[n] = tasks[n]
  <2>1. [Free EXCEPT !.aborted = TRUE] = Free
    BY DEF Free
  <2> QED BY <1>2, <2>1, TaskShape DEF IInv
<1>5. k \in TaskSlots => tasks[k].agent = i /\ tasks[k].pc # "free"
  BY DEF IInv, MapHoldsOwn
<1>6. MapHoldsOwn'
  <2> SUFFICES ASSUME NEW j \in Ids, running'[j].task \in TaskSlots
               PROVE  /\ tasks'[running'[j].task].pc # "free"
                      /\ tasks'[running'[j].task].agent = j
                      /\ ~tasks'[running'[j].task].aborted
    BY DEF MapHoldsOwn
  <2>1. j # i /\ running'[j] = running[j]
    BY <1>1
  <2>2. tasks[running[j].task].pc # "free" /\ tasks[running[j].task].agent = j /\ ~tasks[running[j].task].aborted
    BY <2>1 DEF IInv, MapHoldsOwn
  <2>3. running[j].task # k
    BY <1>5, <2>1, <2>2
  <2> QED BY <1>2, <2>1, <2>2, <2>3
<1>7. SessionsAccounted'
  <2> SUFFICES ASSUME NEW n \in TaskSlots, Session(n)'
               PROVE  running'[tasks'[n].agent].task = n \/ (tasks'[n].aborted /\ Awaited(n)')
    BY DEF SessionsAccounted
  <2>1. Session(n) /\ tasks'[n].agent = tasks[n].agent
    BY <1>3, <1>4 DEF Session
  <2>2. running[tasks[n].agent].task = n /\ tasks[n].agent \in Ids
    BY <2>1, NoneAwaited, TaskShape DEF Takes, IInv, Session, Task
  <2>3. CASE tasks[n].agent = i
    <3>1. n = k /\ tasks[n] \in Task
      BY <2>1, <2>2, <2>3, TaskShape DEF IInv, Session
    <3>2. tasks'[n].aborted
      <4>1. \A x \in Task : [x EXCEPT !.aborted = TRUE].aborted
        BY DEF Task
      <4> QED BY <1>2, <3>1, <4>1
    <3>3. Stops(r)' /\ rec'[r].task = n /\ rec'[r].id = tasks'[n].agent
      BY <2>1, <2>3, <3>1 DEF Takes
    <3> QED BY <3>2, <3>3 DEF Awaited
  <2>4. CASE tasks[n].agent # i
    BY <1>1, <2>1, <2>2, <2>4
  <2> QED BY <2>3, <2>4
<1>8. UpRegistered'
  <2>1. \A n \in TaskSlots : tasks'[n].pc = "up" => tasks[n].pc = "up" /\ tasks'[n].agent = tasks[n].agent
    BY <1>3, <1>4
  <2> QED BY <2>1 DEF Takes, IInv, UpRegistered
<1> QED BY <1>6, <1>7, <1>8 DEF TasksKept

LEMMA PutsKept ==
    ASSUME IInv, NEW r \in Reconcilers, OthersStay(r), NEW i \in Ids, Puts(r, i)
    PROVE  TasksKept'
<1>1. PICK k \in 0 .. MaxTasks, spec \in Spec0 :
        /\ k \in TaskSlots => tasks[k] = Free
        /\ running' = [running EXCEPT ![i] = [spec |-> spec, task |-> k]]
        /\ tasks' = [m \in TaskSlots |-> IF m = k
                       THEN [agent |-> i, aborted |-> FALSE, pc |-> FirstPc(spec)]
                       ELSE tasks[m]]
  BY DEF Puts
<1>2. running \in [Ids -> [spec : Spec0, task : 0 .. MaxTasks] \cup {NotRunning}]
  BY DEF IInv, TypeOK
<1>3. FirstPc(spec) \notin {"free", "up"}
  BY DEF FirstPc
<1>4. MapHoldsOwn'
  <2> SUFFICES ASSUME NEW j \in Ids, running'[j].task \in TaskSlots
               PROVE  /\ tasks'[running'[j].task].pc # "free"
                      /\ tasks'[running'[j].task].agent = j
                      /\ ~tasks'[running'[j].task].aborted
    BY DEF MapHoldsOwn
  <2>1. CASE j = i
    BY <1>1, <1>2, <1>3, <2>1
  <2>2. CASE j # i
    <3>1. running'[j] = running[j]
      BY <1>1, <1>2, <2>2
    <3>2. tasks[running[j].task].pc # "free" /\ tasks[running[j].task].agent = j /\ ~tasks[running[j].task].aborted
      BY <3>1 DEF IInv, MapHoldsOwn
    <3>3. running[j].task # k
      BY <1>1, <3>1, <3>2 DEF Free
    <3> QED BY <1>1, <3>1, <3>2, <3>3
  <2> QED BY <2>1, <2>2
<1>5. SessionsAccounted'
  <2> SUFFICES ASSUME NEW n \in TaskSlots, Session(n)'
               PROVE  running'[tasks'[n].agent].task = n
    BY DEF SessionsAccounted
  <2>1. CASE n = k
    BY <1>1, <1>2, <2>1
  <2>2. CASE n # k
    <3>1. tasks'[n] = tasks[n] /\ Session(n)
      BY <1>1, <2>2 DEF Session
    <3>2. running[tasks[n].agent].task = n /\ tasks[n].agent \in Ids
      BY <3>1, NoneAwaited, TaskShape DEF Puts, IInv, Session, Task
    <3>3. tasks[n].agent # i
      BY <3>2, RunningShape DEF Puts, IInv
    <3> QED BY <1>1, <1>2, <3>1, <3>2, <3>3
  <2> QED BY <2>1, <2>2
<1>6. UpRegistered'
  BY <1>1, <1>3 DEF Puts, IInv, UpRegistered
<1> QED BY <1>4, <1>5, <1>6 DEF TasksKept

-----------------------------------------------------------------------------
(* The tokio tasks.                                                        *)

(* A task that moves to y on its own is not one that the map or a          *)
(* reconciler loses sight of.                                              *)
LEMMA MovesKept ==
    ASSUME IInv, NEW n \in TaskSlots, NEW y \in Task \cup {Free},
           tasks' = [tasks EXCEPT ![n] = y],
           tasks[n].aborted \/ (y.pc # "free" /\ ~y.aborted),
           Session(n) \/ tasks[n].pc = "loop",
           y.pc \in {"free", "orphan"} \/ (Session(n) /\ y.agent = tasks[n].agent /\ y.aborted = tasks[n].aborted),
           y.pc = "orphan" => y.agent = tasks[n].agent,
           UNCHANGED <<rec, running>>
    PROVE  MapHoldsOwn' /\ SessionsAccounted'
<1>1. \A m \in TaskSlots : tasks'[m] = IF m = n THEN y ELSE tasks[m]
  BY DEF IInv, TypeOK
<1>2. MapHoldsOwn'
  BY <1>1 DEF IInv, MapHoldsOwn
<1>3. \A m \in TaskSlots : Session(m)' =>
        /\ Session(m)
        /\ tasks'[m].agent = tasks[m].agent /\ tasks'[m].aborted = tasks[m].aborted
  BY <1>1 DEF Session
<1>4. SessionsAccounted'
  BY <1>3 DEF IInv, SessionsAccounted, Awaited, Stops
<1> QED BY <1>2, <1>4

LEMMA TaskStepInv ==
    ASSUME IInv, NEW n \in TaskSlots, TaskStep(n) \/ Cancelled(n)
    PROVE  IInv'
<1> DEFINE i == tasks[n].agent
<1>0. UNCHANGED <<assigned, db, rec, running, runtime_map, supervised, name_aliases, changes, failures>>
  BY DEF TaskStep, Register, SessionEnds, Unregister, Cancelled, registries
<1>1. tasks[n] \in Task /\ i \in Ids
  BY TaskShape DEF IInv, TaskStep, Register, SessionEnds, Unregister, Cancelled, Task
<1>2. \A x \in Task, pc \in {"down", "up", "closing", "orphan"} :
        /\ [x EXCEPT !.pc = pc] \in Task /\ [x EXCEPT !.pc = pc].pc = pc
        /\ [x EXCEPT !.pc = pc].agent = x.agent /\ [x EXCEPT !.pc = pc].aborted = x.aborted
  BY DEF Task
<1>3. \E y \in Task \cup {Free} :
        /\ tasks' = [tasks EXCEPT ![n] = y]
        /\ tasks[n].aborted \/ (y.pc # "free" /\ y.aborted = tasks[n].aborted)
        /\ Session(n) \/ tasks[n].pc = "loop"
        /\ \/ y.pc \in {"free", "orphan"}
           \/ Session(n) /\ y.agent = i /\ y.aborted = tasks[n].aborted
        /\ y.pc = "orphan" => y.agent = i
  <2>1. CASE TaskStep(n)
    <3>1. /\ Session(n)
          /\ \E pc \in {"down", "up", "closing"} : tasks' = [tasks EXCEPT ![n].pc = pc]
      BY <2>1 DEF TaskStep, Register, SessionEnds, Unregister, Session
    <3>2. PICK pc \in {"down", "up", "closing"} : tasks' = [tasks EXCEPT ![n].pc = pc]
      BY <3>1
    <3> DEFINE y == [tasks[n] EXCEPT !.pc = pc]
    <3>3. y \in Task /\ y.pc = pc /\ y.agent = i /\ y.aborted = tasks[n].aborted
      <4>1. pc \in {"down", "up", "closing", "orphan"}
        OBVIOUS
      <4> HIDE DEF i
      <4>2. tasks[n] \in Task /\ i = tasks[n].agent
        BY <1>1 DEF i
      <4> QED BY <1>2, <4>1, <4>2
    <3>4. tasks' = [tasks EXCEPT ![n] = y]
      BY <3>2
    <3> QED BY <3>1, <3>3, <3>4
  <2>2. CASE Cancelled(n)
    <3> DEFINE y == Terminated(n)
    <3>1. y \in Task \cup {Free} /\ y.pc \in {"free", "orphan"} /\ (y.pc = "orphan" => y.agent = i)
      BY <1>1, <1>2 DEF Terminated, Free
    <3>2. tasks[n].aborted /\ (Session(n) \/ tasks[n].pc = "loop") /\ tasks' = [tasks EXCEPT ![n] = y]
      BY <2>2 DEF Cancelled, Session
    <3> QED BY <3>1, <3>2
  <2> QED BY <2>1, <2>2
<1>4. PICK y \in Task \cup {Free} :
        /\ tasks' = [tasks EXCEPT ![n] = y]
        /\ tasks[n].aborted \/ (y.pc # "free" /\ y.aborted = tasks[n].aborted)
        /\ Session(n) \/ tasks[n].pc = "loop"
        /\ \/ y.pc \in {"free", "orphan"}
           \/ Session(n) /\ y.agent = i /\ y.aborted = tasks[n].aborted
        /\ y.pc = "orphan" => y.agent = i
  BY <1>3
<1>5. MapHoldsOwn' /\ SessionsAccounted'
  BY <1>0, <1>4, MovesKept
<1>6. /\ \A m \in TaskSlots \ {n} : tasks'[m] = tasks[m]
      /\ tasks' \in [TaskSlots -> Task \cup {Free}]
  BY <1>4 DEF IInv, TypeOK
<1>7. n \in 0 .. Dead /\ Dead \in 0 .. Dead /\ NoTask \in 0 .. Dead /\ n # Dead
  BY ReconcileBounds DEF TaskSlots, Dead, NoTask
<1>8. endpoints \in [Ids -> 0 .. Dead] /\ aliases \in [Ids -> Ids \cup {NoId}]
  BY DEF IInv, TypeOK
<1>9. /\ endpoints' \in [Ids -> 0 .. Dead] /\ aliases' \in [Ids -> Ids \cup {NoId}]
      /\ UpRegistered'
  <2>1. CASE Register(n)
    <3>1. endpoints' = [endpoints EXCEPT ![i] = n] /\ tasks[n].pc = "down" /\ UNCHANGED aliases
      BY <2>1 DEF Register
    <3>2. Session(n) /\ tasks' = [tasks EXCEPT ![n].pc = "up"]
      BY <2>1 DEF Register, Session
    <3>3. tasks'[n].agent = i
      BY <1>1, <1>2, <3>2 DEF IInv, TypeOK
    <3>4. \A m \in TaskSlots \ {n} : tasks[m].pc = "up" => tasks[m].agent # i
      BY <3>2, OneSession DEF Session
    <3>5. \A m \in TaskSlots \ {n} : tasks[m].pc = "up" => tasks[m].agent \in Ids
      BY TaskShape DEF IInv, Task
    <3>6. UpRegistered'
      BY <1>1, <1>6, <1>8, <3>1, <3>3, <3>4, <3>5 DEF IInv, UpRegistered
    <3> QED BY <1>7, <1>8, <3>1, <3>6
  <2>2. CASE SessionEnds(n)
    <3>1. UNCHANGED <<endpoints, aliases>> /\ tasks' = [tasks EXCEPT ![n].pc = "closing"]
      BY <2>2 DEF SessionEnds, registries
    <3>2. tasks'[n].pc = "closing"
      BY <1>1, <1>2, <3>1 DEF IInv, TypeOK
    <3> QED BY <1>6, <1>8, <3>1, <3>2 DEF IInv, UpRegistered
  <2>3. CASE Unregister(n)
    <3>1. /\ endpoints' = [endpoints EXCEPT ![i] = NoTask] /\ tasks[n].pc = "closing"
          /\ aliases' = [j \in Ids |-> IF aliases[j] = i THEN NoId ELSE aliases[j]]
          /\ tasks' = [tasks EXCEPT ![n].pc = "down"]
      BY <2>3 DEF Unregister
    <3>2. Session(n) /\ tasks'[n].pc = "down"
      BY <1>1, <1>2, <3>1 DEF Session, IInv, TypeOK
    <3>3. \A m \in TaskSlots \ {n} : tasks[m].pc = "up" => tasks[m].agent # i
      BY <3>2, OneSession DEF Session
    <3>4. UpRegistered'
      BY <1>1, <1>6, <1>8, <3>1, <3>2, <3>3 DEF IInv, UpRegistered
    <3> QED BY <1>7, <1>8, <3>1, <3>4
  <2>4. CASE Cancelled(n)
    <3>1. /\ endpoints' = [j \in Ids |-> IF endpoints[j] = n THEN Dead ELSE endpoints[j]]
          /\ UNCHANGED aliases /\ tasks' = [tasks EXCEPT ![n] = Terminated(n)]
      BY <2>4 DEF Cancelled
    <3>2. Terminated(n).pc # "up"
      BY <1>1, <1>2 DEF Terminated, Free
    <3>3. tasks'[n].pc # "up"
      BY <3>1, <3>2 DEF IInv, TypeOK
    <3>4. \A m \in TaskSlots \ {n} : tasks[m].pc = "up" => tasks[m].agent \in Ids
      BY TaskShape DEF IInv, Task
    <3>5. UpRegistered'
      BY <1>6, <1>8, <3>1, <3>3, <3>4 DEF IInv, UpRegistered
    <3> QED BY <1>7, <1>8, <3>1, <3>5
  <2> QED BY <2>1, <2>2, <2>3, <2>4 DEF TaskStep
<1>10. TypeOK'
  BY <1>0, <1>6, <1>9 DEF IInv, TypeOK
<1>11. SpecsFederated' /\ OneApplies' /\ PlansFresh'
  BY <1>0 DEF IInv, SpecsFederated, OneApplies, PlansFresh, FreshAt, PlanFresh, Applies,
              Unaliased, IsRunning, Listed
<1> QED BY <1>5, <1>9, <1>10, <1>11 DEF IInv

-----------------------------------------------------------------------------
(* Every step preserves the invariant.                                     *)

LEMMA ReconcileInv ==
    ASSUME IInv, NEW r \in Reconcilers, Fetch(r) \/ Reconcile(r)
    PROVE  IInv'
<1>1. OthersStay(r)
  BY OneMoves DEF IInv
<1>2. CASE Fetch(r) \/ Persist(r) \/ ReadBack(r)
  <2>1. /\ TypeOK' /\ SpecsFederated' /\ UNCHANGED <<running, tasks, endpoints>>
        /\ rec'[r].pc \in {"fetched", "persisted", "resolved"} /\ ~Applies(r)
    BY <1>2, ListStep DEF IInv
  <2>2. TasksKept'
    BY <1>1, <2>1, KeepsKept DEF Stops, Applies, Applying
  <2>3. OneApplies'
    BY <1>1, <2>1 DEF IInv, OneApplies, Applies, Applying, OthersStay
  <2>4. \A q \in Reconcilers \ {r} : FreshAt(q)'
    BY <1>1, <2>1 DEF IInv, PlansFresh, FreshAt, PlanFresh, Applies, IsRunning, OthersStay
  <2>5. FreshAt(r)'
    BY <2>1 DEF FreshAt, Applies, Applying
  <2> QED BY <2>1, <2>2, <2>3, <2>4, <2>5 DEF IInv, TasksKept, PlansFresh
<1>3. CASE ~(Fetch(r) \/ Persist(r) \/ ReadBack(r))
  <2>1. CASE Diff(r)
    BY <1>1, <2>1, DiffStep, KeepsKept DEF Sound, IInv, TasksKept
  <2>2. CASE ShutdownRemoved(r)
    BY <1>1, <2>2, ShutdownRemovedStep, TakesKept DEF Sound, IInv, TasksKept
  <2>3. CASE RemovedStopped(r)
    BY <1>1, <2>3, RemovedStoppedStep, LetsKept DEF Sound, IInv, TasksKept
  <2>4. CASE ShutdownChanged(r)
    BY <1>1, <2>4, ShutdownChangedStep, TakesKept, KeepsKept DEF Sound, IInv, TasksKept, Keeps
  <2>5. CASE ChangedStopped(r)
    BY <1>1, <2>5, ChangedStoppedStep, LetsKept DEF Sound, IInv, TasksKept
  <2>6. CASE Respawn(r)
    BY <1>1, <2>6, RespawnStep, PutsKept, KeepsKept DEF Sound, IInv, TasksKept, Keeps
  <2>7. CASE SpawnNew(r)
    BY <1>1, <2>7, SpawnNewStep, PutsKept, KeepsKept DEF Sound, IInv, TasksKept, Keeps
  <2>8. CASE RegisterAliases(r)
    BY <1>1, <2>8, RegisterAliasesStep, KeepsKept DEF Sound, IInv, TasksKept, Keeps
  <2> QED BY <1>3, <2>1, <2>2, <2>3, <2>4, <2>5, <2>6, <2>7, <2>8 DEF Reconcile
<1> QED BY <1>2, <1>3

LEMMA StepIInv == IInv /\ [Next]_vars => IInv'
<1> SUFFICES ASSUME IInv, [Next]_vars PROVE IInv'
  OBVIOUS
<1>1. ASSUME NEW p \in Public, AssignNodeAgent(p) \/ RevokeNodeAgent(p) \/ UpdateAgentProfile(p)
      PROVE  IInv'
  <2>1. TypeOK' /\ SpecsFederated'
    BY <1>1, TowerStep DEF IInv
  <2>2. UNCHANGED <<rec, running, tasks, endpoints>>
    BY <1>1 DEF AssignNodeAgent, RevokeNodeAgent, UpdateAgentProfile, Changed, spawned, registries
  <2>3. OneApplies' /\ PlansFresh'
    BY <2>2 DEF IInv, OneApplies, PlansFresh, FreshAt, PlanFresh, Applies, IsRunning
  <2>4. MapHoldsOwn' /\ SessionsAccounted' /\ UpRegistered'
    BY <2>2 DEF IInv, MapHoldsOwn, SessionsAccounted, UpRegistered, Session, Awaited, Stops
  <2> QED BY <2>1, <2>3, <2>4 DEF IInv
<1>2. CASE UNCHANGED vars
  <2>1. TypeOK'
    BY <1>2 DEF IInv, TypeOK, vars
  <2>2. SpecsFederated' /\ OneApplies' /\ PlansFresh'
    BY <1>2 DEF IInv, SpecsFederated, OneApplies, PlansFresh, FreshAt, PlanFresh, Applies, IsRunning, vars
  <2>3. MapHoldsOwn' /\ SessionsAccounted' /\ UpRegistered'
    BY <1>2 DEF IInv, MapHoldsOwn, SessionsAccounted, UpRegistered, Session, Awaited, Stops, vars
  <2> QED BY <2>1, <2>2, <2>3 DEF IInv
<1> QED BY <1>1, <1>2, ReconcileInv, TaskStepInv DEF Next

-----------------------------------------------------------------------------
(* The theorems.                                                           *)

(* The invariant of map, plans, tasks and registry: the running lock has   *)
(* one holder, its plan stays true while it is applied, and whatever it    *)
(* takes out of the map it waits for before the agent is spawned again.    *)
THEOREM ReconcileInvariance == Spec => []IInv
<1> QED BY InitIInv, StepIInv, PTL DEF Spec

(* The variables keep their types: every list, plan and map entry that a   *)
(* reconciler reads or writes names an agent and a spec of that agent.     *)
THEOREM ReconcileTypeCorrect == Spec => []TypeOK
<1>1. IInv => TypeOK
  BY DEF IInv
<1> QED BY <1>1, ReconcileInvariance, PTL

(* No session, bridge or relay outlives its entry in the running map       *)
(* unaborted, whatever the websocket and the poll loop reconcile at once   *)
(* and whichever spawn fails (apply_plan, RunningAgent::shutdown).         *)
THEOREM HeldSafe == Spec => []SessionsHeld
<1> QED BY InvHeld, ReconcileInvariance, PTL

(* An attach for a running session finds that session, across restarts of  *)
(* the agent and of its supervisor (AttachRegistry::register, unregister). *)
THEOREM ReachableSafe == Spec => []LiveSessionReachable
<1> QED BY InvReachable, ReconcileInvariance, PTL

(* An agent never has two sessions, bridges or relays, not even while one  *)
(* of them is being shut down: apply_plan spawns under the lock it waited  *)
(* under.                                                                  *)
OneEach ==
    \A m, n \in TaskSlots : Session(m) /\ Session(n) /\ tasks[m].agent = tasks[n].agent => m = n
THEOREM OneSessionSafe == Spec => []OneEach
<1>1. IInv => OneEach
  BY OneSession DEF OneEach
<1> QED BY <1>1, ReconcileInvariance, PTL
=============================================================================
