--------------------------- MODULE AgentReconcile ---------------------------
(***************************************************************************)
(* How the daemon edgeplaned keeps the agents it runs on a node equal to   *)
(* the list the tower assigns to the node: the boot spawn, the websocket   *)
(* subscriber and the poll loop (daemon.rs, reconcile.rs), the map of      *)
(* running agents and its lock, the per-agent tokio tasks and the registry *)
(* of attachable sessions they publish (session_supervisor.rs,             *)
(* acp_session_supervisor.rs, zellij_bridge.rs, attach_registry.rs,        *)
(* supervisor.rs).                                                         *)
(*                                                                         *)
(* A reconciler takes one action per await at which another task can run:  *)
(* the GET, the SQLite write, the SQLite reads, the acquisition of the     *)
(* running lock, and, holding it, the shutdown and the spawn of each       *)
(* agent.  An aborted tokio task may still run until its next await.       *)
(***************************************************************************)
EXTENDS Naturals

CONSTANTS
    Public,         \* agent ids of the tower (public_id)
    Local,          \* agent ids with a launch context in the local registry
    NoId,           \* Option::None in a field that holds an id
    Domains,        \* values of domain_id and profile_path
    Alias,          \* the launch context merge_federated_overrides finds for an id
    Offers,         \* per public id, the specs the tower may assign
    LocalSpec,      \* per local id, the spec its launch context yields
    MaxTasks,       \* bound: tokio tasks alive at once
    MaxChanges,     \* bound: changes of the assignment list
    MaxFailures     \* bound: failed SQLite calls and failed spawns

Ids == Public \cup Local
Kinds == {"task", "session", "zellij"}  \* session_mode Task; Persistent; Persistent + zellij_hosted

(* AgentSpec: domain stands for domain_id and profile_path, which are      *)
(* compared alike; bridge says that launch_overrides.zellij_session is     *)
(* set, webhook that webhook_url is.                                       *)
Spec0 == [domain : Domains, kind : Kinds, webhook : BOOLEAN,
          alias : Local \cup {NoId}, bridge : BOOLEAN]
NoSpec == [kind |-> "none"]
Specs == [Ids -> Spec0 \cup {NoSpec}]

Fetched(s) == s.alias = NoId /\ ~s.bridge   \* what agent_spec_from_json leaves unset

ASSUME IdsAssumption ==
    /\ Public \cap Local = {} /\ NoId \notin Ids
    /\ Alias \in [Public -> Local \cup {NoId}]

ASSUME SpecsAssumption ==
    /\ Offers \in [Public -> SUBSET {s \in Spec0 : Fetched(s)}]
    /\ LocalSpec \in [Local -> {s \in Spec0 : s.kind = "zellij" /\ s.alias = NoId /\ s.bridge}]

ASSUME ReconcileBounds == MaxTasks \in Nat /\ MaxChanges \in Nat /\ MaxFailures \in Nat

VARIABLES
    assigned,       \* the tower's agents of this node
    db,             \* registry.db: the rows of the controlplane source
    rec,            \* the reconcilers: boot, ws, poll
    running,        \* RunningAgents: id -> spec and task slot
    tasks,          \* the tokio tasks that own agents
    endpoints,      \* AttachRegistry.endpoints: id -> the task whose channels it holds
    aliases,        \* AttachRegistry.aliases
    runtime_map,    \* ids in the attach gateway's RuntimeMap
    supervised,     \* keys of Supervisor.agents
    name_aliases,   \* Supervisor.name_aliases
    changes, failures

vars == <<assigned, db, rec, running, tasks, endpoints, aliases, runtime_map, supervised,
          name_aliases, changes, failures>>
registries == <<endpoints, aliases>>
spawned == <<running, tasks, runtime_map, supervised, name_aliases>>

-----------------------------------------------------------------------------
Reconcilers == {"boot", "ws", "poll"}
NoTask == 0
TaskSlots == 1 .. MaxTasks
Dead == MaxTasks + 1            \* endpoints whose receivers were dropped
Free == [pc |-> "free"]
NotRunning == [spec |-> NoSpec, task |-> NoTask]

Task == [agent : Ids, aborted : BOOLEAN,
         pc : {"down", "up", "closing",     \* a session supervisor or bridge
               "loop", "orphan",            \* task_loop, with and without its wrapper
               "relay"}]                    \* webhook relay

Plan == [desired : Specs, remove : SUBSET Ids, restart : SUBSET Ids, spawn : SUBSET Ids,
         register : SUBSET Public]

Idle == [pc |-> "idle"]
Reconciler ==
         {Idle}
    \cup [pc : {"fetched", "persisted"}, specs : Specs]
    \cup [pc : {"resolved"}, desired : Specs]
    \cup [pc : {"apply"}, plan : Plan]
    \cup [pc : {"stop_removed", "stop_changed"}, plan : Plan, id : Ids, task : 0 .. MaxTasks]
    \cup [pc : {"respawn"}, plan : Plan, id : Ids]

TypeOK ==
    /\ assigned \in Specs
    /\ db \in Specs
    /\ rec \in [Reconcilers -> Reconciler]
    /\ running \in [Ids -> [spec : Spec0, task : 0 .. MaxTasks] \cup {NotRunning}]
    /\ tasks \in [TaskSlots -> Task \cup {Free}]
    /\ endpoints \in [Ids -> 0 .. Dead]
    /\ aliases \in [Ids -> Ids \cup {NoId}]
    /\ runtime_map \subseteq Ids
    /\ supervised \subseteq Ids
    /\ name_aliases \in [Local -> Public \cup {NoId}]
    /\ changes \in 0 .. MaxChanges
    /\ failures \in 0 .. MaxFailures

-----------------------------------------------------------------------------
(* Specs: what the registry and the launch contexts make of a fetched one. *)

Listed(specs) == {i \in Ids : specs[i] # NoSpec}
IsRunning(i) == running[i] # NotRunning

(* A row of table agent has no webhook_url, name or overrides.             *)
Stored(specs) == [i \in Ids |-> IF specs[i] = NoSpec THEN NoSpec
                                                    ELSE [specs[i] EXCEPT !.webhook = FALSE]]

(* merge_federated_overrides.                                              *)
MergedOwnId(specs) ==                                 \* seeded fault: agent_id for the context's id
    [i \in Ids |-> IF specs[i].kind = "zellij" /\ i \in Public
                   THEN [specs[i] EXCEPT !.alias = i, !.bridge = TRUE] ELSE specs[i]]
Merged(specs) ==
    [i \in Ids |-> IF /\ specs[i].kind = "zellij"
                      /\ i \in Public /\ ~specs[i].bridge /\ Alias[i] # NoId
                   THEN [specs[i] EXCEPT !.alias = Alias[i], !.bridge = TRUE]
                   ELSE specs[i]]

Covers(specs, i) == \E j \in Listed(specs) : specs[j].alias = i

(* The boot list: the fetched specs merged, and every local agent with a   *)
(* launch context that no merged spec stands for.                          *)
BootSpecs(fetched) ==
    LET merged == Merged(fetched) IN
    [i \in Ids |-> IF i \in Local /\ ~Covers(merged, i) THEN LocalSpec[i] ELSE merged[i]]

Nothing == [i \in Ids |-> NoSpec]

(* specs_match and specs_match_ignoring_id.                                *)
SameKindOnly(a, b) == a.kind = b.kind                 \* seeded fault: domain_id not compared
SpecsMatch(a, b) == a.domain = b.domain /\ a.kind = b.kind

-----------------------------------------------------------------------------
(* diff_specs.                                                             *)

(* The key under which a desired spec already runs: its own id, else its   *)
(* alias.                                                                  *)
RunsAs(desired, i) ==
    CASE IsRunning(i) -> i
      [] ~IsRunning(i) /\ desired[i].alias # NoId -> IF IsRunning(desired[i].alias)
                                                     THEN desired[i].alias ELSE NoId
      [] OTHER -> NoId

Unchanged(desired, i) ==
    RunsAs(desired, i) # NoId /\ SpecsMatch(running[RunsAs(desired, i)].spec, desired[i])

RegisterNever(desired) == {}                          \* seeded fault: aliases only at spawn
AliasRegistrations(desired) ==
    {i \in Listed(desired) : ~IsRunning(i) /\ Unchanged(desired, i)}

DiffSpecs(desired) ==
    [desired |-> desired,
     remove |-> {i \in Ids : IsRunning(i) /\ desired[i] = NoSpec /\ ~Covers(desired, i)},
     spawn |-> {i \in Listed(desired) : RunsAs(desired, i) = NoId},
     restart |-> {i \in Listed(desired) : RunsAs(desired, i) # NoId /\ ~Unchanged(desired, i)},
     register |-> AliasRegistrations(desired)]

-----------------------------------------------------------------------------
Init ==
    /\ assigned \in {s \in [Ids -> (UNION {Offers[p] : p \in Public}) \cup {NoSpec}] :
                       \A i \in Listed(s) : i \in Public /\ s[i] \in Offers[i]}
    /\ db = Nothing
    /\ \E fetched \in {assigned, Nothing} :     \* Nothing: the boot GET failed
         rec = [r \in Reconcilers |-> IF r = "boot"
                                      THEN [pc |-> "resolved", desired |-> BootSpecs(fetched)]
                                      ELSE Idle]
    /\ running = [i \in Ids |-> NotRunning]
    /\ tasks = [n \in TaskSlots |-> Free]
    /\ endpoints = [i \in Ids |-> NoTask]
    /\ aliases = [i \in Ids |-> NoId]
    /\ runtime_map = {}
    /\ supervised = {}
    /\ name_aliases = [l \in Local |-> NoId]
    /\ changes = 0
    /\ failures = 0

(* The tower's meshagent rows of this node, one per agent: enrolled,       *)
(* deleted, or their profile and machine documents edited in place.        *)
Changed(p, spec) ==
    /\ changes < MaxChanges
    /\ changes' = changes + 1
    /\ assigned' = [assigned EXCEPT ![p] = spec]
    /\ UNCHANGED <<db, rec, spawned, registries, failures>>

AssignNodeAgent(p) ==
    /\ assigned[p] = NoSpec
    /\ \E s \in Offers[p] : Changed(p, s)

RevokeNodeAgent(p) ==
    /\ assigned[p] # NoSpec
    /\ Changed(p, NoSpec)

UpdateAgentProfile(p) ==
    \E s \in Offers[p] \ {assigned[p]} :
        /\ s.kind = assigned[p].kind
        /\ Changed(p, s)

-----------------------------------------------------------------------------
(* watch_assignments_ws and poll_assignments: GET, then the closure that   *)
(* persists, resolves, diffs and applies.  A failed GET changes nothing.   *)

Goto(r, state) == rec' = [rec EXCEPT ![r] = state]

Fetch(r) ==
    /\ r # "boot" /\ rec["boot"] = Idle
    /\ rec[r] = Idle
    /\ Goto(r, [pc |-> "fetched", specs |-> assigned])
    /\ UNCHANGED <<assigned, db, spawned, registries, changes, failures>>

(* replace_source; a failed write falls back to the fetched specs.         *)
Persist(r) ==
    /\ rec[r].pc = "fetched"
    /\ \/ /\ db' = Stored(rec[r].specs)
          /\ Goto(r, [pc |-> "persisted", specs |-> rec[r].specs])
          /\ UNCHANGED failures
       \/ /\ failures < MaxFailures /\ failures' = failures + 1
          /\ Goto(r, [pc |-> "resolved", desired |-> rec[r].specs])
          /\ UNCHANGED db
    /\ UNCHANGED <<assigned, spawned, registries, changes>>

(* list_specs_by_source and the merge.  The rows may be the other          *)
(* reconciler's; a failed read falls back to the fetched specs, a failed   *)
(* read of the launch contexts to the rows as they are.                    *)
ReadBack(r) ==
    /\ rec[r].pc = "persisted"
    /\ \/ /\ Goto(r, [pc |-> "resolved", desired |-> Merged(db)])
          /\ UNCHANGED failures
       \/ /\ failures < MaxFailures /\ failures' = failures + 1
          /\ \E desired \in {rec[r].specs, db} :
               Goto(r, [pc |-> "resolved", desired |-> desired])
    /\ UNCHANGED <<assigned, db, spawned, registries, changes>>

Applying == {"apply", "stop_removed", "stop_changed", "respawn"}
AlwaysFree == TRUE                                    \* seeded fault: lock not taken
RunningLockFree == \A r \in Reconcilers : rec[r].pc \notin Applying

(* running.lock().await and diff_specs.                                    *)
Diff(r) ==
    /\ rec[r].pc = "resolved"
    /\ RunningLockFree
    /\ Goto(r, [pc |-> "apply", plan |-> DiffSpecs(rec[r].desired)])
    /\ UNCHANGED <<assigned, db, spawned, registries, changes, failures>>

-----------------------------------------------------------------------------
(* apply_plan, under the running lock: removals, then restarts, then       *)
(* spawns, then alias registrations.                                       *)

(* RunningAgent::shutdown: abort every handle, then wait for each (5s).    *)
Abort(i) ==
    tasks' = [n \in TaskSlots |-> IF n = running[i].task THEN [tasks[n] EXCEPT !.aborted = TRUE]
                                                         ELSE tasks[n]]
NoWait(n) == TRUE                                     \* seeded fault: handles not awaited
ShutdownDone(n) == n \in TaskSlots => tasks[n].pc \in {"free", "orphan"}

ShutdownRemoved(r) ==
    /\ rec[r].pc = "apply"
    /\ \E i \in rec[r].plan.remove :
         /\ running' = [running EXCEPT ![i] = NotRunning]
         /\ Abort(i)
         /\ Goto(r, [pc |-> "stop_removed", plan |-> [rec[r].plan EXCEPT !.remove = @ \ {i}],
                     id |-> i, task |-> running[i].task])
    /\ UNCHANGED <<assigned, db, runtime_map, supervised, name_aliases, registries, changes,
                   failures>>

RemovedStopped(r) ==
    /\ rec[r].pc = "stop_removed"
    /\ ShutdownDone(rec[r].task)
    /\ runtime_map' = runtime_map \ {rec[r].id}
    /\ Goto(r, [pc |-> "apply", plan |-> rec[r].plan])
    /\ UNCHANGED <<assigned, db, running, tasks, supervised, name_aliases, registries, changes,
                   failures>>

(* A restart shuts down only what runs under the spec's own id.            *)
ShutdownChanged(r) ==
    /\ rec[r].pc = "apply" /\ rec[r].plan.remove = {}
    /\ \E i \in rec[r].plan.restart :
         LET rest == [rec[r].plan EXCEPT !.restart = @ \ {i}] IN
         \/ /\ IsRunning(i)
            /\ running' = [running EXCEPT ![i] = NotRunning]
            /\ Abort(i)
            /\ Goto(r, [pc |-> "stop_changed", plan |-> rest, id |-> i, task |-> running[i].task])
         \/ /\ ~IsRunning(i)
            /\ Goto(r, [pc |-> "respawn", plan |-> rest, id |-> i])
            /\ UNCHANGED <<running, tasks>>
    /\ UNCHANGED <<assigned, db, runtime_map, supervised, name_aliases, registries, changes,
                   failures>>

ChangedStopped(r) ==
    /\ rec[r].pc = "stop_changed"
    /\ ShutdownDone(rec[r].task)
    /\ runtime_map' = runtime_map \ {rec[r].id}
    /\ Goto(r, [pc |-> "respawn", plan |-> rec[r].plan, id |-> rec[r].id])
    /\ UNCHANGED <<assigned, db, running, tasks, supervised, name_aliases, registries, changes,
                   failures>>

(* spawn_one.  Only a persistent agent's webhook is relayed to.            *)
Relayed(spec) == spec.webhook /\ spec.kind # "task"

FirstPc(spec) ==
    CASE Relayed(spec) -> "relay"
      [] spec.kind = "task" -> "loop"
      [] OTHER -> "down"

Owned(spec) == Relayed(spec) \/ spec.kind # "zellij" \/ spec.bridge

SpawnOne(i, spec) ==
    LET free == {n \in TaskSlots : tasks[n] = Free}
        n == IF Owned(spec) THEN CHOOSE m \in free : TRUE ELSE NoTask
    IN
    /\ Owned(spec) => free # {}
    /\ running' = [running EXCEPT ![i] = [spec |-> spec, task |-> n]]
    /\ tasks' = [m \in TaskSlots |-> IF m = n
                   THEN [agent |-> i, aborted |-> FALSE, pc |-> FirstPc(spec)]
                   ELSE tasks[m]]
    /\ IF Relayed(spec)
         THEN UNCHANGED <<runtime_map, supervised>>
         ELSE /\ runtime_map' = runtime_map \cup {i}
              /\ supervised' = supervised \cup {i}
    /\ UNCHANGED failures

(* ensure_installed fails before the runtime is published, or              *)
(* supervisor.spawn fails after.                                           *)
SpawnFails(i, spec) ==
    /\ failures < MaxFailures /\ failures' = failures + 1
    /\ ~Relayed(spec)
    /\ \/ UNCHANGED runtime_map
       \/ runtime_map' = runtime_map \cup {i}
    /\ UNCHANGED <<running, tasks, supervised>>

Respawn(r) ==
    LET i == rec[r].id
        spec == rec[r].plan.desired[i]
    IN
    /\ rec[r].pc = "respawn"
    /\ SpawnOne(i, spec) \/ SpawnFails(i, spec)
    /\ Goto(r, [pc |-> "apply", plan |-> rec[r].plan])
    /\ UNCHANGED <<assigned, db, name_aliases, registries, changes>>

SpawnNew(r) ==
    /\ rec[r].pc = "apply" /\ rec[r].plan.remove = {} /\ rec[r].plan.restart = {}
    /\ \E i \in rec[r].plan.spawn :
         LET spec == rec[r].plan.desired[i] IN
         /\ \/ /\ SpawnOne(i, spec)
               /\ name_aliases' = [l \in Local |-> IF l = spec.alias THEN i ELSE name_aliases[l]]
            \/ SpawnFails(i, spec) /\ UNCHANGED name_aliases
         /\ Goto(r, [pc |-> "apply", plan |-> [rec[r].plan EXCEPT !.spawn = @ \ {i}]])
    /\ UNCHANGED <<assigned, db, registries, changes>>

(* register_alias, and the lock is released.                               *)
RegisterAliases(r) ==
    /\ rec[r].pc = "apply"
    /\ rec[r].plan.remove = {} /\ rec[r].plan.restart = {} /\ rec[r].plan.spawn = {}
    /\ aliases' = [i \in Ids |-> IF i \in rec[r].plan.register THEN rec[r].plan.desired[i].alias
                                                              ELSE aliases[i]]
    /\ Goto(r, Idle)
    /\ UNCHANGED <<assigned, db, spawned, endpoints, changes, failures>>

-----------------------------------------------------------------------------
(* The tasks.  run_for_agent of the session supervisors and of the zellij  *)
(* bridge: open, register, pump, unregister, back off, again.              *)

Register(n) ==
    /\ tasks[n].pc = "down"
    /\ tasks' = [tasks EXCEPT ![n].pc = "up"]
    /\ endpoints' = [endpoints EXCEPT ![tasks[n].agent] = n]
    /\ UNCHANGED <<assigned, db, rec, running, runtime_map, supervised, name_aliases, aliases,
                   changes, failures>>

SessionEnds(n) ==
    /\ tasks[n].pc = "up"
    /\ tasks' = [tasks EXCEPT ![n].pc = "closing"]
    /\ UNCHANGED <<assigned, db, rec, running, runtime_map, supervised, name_aliases, registries,
                   changes, failures>>

(* AttachRegistry::unregister drops the aliases that point at the id too.  *)
Unregister(n) ==
    LET i == tasks[n].agent IN
    /\ tasks[n].pc = "closing"
    /\ tasks' = [tasks EXCEPT ![n].pc = "down"]
    /\ endpoints' = [endpoints EXCEPT ![i] = NoTask]
    /\ aliases' = [j \in Ids |-> IF aliases[j] = i THEN NoId ELSE aliases[j]]
    /\ UNCHANGED <<assigned, db, rec, running, runtime_map, supervised, name_aliases, changes,
                   failures>>

(* An aborted task is dropped at an await: nothing unregisters for it, and *)
(* the channels in its endpoints close.  For a task loop the aborted       *)
(* handle is the wrapper; the loop it awaits is detached and goes on.      *)
Terminated(n) == IF tasks[n].pc \in {"loop", "orphan"} THEN [tasks[n] EXCEPT !.pc = "orphan"] ELSE Free

Cancelled(n) ==
    /\ tasks[n].pc \notin {"free", "orphan"}
    /\ tasks[n].aborted
    /\ tasks' = [tasks EXCEPT ![n] = Terminated(n)]
    /\ endpoints' = [i \in Ids |-> IF endpoints[i] = n THEN Dead ELSE endpoints[i]]
    /\ UNCHANGED <<assigned, db, rec, running, runtime_map, supervised, name_aliases, aliases,
                   changes, failures>>

-----------------------------------------------------------------------------
Reconcile(r) ==
    \/ Persist(r) \/ ReadBack(r) \/ Diff(r)
    \/ ShutdownRemoved(r) \/ RemovedStopped(r)
    \/ ShutdownChanged(r) \/ ChangedStopped(r) \/ Respawn(r)
    \/ SpawnNew(r) \/ RegisterAliases(r)

TaskStep(n) == Register(n) \/ SessionEnds(n) \/ Unregister(n)

Next ==
    \/ \E p \in Public : AssignNodeAgent(p) \/ RevokeNodeAgent(p) \/ UpdateAgentProfile(p)
    \/ \E r \in Reconcilers : Fetch(r) \/ Reconcile(r)
    \/ \E n \in TaskSlots : TaskStep(n) \/ Cancelled(n)

(* The poll loop never stops and its GET eventually answers; tokio polls   *)
(* every runnable task and cancels an aborted one.                         *)
Fairness ==
    /\ WF_vars(Fetch("poll"))
    /\ \A r \in Reconcilers : WF_vars(Reconcile(r))
    /\ \A n \in TaskSlots : WF_vars(Cancelled(n))

Spec == Init /\ [][Next]_vars /\ Fairness

-----------------------------------------------------------------------------
(* Safety.                                                                 *)

(* AttachRegistry::get.                                                    *)
Get(i) == CASE endpoints[i] # NoTask -> endpoints[i]
            [] endpoints[i] = NoTask /\ aliases[i] # NoId -> endpoints[aliases[i]]
            [] OTHER -> NoTask

(* While a session is being pumped, the registry leads to it: no earlier   *)
(* session of the agent, shut down or restarted by a reconcile, can have   *)
(* unregistered or replaced its endpoints.                                 *)
LiveSessionReachable ==
    \A n \in TaskSlots : tasks[n].pc = "up" => Get(tasks[n].agent) = n

(* Every session, bridge or relay is held by the running map, or is being  *)
(* shut down: two reconciles never leave one that no later reconcile can   *)
(* stop.  So an agent id never has two sessions.                           *)
SessionsHeld ==
    \A n \in TaskSlots :
        tasks[n].pc \notin {"free", "loop", "orphan"} =>
            \/ tasks[n].aborted
            \/ running[tasks[n].agent].task = n

(* Whoever changes the running map holds its lock and has good reason to,  *)
(* although the plan was made many awaits before: it stops an agent only   *)
(* if its list leaves the agent out or wants it otherwise, and it starts   *)
(* one, as its list says, only if none runs under that id (diff_specs,     *)
(* apply_plan).                                                            *)
Unwanted(i, desired) ==
    IF desired[i] = NoSpec THEN ~Covers(desired, i)
                           ELSE ~SpecsMatch(running[i].spec, desired[i])

ChangesWarranted ==
    [][\A i \in Ids : running'[i] # running[i] =>
         \E r \in Reconcilers :
            /\ rec[r].pc \in Applying
            /\ \/ IsRunning(i) /\ running'[i] = NotRunning /\ Unwanted(i, rec[r].plan.desired)
               \/ ~IsRunning(i) /\ running'[i].spec = rec[r].plan.desired[i]]_vars

(* The same for every loop, the task loops included: a shutdown aborts the *)
(* handle, which "drops the supervisor's state and reaps the child".       *)
ShutdownStopsLoop ==
    RunningLockFree => \A n \in TaskSlots : tasks[n] # Free => ~tasks[n].aborted

(* Agents with a launch context "coexist with controlplane assignments":   *)
(* once booted, each one runs, or a tower agent that stands for it does.   *)
LocalAgentsKept ==
    [][\A l \in Local :
         (IsRunning(l) /\ running'[l] = NotRunning) =>
            \E p \in Public : Alias[p] = l /\ assigned[p] # NoSpec]_vars

-----------------------------------------------------------------------------
(* Liveness.                                                               *)

InSync ==
    /\ \A p \in Public : assigned[p] # NoSpec =>
         \E i \in {p, Alias[p]} \ {NoId} :
            /\ IsRunning(i)
            /\ running[i].spec.domain = assigned[p].domain
            /\ running[i].spec.kind = assigned[p].kind
    /\ \A i \in Ids : IsRunning(i) =>
         \E p \in Public : assigned[p] # NoSpec /\ i \in {p, Alias[p]}

(* Once the assignments stop changing, the running agents are and remain   *)
(* the assigned ones, whatever stale lists the two reconcilers still hold. *)
Converges == <>[]InSync

(* A tower agent that runs under its local id: as long as that bridge      *)
(* stays up, an attach for the tower's id reaches it in the end, although  *)
(* every restart of the bridge prunes the alias and a reconcile with a     *)
(* stale list may have changed the plan; provided no endpoints are         *)
(* registered under the tower's id itself.                                 *)
FederatedAttachHeals ==
    \A p \in Public : Alias[p] # NoId =>
        ( <>[](/\ ~IsRunning(p) /\ endpoints[p] = NoTask /\ IsRunning(Alias[p])
               /\ endpoints[Alias[p]] \in TaskSlots)
          => <>[](assigned[p] # NoSpec => Get(p) \in TaskSlots) )
=============================================================================
