# Edgeplane: a TLA+ verification project

Edgeplane coordinates software agents. The *tower* (`crates/edgeplane-tower`) is an HTTP and MCP
service over Postgres that owns missions, tasks, review gates, agents, runtime jobs, scheduled jobs
and messages. The *daemon* `edgeplaned` (`crates/edgeplaned`) runs on every node, supervises agent
processes and works tasks. The *CLI* `edgeplane` (`crates/edgeplane`) is what people and agents use.

This directory models the parts whose correctness depends on interleaving, failure and time. Each
module is translated from the Rust and SQL named in the `map` of `PROJECT.json`.

## Inventory

| Part | State | Operations | Hard because | Correct when |
|---|---|---|---|---|
| claimable tasks (`routes/work.rs`, `task_transitions.rs`, `mcp.rs`) | `task` rows with `kind='claimable'`, `meshprogressevent`, `reviewgate` | create, claim (exclusive, broadcast, MCP), heartbeat, progress, complete, fail, block, unblock, cancel, retry, dispatch, gate create and resolve, lease sweep, release of dependents | handlers run concurrently, several statements each, most outside a transaction, under READ COMMITTED; leases lapse; handlers are dropped | a task in progress has one owner, old leases never match, dependents are released, answers to repeated calls are stable |
| assigned tasks (`routes/tasks.rs`) | `task` rows with `kind='assigned'` | create, update, delete | read then blind write | lease minted once, terminal stamps consistent |
| runtime jobs (`routes/runtime.rs`) | jobs, leases, nodes, logs | create, claim, status, complete, heartbeat | claim is a subselect without recheck, completion is two statements | one holder per lease, job status follows its lease |
| scheduled jobs (`routes/scheduled_jobs.rs`) | schedule rows | create, update, delete, trigger | single statements; the tower has no scheduler of its own | nothing to interleave |
| messages and relays (`routes/agents.rs`, `task_loop.rs`, `edgeplaned-work/src/messages.rs`) | message table, cursors | send, poll since id, relay | cursor resets, drops between poll and ack | delivered once and in order |
| daemon task worker and task loops (`task_worker.rs`, `task_loop.rs`, `edgeplaned-work`) | in-flight set, permits, ephemeral agents and runs, worktrees, offline watchdog | poll, enrol, claim, run, report, clean up; heartbeat, claim, stream, report | the worker never renews its leases, any call may fail before or after the tower acted on it, the daemon may die between two calls | no lifecycle disturbs another one's directory, nothing enrolled is left behind, every claim ends, the loops go on |
| agent reconciliation (`daemon.rs`, `reconcile.rs`, `supervisor.rs`, `session_supervisor.rs`, `zellij_bridge.rs`, `attach_registry.rs`) | running map, supervisor map, attach endpoints and aliases, SQLite rows of the tower's list | boot spawn, websocket and poll reconcile, shutdown, restart, spawn, alias registration, session open, end and retry, abort | two reconcilers with lists of different age, sessions that outlive their agent, failed SQLite calls, aborted tasks | the running set converges to the assigned one, no session is lost or doubled, attaches reach the live session |
| ACP session and attach (`edgeplaned-acp/agent.rs`, `claude_agent_acp.rs`, `acp_session_supervisor.rs`, `replay_broadcast.rs`, `attach_ws.rs`) | child process and its actor, notification channel, replay ring, viewers' channel, signal queue | open, emit, forward, compact, prompt, cancel, subscribe with replay, lag, abort | bounded channels that drop, slow readers, late joiners, a prompt that blocks the supervisor, a child that dies in the middle of a turn | no gap or overlap between replay and live output but a reported one, one prompt turn at a time, signals are handled |
| cron of the daemon (`cron.rs`) | config, last fire per job in SQLite | tick, dispatch, record, reload | a crash between dispatch and record, missed ticks | a missed iteration fires once |
| singleton (`singleton.rs`) | flock on a file | acquire, take over | crash of the holder | one daemon; the kernel does it |
| registry and mgmt (`local_registry.rs`, `mgmt_gateway.rs`, `bootstrap.rs`, `register.rs`) | JSON files, sockets | read, edit, serve | mostly sequential file I/O | out of reach of the questions asked here |
| tower CRUD (`domains.rs`, `missions.rs`, `docs.rs`, `profiles.rs`, `artifacts.rs`, ...) | one row each | insert, select, update | single statements | nothing to interleave |
| authentication (`auth.rs`, `oidc_web.rs`) | sessions, tokens | login, refresh, check | protocol belongs to the identity provider | not modelled |
| CLI and TUI (`crates/edgeplane`) | terminal state | render, call the tower | presentation | not modelled |
| sandbox, packs, secrets, sync, receipts, zrpc crates | process isolation, files, wire formats | system calls, parsing | I/O | not modelled |

How the parts interact: the daemon is a client of the tower. Its reconcilers read the node's agents
from `GET /runtime/nodes/{id}/agents`; its task loop and worker list, claim, renew and finish tasks
through `/work`; its relay polls messages. Agents and the CLI call the same `/work` routes, partly
through MCP. Inside the tower the only shared state is Postgres: handlers meet in rows, not in
memory. Inside the daemon the shared state is in memory, behind tokio mutexes, plus one SQLite file.

## Modules

| Module | What it is |
|---|---|
| `TaskLifecycle` | the tower's claimable tasks, gates and progress events and every handler that writes them |
| `TaskLease` | what the tower promises: the abstract lease protocol of a task |
| `MCTaskLifecycle` | small instances of `TaskLifecycle` |
| `TaskLifecycleProofs` | its invariants, proved |
| `TaskLeaseProofs` | its action properties and the refinement of `TaskLease` for exclusive tasks, proved |
| `TaskStepProofs` | its action properties about dependents and gates, proved |
| `TaskRunner` | the daemon that works the tasks: worker, task loops, watchdog; its tower is an instance of `TaskLease` |
| `MCTaskRunner` | a small instance |
| `TaskRunnerProofs` | its safety properties, proved |
| `AcpAttach` | one persistent ACP agent, from the child process to the clients of its viewers |
| `MCAcpAttach` | small instances |
| `AcpAttachProofs` | its safety properties, proved |
| `AttachStream` | what a viewer is promised: one cursor in one log |
| `AttachStreamProofs` | the refinement of `AttachStream` by `AcpAttach`, proved |
| `AgentReconcile` | boot, websocket and poll reconciliation of one node, the tasks it spawns, the attach registry |
| `MCAgentReconcile` | small instances |
| `AgentReconcileProofs` | its safety properties, proved |
| `ReconcileStepProofs` | its action property about the running map, proved |

### TaskLifecycle

`task`, `gate` and `progress` are the tables. `req` holds one record per handler in flight (`Slots`):
its program counter and the values it has read and will still use. `grants` lists the lease ids
handed out, in order, with the task, agent and caller of each; a client may present any lease id it
was ever given (`Presentable`), however old. `done` is a history variable, never reset: the completes
and fails of agents the tower applied, with the number of claims granted by then and whether the task has been
retried since.

Postgres runs each statement under READ COMMITTED, and the grain of the model follows from that.
A single `UPDATE` whose predicate reads only the row it writes is re-evaluated on the newest row
version after a lock wait, so it is one action (`Fail`, `Block`, `Cancel`, `Retry`, `McpClaim`,
`ExpireStaleLease`). A statement that also reads another table keeps what its snapshot said about
that table while it waits for the row: `complete_task` with its `gate_check` CTE and `resolve_gate`
with its `agg` CTE are two actions, snapshot and write. A handler of several statements takes one
action for each, and any other handler may run in between. Row locks (`FOR UPDATE`) are held from
the locking statement to the end of the transaction (`Locked`); `SKIP LOCKED` is a guard.
`Abort` drops a handler between two statements, as axum does when the client goes away. `UnblockError` is
an SQL error of `unblock_dependents`, which the helper swallows (`unwrap_or_default`, `let _`): there are no candidates, or the one
in hand is passed over and the next is tried. In other handlers an SQL error ends the handler, as `Abort` does.

Time appears only as what `lease_expires_at >= now` decides: `LeaseLapses` may make a live lease
lapsed at any moment. Payloads, artifacts, priorities and the wording of answers are left out. Of the
answers, those of `classify_fenced_rejection` are kept (`Classify`), because a client acts on them.

### TaskLease, and why it is there

`TaskLease` says in six moves and a grant what an agent may rely on: a task is absent, open, parked
(pending or blocked), held under one lease, stopped (failed or cancelled) or finished; only an open
task is granted, under a lease id never used before; a held task is released, stopped or finished
before it is granted again; nothing leaves finished. It has two users. `TaskLifecycle` implements it
(`Lease == INSTANCE TaskLease WITH ...`, `ImplementsTaskLease`): `PhaseOf` maps a row's status,
`HeldLease` its lease while it is in progress, and the number of grants is `issued`. A
`waiting_review` row maps to held, because its claimant can still complete or fail it.
`TaskRunner` builds its tower from it, so that the daemon is checked against the promise and not
against forty handlers. The promise is kept for exclusive tasks without dependencies only; `reclaim`
is the counterexample for the others. `TaskRunner` therefore speaks of such tasks.

### TaskRunner

`phase`, `lease` and `issued` are the tower's tasks as in `TaskLease`; `holder` and `lapsed` add what
the daemon's calls depend on. `Finishable` is the tower's `finishable` predicate for a full-trust
caller, which the daemon's node token is: a late claimant is accepted, anybody else must find the
lease live. `list` and `in_flight` are the worker's variables of those names, `life` has a record per
permit of its semaphore: where `run_task_lifecycle` is, for which task, under which ephemeral agent,
and whether the directory and the run record exist. A step is the code between two awaits. Each call
may succeed, fail before the tower acted, or fail after it (the answer lost), and the early returns
lead where the code's do. `loop` is where each task loop of `run_for_agent` is, `watchdog` the shared
`ConnectivityState`. `Crash` forgets everything in memory and leaves rows and directories. It also leaves the subprocesses:
`cmd.output()` is awaited without `kill_on_drop`, so `claude -p` runs on, and `orphans` holds such subprocesses with the task and
agent they run for until they end (`OrphanEnds`, which is not fair: they may never). `why` is a
history variable: what cut a cleanup short. Assumptions:

- the mission polled is the only one, its tasks target a supervised profile and have no gates;
- the policies `strict` and `safe_readonly` coincide, because `current_task_id` is never set; the
  `autonomous` policy, the notify websocket (it only shortens a sleep) and the buffer of peer messages
  are left out;
- the tower's sweep, which every listing runs, is separate steps of the daemon's own listing;
- a heartbeat that is accepted keeps a live lease live: it appears as `Lapse` not being fair while
  somebody renews (`Renewed`);
- a call past the bounds on leases and enrolments fails, as any call may;
- which free permit a new lifecycle gets does not matter (`CHOOSE`).

### AcpAttach

Sessions are numbered. `sup` is where the supervisor's `run_for_agent` is; `child`, `turns`, `feed`
are the agent process, the prompts it has not answered and the updates it wrote; `pump` is
`pump_session` with its place in the notification channel; `sent` and `ring` are what went through
`ReplayBroadcast::send` and its buffer; `signals` is the queue of prompts and cancels; `viewer` is
`pump_acp`, with what its client received. An update is its number in the child's output, so order,
loss and duplication are visible; a flag says whether it reports context usage above the compaction
threshold. A broadcast channel is its whole history and a receiver a place in it: a receiver further
behind than the capacity is told `Lagged` and moved to the oldest item kept, which is what tokio does.
`Abort` drops the supervisor at any await and leaves the endpoint registered and the child alive.
Viewers connect at any moment and stay on the channels of the session they found. The message relay is
one action that delivers a prompt to the registered session; its cursor is not modelled. The PTY pump,
the framing and the child's own requests to the daemon (permissions, files) are not either.

### AttachStream, and why it is there

`AttachStream` forgets supervisor, ring, snapshot and channels. A session is a log that grows; a viewer is
a cursor in it that starts `History` entries before the end, hands over entry after entry, and jumps
forward only by reporting every entry it jumps over. `AcpAttach` implements it (`Stream == INSTANCE
AttachStream WITH ...`, `ImplementsAttachStream`): the log is `sent`, `History` the capacity of the ring,
and `ReaderOf` computes the cursor of a viewer from its live receiver and what is left of its snapshot.
While the snapshot is being replayed the cursor lies inside the broadcast's past, although the receiver
stands at its end: that the two meet without overlap or gap is what the refinement says. The step that takes
snapshot and receiver is `Attach`, the replay and the live receiver both are `Deliver`, a lag is `Report`.
The supervisor, the prompts and the child stutter, unless something is sent.

### AgentReconcile

`assigned` is the tower's list, `db` the SQLite rows of the controlplane source, `running` the
daemon's map from agent id to spec and task, `tasks` the tokio tasks, `endpoints` and `aliases` the
attach registry, `runtime_map`, `supervised` and `name_aliases` the other maps a spawn fills. `rec`
has one record per reconciler: boot, websocket, poll. A reconciler takes one action per await at
which another task can run: the GET (`Fetch`), `replace_source` (`Persist`), the read-back and merge
(`ReadBack`), the running lock and `diff_specs` (`Diff`), and then, holding the lock, each shutdown,
restart and spawn of `apply_plan` and its alias registrations. A session supervisor or bridge
registers, pumps, unregisters and backs off (`Register`, `SessionEnds`, `Unregister`). An aborted
task may take further steps until it is dropped at an await (`Cancelled`); it never unregisters, and
the endpoints it leaves are `Dead`.

The tower's side is three actions on `assigned`: `AssignNodeAgent`, `RevokeNodeAgent` and
`UpdateAgentProfile`. A spec is reduced to what decisions depend on: domain (standing for `profile_path`
too, which is compared the same way), kind (task loop, session, zellij bridge),
whether a webhook and a zellij session are set, and the alias. `Alias` gives the unique launch context
`merge_federated_overrides` finds for a tower id, by name or by public id. Assumptions:

- launch contexts do not change while the daemon runs, belong to imported sources (not `local`), and
  no yaml domains are configured, so a failed GET at boot leaves the launch contexts alone;
- an active profile exists, so that reconciles go through SQLite (the profile-less node passes its
  list through unchanged, the path a failed write takes in the model);
- runtime overrides are empty; capabilities are left out, because no decision reads them;
- the five seconds of `SHUTDOWN_GRACE` are enough for an aborted task to reach an await. The blocking
  call of the zellij bridge's liveness test could exceed them;
- a session and its message relay, spawned and aborted together, are one task;
- the tower has at most one row per public id and node (nothing in the tower enforces it);
- a webhook is relayed to for the kinds of mode persistent only (`Relayed`); a task-mode spec may have one, and it is ignored;
- a failed GET is no step.

## Runs

| Run | Question | Instance |
|---|---|---|
| `claims` | Do ownership, fencing, numbering and attribution survive every interleaving on an exclusive task, and is a repeated finish recognised until a retry or a later claimant's finish? | one task, two agents, one operator, two handlers at once, two claims, two attempts, one dropped handler |
| `gates` | Do ownership, fencing and repeated answers hold on a broadcast task with a gate, whose claim writes unconditionally? Can two reviewers decide one gate twice? | one task, one gate, two agents, one operator, two handlers |
| `join` | Is a task that joins two others released when they finish together, without ever being in nobody's hands, and is every lapsed claim swept? | three tasks, one agent, two handlers, three claims |
| `gate_split` | Does a task ever wait for review with no gate pending? (It does.) | one task, one gate, one agent |
| `reclaim` | Is an exclusive task ever claimed over a live lease? (It is, with dependencies.) | three tasks, four claims |
| `lost_wakeup` | Is a task submitted while its dependency finishes released? (Not always.) | two tasks, one claim |
| `attach` | Does a viewer that attaches, lags, prompts, cancels and leaves see every update once, in order, or a reported gap, as if it held one cursor in one log? Is what was queued for a child handed to it, unless it dies or the session ends? | one viewer, two sessions, three updates, two signals, capacities of one and two |
| `agent_death` | Does the supervisor end the session of a child that died? (It does not.) | two sessions, one update |
| `runner` | Do worker, task loop and outside claimants leave directories, rows and claims in order, whatever call fails, and what is left of that after a crash whose subprocess runs on? | one task, two permits, one loop, two claims, two enrolments, one crash |
| `reconcile` | Do two reconcilers, boot, sessions and failures leave the right agents running and reachable, and touch them only for a reason that still holds? | one tower agent with three possible specs, one local twin, two changes, one failure |
| `orphan_loop` | Does a shutdown end a task loop? (It does not.) | one task-mode tower agent, one change |
| `local_kept` | Do local agents coexist with the tower's? (They do not.) | one task-mode tower agent, one unrelated local agent |

`claims` also checks that `TaskLifecycle` implements `TaskLease`, `attach` that `AcpAttach` implements
`AttachStream`.

Why these bounds. Every hazard of `TaskLifecycle` is a race of two handlers on one row, so two slots
suffice; a third handler only adds a second race of the same kind, and the theorems hold for any
number. Two claims make a stale lease possible, two attempts make a sweep both retry and give up, and
the third claim of `join` lets each of its three tasks be claimed. `reclaim` needs four: the finishers of
both dependencies and the dependent claimed twice. `gates` has one gate: two decisions race on the one row, but the race of the last two
gates of a task, neither decision seeing the other, is not in the instance. `claims` and `gates` have no dependencies, so the write of
`unblock_dependents` is exercised by `reclaim` and `join`, and covered by the theorems, which admit any dependency lists. `join` has
no dropped handler and no failed statement (`MaxAborts = 0`), because `DependentsReleased` needs that; with one of either its other two
properties hold as well (467,572 states), and `ReleaseSafe` proves `NobodyForgotten` for any number. In `reconcile` two changes of the list give
the two reconcilers different lists and let an agent be revoked and enrolled again with another kind; the
three specs differ in domain, kind and webhook, so a change may be a restart, a removal, a spawn or nothing. `MaxTasks = 2` is never a limit: an id has at most
one live session, and there are two ids; deadlock checking, on in this run, would report a spawn that
waits for a slot. Larger instances of the same models (two tower agents and three tasks, 1.3 million
states; two gates, 1.9 million) gave the same results and are left out because they take minutes.

In `attach` the capacities are small so that every channel overflows: the supervisor lags with one
update waiting, a viewer with one, the ring evicts at the third; the second session shows a
viewer that stays on the channels of the first. `MaxUpdates` is more than a bound for `AcceptedSignalsHandled`: it makes every child fall
silent some day, which the property assumes (see below). In `runner` one task suffices for what the properties
speak of, two lifecycles on the same task; the second permit and the second claim are there for the
lifecycle that would start while the first still runs. The arm of `PollTakes` that finds no permit is not reached with one
task and two permits; the theorems cover any number of both.

`CHECK_DEADLOCK FALSE` is set for `TaskLifecycle`, `AcpAttach` and `TaskRunner`: their claims, updates,
signals and enrolments are bounded, and a behaviour that has used them up stops. Agents and slots are symmetric where no liveness property is
checked.

### Fairness

`TaskLifecycle` assumes that a handler in flight executes its next statement: tokio polls it and
Postgres queues lock waiters. It assumes nothing about clients: nobody has to claim, finish or retry.
The sweep is fair because every listing of tasks runs it and daemons list for ever. With an `Abort` the
release of dependents is not guaranteed, so liveness is checked with `MaxAborts = 0`.

`AcpAttach` assumes that the supervisor's task is polled when one of its futures is ready: `Supervise`
(open, register, subscribe, back off; the handshake has timeouts) and every branch of the pump.
Nothing makes the child write, answer or die, and no viewer has to read. `AcceptedSignalsHandled` is
conditional, session by session, on a child that answers its prompts or dies, because the code has no timeout on a prompt, and that stops
writing some day, because the `select!` of the pump is biased towards updates: a child that never stops starves the signals.

`TaskRunner` assumes that the worker polls (its interval fires), that a lifecycle takes its next step
except waiting for its subprocess (there is no timeout on it), and that a task loop does, except
waiting for its stream to end. A heartbeat that is sent again and again lands at last (strong
fairness), and a lease nobody renews lapses. A step includes its call to the tower, and the client sets no timeout (`edgeplaned-core/src/client.rs:36`):
that every call returns, with an answer or an error, is an assumption about the network, not something the code enforces. A connection
that stays open without an answer would stop a lifecycle, the poll loop or a task loop for good, and `ClaimsSettle`, `InFlightReleased` and
`PollsOrLatched` with it. `ClaimsSettle` and `PollsOrLatched` are conditional on
streams that end, `InFlightReleased` on subprocesses that end.

`AgentReconcile` assumes that the poll loop goes on and its GET eventually answers, that a reconciler
past its GET proceeds, and that an aborted task is dropped. A reconciler that proceeds holds the running lock over each wait for a
shutdown, which the grace period bounds, and over the token request of `spawn_one` (`daemon.rs:1449`), which nothing bounds: that it returns is
assumed too, and one that did not would stop all reconciliation. The websocket is not assumed to deliver
anything, and a session is not assumed to open.

### What the passing runs show

`InProgressOwned`: no transition clears too few or too many columns, in any order of transitions.
`LeaseIsNewestGrant`: no lease but the newest of a task ever matches a row, whatever was swept, retried,
re-readied or overwritten in between. `ProgressGapless`: posters are serialised by the row lock.
`AttributionKept`: whoever finished a task is named until a retry. `RepeatedCallIsConflict`: an agent whose complete or fail was applied
and which repeats it without a lease is told 409, whatever cancels, blocks, sweeps, releases and claims came in between, as long as its name
is on the row. Two things take it away and are named in the property: a retry clears claimant and finalizer (`work.rs:1012`), and a later
claimant of a task that was claimed without a retry (the unconditional broadcast claim, the second write of `unblock_dependents`)
replaces it by finishing. After either the repeated call is told 403 (`task_transitions.rs:147-164`), as a stranger's would be.
`FinishedIsFinal` and `ReclaimAfterRelease` hold for tasks without dependencies and without broadcast;
`reclaim` shows where the second stops. `DependentsReleased` and `LapsedClaimReclaimed` are the two
promises to a waiting task: `join` shows the first for tasks that exist before their dependencies
finish, `lost_wakeup` where it stops. `NobodyForgotten` is the safety half of the first: a task with nothing
left to wait for is at every moment among the candidates of a handler under way, and it names the three ways
out of that (a handler dropped or one of its statements failing, a dispatch, a list that names a task twice); `join` has none of them,
the theorem covers them. `DecisionFinal` rests on the row lock of the gate that `resolve_gate` waits for.

`ImplementsTaskLease`: whatever the interleaving of their statements, the handlers look to the agents
like atomic grants, releases and finishes.

`WorktreeKept` has two halves. For the subprocesses of this life it rests on `in_flight` alone: the lease does lapse, the task is
offered again, and the only thing that keeps a second lifecycle out of the directory is that the worker still has the task
in that set. For a subprocess that outlived its daemon nothing but the claim does: while the task is still held by its agent the
tower does not offer it. When that claim ends (nobody renews it) the next lifecycle of the task moves into the same directory and removes it
under the orphan, which `task_worker.rs:402-405` ("an isolated cwd") does not expect; the property ends where the claim does, and without
that condition TLC shows the removal. `NothingLeftBehind` says that every early return cleans up, but for the three reasons in
`why`. `ClaimsSettle` says that a claim whose answer was lost, whose daemon crashed or whose subprocess
hangs ends all the same, since the worker's own polling sweeps it. `PollsOrLatched` says that a task
loop whose calls return stops for one reason only: once offline, no loop sends the heartbeat that would end it.

`ViewerInOrder` and `AttachComplete` rest on snapshot and subscription being taken under one lock
(`subscribe_with_replay`); `NoSilentGap` says that nothing the supervisor does to an update (holding it
back for a compaction, evicting it from the ring, being blocked in a prompt while the channel
overflows) loses it without a `Lagged` report. `ImplementsAttachStream` says
all of that at once, step by step and not only of the states reached. `OneTurnAtATime` rests on the prompt being awaited in
the `select!` arm; `AcceptedSignalsHandled` says that this cannot stick: what was queued meanwhile is handed to the living child, or the session ends, or the
child has died and the supervisor is out of the prompt it was in. It does not say that nothing is dropped ("drops/queues nothing",
`acp_session_supervisor.rs:24`): what is queued when the child dies is taken and refused, finding 4.

`LiveSessionReachable` rests on `shutdown` waiting for what it aborted; `SessionsHeld` on the running
lock being held from the diff to the end of the plan. `ChangesWarranted` rests on the same: the reason `diff_specs`
had for stopping or starting an agent is still there when `apply_plan` comes to it, after every wait in between. `Converges` says that stale lists, rows written
by the other reconciler and failed SQLite calls cost a detour and never the outcome. `FederatedAttachHeals`
says that the alias every bridge restart prunes is registered again.

## Findings

1. `gate_split`: `complete_task` chooses between finished and waiting_review on a snapshot of the gates.
   If the last gate is resolved between snapshot and write, the task waits for review with no gate left
   to resolve. The comment above the statement claims the decision cannot be split.
2. `reclaim`: `unblock_dependents` writes `ready` on the id alone. Two finishes that both find a
   dependent releasable write it twice; the second write can fall on a task that has been claimed, which is then
   claimed again while the first lease is live.
3. `lost_wakeup`: `create_task` reads the dependencies before it inserts the row. A dependency that
   finishes in between finds nothing to release.
4. `agent_death`: the supervisor learns of the child's death from the closing of a channel, and holds a
   sender of that channel in its own session handle. A dead agent stays registered, every prompt to it is
   dropped, and nothing restarts it.
5. `orphan_loop`: the handle kept for a task-mode agent is that of a wrapper; aborting it detaches the loop.
6. `local_kept`: the first reconcile removes local agents that no tower agent stands for.

Seen while modelling, without a run of their own: `retry_task` ignores dependencies, and after it a repeated fail is told 403;
`dispatch_task` finishes a task, claimed or not, without releasing its dependents; `depends_on` with a repeated id never counts as
finished; the comment at `work.rs:497` gives `max_attempts` a default of 1 where migration 0014 has 3;
a gate created after `complete_task` took its snapshot is missed. In the daemon: an aborted session leaves dead
endpoints that hide an alias; a restart decided through an alias leaves the local agent running beside the
new one; the restart path registers no name alias; the supervisor's maps are never cleaned; a webhook
is lost in SQLite and `specs_match` does not compare it; a zellij agent spawned without launch context
does not get its bridge at the next poll, because `specs_match` ignores launch overrides.

In the ACP session: the actor of an aborted supervisor keeps its child (`agent.rs:185-193` holds a sender of
its own command channel; `agent.rs:98-99` and `reconcile.rs:24-28` say it is reaped); a cancel is queued behind the
prompt it should cancel (`acp_session_supervisor.rs:244`).

In the worker and the loops: once offline past the TTL all policies stay offline (`task_loop.rs:99` looks before
it beats); the node token passes `LeaseMatches` for any task, so a loop whose lease was taken
gets no 409 while the task is in progress, renews the new holder's lease and can finish the new holder's claim (`task_loop.rs:366-367` expects
the 409); a run stays open when capabilities are refused; after a crash an orphan subprocess shares its
directory with the next lifecycle of the task, which removes it (`task_worker.rs:402-405` speaks of an isolated directory); loops claim tasks
whatever their `target_profile`; message ids that commit out of order are skipped by the relay's cursor, the startup drain
skips only the first page, and a drained message whose inject fails is lost (`task_loop.rs:457-461`).

Elsewhere: cron anchors a job that never fired at the start of the daemon, fires twice when it crashes between dispatch and
record, and counts a failed dispatch as a fire (`cron.rs`); `complete_lease` is two statements and `claim_lease` does not
recheck, so two claims of one node may get the same lease (`runtime.rs:2372`, `2562`); `update_task` loses one of two concurrent edits (`tasks.rs:405`); an agent name
can be assigned twice to a node (`runtime.rs:2073`).

## Proofs

`TaskLifecycleProofs` proves, for any tasks, callers, gates and number of handlers, and any bounds
(assumptions `PrincipalsAssumption`, `SubmissionAssumption`, `BoundsAssumption`: agents and operators
are disjoint, submissions are well typed, bounds are naturals):

| Theorem | Statement |
|---|---|
| `Invariance` | `Spec => []IInv` |
| `TypeCorrect` | `Spec => []TypeOK` |
| `OwnershipSafe` | `Spec => []InProgressOwned` |
| `FencingSafe` | `Spec => []LeaseIsNewestGrant` |
| `ProgressSafe` | `Spec => []ProgressGapless` |
| `RepeatSafe` | `Spec => []RepeatedCallIsConflict` |

None of the properties is inductive alone. A heartbeat writes `running` into a row it read one
statement earlier, so ownership needs that the row is still in progress; that needs the lock; the lock
needs one holder. `IInv` adds: rows named by requests exist (`RowsExist`); what a handler read and
will use is still true (`LocalsCurrent`); a row lock and an id being inserted have one holder
(`OneHolder`); every lease was granted to an agent its caller may act for (`GrantsHonest`); and until
the task is retried an accepted finalizing call has left its caller's name on the row, unless one who claimed the task later has finished
it, and the row is in progress only under a claim granted since (`AnswersRemembered`).

The argument has two halves. For rows, `RowSteps` shows that every action changes at most one row, and
in one of a few ways: it leaves the columns the invariants speak of alone (`Quiet`), grants a lease
(`Granting`), or is one of the named writes; `RowStepEffect`, `RowStepAnswers` and `RowsAfter` derive the row invariants from that
alone. For requests, `RequestSteps` shows that every action changes at most one slot, to a state whose
locals are true (`Moves`, `Admissible`); `OneWriter` and `OthersUndisturbed` show that no other handler's
locals are falsified, since whoever writes a locked row holds its lock. `StepInv` puts the halves together.

`TaskLeaseProofs` proves, for exclusive tasks without dependencies (`Exclusive`: no broadcast policy, no
dependency lists; the instance of `claims` satisfies it) and otherwise in the same generality:

| Theorem | Statement |
|---|---|
| `Refinement` | `Spec => ImplementsTaskLease` |
| `FinalityHolds` | `Spec => FinishedIsFinal` |
| `AttributionSafe` | `Spec => AttributionKept` |
| `ReclaimSafe` | `Spec => ReclaimAfterRelease` |

`Exclusive` is needed: a broadcast claim and the release of a dependent write rows they do not look at again, and `reclaim`
shows what follows. Without these two, every write of a row re-reads the status it depends on, in its own statement or
under the row lock. `HandlersExclusive` says so of the handlers in flight (who is about to write a claim still finds
the row ready), `RowsTidy` says that leases and attributions are left only on rows where they belong, and `LInv` adds
both to `IInv`. `LeaseSteps` then shows that a step leaves the table alone, or moves one row along an arrow of the
abstract protocol (`Moved`, one lemma per kind of write), or grants a lease of an open task; the refinement and the three action
properties follow from that alone. `dispatch_task` is the interesting case: it writes `finished` into whatever the row has become, which
is still an arrow from every state.

`TaskStepProofs` proves two action properties in the full generality of `TaskLifecycleProofs`, broadcast tasks, dependencies
and aborts included:

| Theorem | Statement |
|---|---|
| `ReleaseSafe` | `Spec => NobodyForgotten` |
| `GatesInvariance` | `Spec => []GatesHeld` |
| `DecisionSafe` | `Spec => DecisionFinal` |

`ReleaseSafe` needs no invariant beyond `IInv`, but a case for each way a task can come to wait for nothing in nobody's hands. Either
its last dependency has just finished, and then the finishing handler is at `unblock_select` (`Releasing`); or a handler that had it among its
candidates lets go of it. It lets go at `UnblockCheck` only when a dependency is not finished, and at `UnblockWrite` only by making it ready,
unless the statement fails (`UnblockError`), which the property exempts. A
submission is not covered, because it can be forgotten from the start (`lost_wakeup`). `DecisionSafe` needs
`GatesHeld`: a handler past the row lock of its gate is the only one there, and the gate it is about to decide is pending. It is
inductive together with `IInv`, since the lock is taken only where nobody else is past it and the status is read under it; the id of a gate
being inserted is treated in the same way.

`TaskRunnerProofs` proves, for any number of tasks, loops, permits, enrolments, leases and crashes (assumptions
`HoldersAssumption`, `RunnerBounds`):

| Theorem | Statement |
|---|---|
| `RunnerInvariance` | `Spec => []IInv` |
| `RunnerTypeCorrect` | `Spec => []TypeOK` |
| `WorktreeSafe` | `Spec => []WorktreeKept` |
| `CleanupSafe` | `Spec => []NothingLeftBehind` |

A subprocess keeps its directory because no other lifecycle is on its task, and that holds because a live lifecycle's task
is in `in_flight` and a permit is given only for a task outside it (`OnePerTask`, `DirInUse`). After a crash `in_flight` is empty while the
subprocesses run on; for them `Orphaned` says that as long as its own agent is the claimant, the task is held, so it is not on the list the
worker goes through, no lifecycle is on it, and its directory is there (`Undisturbed`). That needs `HeldBySomebody`, that only held tasks have
a claimant, and that no later lifecycle has the orphan's agent, as enrolments are numbered. An agent's row belongs to
the one lifecycle that enrolled it, since enrolments are numbered (`OneAgent`); `AgentsAccounted` and `RunsAccounted` say for each row and each open
run that a lifecycle still owns it or a reason is on record.

`AcpAttachProofs` proves, for any channel and ring capacities and any number of viewers, sessions, updates and signals
(assumptions `CapacitiesAssumption`, `AttachBounds`), where the run `attach` has capacities of one and two:

| Theorem | Statement |
|---|---|
| `AttachInvariance` | `Spec => []IInv` |
| `AttachTypeCorrect` | `Spec => []TypeOK` |
| `OrderSafe` | `Spec => []ViewerInOrder` |
| `CompleteSafe` | `Spec => []AttachComplete` |
| `GapSafe` | `Spec => []NoSilentGap` |
| `TurnSafe` | `Spec => []OneTurnAtATime` |

What a viewer receives depends on three places that move at different times: the pump's place in the child's updates, the
broadcast, and the viewer's place in the broadcast. `IInv` has one conjunct for each seam. A session is pumped by one supervisor
(`PumpedOnce`), and a prompt is submitted only when none is outstanding (`TurnsTaken`). The ring is the end of what was sent,
and whatever lies between a sent update and the pump's place was sent or reported skipped, also while the pump holds an
update back for a compaction (`StreamsKept`). What a viewer has got, what its snapshot still holds and what it was told it missed make up exactly what is due to it,
in order (`ViewsKept`). Order, completeness and the absence of silent gaps follow from the last two; each action disturbs one seam.

`AttachStreamProofs` proves, from the same assumptions:

| Theorem | Statement |
|---|---|
| `SeamInvariance` | `Spec => []ReplayKept` |
| `StreamRefinement` | `Spec => ImplementsAttachStream` |

`IInv` speaks of what a viewer has got as sets and orders; a refinement needs to know which entry comes next. `ReplayKept` says so: what is
left of a snapshot is, entry by entry, the stretch of `sent` that ends where the live receiver begins, so the cursor `ReaderOf` computes
points at the next entry of the snapshot while there is one and at the next live one afterwards. With it every step of `AcpAttach`
maps to one step of `AttachStream` or to a stutter: a send appends to one log and moves no cursor, subscribing takes ring and receiver at one
instant, replaying and receiving move the cursor by one, a lag reports exactly the entries between the old place and the new.

`AgentReconcileProofs` proves, for any number of agents, launch contexts, tokio tasks, changes and failures (assumptions
`IdsAssumption`, `SpecsAssumption`, `ReconcileBounds`):

| Theorem | Statement |
|---|---|
| `ReconcileInvariance` | `Spec => []IInv` |
| `ReconcileTypeCorrect` | `Spec => []TypeOK` |
| `HeldSafe` | `Spec => []SessionsHeld` |
| `ReachableSafe` | `Spec => []LiveSessionReachable` |
| `OneSessionSafe` | `Spec => []OneEach`: an agent never has two sessions |

A plan is computed once and applied over many awaits, so everything rests on its staying true meanwhile. `OneApplies` says the running
lock has one holder, `PlansFresh` that what the holder's plan will spawn does not run and that the agent it has just shut
down does not either. `MapHoldsOwn` says that a map entry holds an unaborted task of its own agent, so a shutdown never aborts
another's; `SessionsAccounted` that a session is in the map or the lock's holder waits for it. Together they give one session per agent
(`OneSession`), and from that `UpRegistered`: no other task of the agent can replace or remove the endpoints of a session being
pumped. `SpecsFederated` (only tower agents carry an alias) is needed for the types of the alias maps. Every step of a reconciler is
then one of five kinds for map and tasks: it leaves them alone (`Keeps`), takes an agent out (`Takes`), ends a wait (`Lets`), puts an agent in (`Puts`), or only moves lists.

`ReconcileStepProofs` proves, from the same assumptions:

| Theorem | Statement |
|---|---|
| `PlansStayDue` | `Spec => []PlansDue` |
| `WarrantedSafe` | `Spec => ChangesWarranted` |

`PlansFresh` says of a plan only what typing the map needs: the agents it spawns do not run. That it stops only the unwanted needs `PlansDue`: an
agent still to be removed is one the list leaves out and no alias covers, an agent still to be restarted that runs is one the list wants
otherwise, and the agent being restarted is no longer among those to come. It is preserved because only the holder of the lock changes the map
(`OneApplies`), and what the holder does to one agent leaves the rest of its plan due (`StaysDue`); `DiffDue` establishes it at the diff. Every step
of a reconciler then leaves the map alone or changes one entry with a warrant (`Justified`).

Only model-checked: all liveness (`DependentsReleased`, `LapsedClaimReclaimed`, `AcceptedSignalsHandled`, `Converges`,
`FederatedAttachHeals`, `ClaimsSettle`, `InFlightReleased`, `PollsOrLatched`). Out of the prover's reach and left to TLC:
liveness under fairness and `ENABLED`, and what recursive definitions compute.

## Plan

The order follows what matters most when it goes wrong. Done: `TaskLifecycle`, `TaskLease` and the
refinement between them, with proofs; `TaskRunner` over `TaskLease`, with proofs; `AcpAttach`, `AttachStream` and the
refinement between them, with proofs; `AgentReconcile`, with proofs. Every safety property of the passing runs, invariant,
action property or refinement, is now proved. Next:

1. `MessageRelay` and cron: cursors and fires across a restart.
2. `DetectCycle`: the cycle check against transitive closure, over all small graphs.

Runtime jobs were looked at and left out: the lease handlers of `runtime.rs` guard almost nothing, so a model of them
would have no protocol to show.

Runs stay few: one passing run per module, and one for each disagreement between the code and what
it says of itself.

## Not modelled

The reasons are with each component in `PROJECT.json`. In short: CRUD routes are one statement per
request; authentication verifies what others issue, and the models take its result; runtimes, sandbox,
packs, secrets and sync are system calls and file formats; CLI, TUI and web present what the tower says;
the byte pumps and socket framing of attach sessions carry no state the properties speak of.

Most of the repository's lines are of these kinds (commands and screens of the CLI, CRUD routes, OIDC,
MCP tool schemas, process launch, parsing), which is why the `map` covers a small share of them: the code whose correctness
depends on order, failure and time is a few thousand lines, and it is what the modules translate.
