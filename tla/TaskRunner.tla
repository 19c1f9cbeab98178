----------------------------- MODULE TaskRunner -----------------------------
(***************************************************************************)
(* One edgeplaned working the tower's claimable tasks: the worker that     *)
(* polls for tasks and runs each in an ephemeral agent of its own          *)
(* (task_worker.rs), the task loops of the agents that take tasks          *)
(* themselves (task_loop.rs) and the connectivity watchdog they share      *)
(* (edgeplaned-work watchdog.rs).                                          *)
(*                                                                         *)
(* The tower is the abstract TaskLease, which TaskLifecycle implements,    *)
(* with what the daemon's calls depend on beside it: who a task is claimed *)
(* by, and whether its lease has lapsed.  The daemon is a full-trust       *)
(* principal.  Every call may fail before the tower acts on it, or after,  *)
(* with the answer lost.                                                   *)
(*                                                                         *)
(* The offline policies strict and safe_readonly do the same, as no loop   *)
(* ever sets current_task_id; autonomous is left out.                      *)
(***************************************************************************)
EXTENDS Naturals, FiniteSets

CONSTANTS
    Tasks,          \* claimable tasks of the mission the daemon serves
    Loops,          \* agents with a task loop
    Slots,          \* permits of the semaphore, task_worker_max_concurrent of them
    Nobody,         \* claimed_by is NULL
    Node,           \* the subject of the daemon's node token: the loops claim under it
    Other,          \* claimants outside this daemon
    MaxLeases,      \* bound: claims granted
    MaxEnrolls,     \* bound: ephemeral agents enrolled
    MaxCrashes      \* bound: daemon crashes

Agents == 1 .. MaxEnrolls
NoAgent == 0
Holders == {Nobody, Node, Other} \cup Agents

ASSUME HoldersAssumption ==
    /\ Cardinality({Nobody, Node, Other}) = 3
    /\ {Nobody, Node, Other} \cap Nat = {}

ASSUME RunnerBounds == MaxLeases \in Nat /\ MaxEnrolls \in Nat /\ MaxCrashes \in Nat

VARIABLES
    phase, lease, issued,   \* the tower's tasks, as in TaskLease
    holder,     \* claimed_by
    lapsed,     \* held tasks whose lease_expires_at has passed
    agents,     \* meshagent rows of ephemeral agents
    runs,       \* agentrun rows in status running, by agent
    enrolled,   \* agents enrolled so far
    list,       \* the rest of the list of ready tasks the worker goes through
    in_flight,  \* its set of that name
    life,       \* per permit, run_task_lifecycle
    worktrees,  \* tasks whose directory exists
    loop,       \* per agent, run_for_agent
    watchdog,   \* ConnectivityState
    why,        \* history, per ephemeral agent: what cut its cleanup short
    crashes,    \* crashes so far
    orphans     \* subprocesses of an earlier life that still run: their task and claimant

tower == <<phase, lease, issued, holder, lapsed>>
worker == <<list, in_flight, life>>
rows == <<agents, runs, enrolled, worktrees, why>>
looping == <<loop, watchdog>>
past == <<crashes, orphans>>
vars == <<tower, worker, rows, looping, past>>

Tower == INSTANCE TaskLease

-----------------------------------------------------------------------------
Free == [pc |-> "free"]
Lives == {Free} \cup
    [pc : {"enroll", "claim", "worktree", "start_run", "subprocess", "close_run", "settle",
           "delete", "remove", "leave"},
     t : Tasks, agent : Agents \cup {NoAgent}, ok : BOOLEAN, dir : BOOLEAN, run : BOOLEAN]

LoopStates == [pc : {"head", "beat", "scan"}]
         \cup [pc : {"claim", "stream", "settle"}, t : Tasks]

TypeOK ==
    /\ phase \in [Tasks -> Tower!Phases]
    /\ lease \in [Tasks -> 0 .. MaxLeases]
    /\ issued \in 0 .. MaxLeases
    /\ holder \in [Tasks -> Holders]
    /\ lapsed \subseteq Tasks
    /\ agents \subseteq Agents /\ runs \subseteq Agents
    /\ enrolled \in 0 .. MaxEnrolls
    /\ list \subseteq Tasks
    /\ in_flight \subseteq Tasks
    /\ life \in [Slots -> Lives]
    /\ worktrees \subseteq Tasks
    /\ loop \in [Loops -> LoopStates]
    /\ watchdog \in {"connected", "degraded", "offline"}
    /\ why \in [Agents -> {"nothing", "call failed", "crash", "refused"}]
    /\ crashes \in 0 .. MaxCrashes
    /\ orphans \subseteq [t : Tasks, agent : Agents]

Live(s) == life[s].pc # "free"

-----------------------------------------------------------------------------
(* The tower's side of the daemon's calls.                                 *)

Held(t) == phase[t] = "held"

(* A claim of an open task, for the agent named in the body or, without    *)
(* one, for the caller.                                                    *)
Claim(t, who) ==
    /\ phase[t] = "open"
    /\ issued < MaxLeases
    /\ Tower!Grant(t)
    /\ holder' = [holder EXCEPT ![t] = who]
    /\ lapsed' = lapsed \ {t}

LetGo(t) ==
    /\ holder' = [holder EXCEPT ![t] = Nobody]
    /\ lapsed' = lapsed \ {t}

(* finishable, for a full-trust caller: the claimant may be late, anybody  *)
(* else must find the lease live.                                          *)
Finishable(t, who) == Held(t) /\ (holder[t] = who \/ t \notin lapsed)

(* /complete and /fail on behalf of who.                                   *)
Finish(t, who, ok) ==
    IF Finishable(t, who)
      THEN (IF ok THEN Tower!Finish(t) ELSE Tower!Stop(t)) /\ LetGo(t)
      ELSE UNCHANGED tower

(* expire_stale_leases, one row: ready again, or failed at its last attempt. *)
JoinsAgents(t) ==                     \* seeded fault: joined with the agents' rows
    Held(t) /\ t \in lapsed /\ holder[t] \in agents \cup {Node, Other}
Sweepable(t) == Held(t) /\ t \in lapsed

Expire(t) ==
    /\ Sweepable(t)
    /\ Tower!Move(t, {"held"}, {"open", "stopped"})
    /\ LetGo(t)

(* GET .../tasks?status=ready sweeps the mission, then lists it.           *)
NothingStale == \A t \in Tasks : ~Sweepable(t)
Ready == {t \in Tasks : phase[t] = "open"}

-----------------------------------------------------------------------------
Init ==
    /\ phase = [t \in Tasks |-> "open"]
    /\ lease = [t \in Tasks |-> 0]
    /\ issued = 0
    /\ holder = [t \in Tasks |-> Nobody]
    /\ lapsed = {}
    /\ agents = {} /\ runs = {} /\ enrolled = 0
    /\ list = {}
    /\ in_flight = {}
    /\ life = [s \in Slots |-> Free]
    /\ worktrees = {}
    /\ loop = [l \in Loops |-> [pc |-> "head"]]
    /\ watchdog = "connected"
    /\ why = [a \in Agents |-> "nothing"]
    /\ crashes = 0
    /\ orphans = {}

-----------------------------------------------------------------------------
(* The poll loop of the worker: run, poll_and_claim, scan_ready_tasks.  A  *)
(* poll that fails changes nothing.                                        *)

PollSweeps ==
    /\ list = {}
    /\ \E t \in Tasks : Expire(t)
    /\ UNCHANGED <<worker, rows, looping, past>>

PollLists ==
    /\ list = {}
    /\ NothingStale
    /\ list' = Ready
    /\ UNCHANGED <<tower, in_flight, life, rows, looping, past>>

(* Whether the worker is already on a task of its list.                    *)
NeverSkips(t) == FALSE                                \* seeded fault: no in_flight check
Skips(t) == t \in in_flight

FreeSlots == {s \in Slots : life[s] = Free}

(* The next task of the list: skipped when it is in flight, given a permit *)
(* and a lifecycle otherwise; without a permit the rest of the list waits  *)
(* for the next poll.                                                      *)
PollTakes(t) ==
    /\ t \in list
    /\ IF Skips(t)
         THEN /\ list' = list \ {t}
              /\ UNCHANGED <<in_flight, life>>
         ELSE IF FreeSlots = {}
         THEN /\ list' = {}
              /\ UNCHANGED <<in_flight, life>>
         ELSE /\ life' = [life EXCEPT ![CHOOSE s \in FreeSlots : TRUE] =
                            [pc |-> "enroll", t |-> t, agent |-> NoAgent,
                             ok |-> FALSE, dir |-> FALSE, run |-> FALSE]]
              /\ in_flight' = in_flight \cup {t}
              /\ list' = list \ {t}
    /\ UNCHANGED <<tower, rows, looping, past>>

Poll == PollSweeps \/ PollLists \/ \E t \in Tasks : PollTakes(t)

-----------------------------------------------------------------------------
(* run_task_lifecycle in the slot s.  A step is the code between two       *)
(* awaits; a call that fails may or may not have reached the tower.        *)

At(s, pc) == life[s].pc = pc
Becomes(s, l) == life' = [life EXCEPT ![s] = l]
To(s, pc) == Becomes(s, [life[s] EXCEPT !.pc = pc])
CallFailed(s) == why' = [why EXCEPT ![life[s].agent] = "call failed"]

Enroll(s) ==
    /\ At(s, "enroll")
    /\ \/ /\ enrolled < MaxEnrolls
          /\ enrolled' = enrolled + 1
          /\ agents' = agents \cup {enrolled'}
          /\ \/ /\ Becomes(s, [life[s] EXCEPT !.pc = "claim", !.agent = enrolled'])
                /\ UNCHANGED why
             \/ /\ To(s, "leave")
                /\ why' = [why EXCEPT ![enrolled'] = "call failed"]
       \/ /\ To(s, "leave")
          /\ UNCHANGED <<agents, enrolled, why>>
    /\ UNCHANGED <<tower, list, in_flight, runs, worktrees, looping, past>>

(* Where a refused or failed claim leads.                                  *)
JustReturn == "leave"                                 \* seeded fault: the agent is not deleted
AfterLostClaim == "delete"

LifeClaim(s) ==
    /\ At(s, "claim")
    /\ \/ Claim(life[s].t, life[s].agent) /\ To(s, "worktree")
       \/ Claim(life[s].t, life[s].agent) /\ To(s, AfterLostClaim)
       \/ To(s, AfterLostClaim) /\ UNCHANGED tower
    /\ UNCHANGED <<list, in_flight, rows, looping, past>>

(* create_dir_all accepts a directory that is already there.               *)
CreateWorktree(s) ==
    /\ At(s, "worktree")
    /\ \/ /\ worktrees' = worktrees \cup {life[s].t}
          /\ Becomes(s, [life[s] EXCEPT !.pc = "start_run", !.dir = TRUE])
       \/ /\ To(s, "settle")
          /\ UNCHANGED worktrees
    /\ UNCHANGED <<tower, list, in_flight, agents, runs, enrolled, why, looping, past>>

(* The run record, then the capabilities, then the spawn.  A task whose    *)
(* capabilities do not parse or resolve is failed, its run left running.   *)
StartRun(s) ==
    LET a == life[s].agent
        started == [life[s] EXCEPT !.run = TRUE]
    IN
    /\ At(s, "start_run")
    /\ \/ /\ runs' = runs \cup {a}
          /\ \/ /\ Becomes(s, [started EXCEPT !.pc = "subprocess"])
                /\ UNCHANGED why
             \/ /\ Becomes(s, [started EXCEPT !.pc = "settle"])
                /\ why' = [why EXCEPT ![a] = "refused"]
       \/ /\ runs' \in {runs, runs \cup {a}}
          /\ To(s, "subprocess") \/ To(s, "settle")
          /\ CallFailed(s)
    /\ UNCHANGED <<tower, list, in_flight, agents, enrolled, worktrees, looping, past>>

SubprocessEnds(s) ==
    /\ At(s, "subprocess")
    /\ \E ok \in BOOLEAN :
         Becomes(s, [life[s] EXCEPT !.ok = ok, !.pc = IF life[s].run THEN "close_run" ELSE "settle"])
    /\ UNCHANGED <<tower, list, in_flight, rows, looping, past>>

CloseRun(s) ==
    /\ At(s, "close_run")
    /\ To(s, "settle")
    /\ \/ /\ runs' = runs \ {life[s].agent}
          /\ UNCHANGED why
       \/ /\ CallFailed(s)
          /\ UNCHANGED runs
    /\ UNCHANGED <<tower, list, in_flight, agents, enrolled, worktrees, looping, past>>

(* complete or complete_task_failed, on behalf of the ephemeral agent and  *)
(* without a lease.                                                        *)
Settle(s) ==
    /\ At(s, "settle")
    /\ To(s, "delete")
    /\ Finish(life[s].t, life[s].agent, life[s].ok) \/ UNCHANGED tower
    /\ UNCHANGED <<list, in_flight, rows, looping, past>>

DeleteAgent(s) ==
    /\ At(s, "delete")
    /\ To(s, IF life[s].dir THEN "remove" ELSE "leave")
    /\ \/ /\ agents' = agents \ {life[s].agent}
          /\ UNCHANGED why
       \/ /\ CallFailed(s)
          /\ UNCHANGED agents
    /\ UNCHANGED <<tower, list, in_flight, runs, enrolled, worktrees, looping, past>>

RemoveWorktree(s) ==
    /\ At(s, "remove")
    /\ To(s, "leave")
    /\ worktrees' \in {worktrees, worktrees \ {life[s].t}}
    /\ UNCHANGED <<tower, list, in_flight, agents, runs, enrolled, why, looping, past>>

(* The end of the spawned future: the task leaves in_flight, then the      *)
(* permit is dropped.                                                      *)
Forgotten(t) == in_flight                             \* seeded fault: never removed
InFlightWithout(t) == in_flight \ {t}

Leave(s) ==
    /\ At(s, "leave")
    /\ in_flight' = InFlightWithout(life[s].t)
    /\ Becomes(s, Free)
    /\ UNCHANGED <<tower, list, rows, looping, past>>

(* What the worker does by itself, the subprocess aside.                   *)
Lifecycle(s) ==
    \/ Enroll(s) \/ LifeClaim(s) \/ CreateWorktree(s) \/ StartRun(s) \/ CloseRun(s)
    \/ Settle(s) \/ DeleteAgent(s) \/ RemoveWorktree(s) \/ Leave(s)

-----------------------------------------------------------------------------
(* run_for_agent, the task loop of the agent l.                            *)

LoopAt(l, pc) == loop[l].pc = pc
LoopTo(l, state) == loop' = [loop EXCEPT ![l] = state]
Head == [pc |-> "head"]

(* Offline, the loop sleeps and looks again.                               *)
OnlyConnected == watchdog = "connected"               \* seeded fault: degraded pauses too
MayWork == watchdog # "offline"

LoopHead(l) ==
    /\ LoopAt(l, "head")
    /\ MayWork
    /\ LoopTo(l, [pc |-> "beat"])
    /\ UNCHANGED <<tower, worker, rows, watchdog, past>>

(* record_heartbeat_failure: offline once the grace period has passed.     *)
Disconnected == {"disconnected"}                      \* seeded fault: not a state
AfterFailure == IF watchdog = "connected" THEN {"degraded"} ELSE {watchdog, "offline"}

HeartbeatFails(l) ==
    /\ LoopAt(l, "beat")
    /\ watchdog' \in AfterFailure
    /\ LoopTo(l, Head)
    /\ UNCHANGED <<tower, worker, rows, past>>

HeartbeatLands(l) ==
    /\ LoopAt(l, "beat")
    /\ watchdog' = "connected"
    /\ LoopTo(l, [pc |-> "scan"])
    /\ UNCHANGED <<tower, worker, rows, past>>

LoopSweeps(l) ==
    /\ LoopAt(l, "scan")
    /\ \E t \in Tasks : Expire(t)
    /\ UNCHANGED <<worker, rows, looping, past>>

(* Nothing ready, or no answer.                                            *)
LoopFindsNothing(l) ==
    /\ LoopAt(l, "scan")
    /\ LoopTo(l, Head)
    /\ UNCHANGED <<tower, worker, rows, watchdog, past>>

LoopPicks(l) ==
    /\ LoopAt(l, "scan")
    /\ NothingStale
    /\ \E t \in Ready : LoopTo(l, [pc |-> "claim", t |-> t])
    /\ UNCHANGED <<tower, worker, rows, watchdog, past>>

LoopClaim(l) ==
    /\ LoopAt(l, "claim")
    /\ \/ Claim(loop[l].t, Node) /\ LoopTo(l, [pc |-> "stream", t |-> loop[l].t])
       \/ Claim(loop[l].t, Node) /\ LoopTo(l, Head)
       \/ LoopTo(l, Head) /\ UNCHANGED tower
    /\ UNCHANGED <<worker, rows, watchdog, past>>

(* inject_task fails, the stream of events ends, or a heartbeat finds the  *)
(* task not held or its lease lapsed.  A heartbeat that is accepted leaves *)
(* a live lease live: it is not a step.                                    *)
StreamEnds(l) ==
    /\ LoopAt(l, "stream")
    /\ LoopTo(l, [pc |-> "settle", t |-> loop[l].t])
    /\ UNCHANGED <<tower, worker, rows, watchdog, past>>

LoopSettle(l) ==
    /\ LoopAt(l, "settle")
    /\ (\E ok \in BOOLEAN : Finish(loop[l].t, Node, ok)) \/ UNCHANGED tower
    /\ LoopTo(l, Head)
    /\ UNCHANGED <<worker, rows, watchdog, past>>

TaskLoop(l) ==
    \/ LoopHead(l) \/ HeartbeatFails(l) \/ HeartbeatLands(l) \/ LoopSweeps(l)
    \/ LoopFindsNothing(l) \/ LoopPicks(l) \/ LoopClaim(l) \/ LoopSettle(l)

-----------------------------------------------------------------------------
(* Time, the other users of the tower, and the daemon's own end.           *)

Lapse(t) ==
    /\ Held(t) /\ t \notin lapsed
    /\ lapsed' = lapsed \cup {t}
    /\ UNCHANGED <<phase, lease, issued, holder, worker, rows, looping, past>>

OthersClaim(t) == Claim(t, Other) /\ UNCHANGED <<worker, rows, looping, past>>

(* Complete, fail, cancel, block, unblock and retry by others.             *)
OthersMove(t) ==
    /\ \/ Held(t) /\ holder[t] = Other /\ Tower!Finish(t)
       \/ Tower!Stop(t) \/ Tower!Reopen(t)
    /\ LetGo(t)
    /\ UNCHANGED <<worker, rows, looping, past>>

(* Everything in memory is lost; rows and directories stay, and so do the  *)
(* subprocesses: cmd.output() is awaited without kill_on_drop.             *)
Running == {s \in Slots : At(s, "subprocess")}

Crash ==
    /\ crashes < MaxCrashes
    /\ crashes' = crashes + 1
    /\ orphans' = orphans \cup {[t |-> life[s].t, agent |-> life[s].agent] : s \in Running}
    /\ list' = {}
    /\ in_flight' = {}
    /\ life' = [s \in Slots |-> Free]
    /\ why' = [a \in Agents |-> IF \E s \in Slots : Live(s) /\ life[s].agent = a
                                THEN "crash" ELSE why[a]]
    /\ loop' = [l \in Loops |-> Head]
    /\ watchdog' = "connected"
    /\ UNCHANGED <<tower, agents, runs, enrolled, worktrees>>

(* A subprocess nobody waits for ends some day, or never.                  *)
OrphanEnds(o) ==
    /\ orphans' = orphans \ {o}
    /\ UNCHANGED <<tower, worker, rows, looping, crashes>>

Next ==
    \/ Poll
    \/ \E s \in Slots : Lifecycle(s) \/ SubprocessEnds(s)
    \/ \E l \in Loops : TaskLoop(l) \/ StreamEnds(l)
    \/ \E t \in Tasks : Lapse(t) \/ OthersClaim(t) \/ OthersMove(t)
    \/ Crash
    \/ \E o \in orphans : OrphanEnds(o)

(* Somebody renews the lease of t: a loop streaming t sends heartbeats,    *)
(* and a full-trust heartbeat renews the lease whoever holds the task.     *)
Renewed(t) ==
    \/ holder[t] = Other
    \/ \E l \in Loops : LoopAt(l, "stream") /\ loop[l].t = t

(* The futures are polled; a lease nobody renews lapses; a call that is    *)
(* made again and again gets through.  A step includes its call, and the   *)
(* client sets no timeout (client.rs, Client::new): that every call        *)
(* returns, with an answer or an error, is assumed of the network.         *)
Fairness ==
    /\ WF_vars(Poll)
    /\ \A s \in Slots : WF_vars(Lifecycle(s))
    /\ \A l \in Loops : WF_vars(TaskLoop(l)) /\ SF_vars(HeartbeatLands(l))
    /\ \A t \in Tasks : WF_vars(~Renewed(t) /\ Lapse(t))

Spec == Init /\ [][Next]_vars /\ Fairness

-----------------------------------------------------------------------------
(* Safety.                                                                 *)

(* The directory ~/.ep/worktrees/<task_id> is named for the task, not for  *)
(* the lifecycle that made it.  While a subprocess of this life runs in it *)
(* no other lifecycle is on the task, although the lease, never renewed,   *)
(* may lapse and the task be offered again.  A subprocess that outlived    *)
(* the daemon keeps it as long as its claim stands, since nothing in       *)
(* memory knows of it any more: once the claim is swept, the lifecycle     *)
(* that takes the task next works in the same directory and removes it     *)
(* (task_worker.rs: "This ensures the subagent has an isolated cwd").      *)
WorktreeKept ==
    /\ \A s \in Running : life[s].t \in worktrees
    /\ \A o \in orphans : holder[o.t] = o.agent => o.t \in worktrees

(* When its lifecycle is over, an ephemeral agent's row is gone and its    *)
(* run closed, unless a call failed, the daemon crashed, or (for the run)  *)
(* the task's capabilities were refused.                                   *)
NothingLeftBehind ==
    \A a \in Agents :
        (~\E s \in Slots : Live(s) /\ life[s].agent = a) =>
            /\ a \in agents => why[a] \in {"call failed", "crash"}
            /\ a \in runs => why[a] # "nothing"

-----------------------------------------------------------------------------
(* Liveness.                                                               *)

StreamsEnd == \A l \in Loops : []<>~LoopAt(l, "stream")
SubprocessesEnd == \A s \in Slots : []<>~At(s, "subprocess")

(* A claim of this daemon ends, though its subprocess hangs, its answer    *)
(* was lost, or the daemon crashed: the worker's own polling sweeps it.    *)
ClaimsSettle ==
    StreamsEnd =>
        \A t \in Tasks, i \in 1 .. MaxLeases :
            (lease[t] = i /\ holder[t] # Other) ~> (lease[t] # i)

(* A task does not stay in in_flight, where the worker skips it.           *)
InFlightReleased ==
    SubprocessesEnd => \A t \in Tasks : t \in in_flight ~> t \notin in_flight

(* A task loop polls for ever, unless the watchdog has gone offline, which *)
(* no loop waiting at its head ever ends.                                  *)
PollsOrLatched ==
    StreamsEnd =>
        \A l \in Loops : <>[](watchdog = "offline") \/ []<>LoopAt(l, "scan")
=============================================================================
