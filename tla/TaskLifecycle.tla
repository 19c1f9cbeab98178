--------------------------- MODULE TaskLifecycle ---------------------------
(***************************************************************************)
(* The claimable tasks of the tower: the rows of table task with           *)
(* kind='claimable', their review gates and progress events, and the HTTP  *)
(* and MCP handlers that change them (routes/work.rs,                      *)
(* routes/task_transitions.rs, routes/mcp.rs).                             *)
(*                                                                         *)
(* Postgres runs every statement under READ COMMITTED.  A handler made of  *)
(* one UPDATE whose predicate reads only the row it writes is one action.  *)
(* A handler that reads in one statement and writes in another, or whose   *)
(* one statement reads another table from its snapshot, is a request that  *)
(* occupies a slot and takes one action per statement.                     *)
(*                                                                         *)
(* Time is abstracted to what lease_expires_at >= now decides: a lease is  *)
(* live until LeaseLapses makes it lapsed, at any moment.                  *)
(***************************************************************************)
EXTENDS Naturals, Sequences, FiniteSets, Functions

CONSTANTS
    Tasks,          \* task ids
    Agents,         \* restricted principals (auth_type agent)
    Operators,      \* full-trust principals: sessions, nodes, admins
    Admins,         \* the operators with is_admin
    Gates,          \* review gate ids
    Slots,          \* handlers the tower may be running at once
    NoOne,          \* SQL NULL in a column that names a principal
    Policies,       \* values of claim_policy that clients submit
    DepLists,       \* values of depends_on that clients submit
    Seed,           \* tasks that exist initially, with their submitted fields
    MaxAttempts,    \* column default of max_attempts
    MaxLeases,      \* bound: claims granted in a behaviour
    MaxProgress,    \* bound: progress events per task
    MaxAborts       \* bound: handlers dropped before they end, and failed statements

Callers == Agents \cup Operators

Submitted == [claim_policy : Policies, depends_on : DepLists, created_by : Callers \cup {NoOne}]

ASSUME PrincipalsAssumption ==
    /\ Agents \cap Operators = {}
    /\ Admins \subseteq Operators
    /\ NoOne \notin Callers

ASSUME SubmissionAssumption ==
    /\ Policies \subseteq STRING
    /\ DepLists \subseteq Seq(Tasks)
    /\ \E S \in SUBSET Tasks : Seed \in [S -> Submitted]

ASSUME BoundsAssumption ==
    /\ MaxAttempts \in Nat \ {0}
    /\ MaxLeases \in Nat
    /\ MaxProgress \in Nat
    /\ MaxAborts \in Nat

VARIABLES
    task,       \* the task table
    gate,       \* the reviewgate table
    progress,   \* per task, the seq column of meshprogressevent in commit order
    grants,     \* lease ids handed out so far: the i-th claim's task, agent and caller
    req,        \* the handlers in flight
    aborts,     \* handlers dropped and statements failed so far
    done        \* history: per task, the finalizing calls of agents accepted so far

vars == <<task, gate, progress, grants, req, aborts, done>>

-----------------------------------------------------------------------------
NoLease == 0
Leases == 0 .. MaxLeases

Working == {"claimed", "running"}
InProgress == Working \cup {"waiting_review"}
Status == InProgress \cup {"pending", "ready", "blocked", "finished", "failed", "cancelled"}

NoRow == [status |-> "absent"]

Row == [status : Status,
        claim_policy : Policies,
        depends_on : DepLists,
        created_by : Callers \cup {NoOne},
        claimed_by : Callers \cup {NoOne},
        lease : Leases,
        expires : {"null", "live", "lapsed"},
        attempt : Nat,
        version : Nat,
        finalized_by : Callers \cup {NoOne}]

GateRow == [status : {"pending", "approved", "rejected"}, task : Tasks, owner : Callers]

Grant == [task : Tasks, agent : Callers, by : Callers]

(* A complete or fail of a restricted caller that the tower applied, how   *)
(* many claims it had granted by then, and whether the task has been       *)
(* retried since.  (A full-trust caller is never told 403.)                *)
Accepted == [by : Agents, call : {"complete", "fail"}, claims : Leases, retried : BOOLEAN]

(* A request between two of its statements.  pc names the statement that   *)
(* runs next; the other fields are the handler's local variables.          *)
Idle == [pc |-> "idle"]

Request ==
         {Idle}
    \cup [pc : {"create_insert"}, t : Tasks, sub : Submitted, status : {"ready", "pending"}]
    \cup [pc : {"claim_broadcast", "claim_lock"}, t : Tasks, by : Callers, agent : Callers]
    \cup [pc : {"claim_update"}, t : Tasks, by : Callers, agent : Callers, version : Nat]
    \cup [pc : {"dispatch_write"}, t : Tasks]
    \cup [pc : {"heartbeat_write", "progress_seq"}, t : Tasks]
    \cup [pc : {"progress_insert"}, t : Tasks, seq : Nat]
    \cup [pc : {"complete_apply"}, t : Tasks, by : Callers, eff : Callers, lease : Leases,
          has_pending : BOOLEAN]
    \cup [pc : {"gate_insert"}, t : Tasks, by : Callers, g : Gates]
    \cup [pc : {"resolve_agg"}, g : Gates, by : Callers, decision : {"approved", "rejected"}]
    \cup [pc : {"resolve_apply"}, g : Gates, by : Callers, decision : {"approved", "rejected"},
          any_rejected : BOOLEAN]
    \cup [pc : {"unblock_select"}, t : Tasks]
    \cup [pc : {"unblock_check"}, t : Tasks, todo : SUBSET Tasks]
    \cup [pc : {"unblock_write"}, t : Tasks, todo : SUBSET Tasks, c : Tasks]

TypeOK ==
    /\ task \in [Tasks -> Row \cup {NoRow}]
    /\ gate \in [Gates -> GateRow \cup {[status |-> "absent"]}]
    /\ progress \in [Tasks -> Seq(Nat)]
    /\ grants \in Seq(Grant) /\ Len(grants) <= MaxLeases
    /\ req \in [Slots -> Request]
    /\ aborts \in 0 .. MaxAborts
    /\ done \in [Tasks -> SUBSET Accepted]

-----------------------------------------------------------------------------
(* Principals.                                                             *)

IsBypass(p) == p \in Operators

(* The agent ids a caller may claim, complete or fail for: body.agent_id   *)
(* counts only when the caller is full-trust.                              *)
OnBehalf(p) == IF IsBypass(p) THEN Agents \cup {p} ELSE {p}

(* The lease ids a caller can send with a request about t: the ones the    *)
(* tower returned to it, however old, or none.                             *)
Presentable(p, t) ==
    {NoLease} \cup {l \in 1 .. Len(grants) : grants[l].task = t /\ grants[l].by = p}

(* Row locks: SELECT ... FOR UPDATE holds one until its transaction ends.  *)
LockPcs == {"claim_update", "heartbeat_write", "progress_seq", "progress_insert"}
NeverLocked(t) == FALSE     \* seeded fault: FOR UPDATE dropped
Locked(t) == \E r \in Slots : req[r].pc \in LockPcs /\ req[r].t = t

NeverGateLocked(g) == FALSE \* seeded fault: the gate row is not locked until the commit
GateLocked(g) == \E r \in Slots : req[r].pc \in {"resolve_agg", "resolve_apply"} /\ req[r].g = g

-----------------------------------------------------------------------------
(* Predicates of the fenced statements.                                    *)

LeaseMatches(p, t, l) == (l # NoLease /\ task[t].lease = l) \/ IsBypass(p)

Fresh(t) == task[t].claim_policy = "broadcast" \/ task[t].expires = "live"

FenceClaimableLive(p, t, l) ==
    task[t].status \in Working /\ LeaseMatches(p, t, l) /\ Fresh(t)

Finishable(p, eff, t, l) ==
    /\ task[t].status \in InProgress
    /\ task[t].claimed_by = eff \/ (LeaseMatches(p, t, l) /\ Fresh(t))

Owns(p, t) == task[t].claimed_by = p \/ IsBypass(p)

(* classify_fenced_rejection: what a rejected caller is told.              *)
Classify(p, t, l, already_done) ==
    CASE task[t] = NoRow -> "not_found"
      [] task[t] # NoRow /\ (task[t].status \in already_done \/ IsBypass(p)
                              \/ p \in {task[t].claimed_by, task[t].finalized_by}
                              \/ l # NoLease) -> "conflict"
      [] OTHER -> "forbidden"

GatesOf(t) == {g \in Gates : gate[g].status # "absent" /\ gate[g].task = t}
HasPendingGate(t) == \E g \in GatesOf(t) : gate[g].status = "pending"

(* SELECT status ... WHERE id = ANY(deps) returns one row per distinct id, *)
(* and its row count is compared with the length of the list.              *)
DepsFinished(deps) ==
    /\ Cardinality(Range(deps)) = Len(deps)
    /\ \A d \in Range(deps) : task[d].status = "finished"

Coalesce(a, b) == IF a # NoOne THEN a ELSE b

-----------------------------------------------------------------------------
(* Row writes.                                                             *)

NewRow(sub, status) ==
    [status |-> status, claim_policy |-> sub.claim_policy, depends_on |-> sub.depends_on,
     created_by |-> sub.created_by, claimed_by |-> NoOne, lease |-> NoLease,
     expires |-> "null", attempt |-> 0, version |-> 0, finalized_by |-> NoOne]

Released(row, status) ==
    [row EXCEPT !.status = status, !.claimed_by = NoOne, !.lease = NoLease, !.expires = "null"]

Finalized(row, status, who) ==
    [Released(row, status) EXCEPT !.finalized_by = who]

(* A claim writes claimant, a fresh lease id and its expiry together, and  *)
(* the response hands the lease id to the caller.                          *)
ClaimedOldLease(row, status, agent, version) ==       \* seeded fault: COALESCE(claim_lease_id, new)
    [row EXCEPT !.status = status, !.claimed_by = agent, !.expires = "live", !.version = version,
                !.lease = IF row.lease # NoLease THEN row.lease ELSE Len(grants) + 1]
Claimed(row, status, agent, version) ==
    [row EXCEPT !.status = status, !.claimed_by = agent, !.lease = Len(grants) + 1,
                !.expires = "live", !.version = version]

(* Block takes the lease but keeps the claimant.                           *)
BlockedForgotten(row) == Released(row, "blocked")     \* seeded fault: claimant nulled too
Blocked(row) == [row EXCEPT !.status = "blocked", !.lease = NoLease, !.expires = "null"]

(* A cancel names its caller unless the row was already finalized.         *)
CancellerTakesOver(row, p) == p                       \* seeded fault
Canceller(row, p) == Coalesce(row.finalized_by, p)

HeartbeatActive(row) == [row EXCEPT !.status = "active", !.expires = "live"]   \* seeded fault
Heartbeaten(row) == [row EXCEPT !.status = "running", !.expires = "live"]

(* The sweep counts the attempt and fails the task at the last one.        *)
NextAttempt(row) == IF row.attempt + 1 >= MaxAttempts THEN "failed" ELSE "ready"
ExpiredKeepsLease(row) ==                             \* seeded fault: claim_lease_id left
    [Released(row, NextAttempt(row)) EXCEPT !.attempt = @ + 1, !.lease = row.lease]
Expired(row) == [Released(row, NextAttempt(row)) EXCEPT !.attempt = @ + 1]

GrantLease(t, agent, by) ==
    /\ Len(grants) < MaxLeases
    /\ grants' = Append(grants, [task |-> t, agent |-> agent, by |-> by])

(* The history of finalizing calls: entered when one is applied, marked by *)
(* a retry, never forgotten.                                               *)
Accept(t, p, call) ==
    done' = [done EXCEPT ![t] = @ \cup
               {[by |-> a, call |-> call, claims |-> Len(grants), retried |-> FALSE] :
                  a \in Agents \cap {p}}]

AsRetried(calls) == {[a EXCEPT !.retried = TRUE] : a \in calls}

Enter(r, request) == req[r] = Idle /\ req' = [req EXCEPT ![r] = request]
Goto(r, request) == req' = [req EXCEPT ![r] = request]
Return(r) == req' = [req EXCEPT ![r] = Idle]

-----------------------------------------------------------------------------
Init ==
    /\ task = [t \in Tasks |->
                 IF t \in DOMAIN Seed
                 THEN NewRow(Seed[t], IF Seed[t].depends_on = <<>> THEN "ready" ELSE "pending")
                 ELSE NoRow]
    /\ gate = [g \in Gates |-> [status |-> "absent"]]
    /\ progress = [t \in Tasks |-> <<>>]
    /\ grants = <<>>
    /\ req = [r \in Slots |-> Idle]
    /\ aborts = 0
    /\ done = [t \in Tasks |-> {}]

-----------------------------------------------------------------------------
(* create_task, submit_mesh_task: the dependencies' statuses are read, then *)
(* the row is inserted.                                                     *)

CreateRead(r, p, t) ==
    /\ task[t] = NoRow
    /\ ~\E s \in Slots : req[s].pc = "create_insert" /\ req[s].t = t
    /\ \E policy \in Policies, deps \in DepLists :
         /\ \A d \in Range(deps) : task[d] # NoRow
         /\ Enter(r, [pc |-> "create_insert", t |-> t,
                      sub |-> [claim_policy |-> policy, depends_on |-> deps, created_by |-> p],
                      status |-> IF DepsFinished(deps) THEN "ready" ELSE "pending"])
    /\ UNCHANGED <<task, gate, progress, grants, aborts, done>>

CreateInsert(r) ==
    /\ req[r].pc = "create_insert"
    /\ task' = [task EXCEPT ![req[r].t] = NewRow(req[r].sub, req[r].status)]
    /\ Return(r)
    /\ UNCHANGED <<gate, progress, grants, aborts, done>>

-----------------------------------------------------------------------------
(* claim_task: the row is read and its status checked; a broadcast task is *)
(* then written unconditionally, any other one under FOR UPDATE SKIP       *)
(* LOCKED and a comparison of version_counter.                             *)

ClaimPcs == {"claim_broadcast", "claim_lock", "claim_update"}
ClaimsLeft == Len(grants) + Cardinality({r \in Slots : req[r].pc \in ClaimPcs}) < MaxLeases

ClaimRead(r, p, t) ==
    /\ ClaimsLeft
    /\ task[t].status = "ready"
    /\ \E agent \in OnBehalf(p) :
         Enter(r, [pc |-> IF task[t].claim_policy = "broadcast" THEN "claim_broadcast"
                                                                ELSE "claim_lock",
                   t |-> t, by |-> p, agent |-> agent])
    /\ UNCHANGED <<task, gate, progress, grants, aborts, done>>

ClaimBroadcast(r) ==
    LET t == req[r].t IN
    /\ req[r].pc = "claim_broadcast"
    /\ ~Locked(t)
    /\ task' = [task EXCEPT ![t] = Claimed(task[t], "running", req[r].agent, task[t].version)]
    /\ GrantLease(t, req[r].agent, req[r].by)
    /\ Return(r)
    /\ UNCHANGED <<gate, progress, aborts, done>>

(* SELECT ... WHERE id=$1 AND status='ready' FOR UPDATE SKIP LOCKED        *)
LockableUnchecked(t) == ~Locked(t)                    \* seeded fault: status not re-read
Lockable(t) == task[t].status = "ready" /\ ~Locked(t)

ClaimLock(r) ==
    LET t == req[r].t IN
    /\ req[r].pc = "claim_lock"
    /\ IF Lockable(t)
         THEN Goto(r, [pc |-> "claim_update", t |-> t, by |-> req[r].by, agent |-> req[r].agent,
                       version |-> task[t].version])
         ELSE Return(r)
    /\ UNCHANGED <<task, gate, progress, grants, aborts, done>>

ClaimUpdate(r) ==
    LET t == req[r].t IN
    /\ req[r].pc = "claim_update"
    /\ IF task[t].version = req[r].version
         THEN /\ task' = [task EXCEPT ![t] =
                            Claimed(task[t], "claimed", req[r].agent, req[r].version + 1)]
              /\ GrantLease(t, req[r].agent, req[r].by)
         ELSE UNCHANGED <<task, grants>>
    /\ Return(r)
    /\ UNCHANGED <<gate, progress, aborts, done>>

(* claim_mesh_task, the MCP tool: one UPDATE ... WHERE status='ready',     *)
(* whatever the policy.                                                    *)
McpClaim(p, t) ==
    /\ ClaimsLeft
    /\ task[t].status = "ready"
    /\ ~Locked(t)
    /\ \E agent \in OnBehalf(p) :
         /\ task' = [task EXCEPT ![t] = Claimed(task[t], "claimed", agent, task[t].version + 1)]
         /\ GrantLease(t, agent, p)
    /\ UNCHANGED <<gate, progress, req, aborts, done>>

-----------------------------------------------------------------------------
(* Heartbeat and AppendProgress: a locking SELECT carries the fence; the   *)
(* writes follow while the row lock is held, and the commit releases it.   *)

HeartbeatFence(r, p, t) ==
    /\ ~Locked(t)
    /\ \E l \in Presentable(p, t) : FenceClaimableLive(p, t, l)
    /\ Enter(r, [pc |-> "heartbeat_write", t |-> t])
    /\ UNCHANGED <<task, gate, progress, grants, aborts, done>>

HeartbeatWrite(r) ==
    /\ req[r].pc = "heartbeat_write"
    /\ task' = [task EXCEPT ![req[r].t] = Heartbeaten(task[req[r].t])]
    /\ Return(r)
    /\ UNCHANGED <<gate, progress, grants, aborts, done>>

ProgressFence(r, p, t) ==
    /\ ~Locked(t)
    /\ Len(progress[t]) < MaxProgress
    /\ \E l \in Presentable(p, t) \ {NoLease} : FenceClaimableLive(p, t, l)
    /\ Enter(r, [pc |-> "progress_seq", t |-> t])
    /\ UNCHANGED <<task, gate, progress, grants, aborts, done>>

(* COALESCE(MAX(seq), -1) + 1 *)
NextSeq(seqs) ==
    IF seqs = <<>> THEN 0
    ELSE 1 + (CHOOSE m \in Range(seqs) : \A n \in Range(seqs) : n <= m)

ProgressSeq(r) ==
    /\ req[r].pc = "progress_seq"
    /\ Goto(r, [pc |-> "progress_insert", t |-> req[r].t, seq |-> NextSeq(progress[req[r].t])])
    /\ UNCHANGED <<task, gate, progress, grants, aborts, done>>

ProgressInsert(r) ==
    /\ req[r].pc = "progress_insert"
    /\ progress' = [progress EXCEPT ![req[r].t] = Append(@, req[r].seq)]
    /\ Return(r)
    /\ UNCHANGED <<task, gate, grants, aborts, done>>

-----------------------------------------------------------------------------
(* Complete: the gate_check CTE is evaluated on the statement's snapshot;  *)
(* the row is updated once its lock is free, after a re-check of the WHERE *)
(* clause on the current row.  A finish then goes on to unblock_dependents *)
(* outside any transaction.                                                *)

CompleteSnapshot(r, p, t) ==
    /\ \E eff \in OnBehalf(p), l \in Presentable(p, t) :
         /\ Finishable(p, eff, t, l)
         /\ Enter(r, [pc |-> "complete_apply", t |-> t, by |-> p, eff |-> eff, lease |-> l,
                      has_pending |-> HasPendingGate(t)])
    /\ UNCHANGED <<task, gate, progress, grants, aborts, done>>

CompleteApply(r) ==
    LET t == req[r].t  p == req[r].by  eff == req[r].eff  IN
    /\ req[r].pc = "complete_apply"
    /\ ~Locked(t)
    /\ \/ /\ ~Finishable(p, eff, t, req[r].lease)
          /\ Return(r)
          /\ UNCHANGED <<task, done>>
       \/ /\ Finishable(p, eff, t, req[r].lease)
          /\ req[r].has_pending
          /\ task' = [task EXCEPT ![t].status = "waiting_review"]
          /\ Return(r)
          /\ UNCHANGED done
       \/ /\ Finishable(p, eff, t, req[r].lease)
          /\ ~req[r].has_pending
          /\ task' = [task EXCEPT ![t] =
                        Finalized(task[t], "finished", Coalesce(task[t].claimed_by, eff))]
          /\ Accept(t, p, "complete")
          /\ Goto(r, [pc |-> "unblock_select", t |-> t])
    /\ UNCHANGED <<gate, progress, grants, aborts>>

(* unblock_dependents: the candidates are selected once; each one's        *)
(* dependencies are read and the candidate written by separate statements, *)
(* the write conditional on nothing but the id.                            *)

BlockedOnly == {"blocked"}                            \* seeded fault
Held == {"pending", "blocked"}

UnblockSelect(r) ==
    LET t == req[r].t IN
    /\ req[r].pc = "unblock_select"
    /\ Goto(r, [pc |-> "unblock_check", t |-> t,
                todo |-> {c \in Tasks : /\ task[c].status \in Held
                                        /\ t \in Range(task[c].depends_on)}])
    /\ UNCHANGED <<task, gate, progress, grants, aborts, done>>

UnblockCheck(r) ==
    /\ req[r].pc = "unblock_check"
    /\ \/ /\ req[r].todo = {}
          /\ Return(r)
       \/ \E c \in req[r].todo :
            IF DepsFinished(task[c].depends_on)
              THEN Goto(r, [pc |-> "unblock_write", t |-> req[r].t,
                            todo |-> req[r].todo \ {c}, c |-> c])
              ELSE Goto(r, [pc |-> "unblock_check", t |-> req[r].t,
                            todo |-> req[r].todo \ {c}])
    /\ UNCHANGED <<task, gate, progress, grants, aborts, done>>

UnblockWrite(r) ==
    /\ req[r].pc = "unblock_write"
    /\ ~Locked(req[r].c)
    /\ task' = [task EXCEPT ![req[r].c].status = "ready"]
    /\ Goto(r, [pc |-> "unblock_check", t |-> req[r].t, todo |-> req[r].todo])
    /\ UNCHANGED <<gate, progress, grants, aborts, done>>

(* The helper passes over an SQL error (unwrap_or_default, let _ =): no    *)
(* candidates, or one fewer, and on to the next.                           *)
WithoutStatement(q) ==
    CASE q.pc = "unblock_select" -> {{}}
      [] q.pc = "unblock_check" -> {q.todo \ {c} : c \in q.todo}
      [] q.pc = "unblock_write" -> {q.todo}

UnblockError(r) ==
    /\ req[r].pc \in {"unblock_select", "unblock_check", "unblock_write"}
    /\ aborts < MaxAborts
    /\ aborts' = aborts + 1
    /\ \E todo \in WithoutStatement(req[r]) :
         Goto(r, [pc |-> "unblock_check", t |-> req[r].t, todo |-> todo])
    /\ UNCHANGED <<task, gate, progress, grants, done>>

-----------------------------------------------------------------------------
(* The transitions that are one fenced UPDATE.                             *)

Fail(p, t) ==
    /\ ~Locked(t)
    /\ \E eff \in OnBehalf(p), l \in Presentable(p, t) :
         /\ Finishable(p, eff, t, l)
         /\ task' = [task EXCEPT ![t] =
                       Finalized(task[t], "failed", Coalesce(task[t].claimed_by, eff))]
    /\ Accept(t, p, "fail")
    /\ UNCHANGED <<gate, progress, grants, req, aborts>>

(* block_task and block_mesh_task: the lease goes, the claimant stays.     *)
Block(p, t) ==
    /\ ~Locked(t)
    /\ task[t].status \in Working
    /\ Owns(p, t) \/ \E l \in Presentable(p, t) : LeaseMatches(p, t, l)
    /\ task' = [task EXCEPT ![t] = Blocked(task[t])]
    /\ UNCHANGED <<gate, progress, grants, req, aborts, done>>

UnblockTask(p, t) ==
    /\ ~Locked(t)
    /\ task[t].status = "blocked"
    /\ Owns(p, t)
    /\ task' = [task EXCEPT ![t].status = "ready"]
    /\ UNCHANGED <<gate, progress, grants, req, aborts, done>>

Cancel(p, t) ==
    /\ ~Locked(t)
    /\ task[t] # NoRow
    /\ task[t].status \notin {"finished", "cancelled"}
    /\ Owns(p, t)
    /\ task' = [task EXCEPT ![t] =
                  Finalized(task[t], "cancelled", Canceller(task[t], p))]
    /\ UNCHANGED <<gate, progress, grants, req, aborts, done>>

AnyTerminal == {"finished", "failed", "cancelled"}    \* seeded fault
Retryable == {"failed", "cancelled"}

(* retry_task: any member of the domain; neither the dependencies nor      *)
(* attempt are looked at.                                                  *)
Retry(p, t) ==
    /\ ~Locked(t)
    /\ task[t].status \in Retryable
    /\ task' = [task EXCEPT ![t] = Finalized(task[t], "ready", NoOne)]
    /\ done' = [done EXCEPT ![t] = AsRetried(@)]
    /\ UNCHANGED <<gate, progress, grants, req, aborts>>

(* dispatch_task: status and creator are checked on a first read, the      *)
(* write is conditional on nothing but the id.                             *)
DispatchRead(r, p, t) ==
    /\ task[t].status = "ready"
    /\ task[t].created_by = p \/ p \in Admins
    /\ Enter(r, [pc |-> "dispatch_write", t |-> t])
    /\ UNCHANGED <<task, gate, progress, grants, aborts, done>>

DispatchWrite(r) ==
    /\ req[r].pc = "dispatch_write"
    /\ ~Locked(req[r].t)
    /\ task' = [task EXCEPT ![req[r].t].status = "finished"]
    /\ Return(r)
    /\ UNCHANGED <<gate, progress, grants, aborts, done>>

-----------------------------------------------------------------------------
(* Review gates.                                                           *)

(* create_gate: INSERT ... WHERE EXISTS (task ...) reads the task row from *)
(* its snapshot without locking it.                                        *)
GateSnapshot(r, p, t, g) ==
    /\ gate[g].status = "absent"
    /\ ~\E s \in Slots : req[s].pc = "gate_insert" /\ req[s].g = g
    /\ task[t].status \in InProgress
    /\ Owns(p, t)
    /\ Enter(r, [pc |-> "gate_insert", t |-> t, by |-> p, g |-> g])
    /\ UNCHANGED <<task, gate, progress, grants, aborts, done>>

GateInsert(r) ==
    /\ req[r].pc = "gate_insert"
    /\ gate' = [gate EXCEPT ![req[r].g] =
                  [status |-> "pending", task |-> req[r].t, owner |-> req[r].by]]
    /\ Return(r)
    /\ UNCHANGED <<task, progress, grants, aborts, done>>

(* resolve_gate: one transaction of two statements.  The first locks the   *)
(* gate row and sets its decision, invisible to others until the commit.   *)
ResolveGate(r, p, g) ==
    /\ gate[g].status = "pending"
    /\ ~GateLocked(g)
    /\ gate[g].owner = p \/ p \in Admins
    /\ \E decision \in {"approved", "rejected"} :
         Enter(r, [pc |-> "resolve_agg", g |-> g, by |-> p, decision |-> decision])
    /\ UNCHANGED <<task, gate, progress, grants, aborts, done>>

(* The second statement's agg CTE sees this transaction's decision and the *)
(* committed state of every other gate.                                    *)
Decided(r) == [gate EXCEPT ![req[r].g].status = req[r].decision]
AnyRejected(gates, t) == \E g \in GatesOf(t) : gates[g].status = "rejected"

AllResolved(gates, t) == \A g \in GatesOf(t) : gates[g].status = "approved"

ResolveAgg(r) ==
    LET t == gate[req[r].g].task
        rejected == AnyRejected(Decided(r), t)
    IN
    /\ req[r].pc = "resolve_agg"
    /\ IF task[t].status = "waiting_review" /\ (rejected \/ AllResolved(Decided(r), t))
         THEN /\ Goto(r, [pc |-> "resolve_apply", g |-> req[r].g, by |-> req[r].by,
                          decision |-> req[r].decision, any_rejected |-> rejected])
              /\ UNCHANGED gate
         ELSE /\ gate' = Decided(r)
              /\ Return(r)
    /\ UNCHANGED <<task, progress, grants, aborts, done>>

ResolveApply(r) ==
    LET t == gate[req[r].g].task
        status == IF req[r].any_rejected THEN "failed" ELSE "finished"
        who == Coalesce(task[t].claimed_by, Coalesce(task[t].finalized_by, req[r].by))
    IN
    /\ req[r].pc = "resolve_apply"
    /\ ~Locked(t)
    /\ gate' = Decided(r)
    /\ \/ /\ task[t].status = "waiting_review"
          /\ task' = [task EXCEPT ![t] = Finalized(task[t], status, who)]
          /\ IF status = "finished"
               THEN Goto(r, [pc |-> "unblock_select", t |-> t])
               ELSE Return(r)
       \/ /\ task[t].status # "waiting_review"
          /\ Return(r)
          /\ UNCHANGED task
    /\ UNCHANGED <<progress, grants, aborts, done>>

-----------------------------------------------------------------------------
(* Time, the sweep and lost handlers.                                      *)

LeaseLapses(t) ==
    /\ task[t].status \in Status
    /\ task[t].expires = "live"
    /\ task' = [task EXCEPT ![t].expires = "lapsed"]
    /\ UNCHANGED <<gate, progress, grants, req, aborts, done>>

ClaimedOnly == {"claimed"}                            \* seeded fault
Sweepable == Working

(* expire_stale_leases, run by list_tasks before it lists: one UPDATE over *)
(* the mission whose predicate and assignments are local to each row, so   *)
(* it is taken one row at a time.                                          *)
ExpireStaleLease(t) ==
    /\ ~Locked(t)
    /\ task[t].status \in Sweepable
    /\ task[t].claim_policy # "broadcast"
    /\ task[t].expires = "lapsed"
    /\ task' = [task EXCEPT ![t] = Expired(task[t])]
    /\ UNCHANGED <<gate, progress, grants, req, aborts, done>>

(* The handler's future is dropped (client gone, pool error, tower exits): *)
(* its open transaction rolls back, what it committed stays.               *)
Abort(r) ==
    /\ aborts < MaxAborts
    /\ req[r] # Idle
    /\ aborts' = aborts + 1
    /\ Return(r)
    /\ UNCHANGED <<task, gate, progress, grants, done>>

-----------------------------------------------------------------------------
(* The next statement of the handler in slot r.                            *)
Step(r) ==
    \/ CreateInsert(r)
    \/ ClaimBroadcast(r) \/ ClaimLock(r) \/ ClaimUpdate(r)
    \/ HeartbeatWrite(r) \/ ProgressSeq(r) \/ ProgressInsert(r)
    \/ CompleteApply(r)
    \/ UnblockSelect(r) \/ UnblockCheck(r) \/ UnblockWrite(r)
    \/ DispatchWrite(r)
    \/ GateInsert(r) \/ ResolveAgg(r) \/ ResolveApply(r)

(* A call by p that enters a slot.                                         *)
Call(r, p) ==
    \/ \E t \in Tasks :
         \/ CreateRead(r, p, t) \/ ClaimRead(r, p, t)
         \/ HeartbeatFence(r, p, t) \/ ProgressFence(r, p, t)
         \/ CompleteSnapshot(r, p, t) \/ DispatchRead(r, p, t)
         \/ \E g \in Gates : GateSnapshot(r, p, t, g)
    \/ \E g \in Gates : ResolveGate(r, p, g)

(* A call by p that is one statement.                                      *)
AtomicCall(p, t) ==
    \/ McpClaim(p, t) \/ Fail(p, t) \/ Block(p, t) \/ UnblockTask(p, t)
    \/ Cancel(p, t) \/ Retry(p, t)

Next ==
    \/ \E r \in Slots : Step(r) \/ UnblockError(r) \/ Abort(r) \/ \E p \in Callers : Call(r, p)
    \/ \E p \in Callers, t \in Tasks : AtomicCall(p, t)
    \/ \E t \in Tasks : LeaseLapses(t) \/ ExpireStaleLease(t)

(* A running handler takes its next statement (the tokio runtime polls it  *)
(* and Postgres queues lock waiters); daemons poll list_tasks for ever, so *)
(* the sweep keeps running.                                                *)
Fairness ==
    /\ \A r \in Slots : WF_vars(Step(r))
    /\ \A t \in Tasks : WF_vars(ExpireStaleLease(t))

Spec == Init /\ [][Next]_vars /\ Fairness

-----------------------------------------------------------------------------
(* Safety.                                                                 *)

(* A task in progress always has a claimant, the lease id of that claim    *)
(* and an expiry, so that somebody can finish it or the sweep can reclaim  *)
(* it; a blocked task keeps its claimant, who alone (operators aside) may  *)
(* unblock it.  Every transition of work.rs and task_transitions.rs has to *)
(* agree on which columns it clears.                                       *)
InProgressOwned ==
    \A t \in Tasks :
        /\ task[t].status \in InProgress =>
             /\ task[t].claimed_by # NoOne
             /\ task[t].lease # NoLease
             /\ task[t].expires # "null"
        /\ task[t].status = "blocked" => task[t].claimed_by # NoOne

(* The lease id on a row is the newest one ever granted for the task, and  *)
(* the claimant on the row is the agent of that same claim: a token of an  *)
(* earlier claim "can never validate against a reclaimed (or re-readied)   *)
(* row" (expire_stale_leases).                                             *)
LeaseIsNewestGrant ==
    \A t \in Tasks :
        (task[t] # NoRow /\ task[t].lease # NoLease) =>
            /\ task[t].lease \in 1 .. Len(grants)
            /\ grants[task[t].lease].task = t
            /\ grants[task[t].lease].agent = task[t].claimed_by
            /\ \A l \in task[t].lease + 1 .. Len(grants) : grants[l].task # t

(* The seq numbers of a task's progress events are 0, 1, 2, ... in commit  *)
(* order, with no gap and no duplicate, however many posters race.         *)
ProgressGapless ==
    \A t \in Tasks : \A i \in 1 .. Len(progress[t]) : progress[t][i] = i - 1

(* A later claim of the task put its claimant's name in finalized_by.      *)
FinishedByLaterClaimant(t, claims) ==
    \E l \in claims + 1 .. Len(grants) :
        grants[l].task = t /\ grants[l].agent = task[t].finalized_by

(* An agent whose complete or fail was applied and who sends it again (its *)
(* answer was lost), though without a lease, is told 409 and not 403, until *)
(* the row has lost his name in one of two ways: somebody retried the task, *)
(* which clears the claimant and the finalizer, or somebody who claimed it *)
(* later (over the unleased writes of a broadcast claim or of a dependency *)
(* release, that is without a retry) has finished it.  Cancels, blocks,    *)
(* sweeps, claims and dispatches since make no difference.                 *)
RepeatedCallIsConflict ==
    \A t \in Tasks : \A a \in done[t] :
        \/ Classify(a.by, t, NoLease, IF a.call = "complete" THEN {"finished"} ELSE {"failed"})
             = "conflict"
        \/ a.retried
        \/ FinishedByLaterClaimant(t, a.claims)

(* A finished task stays finished.                                         *)
FinishedIsFinal ==
    [][\A t \in Tasks : task[t].status = "finished" => task'[t].status = "finished"]_vars

(* Once a terminal transition has recorded who finalized the task, no      *)
(* later transition replaces that name; only a retry clears it.            *)
AttributionKept ==
    [][\A t \in Tasks :
         (task[t] # NoRow /\ task[t].finalized_by # NoOne) =>
            \/ task'[t].finalized_by = task[t].finalized_by
            \/ task[t].status \in {"failed", "cancelled"} /\ task'[t].status = "ready"]_vars

(* An exclusive task is claimed again only once the lease of the previous  *)
(* claim has been taken off the row, by its holder, an operator or the     *)
(* sweep: the argument on which the unleased complete and fail of a        *)
(* claimant rest.                                                          *)
ReclaimAfterRelease ==
    [][\A t \in Tasks :
         (task[t] # NoRow /\ task[t].claim_policy # "broadcast" /\ task[t].lease # NoLease) =>
            task'[t].lease \in {task[t].lease, NoLease}]_vars

(* The handler in slot r is going to release t: it has still to look for   *)
(* the dependents of a task t waits for, or has t among its candidates.    *)
Releasing(r, t) ==
    \/ req[r].pc = "unblock_select" /\ req[r].t \in Range(task[t].depends_on)
    \/ req[r].pc \in {"unblock_check", "unblock_write"} /\ t \in req[r].todo
    \/ req[r].pc = "unblock_write" /\ req[r].c = t

(* A task that waits for nothing any more, and that nobody will release.   *)
Forgotten(t) ==
    /\ task[t].status = "pending"
    /\ \A d \in Range(task[t].depends_on) : task[d].status = "finished"
    /\ ~\E r \in Slots : Releasing(r, t)

(* Finishing a task and releasing its dependents are separate statements   *)
(* of separate handlers, several finishes may race, and a release is       *)
(* dropped when another dependency still looks unfinished.  A submitted    *)
(* task is forgotten in three ways only: the handler about to release it   *)
(* is dropped or loses a statement, its last dependency is finished by a   *)
(* dispatch (which releases nobody), or its list names a dependency twice. *)
NobodyForgotten ==
    [][\A t \in Tasks :
         (task[t] # NoRow /\ ~Forgotten(t) /\ Forgotten(t)') =>
            \/ \E r \in Slots : (Abort(r) \/ UnblockError(r)) /\ Releasing(r, t)
            \/ \E r \in Slots : DispatchWrite(r) /\ req[r].t \in Range(task[t].depends_on)
            \/ Cardinality(Range(task[t].depends_on)) # Len(task[t].depends_on)]_vars

(* The abstract view of the table.  A waiting_review row is still held: its *)
(* claimant can complete it again or fail it.                              *)
PhaseOf(row) ==
    CASE row.status = "absent" -> "absent"
      [] row.status = "ready" -> "open"
      [] row.status \in {"pending", "blocked"} -> "parked"
      [] row.status \in InProgress -> "held"
      [] row.status \in {"failed", "cancelled"} -> "stopped"
      [] row.status = "finished" -> "finished"

HeldLease(row) == IF row.status \in InProgress THEN row.lease ELSE NoLease

Lease == INSTANCE TaskLease WITH
            phase <- [t \in Tasks |-> PhaseOf(task[t])],
            lease <- [t \in Tasks |-> HeldLease(task[t])],
            issued <- Len(grants)

(* The table, its statements and locks implement the abstract lease        *)
(* protocol (for exclusive tasks without dependencies): every interleaving *)
(* of the handlers' statements looks to the agents like grants of open     *)
(* tasks under fresh lease ids, releases and finishes, so between two      *)
(* grants of a task there is always a release, a stop or a finish.         *)
ImplementsTaskLease == Lease!Spec

(* A gate is decided once: of two reviewers who both found it pending, the *)
(* one whose statement waited for the other's commit decides nothing       *)
(* ("the second caller's UPDATE would silently overwrite the first's        *)
(* decision", resolve_gate).                                               *)
DecisionFinal ==
    [][\A g \in Gates : gate[g].status \in {"approved", "rejected"} => gate'[g] = gate[g]]_vars

(* With no handler in flight, a task waits for review only while one of    *)
(* its gates is pending.                                                   *)
WaitingHasPendingGate ==
    (\A r \in Slots : req[r] = Idle) =>
        \A t \in Tasks : task[t].status = "waiting_review" => HasPendingGate(t)

-----------------------------------------------------------------------------
(* Liveness.                                                               *)

(* A pending task whose dependencies are all finished does not stay        *)
(* pending.                                                                *)
DependentsReleased ==
    \A t \in Tasks :
        (task[t].status = "pending" /\ \A d \in Range(task[t].depends_on) : task[d].status = "finished")
            ~> task[t].status # "pending"

(* A lapsed exclusive claim is always taken away from its holder.          *)
LapsedClaimReclaimed ==
    \A t \in Tasks :
        (/\ task[t].status \in Working
         /\ task[t].claim_policy # "broadcast"
         /\ task[t].expires = "lapsed")
            ~> ~(task[t].status \in Working /\ task[t].expires = "lapsed")
=============================================================================
