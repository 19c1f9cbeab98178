------------------------ MODULE TaskLifecycleProofs ------------------------
(* Proofs that the safety invariants of TaskLifecycle hold for every       *)
(* number of tasks, callers, gates and handlers.                           *)
(*                                                                         *)
(* The argument: every step changes a row in one of a few ways (RowStep);  *)
(* the invariants about rows follow from those alone.  What a handler that *)
(* has read something may still rely on when it writes (LocalsCurrent)     *)
(* rests on the row locks having one holder (OneHolder).                   *)
EXTENDS TaskLifecycle, TLAPS

-----------------------------------------------------------------------------
(* The inductive invariant.                                                *)

RowPcs == LockPcs \cup {"claim_broadcast", "claim_lock", "dispatch_write", "complete_apply"}

(* Rows named by a request exist.                                          *)
RowsExist ==
    \A r \in Slots :
        /\ req[r].pc \in RowPcs => task[req[r].t] # NoRow
        /\ req[r].pc \in {"unblock_check", "unblock_write"} =>
             \A c \in req[r].todo : task[c] # NoRow
        /\ req[r].pc = "unblock_write" => task[req[r].c] # NoRow
        /\ req[r].pc \in {"resolve_agg", "resolve_apply"} => gate[req[r].g].status # "absent"

(* What a handler learnt in an earlier statement and its next one uses.    *)
LocalsCurrent ==
    \A r \in Slots :
        /\ req[r].pc = "create_insert" => task[req[r].t] = NoRow
        /\ req[r].pc = "heartbeat_write" => task[req[r].t].status \in Working
        /\ req[r].pc = "progress_insert" => req[r].seq = Len(progress[req[r].t])
        /\ req[r].pc \in ClaimPcs => req[r].agent \in OnBehalf(req[r].by)
        /\ req[r].pc = "complete_apply" =>
             /\ req[r].eff \in OnBehalf(req[r].by)
             /\ req[r].lease \in Presentable(req[r].by, req[r].t)

(* A row lock, and an id being inserted, has one holder.                   *)
OneHolder ==
    \A r, s \in Slots :
        (r # s /\ req[r].pc # "idle" /\ req[s].pc # "idle") =>
            /\ ~(req[r].pc \in LockPcs /\ req[s].pc \in LockPcs /\ req[r].t = req[s].t)
            /\ ~(req[r].pc = "create_insert" /\ req[s].pc = "create_insert"
                                             /\ req[r].t = req[s].t)

(* Every lease was granted to an agent its caller may claim for.           *)
GrantsHonest == \A l \in DOMAIN grants : grants[l].agent \in OnBehalf(grants[l].by)

(* An accepted finalizing call leaves its caller's name on the row; until  *)
(* a retry, only a claim granted after the call can put the row in progress *)
(* again, and only its claimant's name can take the place of the caller's. *)
AnswersRemembered ==
    \A t \in Tasks : \A a \in done[t] :
        /\ task[t] # NoRow /\ a.claims <= Len(grants)
        /\ ~a.retried =>
             /\ task[t].status \in InProgress => a.claims < task[t].lease
             /\ task[t].finalized_by = a.by \/ FinishedByLaterClaimant(t, a.claims)

IInv == 
    /\ TypeOK /\ RowsExist /\ LocalsCurrent /\ OneHolder
    /\ ProgressGapless /\ InProgressOwned /\ LeaseIsNewestGrant
    /\ GrantsHonest /\ AnswersRemembered

-----------------------------------------------------------------------------
(* Typing facts.                                                           *)

(* The local variables of a request, by program counter.                   *)
LEMMA RequestFields ==
    ASSUME NEW q \in Request
    PROVE  /\ q.pc = "create_insert" =>
                q.t \in Tasks /\ q.sub \in Submitted /\ q.status \in {"ready", "pending"}
           /\ q.pc \in {"claim_broadcast", "claim_lock", "claim_update"} =>
                q.t \in Tasks /\ q.by \in Callers /\ q.agent \in Callers
           /\ q.pc = "claim_update" => q.version \in Nat
           /\ q.pc \in {"dispatch_write", "heartbeat_write", "progress_seq"} => q.t \in Tasks
           /\ q.pc = "progress_insert" => q.t \in Tasks /\ q.seq \in Nat
           /\ q.pc = "complete_apply" =>
                /\ q.t \in Tasks /\ q.by \in Callers /\ q.eff \in Callers
                /\ q.lease \in Leases /\ q.has_pending \in BOOLEAN
           /\ q.pc = "gate_insert" => q.t \in Tasks /\ q.by \in Callers /\ q.g \in Gates
           /\ q.pc \in {"resolve_agg", "resolve_apply"} =>
                q.g \in Gates /\ q.by \in Callers /\ q.decision \in {"approved", "rejected"}
           /\ q.pc = "resolve_apply" => q.any_rejected \in BOOLEAN
           /\ q.pc \in {"unblock_select", "unblock_check", "unblock_write"} => q.t \in Tasks
           /\ q.pc \in {"unblock_check", "unblock_write"} => q.todo \in SUBSET Tasks
           /\ q.pc = "unblock_write" => q.c \in Tasks
  BY DEF Request, Idle

(* A task with a status has a row.                                         *)
LEMMA RowOf ==
    ASSUME TypeOK, NEW t \in Tasks
    PROVE  /\ task[t].status \in Status => task[t] \in Row /\ task[t] # NoRow
           /\ task[t] # NoRow => task[t] \in Row /\ task[t].status \in Status
           /\ task[t].status = "absent" => task[t] = NoRow
<1>1. NoRow.status = "absent" /\ "absent" \notin Status
  BY DEF NoRow, Status, InProgress, Working
<1>2. task[t] \in Row \/ task[t] = NoRow
  BY DEF TypeOK
<1>3. task[t] \in Row => task[t].status \in Status
  BY DEF Row
<1> QED BY <1>1, <1>2, <1>3

(* The task of the gate that a handler has decided.                        *)
LEMMA DecidedTask ==
    ASSUME TypeOK, RowsExist, NEW r \in Slots, req[r].pc = "resolve_apply"
    PROVE  gate[req[r].g].task \in Tasks
<1>1. req[r].g \in Gates
  BY RequestFields DEF TypeOK
<1>2. gate[req[r].g].status # "absent"
  BY DEF RowsExist
<1>3. gate[req[r].g] \in GateRow
  BY <1>1, <1>2 DEF TypeOK
<1> QED BY <1>3 DEF GateRow

(* What each row write leaves in the columns the invariants speak of.      *)
LEMMA FinalizedRow ==
    ASSUME NEW row \in Row, NEW s \in Status, NEW p \in Callers \cup {NoOne}
    PROVE  /\ Finalized(row, s, p) \in Row
           /\ Finalized(row, s, p).status = s
           /\ Finalized(row, s, p).lease = NoLease
           /\ Finalized(row, s, p).finalized_by = p
<1>1. NoLease \in Leases
  BY BoundsAssumption DEF NoLease, Leases
<1> QED BY <1>1 DEF Finalized, Released, Row

LEMMA BlockedRow ==
    ASSUME NEW row \in Row
    PROVE  /\ Blocked(row) \in Row
           /\ Blocked(row).status = "blocked"
           /\ Blocked(row).lease = NoLease
           /\ Blocked(row).claimed_by = row.claimed_by
           /\ Blocked(row).finalized_by = row.finalized_by
<1>1. NoLease \in Leases
  BY BoundsAssumption DEF NoLease, Leases
<1> QED BY <1>1 DEF Blocked, Row, Status

LEMMA HeartbeatenRow ==
    ASSUME NEW row \in Row
    PROVE  /\ Heartbeaten(row) \in Row
           /\ Heartbeaten(row).status = "running"
           /\ Heartbeaten(row).lease = row.lease
           /\ Heartbeaten(row).claimed_by = row.claimed_by
           /\ Heartbeaten(row).finalized_by = row.finalized_by
           /\ Heartbeaten(row).expires = "live"
  BY DEF Heartbeaten, Row, Status, InProgress, Working

LEMMA ExpiredRow ==
    ASSUME NEW row \in Row
    PROVE  /\ Expired(row) \in Row
           /\ Expired(row).status \in {"failed", "ready"}
           /\ Expired(row).lease = NoLease
           /\ Expired(row).finalized_by = row.finalized_by
<1>1. NoLease \in Leases
  BY BoundsAssumption DEF NoLease, Leases
<1>2. NextAttempt(row) \in {"failed", "ready"}
  BY DEF NextAttempt
<1> DEFINE freed == Released(row, NextAttempt(row))
<1>3. /\ freed \in Row /\ freed.status \in {"failed", "ready"}
      /\ freed.lease = NoLease /\ freed.finalized_by = row.finalized_by
  BY <1>1, <1>2 DEF Released, Row, Status
<1>4. Expired(row) = [freed EXCEPT !.attempt = @ + 1]
  BY DEF Expired
<1> HIDE DEF freed
<1> QED BY <1>3, <1>4 DEF Row

LEMMA RelabelledRow ==
    ASSUME NEW row \in Row, NEW s \in Status
    PROVE  /\ [row EXCEPT !.status = s] \in Row
           /\ [row EXCEPT !.status = s].status = s
           /\ [row EXCEPT !.status = s].lease = row.lease
           /\ [row EXCEPT !.status = s].claimed_by = row.claimed_by
           /\ [row EXCEPT !.status = s].finalized_by = row.finalized_by
           /\ [row EXCEPT !.status = s].expires = row.expires
  BY DEF Row

LEMMA LapsedRow ==
    ASSUME NEW row \in Row
    PROVE  /\ [row EXCEPT !.expires = "lapsed"] \in Row
           /\ [row EXCEPT !.expires = "lapsed"].status = row.status
           /\ [row EXCEPT !.expires = "lapsed"].lease = row.lease
           /\ [row EXCEPT !.expires = "lapsed"].claimed_by = row.claimed_by
           /\ [row EXCEPT !.expires = "lapsed"].finalized_by = row.finalized_by
           /\ [row EXCEPT !.expires = "lapsed"].expires = "lapsed"
  BY DEF Row

(* A row is not the absence of one.                                        *)
LEMMA RowIsPresent ==
    ASSUME NEW row \in Row
    PROVE  row # NoRow /\ row.status \in Status /\ row.lease \in Leases
  BY DEF Row, NoRow, Status, InProgress, Working

(* A new row is unclaimed.                                                 *)
LEMMA NewRows ==
    ASSUME NEW sub \in Submitted, NEW s \in {"ready", "pending"}
    PROVE  /\ NewRow(sub, s) \in Row
           /\ NewRow(sub, s).lease = NoLease
           /\ NewRow(sub, s).status = s
<1>1. NoLease \in Leases
  BY BoundsAssumption DEF NoLease, Leases
<1>2. s \in Status
  BY DEF Status
<1> QED BY <1>1, <1>2 DEF NewRow, Row, Submitted

(* The claimed row carries the lease id that grants is about to get.       *)
LEMMA ClaimedRows ==
    ASSUME TypeOK, Len(grants) < MaxLeases, NEW row \in Row, NEW s \in Working,
           NEW agent \in Callers, NEW v \in Nat
    PROVE  /\ Claimed(row, s, agent, v) \in Row
           /\ Claimed(row, s, agent, v).status = s
           /\ Claimed(row, s, agent, v).claimed_by = agent
           /\ Claimed(row, s, agent, v).lease = Len(grants) + 1
           /\ Claimed(row, s, agent, v).expires = "live"
           /\ Claimed(row, s, agent, v).finalized_by = row.finalized_by
<1>1. Len(grants) + 1 \in Leases
  BY BoundsAssumption DEF TypeOK, Leases
<1>2. s \in Status
  BY DEF Status, InProgress
<1> QED BY <1>1, <1>2 DEF Claimed, Row

-----------------------------------------------------------------------------
(* The ways a step changes the row of task t.                              *)

Keeps(t) == task'[t] = task[t] /\ done'[t] = done[t]

Inserts(t) ==
    /\ task[t] = NoRow
    /\ \E sub \in Submitted, s \in {"ready", "pending"} : task'[t] = NewRow(sub, s)
    /\ done'[t] = done[t]

Relabels(t) ==
    /\ task[t] # NoRow
    /\ \E s \in {"ready", "finished", "waiting_review"} :
         /\ task'[t] = [task[t] EXCEPT !.status = s]
         /\ s = "waiting_review" => task[t].status \in InProgress
    /\ done'[t] = done[t]

(* The calls that the claimant of t may add to the history now.            *)
OwnCalls(t) ==
    {a \in Accepted : a.by = task[t].claimed_by /\ a.claims = Len(grants) /\ ~a.retried}

Finalizes(t) ==
    /\ task[t].status \in InProgress
    /\ \E s \in {"finished", "failed"} : task'[t] = Finalized(task[t], s, task[t].claimed_by)
    /\ \E new \in SUBSET OwnCalls(t) : done'[t] = done[t] \cup new

Cancels(t) ==
    /\ task[t] # NoRow
    /\ \E p \in Callers :
         task'[t] = Finalized(task[t], "cancelled", Coalesce(task[t].finalized_by, p))
    /\ done'[t] = done[t]

Retries(t) ==
    /\ task[t] # NoRow
    /\ task'[t] = Finalized(task[t], "ready", NoOne)
    /\ done'[t] = AsRetried(done[t])

Rewrites(t) ==
    /\ task[t].status \in Working
    /\ task'[t] \in {Blocked(task[t]), Heartbeaten(task[t]), Expired(task[t])}
    /\ done'[t] = done[t]

Lapses(t) ==
    /\ task[t] # NoRow /\ task[t].expires = "live"
    /\ task'[t] = [task[t] EXCEPT !.expires = "lapsed"]
    /\ done'[t] = done[t]

RowStep(t) ==
    \/ Keeps(t) \/ Inserts(t) \/ Relabels(t) \/ Finalizes(t) \/ Cancels(t)
    \/ Retries(t) \/ Rewrites(t) \/ Lapses(t)

(* A step that grants no lease.                                            *)
Quiet ==
    /\ grants' = grants
    /\ task' = [t \in Tasks |-> task'[t]]
    /\ done' = [t \in Tasks |-> done'[t]]
    /\ \A t \in Tasks : RowStep(t)

(* A step that grants a lease on one task and leaves the others alone.     *)
Granting ==
    /\ Len(grants) < MaxLeases
    /\ done' = done
    /\ \E t \in Tasks, agent \in Callers, by \in Callers, s \in Working, v \in Nat :
         /\ task[t] # NoRow
         /\ agent \in OnBehalf(by)
         /\ grants' = Append(grants, [task |-> t, agent |-> agent, by |-> by])
         /\ task' = [task EXCEPT ![t] = Claimed(task[t], s, agent, v)]

(* Writing the row of one task and nothing else is a quiet step when the   *)
(* write is one of the listed ones.                                        *)
LEMMA OneRow ==
    ASSUME TypeOK, NEW t \in Tasks, NEW row, task' = [task EXCEPT ![t] = row],
           done' = done \/ \E d : done' = [done EXCEPT ![t] = d],
           grants' = grants, RowStep(t)
    PROVE  Quiet
<1>1. task' = [u \in Tasks |-> task'[u]]
  BY DEF TypeOK
<1>2. done' = [u \in Tasks |-> done'[u]]
  BY DEF TypeOK
<1>3. ASSUME NEW u \in Tasks, u # t PROVE Keeps(u)
  BY <1>3 DEF TypeOK, Keeps
<1> QED BY <1>1, <1>2, <1>3 DEF Quiet, RowStep

(* A step that leaves task, done and grants alone is quiet.                *)
LEMMA NoRowTouched ==
    ASSUME TypeOK, UNCHANGED <<task, grants, done>>
    PROVE  Quiet
<1>1. task' = [u \in Tasks |-> task'[u]] /\ done' = [u \in Tasks |-> done'[u]]
  BY DEF TypeOK
<1> QED BY <1>1 DEF Quiet, RowStep, Keeps

(* Whoever may finish a task under his own identity or with his lease      *)
(* either bypasses the fence or is the claimant.                           *)
LEMMA FinisherIsClaimant ==
    ASSUME IInv, NEW t \in Tasks, NEW p \in Callers, NEW eff \in OnBehalf(p),
           NEW l \in Presentable(p, t), Finishable(p, eff, t, l)
    PROVE  /\ task[t] \in Row /\ task[t].status \in InProgress
           /\ task[t].claimed_by \in Callers
           /\ IsBypass(p) \/ task[t].claimed_by = p
<1>1. task[t].status \in InProgress /\ task[t] \in Row /\ task[t] # NoRow
  BY RowOf DEF IInv, Finishable, Status
<1>2. task[t].claimed_by \in Callers
  BY <1>1 DEF IInv, InProgressOwned, Row
<1>3. ASSUME ~IsBypass(p), task[t].claimed_by # eff PROVE task[t].claimed_by = p
  <2>1. l # NoLease /\ task[t].lease = l
    BY <1>3 DEF Finishable, LeaseMatches
  <2>2. l \in DOMAIN grants /\ grants[l].by = p
    BY <2>1 DEF IInv, Presentable, TypeOK
  <2>3. grants[l].agent = task[t].claimed_by
    BY <2>1, <1>1 DEF IInv, LeaseIsNewestGrant
  <2> QED BY <2>2, <2>3, <1>3 DEF IInv, GrantsHonest, OnBehalf
<1> QED BY <1>1, <1>2, <1>3 DEF OnBehalf

(* A finalizing call that is applied enters the history of its task.       *)
LEMMA AcceptsOwnCall ==
    ASSUME TypeOK, NEW t \in Tasks, NEW p \in Callers, NEW call \in {"complete", "fail"},
           IsBypass(p) \/ task[t].claimed_by = p, Accept(t, p, call)
    PROVE  /\ \E new \in SUBSET OwnCalls(t) : done'[t] = done[t] \cup new
           /\ \E d : done' = [done EXCEPT ![t] = d]
<1> DEFINE new == {[by |-> a, call |-> call, claims |-> Len(grants), retried |-> FALSE] :
                      a \in Agents \cap {p}}
<1>1. new \in SUBSET OwnCalls(t)
  <2> SUFFICES ASSUME NEW a \in Agents, a = p
               PROVE  [by |-> a, call |-> call, claims |-> Len(grants), retried |-> FALSE]
                        \in OwnCalls(t)
    OBVIOUS
  <2>1. Len(grants) \in Leases
    BY BoundsAssumption DEF TypeOK, Leases
  <2>2. task[t].claimed_by = a
    BY PrincipalsAssumption DEF IsBypass
  <2> QED BY <2>1, <2>2 DEF OwnCalls, Accepted
<1>2. done' = [done EXCEPT ![t] = done[t] \cup new]
  BY DEF Accept
<1> HIDE DEF new
<1> QED BY <1>1, <1>2 DEF TypeOK

(* Every step changes rows and leases in one of the listed ways.           *)
LEMMA RowSteps ==
    ASSUME IInv, [Next]_vars
    PROVE  Quiet \/ Granting
<1> USE DEF IInv
<1>1. ASSUME NEW r \in Slots, CreateInsert(r) PROVE Quiet
  <2>1. req[r].t \in Tasks /\ req[r].sub \in Submitted /\ req[r].status \in {"ready", "pending"}
    BY <1>1, RequestFields DEF CreateInsert, TypeOK
  <2>2. Inserts(req[r].t)
    BY <1>1, <2>1 DEF CreateInsert, Inserts, LocalsCurrent, TypeOK
  <2> QED BY <1>1, <2>1, <2>2, OneRow DEF CreateInsert, RowStep
<1>2. ASSUME NEW r \in Slots, ClaimBroadcast(r) PROVE Granting
  <2>1. /\ req[r].t \in Tasks /\ req[r].by \in Callers /\ req[r].agent \in Callers
        /\ req[r].agent \in OnBehalf(req[r].by) /\ task[req[r].t] # NoRow
    BY <1>2, RequestFields
       DEF ClaimBroadcast, TypeOK, RowsExist, RowPcs, LocalsCurrent, ClaimPcs
  <2>2. task[req[r].t].version \in Nat
    BY <2>1, RowOf DEF Row
  <2> QED BY <1>2, <2>1, <2>2 DEF ClaimBroadcast, GrantLease, Granting, Working
<1>3. ASSUME NEW r \in Slots, ClaimUpdate(r) PROVE Quiet \/ Granting
  <2>1. /\ req[r].t \in Tasks /\ req[r].by \in Callers /\ req[r].agent \in Callers
        /\ req[r].agent \in OnBehalf(req[r].by) /\ task[req[r].t] # NoRow
        /\ req[r].version + 1 \in Nat
    BY <1>3, RequestFields
       DEF ClaimUpdate, TypeOK, RowsExist, RowPcs, LockPcs, LocalsCurrent, ClaimPcs
  <2>2. CASE task[req[r].t].version = req[r].version
    BY <1>3, <2>1, <2>2 DEF ClaimUpdate, GrantLease, Granting, Working
  <2>3. CASE task[req[r].t].version # req[r].version
    BY <1>3, <2>3, NoRowTouched DEF ClaimUpdate
  <2> QED BY <2>2, <2>3
<1>4. ASSUME NEW p \in Callers, NEW t \in Tasks, McpClaim(p, t) PROVE Granting
  <2>1. PICK agent \in OnBehalf(p) :
          /\ task' = [task EXCEPT ![t] = Claimed(task[t], "claimed", agent, task[t].version + 1)]
          /\ GrantLease(t, agent, p)
    BY <1>4 DEF McpClaim
  <2>2. agent \in Callers
    BY <2>1 DEF OnBehalf, Callers
  <2>3. task[t] # NoRow /\ task[t].version + 1 \in Nat /\ done' = done
    BY <1>4, RowOf DEF McpClaim, Row, Status
  <2> QED BY <2>1, <2>2, <2>3 DEF GrantLease, Granting, Working
<1>5. ASSUME NEW r \in Slots, HeartbeatWrite(r) PROVE Quiet
  <2>1. req[r].t \in Tasks /\ task[req[r].t].status \in Working
    BY <1>5, RequestFields DEF HeartbeatWrite, TypeOK, LocalsCurrent
  <2>2. Rewrites(req[r].t)
    BY <1>5, <2>1 DEF HeartbeatWrite, Rewrites, TypeOK
  <2> QED BY <1>5, <2>1, <2>2, OneRow DEF HeartbeatWrite, RowStep
<1>6. ASSUME NEW r \in Slots, CompleteApply(r) PROVE Quiet
  <2> DEFINE t == req[r].t
             p == req[r].by
             eff == req[r].eff
  <2>1. /\ t \in Tasks /\ p \in Callers /\ eff \in Callers
        /\ eff \in OnBehalf(p) /\ req[r].lease \in Presentable(p, t)
    BY <1>6, RequestFields DEF CompleteApply, TypeOK, LocalsCurrent
  <2>2. CASE ~Finishable(p, eff, t, req[r].lease)
    BY <1>6, <2>2, NoRowTouched DEF CompleteApply
  <2>3. CASE Finishable(p, eff, t, req[r].lease)
    <3> HIDE DEF t, p, eff
    <3>1. /\ task[t] \in Row /\ task[t].status \in InProgress /\ task[t] # NoRow
          /\ task[t].claimed_by \in Callers
          /\ IsBypass(p) \/ task[t].claimed_by = p
      BY <2>1, <2>3, FinisherIsClaimant, RowOf DEF Status, t
    <3>2. Coalesce(task[t].claimed_by, eff) = task[t].claimed_by
      BY <3>1, PrincipalsAssumption DEF Coalesce
    <3>3. CASE req[r].has_pending
      <4>1. task' = [task EXCEPT ![t].status = "waiting_review"] /\ UNCHANGED <<done, grants>>
        BY <1>6, <2>3, <3>3 DEF CompleteApply, t, p, eff
      <4>2. Relabels(t)
        BY <2>1, <3>1, <4>1 DEF Relabels, TypeOK
      <4> QED BY <2>1, <4>1, <4>2, OneRow DEF RowStep
    <3>4. CASE ~req[r].has_pending
      <4>1. /\ task' = [task EXCEPT ![t] = Finalized(task[t], "finished", task[t].claimed_by)]
            /\ Accept(t, p, "complete")
            /\ grants' = grants
        BY <1>6, <2>3, <3>2, <3>4 DEF CompleteApply, t, p, eff
      <4>2. /\ \E new \in SUBSET OwnCalls(t) : done'[t] = done[t] \cup new
            /\ \E d : done' = [done EXCEPT ![t] = d]
        BY <2>1, <3>1, <4>1, AcceptsOwnCall DEF t, p
      <4>3. Finalizes(t)
        BY <2>1, <3>1, <4>1, <4>2 DEF Finalizes, TypeOK
      <4> QED BY <2>1, <4>1, <4>2, <4>3, OneRow DEF RowStep
    <3> QED BY <3>3, <3>4
  <2> QED BY <2>2, <2>3
<1>7. ASSUME NEW r \in Slots, UnblockWrite(r) PROVE Quiet
  <2>1. req[r].c \in Tasks /\ task[req[r].c] # NoRow
    BY <1>7, RequestFields DEF UnblockWrite, TypeOK, RowsExist
  <2>2. Relabels(req[r].c)
    BY <1>7, <2>1 DEF UnblockWrite, Relabels, TypeOK
  <2> QED BY <1>7, <2>1, <2>2, OneRow DEF UnblockWrite, RowStep
<1>8. ASSUME NEW p \in Callers, NEW t \in Tasks, Fail(p, t) PROVE Quiet
  <2>1. PICK eff \in OnBehalf(p), l \in Presentable(p, t) :
          /\ Finishable(p, eff, t, l)
          /\ task' = [task EXCEPT ![t] =
                        Finalized(task[t], "failed", Coalesce(task[t].claimed_by, eff))]
    BY <1>8 DEF Fail
  <2>2. /\ task[t] \in Row /\ task[t].status \in InProgress
        /\ task[t].claimed_by \in Callers
        /\ IsBypass(p) \/ task[t].claimed_by = p
    BY <2>1, FinisherIsClaimant
  <2>3. Coalesce(task[t].claimed_by, eff) = task[t].claimed_by
    BY <2>2, PrincipalsAssumption DEF Coalesce
  <2>4. /\ grants' = grants
        /\ \E new \in SUBSET OwnCalls(t) : done'[t] = done[t] \cup new
        /\ \E d : done' = [done EXCEPT ![t] = d]
    BY <1>8, <2>2, AcceptsOwnCall DEF Fail
  <2>5. Finalizes(t)
    BY <2>1, <2>2, <2>3, <2>4 DEF Finalizes, TypeOK
  <2> QED BY <2>1, <2>4, <2>5, OneRow DEF RowStep
<1>9. ASSUME NEW p \in Callers, NEW t \in Tasks, Block(p, t) PROVE Quiet
  <2>1. Rewrites(t)
    BY <1>9 DEF Block, Rewrites, TypeOK
  <2> QED BY <1>9, <2>1, OneRow DEF Block, RowStep
<1>10. ASSUME NEW p \in Callers, NEW t \in Tasks, UnblockTask(p, t) PROVE Quiet
  <2>1. task[t] # NoRow
    BY <1>10, RowOf DEF UnblockTask, Status
  <2>2. Relabels(t)
    BY <1>10, <2>1 DEF UnblockTask, Relabels, TypeOK
  <2> QED BY <1>10, <2>2, OneRow DEF UnblockTask, RowStep
<1>11. ASSUME NEW p \in Callers, NEW t \in Tasks, Cancel(p, t) PROVE Quiet
  <2>1. Cancels(t)
    BY <1>11 DEF Cancel, Canceller, Cancels, TypeOK
  <2> QED BY <1>11, <2>1, OneRow DEF Cancel, RowStep
<1>12. ASSUME NEW p \in Callers, NEW t \in Tasks, Retry(p, t) PROVE Quiet
  <2>1. task[t] # NoRow
    BY <1>12, RowOf DEF Retry, Retryable, Status
  <2>2. Retries(t)
    BY <1>12, <2>1 DEF Retry, Retries, TypeOK
  <2> QED BY <1>12, <2>2, OneRow DEF Retry, RowStep
<1>13. ASSUME NEW r \in Slots, DispatchWrite(r) PROVE Quiet
  <2>1. req[r].t \in Tasks /\ task[req[r].t] # NoRow
    BY <1>13, RequestFields DEF DispatchWrite, TypeOK, RowsExist, RowPcs
  <2>2. Relabels(req[r].t)
    BY <1>13, <2>1 DEF DispatchWrite, Relabels, TypeOK
  <2> QED BY <1>13, <2>1, <2>2, OneRow DEF DispatchWrite, RowStep
<1>14. ASSUME NEW r \in Slots, ResolveApply(r) PROVE Quiet
  <2> DEFINE t == gate[req[r].g].task
  <2>1. t \in Tasks
    BY <1>14, DecidedTask DEF ResolveApply
  <2>2. CASE task[t].status # "waiting_review"
    BY <1>14, <2>2, NoRowTouched DEF ResolveApply
  <2>3. CASE task[t].status = "waiting_review"
    <3> HIDE DEF t
    <3>1. task[t] \in Row /\ task[t].claimed_by \in Callers
      BY <2>1, <2>3, RowOf DEF Status, InProgress, InProgressOwned, Row
    <3>2. \E s \in {"finished", "failed"} :
            task' = [task EXCEPT ![t] = Finalized(task[t], s, task[t].claimed_by)]
      BY <1>14, <2>3, <3>1, PrincipalsAssumption DEF ResolveApply, Coalesce, t
    <3>3. Finalizes(t)
      <4>1. task[t].status \in InProgress /\ done'[t] = done[t] \cup {}
        BY <1>14, <2>3 DEF ResolveApply, InProgress
      <4>2. \E s \in {"finished", "failed"} : task'[t] = Finalized(task[t], s, task[t].claimed_by)
        BY <2>1, <3>2 DEF TypeOK
      <4> QED BY <4>1, <4>2 DEF Finalizes
    <3> QED BY <1>14, <2>1, <3>2, <3>3, OneRow DEF ResolveApply, RowStep
  <2> QED BY <2>2, <2>3
<1>15. ASSUME NEW t \in Tasks, LeaseLapses(t) PROVE Quiet
  <2>1. task[t] # NoRow
    BY <1>15, RowOf DEF LeaseLapses
  <2>2. Lapses(t)
    BY <1>15, <2>1 DEF LeaseLapses, Lapses, TypeOK
  <2> QED BY <1>15, <2>2, OneRow DEF LeaseLapses, RowStep
<1>16. ASSUME NEW t \in Tasks, ExpireStaleLease(t) PROVE Quiet
  <2>1. Rewrites(t)
    BY <1>16 DEF ExpireStaleLease, Sweepable, Rewrites, TypeOK
  <2> QED BY <1>16, <2>1, OneRow DEF ExpireStaleLease, RowStep
<1>17. ASSUME NEW r \in Slots, NEW p \in Callers, Call(r, p) PROVE Quiet
  BY <1>17, NoRowTouched
     DEF Call, CreateRead, ClaimRead, HeartbeatFence, ProgressFence, CompleteSnapshot,
         DispatchRead, GateSnapshot, ResolveGate
<1>18. ASSUME NEW r \in Slots,
              \/ ClaimLock(r) \/ ProgressSeq(r) \/ ProgressInsert(r) \/ UnblockSelect(r)
              \/ UnblockCheck(r) \/ UnblockError(r) \/ GateInsert(r) \/ ResolveAgg(r) \/ Abort(r)
       PROVE  Quiet
  BY <1>18, NoRowTouched
     DEF ClaimLock, ProgressSeq, ProgressInsert, UnblockSelect, UnblockCheck, UnblockError,
         GateInsert, ResolveAgg, Abort
<1>19. CASE UNCHANGED vars
  BY <1>19, NoRowTouched DEF vars
<1> QED
  BY <1>1, <1>2, <1>3, <1>4, <1>5, <1>6, <1>7, <1>8, <1>9, <1>10, <1>11, <1>12, <1>13, <1>14,
     <1>15, <1>16, <1>17, <1>18, <1>19 DEF Next, Step, AtomicCall

-----------------------------------------------------------------------------
(* The invariants about rows and leases.                                   *)

(* The columns a row step leaves behind.                                   *)
LEMMA RowStepEffect ==
    ASSUME IInv, NEW t \in Tasks, RowStep(t)
    PROVE  /\ task'[t] \in Row \cup {NoRow}
           /\ task[t] # NoRow => task'[t] # NoRow
           /\ task'[t].status \in InProgress =>
                /\ task[t].status \in InProgress
                /\ task'[t].lease = task[t].lease
                /\ task'[t].expires # "null"
           /\ task'[t].status = "blocked" =>
                task[t].status \in Working \cup {"blocked"}
           /\ task'[t].status \in InProgress \cup {"blocked"} =>
                task'[t].claimed_by = task[t].claimed_by
           /\ (task'[t] # NoRow /\ task'[t].lease # NoLease) =>
                /\ task[t] # NoRow
                /\ task'[t].lease = task[t].lease
                /\ task'[t].claimed_by = task[t].claimed_by
<1> USE DEF IInv
<1>0. /\ {"ready", "finished", "failed", "cancelled", "pending", "blocked"} \cap InProgress = {}
      /\ "running" \in InProgress /\ Working \subseteq InProgress /\ InProgress \subseteq Status
      /\ {"ready", "finished", "failed", "cancelled", "pending", "blocked", "waiting_review"}
            \subseteq Status
  BY DEF Status, InProgress, Working
<1>1. CASE Keeps(t)
  BY <1>1 DEF Keeps, TypeOK, InProgressOwned
<1>2. CASE Inserts(t)
  BY <1>0, <1>2, NewRows DEF Inserts
<1>3. CASE Relabels(t)
  <2>1. task[t] \in Row
    BY <1>3, RowOf DEF Relabels
  <2>2. PICK s \in {"ready", "finished", "waiting_review"} :
          /\ task'[t] = [task[t] EXCEPT !.status = s]
          /\ s = "waiting_review" => task[t].status \in InProgress
    BY <1>3 DEF Relabels
  <2>3. task'[t] \in Row /\ task'[t] # NoRow /\ task'[t].status = s
    BY <1>0, <2>1, <2>2, RelabelledRow, RowIsPresent
  <2>4. /\ task'[t].lease = task[t].lease /\ task'[t].claimed_by = task[t].claimed_by
        /\ task'[t].expires = task[t].expires
    BY <1>0, <2>1, <2>2, RelabelledRow
  <2> QED BY <1>0, <2>1, <2>2, <2>3, <2>4, RowIsPresent DEF InProgressOwned
<1>4. CASE Finalizes(t) \/ Cancels(t) \/ Retries(t)
  <2>1. task[t] \in Row
    BY <1>0, <1>4, RowOf DEF Finalizes, Cancels, Retries
  <2>2. PICK s \in {"finished", "failed", "cancelled", "ready"}, p \in Callers \cup {NoOne} :
          task'[t] = Finalized(task[t], s, p)
    BY <1>4, <2>1 DEF Finalizes, Cancels, Retries, Coalesce, Row
  <2>3. s \in Status \ InProgress
    BY <1>0
  <2>4. task'[t] \in Row /\ task'[t].status = s /\ task'[t].lease = NoLease
    BY <2>1, <2>2, <2>3, FinalizedRow
  <2> QED BY <2>2, <2>3, <2>4, RowIsPresent
<1>5. CASE Rewrites(t)
  <2>1. task[t] \in Row
    BY <1>0, <1>5, RowOf DEF Rewrites
  <2>2. CASE task'[t] \in {Blocked(task[t]), Expired(task[t])}
    <3>1. /\ task'[t] \in Row /\ task'[t].status \in {"blocked", "failed", "ready"}
          /\ task'[t].lease = NoLease
          /\ task'[t].status = "blocked" => task'[t].claimed_by = task[t].claimed_by
      BY <1>0, <2>1, <2>2, BlockedRow, ExpiredRow
    <3> QED BY <1>0, <1>5, <3>1, RowIsPresent DEF Rewrites
  <2>3. CASE task'[t] = Heartbeaten(task[t])
    <3>1. /\ task'[t] \in Row /\ task'[t].status = "running" /\ task'[t].lease = task[t].lease
          /\ task'[t].claimed_by = task[t].claimed_by /\ task'[t].expires = "live"
      BY <1>0, <2>1, <2>3, HeartbeatenRow
    <3> QED BY <1>0, <1>5, <2>1, <3>1, RowIsPresent DEF Rewrites
  <2> QED BY <1>5, <2>2, <2>3 DEF Rewrites
<1>6. CASE Lapses(t)
  <2>1. task[t] \in Row
    BY <1>6, RowOf DEF Lapses
  <2>2. /\ task'[t] \in Row /\ task'[t].status = task[t].status /\ task'[t].lease = task[t].lease
        /\ task'[t].claimed_by = task[t].claimed_by /\ task'[t].expires = "lapsed"
    BY <1>0, <1>6, <2>1, LapsedRow DEF Lapses
  <2> QED BY <2>1, <2>2, RowIsPresent
<1> QED BY <1>1, <1>2, <1>3, <1>4, <1>5, <1>6 DEF RowStep

(* The calls of the history are still answered as AnswersRemembered says.  *)
LEMMA RowStepAnswers ==
    ASSUME IInv, NEW t \in Tasks, RowStep(t), NEW a \in done'[t]
    PROVE  /\ a \in Accepted
           /\ task'[t] # NoRow /\ a.claims <= Len(grants)
           /\ ~a.retried =>
                /\ task'[t].status \in InProgress => a.claims < task'[t].lease
                /\ \/ task'[t].finalized_by = a.by
                   \/ \E l \in a.claims + 1 .. Len(grants) :
                        grants[l].task = t /\ grants[l].agent = task'[t].finalized_by
<1> USE DEF IInv
<1> DEFINE Later(l) == l \in a.claims + 1 .. Len(grants) /\ grants[l].task = t
<1>0. /\ {"ready", "finished", "failed", "cancelled", "pending", "blocked"} \cap InProgress = {}
      /\ Working \subseteq InProgress /\ InProgress \subseteq Status
      /\ {"ready", "finished", "failed", "cancelled", "pending", "blocked", "waiting_review"}
            \subseteq Status
  BY DEF Status, InProgress, Working
<1>1. ASSUME a \in done[t]
      PROVE  /\ a \in Accepted
             /\ task[t] # NoRow /\ a.claims <= Len(grants)
             /\ ~a.retried =>
                  /\ task[t].status \in InProgress => a.claims < task[t].lease
                  /\ \/ task[t].finalized_by = a.by
                     \/ \E l : Later(l) /\ grants[l].agent = task[t].finalized_by
  BY <1>1 DEF AnswersRemembered, FinishedByLaterClaimant, TypeOK
<1>2. /\ task'[t].status \in InProgress =>
           task[t].status \in InProgress /\ task'[t].lease = task[t].lease
      /\ task[t] # NoRow => task'[t] # NoRow
  BY RowStepEffect
<1>3. ASSUME a \in done[t], task[t] # NoRow => task'[t].finalized_by = task[t].finalized_by
      PROVE  /\ a \in Accepted
             /\ task'[t] # NoRow /\ a.claims <= Len(grants)
             /\ ~a.retried =>
                  /\ task'[t].status \in InProgress => a.claims < task'[t].lease
                  /\ \/ task'[t].finalized_by = a.by
                     \/ \E l : Later(l) /\ grants[l].agent = task'[t].finalized_by
  BY <1>1, <1>2, <1>3
<1>4. CASE Finalizes(t)
  <2>1. /\ task[t] \in Row /\ task[t] # NoRow /\ task[t].claimed_by \in Callers
        /\ task[t].status \in InProgress
    BY <1>0, <1>4, RowOf DEF Finalizes, InProgressOwned, Row
  <2>2. PICK s \in {"finished", "failed"} : task'[t] = Finalized(task[t], s, task[t].claimed_by)
    BY <1>4 DEF Finalizes
  <2>3. /\ task'[t].status \notin InProgress /\ task'[t].finalized_by = task[t].claimed_by
        /\ task'[t] # NoRow
    <3>1. s \in Status \ InProgress /\ task[t].claimed_by \in Callers \cup {NoOne}
      BY <1>0, <2>1
    <3>2. task'[t].status = s /\ task'[t].finalized_by = task[t].claimed_by
      BY <2>1, <2>2, <3>1, FinalizedRow
    <3> QED BY <1>2, <2>1, <3>1, <3>2
  <2>4. CASE a \in OwnCalls(t)
    <3>1. a \in Accepted /\ a.by = task[t].claimed_by /\ a.claims = Len(grants)
      BY <2>4 DEF OwnCalls
    <3> QED BY <2>3, <3>1, BoundsAssumption DEF TypeOK
  <2>5. CASE a \in done[t]
    <3>1. Later(task[t].lease) \/ a.retried
      <4>1. /\ task[t].lease \in 1 .. Len(grants) /\ grants[task[t].lease].task = t
        BY <2>1 DEF InProgressOwned, LeaseIsNewestGrant
      <4>2. a.claims \in Nat /\ (a.retried \/ a.claims < task[t].lease) /\ Len(grants) \in Nat
        BY <1>1, <2>1, <2>5, BoundsAssumption DEF Accepted, Leases, TypeOK
      <4> QED BY <4>1, <4>2
    <3>2. grants[task[t].lease].agent = task'[t].finalized_by
      BY <2>1, <2>3 DEF InProgressOwned, LeaseIsNewestGrant
    <3> QED BY <1>1, <2>3, <2>5, <3>1, <3>2
  <2> QED BY <1>4, <2>4, <2>5 DEF Finalizes
<1>5. CASE Cancels(t)
  <2>1. task[t] \in Row /\ a \in done[t]
    BY <1>5, RowOf DEF Cancels
  <2>2. PICK p \in Callers :
          task'[t] = Finalized(task[t], "cancelled", Coalesce(task[t].finalized_by, p))
    BY <1>5 DEF Cancels
  <2>3. /\ Coalesce(task[t].finalized_by, p) \in Callers \cup {NoOne}
        /\ task[t].finalized_by # NoOne =>
             Coalesce(task[t].finalized_by, p) = task[t].finalized_by
    BY <2>1 DEF Coalesce, Row
  <2>4. /\ task'[t].status = "cancelled"
        /\ task'[t].finalized_by = Coalesce(task[t].finalized_by, p)
    <3> DEFINE who == Coalesce(task[t].finalized_by, p)
    <3>1. who \in Callers \cup {NoOne} /\ "cancelled" \in Status /\ task'[t] = Finalized(task[t], "cancelled", who)
      BY <1>0, <2>2, <2>3
    <3> HIDE DEF who
    <3>2. task'[t].status = "cancelled" /\ task'[t].finalized_by = who
      BY <2>1, <3>1, FinalizedRow
    <3> QED BY <3>2 DEF who
  <2>5. CASE task[t].finalized_by # NoOne
    BY <1>3, <2>1, <2>3, <2>4, <2>5
  <2>6. CASE task[t].finalized_by = NoOne
    <3>1. a.by # NoOne
      BY <1>1, <2>1, PrincipalsAssumption DEF Accepted, Callers
    <3>2. ASSUME NEW l, Later(l) PROVE grants[l].agent # NoOne
      <4>1. l \in 1 .. Len(grants)
        BY <1>1, <2>1, <3>2, BoundsAssumption DEF Accepted, Leases, TypeOK
      <4>2. grants[l] \in Grant
        BY <4>1 DEF TypeOK
      <4> QED BY <4>2, PrincipalsAssumption DEF Grant
    <3> QED BY <1>1, <1>2, <2>1, <2>6, <3>1, <3>2
  <2> QED BY <2>5, <2>6
<1>6. CASE Relabels(t) \/ Lapses(t) \/ Rewrites(t)
  <2>1. task[t] \in Row /\ a \in done[t]
    BY <1>0, <1>6, RowOf DEF Relabels, Lapses, Rewrites
  <2>2. CASE Relabels(t)
    <3>1. task'[t].finalized_by = task[t].finalized_by
      BY <1>0, <2>1, <2>2, RelabelledRow DEF Relabels
    <3> QED BY <1>3, <2>1, <3>1
  <2>3. CASE Lapses(t)
    BY <1>3, <2>1, <2>3, LapsedRow DEF Lapses
  <2>4. CASE Rewrites(t)
    <3>1. task'[t].finalized_by = task[t].finalized_by
      BY <2>1, <2>4, BlockedRow, HeartbeatenRow, ExpiredRow DEF Rewrites
    <3> QED BY <1>3, <2>1, <3>1
  <2> QED BY <1>6, <2>2, <2>3, <2>4
<1>7. CASE Keeps(t) \/ Inserts(t)
  BY <1>3, <1>7 DEF Keeps, Inserts
<1>8. CASE Retries(t)
  <2>1. PICK b \in done[t] : a = [b EXCEPT !.retried = TRUE]
    BY <1>8 DEF Retries, AsRetried
  <2>2. /\ b \in Accepted /\ b.claims <= Len(grants)
    BY DEF AnswersRemembered, TypeOK
  <2>3. a \in Accepted /\ a.retried /\ a.claims = b.claims
    BY <2>1, <2>2 DEF Accepted
  <2> QED BY <1>2, <1>8, <2>2, <2>3 DEF Retries
<1> QED BY <1>4, <1>5, <1>6, <1>7, <1>8 DEF RowStep

(* What holds of the rows, the leases and the history after any step.      *)
LEMMA RowsAfter ==
    ASSUME IInv, Quiet \/ Granting
    PROVE  /\ task' \in [Tasks -> Row \cup {NoRow}]
           /\ grants' \in Seq(Grant) /\ Len(grants') <= MaxLeases
           /\ done' \in [Tasks -> SUBSET Accepted]
           /\ \A t \in Tasks : task[t] # NoRow => task'[t] # NoRow
           /\ DOMAIN grants \subseteq DOMAIN grants'
           /\ \A l \in DOMAIN grants : grants'[l] = grants[l]
           /\ InProgressOwned' /\ LeaseIsNewestGrant' /\ GrantsHonest' /\ AnswersRemembered'
<1> USE DEF IInv
<1>1. CASE Quiet
  <2>1. \A t \in Tasks : RowStep(t)
    BY <1>1 DEF Quiet
  <2>2. task' \in [Tasks -> Row \cup {NoRow}] /\ \A t \in Tasks : task[t] # NoRow => task'[t] # NoRow
    BY <1>1, <2>1, RowStepEffect DEF Quiet
  <2>3. \A t \in Tasks : done'[t] \in SUBSET Accepted
    BY <2>1, RowStepAnswers
  <2>4. done' \in [Tasks -> SUBSET Accepted]
    BY <1>1, <2>3 DEF Quiet
  <2>5. grants' = grants
    BY <1>1 DEF Quiet
  <2>6. InProgressOwned'
    BY <2>1, RowStepEffect DEF InProgressOwned, InProgress
  <2>7. LeaseIsNewestGrant'
    BY <2>1, <2>5, RowStepEffect DEF LeaseIsNewestGrant
  <2>8. GrantsHonest' /\ AnswersRemembered'
    BY <2>1, <2>5, RowStepAnswers DEF GrantsHonest, AnswersRemembered, FinishedByLaterClaimant
  <2> QED BY <2>2, <2>4, <2>5, <2>6, <2>7, <2>8 DEF TypeOK
<1>2. CASE Granting
  <2>1. PICK t \in Tasks, agent \in Callers, by \in Callers, s \in Working, v \in Nat :
         /\ task[t] # NoRow
         /\ agent \in OnBehalf(by)
         /\ grants' = Append(grants, [task |-> t, agent |-> agent, by |-> by])
         /\ task' = [task EXCEPT ![t] = Claimed(task[t], s, agent, v)]
    BY <1>2 DEF Granting
  <2> DEFINE n == Len(grants)
  <2>2. n \in Nat /\ n < MaxLeases /\ MaxLeases \in Nat
    BY <1>2, BoundsAssumption DEF Granting, TypeOK
  <2>3. [task |-> t, agent |-> agent, by |-> by] \in Grant
    BY DEF Grant
  <2>4. /\ grants' \in Seq(Grant) /\ Len(grants') = n + 1
        /\ \A l \in 1 .. n : grants'[l] = grants[l]
        /\ grants'[n + 1] = [task |-> t, agent |-> agent, by |-> by]
        /\ DOMAIN grants = 1 .. n /\ DOMAIN grants' = 1 .. n + 1
    BY <2>1, <2>3 DEF TypeOK
  <2>5. task[t] \in Row
    BY <2>1, RowOf
  <2>6. /\ task'[t] \in Row /\ task'[t] # NoRow /\ task'[t].status = s
        /\ task'[t].claimed_by = agent /\ task'[t].lease = n + 1 /\ task'[t].expires = "live"
        /\ task'[t].finalized_by = task[t].finalized_by
    <3>1. task'[t] = Claimed(task[t], s, agent, v)
      BY <2>1 DEF TypeOK
    <3> QED BY <2>2, <2>5, <3>1, ClaimedRows, RowIsPresent
  <2>7. \A u \in Tasks : u # t => task'[u] = task[u]
    BY <2>1 DEF TypeOK
  <2>8. task' \in [Tasks -> Row \cup {NoRow}] /\ \A u \in Tasks : task[u] # NoRow => task'[u] # NoRow
    BY <2>1, <2>6, <2>7 DEF TypeOK
  <2>9. done' = done /\ done' \in [Tasks -> SUBSET Accepted]
    BY <1>2 DEF Granting, TypeOK
  <2>10. InProgressOwned'
    BY <2>2, <2>6, <2>7, PrincipalsAssumption DEF InProgressOwned, InProgress, NoLease, Working
  <2>11. LeaseIsNewestGrant'
    <3>1. ASSUME NEW u \in Tasks, u # t, task'[u] # NoRow, task'[u].lease # NoLease
          PROVE  /\ task'[u].lease \in 1 .. n + 1
                 /\ grants'[task'[u].lease].task = u
                 /\ grants'[task'[u].lease].agent = task'[u].claimed_by
                 /\ \A l \in task'[u].lease + 1 .. n + 1 : grants'[l].task # u
      <4> DEFINE l0 == task[u].lease
      <4>1. task'[u].lease = l0 /\ task'[u].claimed_by = task[u].claimed_by
            /\ task[u] # NoRow /\ l0 # NoLease
        BY <2>7, <3>1
      <4>2. /\ l0 \in 1 .. n /\ grants[l0].task = u /\ grants[l0].agent = task[u].claimed_by
            /\ \A l \in l0 + 1 .. n : grants[l].task # u
        BY <2>2, <4>1 DEF LeaseIsNewestGrant
      <4> HIDE DEF l0
      <4>3. l0 \in 1 .. n + 1 /\ grants'[l0] = grants[l0]
        BY <2>2, <2>4, <4>2
      <4>4. \A l \in l0 + 1 .. n + 1 : grants'[l].task # u
        <5> SUFFICES ASSUME NEW l \in l0 + 1 .. n + 1 PROVE grants'[l].task # u
          OBVIOUS
        <5>1. CASE l = n + 1
          BY <2>4, <3>1, <5>1
        <5>2. CASE l # n + 1
          <6>1. l \in l0 + 1 .. n /\ l \in 1 .. n
            BY <2>2, <4>2, <5>2
          <6> QED BY <2>4, <4>2, <6>1
        <5> QED BY <5>1, <5>2
      <4> QED BY <4>1, <4>2, <4>3, <4>4
    <3>2. /\ task'[t].lease \in 1 .. n + 1
          /\ grants'[task'[t].lease].task = t
          /\ grants'[task'[t].lease].agent = task'[t].claimed_by
          /\ \A l \in task'[t].lease + 1 .. n + 1 : grants'[l].task # t
      BY <2>2, <2>4, <2>6
    <3> QED BY <2>4, <3>1, <3>2 DEF LeaseIsNewestGrant
  <2>12. GrantsHonest'
    BY <2>1, <2>2, <2>4 DEF GrantsHonest
  <2>13. AnswersRemembered'
    <3> SUFFICES ASSUME NEW u \in Tasks, NEW a \in done[u]
                 PROVE  /\ task'[u] # NoRow /\ a.claims <= n + 1
                        /\ ~a.retried =>
                             /\ task'[u].status \in InProgress => a.claims < task'[u].lease
                             /\ \/ task'[u].finalized_by = a.by
                                \/ \E l \in a.claims + 1 .. n + 1 :
                                     /\ grants'[l].task = u
                                     /\ grants'[l].agent = task'[u].finalized_by
      BY <2>4, <2>9 DEF AnswersRemembered, FinishedByLaterClaimant
    <3>1. /\ task[u] # NoRow /\ a.claims \in Nat /\ a.claims <= n
          /\ ~a.retried =>
               /\ task[u].status \in InProgress => a.claims < task[u].lease
               /\ \/ task[u].finalized_by = a.by
                  \/ \E l \in a.claims + 1 .. n :
                       grants[l].task = u /\ grants[l].agent = task[u].finalized_by
      BY <2>2 DEF AnswersRemembered, FinishedByLaterClaimant, TypeOK, Accepted, Leases
    <3>2. task'[u].finalized_by = task[u].finalized_by
      BY <2>6, <2>7
    <3>3. (\E l \in a.claims + 1 .. n :
              grants[l].task = u /\ grants[l].agent = task[u].finalized_by) =>
          \E l \in a.claims + 1 .. n + 1 :
              grants'[l].task = u /\ grants'[l].agent = task'[u].finalized_by
      BY <2>2, <2>4, <3>1, <3>2
    <3>4. ~a.retried /\ task'[u].status \in InProgress => a.claims < task'[u].lease
      BY <2>2, <2>6, <2>7, <3>1
    <3> QED BY <2>2, <2>8, <3>1, <3>2, <3>3, <3>4
  <2> QED BY <2>2, <2>4, <2>8, <2>9, <2>10, <2>11, <2>12, <2>13
<1> QED BY <1>1, <1>2

-----------------------------------------------------------------------------
(* The handlers in flight.                                                 *)

(* Two requests do not hold the same row lock or insert the same id.       *)
Compatible(q, o) ==
    /\ ~(q.pc \in LockPcs /\ o.pc \in LockPcs /\ q.t = o.t)
    /\ ~(q.pc = "create_insert" /\ o.pc = "create_insert" /\ q.t = o.t)

(* A request that slot r may hold after the step.                          *)
Admissible(r, q) ==
    /\ q \in Request
    /\ q.pc \in RowPcs => task'[q.t] # NoRow
    /\ q.pc \in {"unblock_check", "unblock_write"} => \A c \in q.todo : task'[c] # NoRow
    /\ q.pc = "unblock_write" => task'[q.c] # NoRow
    /\ q.pc \in {"resolve_agg", "resolve_apply"} => gate'[q.g].status # "absent"
    /\ q.pc = "create_insert" => task'[q.t] = NoRow
    /\ q.pc = "heartbeat_write" => task'[q.t].status \in Working
    /\ q.pc = "progress_insert" => q.seq = Len(progress'[q.t])
    /\ q.pc \in ClaimPcs => q.agent \in OnBehalf(q.by)
    /\ q.pc = "complete_apply" =>
         q.eff \in OnBehalf(q.by) /\ q.lease \in Presentable(q.by, q.t)
    /\ \A s \in Slots \ {r} : Compatible(q, req[s])

(* The step leaves the slots alone, or moves one of them.                  *)
Moves == req' = req \/ \E r \in Slots : \E q : req' = [req EXCEPT ![r] = q] /\ Admissible(r, q)

(* What the other handlers rely on survives the step.                      *)
Undisturbed ==
    \A s \in Slots : req'[s] = req[s] =>
        /\ req[s].pc = "create_insert" => task'[req[s].t] = NoRow
        /\ req[s].pc = "heartbeat_write" => task'[req[s].t].status \in Working
        /\ req[s].pc = "progress_insert" => progress'[req[s].t] = progress[req[s].t]
        /\ req[s].pc \in {"resolve_agg", "resolve_apply"} => gate'[req[s].g].status # "absent"

(* A finished handler is admissible.                                       *)
LEMMA IdleAdmissible == ASSUME NEW r \in Slots PROVE Admissible(r, Idle)
  BY DEF Admissible, Idle, Request, RowPcs, LockPcs, ClaimPcs, Compatible

(* MAX(seq) + 1 over gapless events is their number.                       *)
LEMMA NextSeqIsLength ==
    ASSUME TypeOK, ProgressGapless, NEW t \in Tasks
    PROVE  NextSeq(progress[t]) = Len(progress[t])
<1> DEFINE e == progress[t]
<1>1. e \in Seq(Nat) /\ Len(e) \in Nat /\ \A i \in 1 .. Len(e) : e[i] = i - 1
  BY DEF TypeOK, ProgressGapless
<1> SUFFICES NextSeq(e) = Len(e)
  OBVIOUS
<1> HIDE DEF e
<1>2. Range(e) = {e[i] : i \in 1 .. Len(e)}
  <2>1. DOMAIN e = 1 .. Len(e)
    BY <1>1
  <2> QED BY <2>1 DEF Range
<1>3. CASE e = <<>>
  BY <1>3 DEF NextSeq
<1>4. CASE e # <<>>
  <2>1. Len(e) >= 1
    BY <1>1, <1>4
  <2>2. e[Len(e)] = Len(e) - 1
    BY <1>1, <2>1
  <2>3. Len(e) - 1 \in Range(e) /\ \A n \in Range(e) : n <= Len(e) - 1 /\ n \in Nat
    BY <1>1, <1>2, <2>1, <2>2
  <2>4. \A m \in Range(e) : (\A n \in Range(e) : n <= m) => m = Len(e) - 1
    BY <1>1, <2>3
  <2>5. (CHOOSE m \in Range(e) : \A n \in Range(e) : n <= m) = Len(e) - 1
    BY <2>3, <2>4
  <2>6. NextSeq(e) = 1 + (Len(e) - 1)
    BY <1>4, <2>5 DEF NextSeq
  <2> QED BY <1>1, <2>6
<1> QED BY <1>3, <1>4

(* Taking a free row lock keeps its holder unique.                         *)
LEMMA FreeLock ==
    ASSUME NEW t \in Tasks, ~Locked(t), NEW q, q.t = t, q.pc # "create_insert", NEW r \in Slots
    PROVE  \A s \in Slots \ {r} : Compatible(q, req[s])
  BY DEF Locked, Compatible

(* Every step moves at most one handler, to an admissible request.         *)
LEMMA RequestSteps ==
    ASSUME IInv, [Next]_vars
    PROVE  Moves
<1> USE DEF IInv
<1>1. ASSUME NEW r \in Slots, Return(r) PROVE Moves
  BY <1>1, IdleAdmissible DEF Return, Moves
<1>2. ASSUME NEW r \in Slots, NEW q, Goto(r, q) \/ Enter(r, q), Admissible(r, q) PROVE Moves
  BY <1>2 DEF Goto, Enter, Moves
<1>3. ASSUME NEW r \in Slots, NEW p \in Callers, NEW t \in Tasks, CreateRead(r, p, t) PROVE Moves
  <2>1. PICK policy \in Policies, deps \in DepLists :
          Enter(r, [pc |-> "create_insert", t |-> t,
                    sub |-> [claim_policy |-> policy, depends_on |-> deps, created_by |-> p],
                    status |-> IF DepsFinished(deps) THEN "ready" ELSE "pending"])
    BY <1>3 DEF CreateRead
  <2> DEFINE q == [pc |-> "create_insert", t |-> t,
                   sub |-> [claim_policy |-> policy, depends_on |-> deps, created_by |-> p],
                   status |-> IF DepsFinished(deps) THEN "ready" ELSE "pending"]
  <2>2. q \in Request
    <3>1. [claim_policy |-> policy, depends_on |-> deps, created_by |-> p] \in Submitted
      BY DEF Submitted
    <3> QED BY <3>1 DEF Request
  <2>3. q.pc = "create_insert" /\ q.t = t
    OBVIOUS
  <2> HIDE DEF q
  <2>4. Admissible(r, q)
    BY <1>3, <2>2, <2>3 DEF CreateRead, Admissible, Compatible, RowPcs, LockPcs, ClaimPcs
  <2> QED BY <1>2, <2>1, <2>4 DEF q
<1>4. ASSUME NEW r \in Slots, NEW p \in Callers, NEW t \in Tasks, ClaimRead(r, p, t) PROVE Moves
  <2>1. PICK agent \in OnBehalf(p) :
          Enter(r, [pc |-> IF task[t].claim_policy = "broadcast" THEN "claim_broadcast"
                                                                 ELSE "claim_lock",
                    t |-> t, by |-> p, agent |-> agent])
    BY <1>4 DEF ClaimRead
  <2> DEFINE q == [pc |-> IF task[t].claim_policy = "broadcast" THEN "claim_broadcast"
                                                                ELSE "claim_lock",
                   t |-> t, by |-> p, agent |-> agent]
  <2>2. q \in Request
    BY DEF Request, OnBehalf, Callers
  <2>3. q.pc \in {"claim_broadcast", "claim_lock"} /\ q.t = t /\ q.by = p /\ q.agent = agent
    OBVIOUS
  <2> HIDE DEF q
  <2>4. task'[t] # NoRow
    BY <1>4, RowOf DEF ClaimRead, Status
  <2>5. Admissible(r, q)
    BY <2>2, <2>3, <2>4 DEF Admissible, Compatible, RowPcs, LockPcs, ClaimPcs
  <2> QED BY <1>2, <2>1, <2>5 DEF q
<1>5. ASSUME NEW r \in Slots, ClaimLock(r) PROVE Moves
  <2>1. /\ req[r].t \in Tasks /\ req[r].by \in Callers /\ req[r].agent \in Callers
        /\ req[r].agent \in OnBehalf(req[r].by) /\ task[req[r].t] # NoRow
    BY <1>5, RequestFields DEF ClaimLock, TypeOK, RowsExist, RowPcs, LocalsCurrent, ClaimPcs
  <2>2. CASE ~Lockable(req[r].t)
    BY <1>1, <1>5, <2>2 DEF ClaimLock
  <2>3. CASE Lockable(req[r].t)
    <3> DEFINE q == [pc |-> "claim_update", t |-> req[r].t, by |-> req[r].by,
                     agent |-> req[r].agent, version |-> task[req[r].t].version]
    <3>1. task[req[r].t].version \in Nat
      BY <2>1, RowOf DEF Row
    <3>2. q \in Request
      BY <2>1, <3>1 DEF Request
    <3>3. q.pc = "claim_update" /\ q.t = req[r].t /\ q.by = req[r].by /\ q.agent = req[r].agent
      OBVIOUS
    <3>4. Goto(r, q) /\ task' = task
      BY <1>5, <2>3 DEF ClaimLock
    <3> HIDE DEF q
    <3>5. \A s \in Slots \ {r} : Compatible(q, req[s])
      BY <2>1, <2>3, <3>3, FreeLock DEF Lockable
    <3>6. Admissible(r, q)
      BY <2>1, <3>2, <3>3, <3>4, <3>5 DEF Admissible
    <3> QED BY <1>2, <3>4, <3>6
  <2> QED BY <2>2, <2>3
<1>6. ASSUME NEW r \in Slots, NEW p \in Callers, NEW t \in Tasks,
             HeartbeatFence(r, p, t) \/ ProgressFence(r, p, t)
      PROVE  Moves
  <2>1. PICK pc \in {"heartbeat_write", "progress_seq"} : Enter(r, [pc |-> pc, t |-> t])
    BY <1>6 DEF HeartbeatFence, ProgressFence
  <2> DEFINE q == [pc |-> pc, t |-> t]
  <2>2. q \in Request /\ q.pc \in {"heartbeat_write", "progress_seq"} /\ q.t = t
    BY DEF Request
  <2> HIDE DEF q
  <2>3. task'[t].status \in Working /\ task'[t] # NoRow
    BY <1>6, RowOf DEF HeartbeatFence, ProgressFence, FenceClaimableLive, Status, InProgress
  <2>4. \A s \in Slots \ {r} : Compatible(q, req[s])
    BY <1>6, <2>2, FreeLock DEF HeartbeatFence, ProgressFence
  <2>5. Admissible(r, q)
    BY <2>2, <2>3, <2>4 DEF Admissible, ClaimPcs
  <2> QED BY <1>2, <2>1, <2>5 DEF q
<1>7. ASSUME NEW r \in Slots, ProgressSeq(r) PROVE Moves
  <2>1. req[r].t \in Tasks /\ task[req[r].t] # NoRow
    BY <1>7, RequestFields DEF ProgressSeq, TypeOK, RowsExist, RowPcs, LockPcs
  <2>2. NextSeq(progress[req[r].t]) = Len(progress[req[r].t])
    BY <2>1, NextSeqIsLength
  <2> DEFINE q == [pc |-> "progress_insert", t |-> req[r].t,
                   seq |-> NextSeq(progress[req[r].t])]
  <2>3. /\ q \in Request /\ q.pc = "progress_insert" /\ q.t = req[r].t
        /\ q.seq = Len(progress[req[r].t])
    <3>1. Len(progress[req[r].t]) \in Nat
      BY <2>1 DEF TypeOK
    <3> QED BY <2>1, <2>2, <3>1 DEF Request
  <2>4. Goto(r, q) /\ UNCHANGED <<task, progress>>
    BY <1>7 DEF ProgressSeq
  <2> HIDE DEF q
  <2>5. \A s \in Slots \ {r} : Compatible(q, req[s])
    BY <1>7, <2>3 DEF ProgressSeq, OneHolder, Compatible, LockPcs
  <2>6. Admissible(r, q)
    BY <2>1, <2>3, <2>4, <2>5 DEF Admissible, ClaimPcs
  <2> QED BY <1>2, <2>4, <2>6
<1>8. ASSUME NEW r \in Slots, NEW p \in Callers, NEW t \in Tasks, CompleteSnapshot(r, p, t)
      PROVE  Moves
  <2>1. PICK eff \in OnBehalf(p), l \in Presentable(p, t) :
          /\ Finishable(p, eff, t, l)
          /\ Enter(r, [pc |-> "complete_apply", t |-> t, by |-> p, eff |-> eff, lease |-> l,
                       has_pending |-> HasPendingGate(t)])
    BY <1>8 DEF CompleteSnapshot
  <2> DEFINE q == [pc |-> "complete_apply", t |-> t, by |-> p, eff |-> eff, lease |-> l,
                   has_pending |-> HasPendingGate(t)]
  <2>2. eff \in Callers
    BY DEF OnBehalf, Callers
  <2>3. l \in Leases
    BY BoundsAssumption DEF Presentable, Leases, NoLease, TypeOK
  <2>4. HasPendingGate(t) \in BOOLEAN
    BY DEF HasPendingGate
  <2>5. q \in Request
    BY <2>2, <2>3, <2>4 DEF Request
  <2>6. q.pc = "complete_apply" /\ q.t = t /\ q.by = p /\ q.eff = eff /\ q.lease = l
    OBVIOUS
  <2> HIDE DEF q
  <2>7. task'[t] # NoRow
    BY <1>8, <2>1, RowOf DEF CompleteSnapshot, Finishable, Status
  <2>8. Admissible(r, q)
    BY <2>5, <2>6, <2>7 DEF Admissible, Compatible, LockPcs, ClaimPcs
  <2> QED BY <1>2, <2>1, <2>8 DEF q
<1>9. ASSUME NEW r \in Slots, NEW t \in Tasks, Goto(r, [pc |-> "unblock_select", t |-> t]) PROVE Moves
  <2> DEFINE q == [pc |-> "unblock_select", t |-> t]
  <2>1. q \in Request /\ q.pc = "unblock_select"
    BY DEF Request
  <2> HIDE DEF q
  <2>2. Admissible(r, q)
    BY <2>1 DEF Admissible, Compatible, RowPcs, LockPcs, ClaimPcs
  <2> QED BY <1>2, <1>9, <2>2 DEF q
<1>10. ASSUME NEW r \in Slots, CompleteApply(r) PROVE Moves
  <2>1. req[r].t \in Tasks
    BY <1>10, RequestFields DEF CompleteApply, TypeOK
  <2> QED BY <1>1, <1>9, <1>10, <2>1 DEF CompleteApply
<1>11. ASSUME NEW r \in Slots, NEW t \in Tasks, NEW todo \in SUBSET Tasks,
              \A c \in todo : task'[c] # NoRow,
              Goto(r, [pc |-> "unblock_check", t |-> t, todo |-> todo])
       PROVE  Moves
  <2> DEFINE q == [pc |-> "unblock_check", t |-> t, todo |-> todo]
  <2>1. q \in Request /\ q.pc = "unblock_check" /\ q.todo = todo
    BY DEF Request
  <2> HIDE DEF q
  <2>2. Admissible(r, q)
    BY <1>11, <2>1 DEF Admissible, Compatible, RowPcs, LockPcs, ClaimPcs
  <2> QED BY <1>2, <1>11, <2>2 DEF q
<1>12. ASSUME NEW r \in Slots, UnblockSelect(r) PROVE Moves
  <2> DEFINE todo == {c \in Tasks : task[c].status \in Held /\ req[r].t \in Range(task[c].depends_on)}
  <2>1. req[r].t \in Tasks
    BY <1>12, RequestFields DEF UnblockSelect, TypeOK
  <2>2. \A c \in todo : task'[c] # NoRow
    BY <1>12, RowOf DEF UnblockSelect, Held, Status
  <2>3. Goto(r, [pc |-> "unblock_check", t |-> req[r].t, todo |-> todo])
    BY <1>12 DEF UnblockSelect
  <2> QED BY <1>11, <2>1, <2>2, <2>3
<1>13. ASSUME NEW r \in Slots, UnblockCheck(r) PROVE Moves
  <2>1. req[r].t \in Tasks /\ req[r].todo \in SUBSET Tasks /\ \A c \in req[r].todo : task[c] # NoRow
    BY <1>13, RequestFields DEF UnblockCheck, TypeOK, RowsExist
  <2>2. CASE Return(r)
    BY <1>1, <2>2
  <2>3. ASSUME NEW c \in req[r].todo,
               Goto(r, [pc |-> "unblock_check", t |-> req[r].t, todo |-> req[r].todo \ {c}])
        PROVE  Moves
    BY <1>11, <1>13, <2>1, <2>3 DEF UnblockCheck
  <2>4. ASSUME NEW c \in req[r].todo,
               Goto(r, [pc |-> "unblock_write", t |-> req[r].t, todo |-> req[r].todo \ {c}, c |-> c])
        PROVE  Moves
    <3> DEFINE q == [pc |-> "unblock_write", t |-> req[r].t, todo |-> req[r].todo \ {c}, c |-> c]
    <3>1. q \in Request /\ q.pc = "unblock_write" /\ q.todo = req[r].todo \ {c} /\ q.c = c
      BY <2>1 DEF Request
    <3> HIDE DEF q
    <3>2. Admissible(r, q)
      BY <1>13, <2>1, <3>1 DEF UnblockCheck, Admissible, Compatible, RowPcs, LockPcs, ClaimPcs
    <3> QED BY <1>2, <2>4, <3>2 DEF q
  <2> QED BY <1>13, <2>2, <2>3, <2>4 DEF UnblockCheck
<1>14. ASSUME NEW r \in Slots, UnblockWrite(r) PROVE Moves
  <2>1. /\ req[r].t \in Tasks /\ req[r].c \in Tasks /\ req[r].todo \in SUBSET Tasks
        /\ \A c \in req[r].todo : task[c] # NoRow
    BY <1>14, RequestFields DEF UnblockWrite, TypeOK, RowsExist
  <2>2. \A c \in Tasks : task[c] # NoRow => task'[c] # NoRow
    BY RowSteps, RowsAfter
  <2> QED BY <1>11, <1>14, <2>1, <2>2 DEF UnblockWrite
<1>15. ASSUME NEW r \in Slots, NEW p \in Callers, NEW t \in Tasks, DispatchRead(r, p, t) PROVE Moves
  <2> DEFINE q == [pc |-> "dispatch_write", t |-> t]
  <2>1. q \in Request /\ q.pc = "dispatch_write" /\ q.t = t
    BY DEF Request
  <2> HIDE DEF q
  <2>2. task'[t] # NoRow
    BY <1>15, RowOf DEF DispatchRead, Status
  <2>3. Admissible(r, q)
    BY <2>1, <2>2 DEF Admissible, Compatible, LockPcs, ClaimPcs
  <2> QED BY <1>2, <1>15, <2>3 DEF DispatchRead, q
<1>16. ASSUME NEW r \in Slots, NEW p \in Callers, NEW t \in Tasks, NEW g \in Gates,
              GateSnapshot(r, p, t, g)
       PROVE  Moves
  <2> DEFINE q == [pc |-> "gate_insert", t |-> t, by |-> p, g |-> g]
  <2>1. q \in Request /\ q.pc = "gate_insert"
    BY DEF Request
  <2> HIDE DEF q
  <2>2. Admissible(r, q)
    BY <2>1 DEF Admissible, Compatible, RowPcs, LockPcs, ClaimPcs
  <2> QED BY <1>2, <1>16, <2>2 DEF GateSnapshot, q
<1>17. ASSUME NEW r \in Slots, NEW p \in Callers, NEW g \in Gates, ResolveGate(r, p, g) PROVE Moves
  <2>1. PICK decision \in {"approved", "rejected"} :
          Enter(r, [pc |-> "resolve_agg", g |-> g, by |-> p, decision |-> decision])
    BY <1>17 DEF ResolveGate
  <2> DEFINE q == [pc |-> "resolve_agg", g |-> g, by |-> p, decision |-> decision]
  <2>2. q \in Request /\ q.pc = "resolve_agg" /\ q.g = g
    BY DEF Request
  <2> HIDE DEF q
  <2>3. Admissible(r, q)
    BY <1>17, <2>2 DEF ResolveGate, Admissible, Compatible, RowPcs, LockPcs, ClaimPcs
  <2> QED BY <1>2, <2>1, <2>3 DEF q
<1>18. ASSUME NEW r \in Slots, ResolveAgg(r) PROVE Moves
  <2>1. /\ req[r].g \in Gates /\ req[r].by \in Callers /\ req[r].decision \in {"approved", "rejected"}
        /\ gate[req[r].g].status # "absent"
    BY <1>18, RequestFields DEF ResolveAgg, TypeOK, RowsExist
  <2> DEFINE rejected == AnyRejected(Decided(r), gate[req[r].g].task)
  <2>2. CASE Return(r)
    BY <1>1, <2>2
  <2>3. CASE gate' = gate /\ Goto(r, [pc |-> "resolve_apply", g |-> req[r].g, by |-> req[r].by,
                                      decision |-> req[r].decision, any_rejected |-> rejected])
    <3>1. rejected \in BOOLEAN
      BY DEF AnyRejected
    <3> HIDE DEF rejected
    <3> DEFINE q == [pc |-> "resolve_apply", g |-> req[r].g, by |-> req[r].by,
                     decision |-> req[r].decision, any_rejected |-> rejected]
    <3>2. q \in Request /\ q.pc = "resolve_apply" /\ q.g = req[r].g
      BY <2>1, <3>1 DEF Request
    <3> HIDE DEF q
    <3>3. Admissible(r, q)
      BY <2>1, <2>3, <3>2 DEF Admissible, Compatible, RowPcs, LockPcs, ClaimPcs
    <3> QED BY <1>2, <2>3, <3>3 DEF q
  <2> QED BY <1>18, <2>2, <2>3 DEF ResolveAgg
<1>19. ASSUME NEW r \in Slots, ResolveApply(r) PROVE Moves
  <2>1. gate[req[r].g].task \in Tasks
    BY <1>19, DecidedTask DEF ResolveApply
  <2> QED BY <1>1, <1>9, <1>19, <2>1 DEF ResolveApply
<1>20. ASSUME NEW r \in Slots,
              \/ CreateInsert(r) \/ ClaimBroadcast(r) \/ ClaimUpdate(r) \/ HeartbeatWrite(r)
              \/ ProgressInsert(r) \/ DispatchWrite(r) \/ GateInsert(r) \/ Abort(r)
       PROVE  Moves
  BY <1>1, <1>20 DEF CreateInsert, ClaimBroadcast, ClaimUpdate, HeartbeatWrite, ProgressInsert,
                     DispatchWrite, GateInsert, Abort
<1>21. ASSUME NEW p \in Callers, NEW t \in Tasks, AtomicCall(p, t) PROVE Moves
  BY <1>21 DEF AtomicCall, McpClaim, Fail, Block, UnblockTask, Cancel, Retry, Moves
<1>22. ASSUME NEW t \in Tasks, LeaseLapses(t) \/ ExpireStaleLease(t) PROVE Moves
  BY <1>22 DEF LeaseLapses, ExpireStaleLease, Moves
<1>23. CASE UNCHANGED vars
  BY <1>23 DEF vars, Moves
<1>24. ASSUME NEW r \in Slots, UnblockError(r) PROVE Moves
  <2>1. req[r].t \in Tasks /\ task' = task
    BY <1>24, RequestFields DEF UnblockError, TypeOK
  <2>2. PICK todo \in WithoutStatement(req[r]) :
          Goto(r, [pc |-> "unblock_check", t |-> req[r].t, todo |-> todo])
    BY <1>24 DEF UnblockError
  <2>3. CASE req[r].pc = "unblock_select"
    BY <1>11, <2>1, <2>2, <2>3 DEF WithoutStatement
  <2>4. CASE req[r].pc \in {"unblock_check", "unblock_write"}
    <3>1. req[r].todo \in SUBSET Tasks /\ \A c \in req[r].todo : task[c] # NoRow
      BY <2>4, RequestFields DEF TypeOK, RowsExist
    <3>2. todo \in SUBSET req[r].todo
      BY <2>2, <2>4 DEF WithoutStatement
    <3> QED BY <1>11, <2>1, <2>2, <3>1, <3>2
  <2> QED BY <1>24, <2>3, <2>4 DEF UnblockError
<1> QED
  BY <1>3, <1>4, <1>5, <1>6, <1>7, <1>8, <1>10, <1>12, <1>13, <1>14, <1>15, <1>16, <1>17, <1>18,
     <1>19, <1>20, <1>21, <1>22, <1>23, <1>24 DEF Next, Step, Call

(* The licence a step has to write the row of task u.                      *)
Licensed(u) ==
    \/ task[u] # NoRow /\ ~Locked(u)
    \/ task[u] # NoRow /\ \E r \in Slots : req[r].pc \in LockPcs /\ req[r].t = u /\ Return(r)
    \/ task[u] = NoRow /\ \E r \in Slots : req[r].pc = "create_insert" /\ req[r].t = u /\ Return(r)
    \/ task[u] # NoRow /\ task'[u].status = task[u].status

(* A step writes at most one row, with a licence.                          *)
LEMMA OneWriter ==
    ASSUME IInv, [Next]_vars
    PROVE  \/ task' = task
           \/ \E u \in Tasks : Licensed(u) /\ \A v \in Tasks \ {u} : task'[v] = task[v]
<1> DEFINE Goal == \/ task' = task
                   \/ \E u \in Tasks : Licensed(u) /\ \A v \in Tasks \ {u} : task'[v] = task[v]
<1> USE DEF IInv
<1>1. ASSUME NEW u \in Tasks, NEW row, task' = [task EXCEPT ![u] = row], Licensed(u) PROVE Goal
  BY <1>1 DEF TypeOK
<1>2. ASSUME NEW u \in Tasks, NEW row, task' = [task EXCEPT ![u] = row],
             task[u].status \in Status, ~Locked(u)
      PROVE  Goal
  BY <1>1, <1>2, RowOf DEF Licensed
<1>3. ASSUME NEW r \in Slots, CreateInsert(r) PROVE Goal
  <2>1. req[r].t \in Tasks /\ task[req[r].t] = NoRow
    BY <1>3, RequestFields DEF CreateInsert, TypeOK, LocalsCurrent
  <2> QED BY <1>1, <1>3, <2>1 DEF CreateInsert, Licensed
<1>4. ASSUME NEW r \in Slots, ClaimUpdate(r) \/ HeartbeatWrite(r) PROVE Goal
  <2>1. req[r].t \in Tasks /\ task[req[r].t] # NoRow
    BY <1>4, RequestFields DEF ClaimUpdate, HeartbeatWrite, TypeOK, RowsExist, RowPcs, LockPcs
  <2>2. Licensed(req[r].t)
    BY <1>4, <2>1 DEF Licensed, ClaimUpdate, HeartbeatWrite, LockPcs
  <2> QED BY <1>1, <1>4, <2>1, <2>2 DEF ClaimUpdate, HeartbeatWrite
<1>5. ASSUME NEW r \in Slots, ClaimBroadcast(r) \/ DispatchWrite(r) PROVE Goal
  <2>1. req[r].t \in Tasks /\ task[req[r].t] # NoRow
    BY <1>5, RequestFields DEF ClaimBroadcast, DispatchWrite, TypeOK, RowsExist, RowPcs
  <2>2. Licensed(req[r].t)
    BY <1>5, <2>1 DEF Licensed, ClaimBroadcast, DispatchWrite
  <2> QED BY <1>1, <1>5, <2>1, <2>2 DEF ClaimBroadcast, DispatchWrite
<1>6. ASSUME NEW r \in Slots, UnblockWrite(r) PROVE Goal
  <2>1. req[r].c \in Tasks /\ Licensed(req[r].c)
    BY <1>6, RequestFields DEF UnblockWrite, TypeOK, RowsExist, Licensed
  <2> QED BY <1>1, <1>6, <2>1 DEF UnblockWrite
<1>7. ASSUME NEW r \in Slots, CompleteApply(r) PROVE Goal
  <2>1. req[r].t \in Tasks /\ Licensed(req[r].t)
    BY <1>7, RequestFields DEF CompleteApply, TypeOK, RowsExist, RowPcs, Licensed
  <2> QED BY <1>1, <1>7, <2>1 DEF CompleteApply
<1>8. ASSUME NEW r \in Slots, ResolveApply(r) PROVE Goal
  <2> DEFINE t == gate[req[r].g].task
  <2>1. t \in Tasks
    BY <1>8, DecidedTask DEF ResolveApply
  <2>2. CASE task' = task
    BY <2>2
  <2>3. CASE task' # task
    <3> HIDE DEF t
    <3>1. task[t].status \in Status /\ ~Locked(t)
      BY <1>8, <2>3 DEF ResolveApply, Status, InProgress, t
    <3>2. \E row : task' = [task EXCEPT ![t] = row]
      BY <1>8, <2>3 DEF ResolveApply, t
    <3> QED BY <1>2, <2>1, <3>1, <3>2
  <2> QED BY <2>2, <2>3
<1>9. ASSUME NEW p \in Callers, NEW t \in Tasks, AtomicCall(p, t) PROVE Goal
  <2>1. ~Locked(t) /\ task[t] # NoRow
    BY <1>9, RowOf DEF AtomicCall, McpClaim, Fail, Finishable, Block, UnblockTask, Cancel, Retry,
                       Retryable, Status, InProgress, Working
  <2>2. \E row : task' = [task EXCEPT ![t] = row]
    BY <1>9 DEF AtomicCall, McpClaim, Fail, Block, UnblockTask, Cancel, Retry
  <2> QED BY <1>1, <2>1, <2>2 DEF Licensed
<1>10. ASSUME NEW t \in Tasks, LeaseLapses(t) PROVE Goal
  <2>1. task[t] \in Row /\ task[t] # NoRow
    BY <1>10, RowOf DEF LeaseLapses
  <2>2. task'[t] = [task[t] EXCEPT !.expires = "lapsed"]
    BY <1>10 DEF LeaseLapses, TypeOK
  <2>3. Licensed(t)
    BY <2>1, <2>2, LapsedRow DEF Licensed
  <2> QED BY <1>1, <1>10, <2>3 DEF LeaseLapses
<1>11. ASSUME NEW t \in Tasks, ExpireStaleLease(t) PROVE Goal
  BY <1>2, <1>11 DEF ExpireStaleLease, Sweepable, Status, InProgress
<1>12. ASSUME NEW r \in Slots, NEW p \in Callers, Call(r, p) PROVE Goal
  BY <1>12 DEF Call, CreateRead, ClaimRead, HeartbeatFence, ProgressFence, CompleteSnapshot,
               DispatchRead, GateSnapshot, ResolveGate
<1>13. ASSUME NEW r \in Slots,
              \/ ClaimLock(r) \/ ProgressSeq(r) \/ ProgressInsert(r) \/ UnblockSelect(r)
              \/ UnblockCheck(r) \/ UnblockError(r) \/ GateInsert(r) \/ ResolveAgg(r) \/ Abort(r)
       PROVE  Goal
  BY <1>13 DEF ClaimLock, ProgressSeq, ProgressInsert, UnblockSelect, UnblockCheck, UnblockError,
               GateInsert, ResolveAgg, Abort
<1>14. CASE UNCHANGED vars
  BY <1>14 DEF vars
<1> QED
  BY <1>3, <1>4, <1>5, <1>6, <1>7, <1>8, <1>9, <1>10, <1>11, <1>12, <1>13, <1>14 DEF Next, Step

(* Gates keep their type and are never deleted; progress only grows, by    *)
(* the number the handler computed, in the hands of the lock holder.       *)
LEMMA TablesAfter ==
    ASSUME IInv, [Next]_vars
    PROVE  /\ gate' \in [Gates -> GateRow \cup {[status |-> "absent"]}]
           /\ \A g \in Gates : gate[g].status # "absent" => gate'[g].status # "absent"
           /\ aborts' \in 0 .. MaxAborts
           /\ \/ progress' = progress
              \/ \E r \in Slots :
                   /\ req[r].pc = "progress_insert" /\ Return(r)
                   /\ progress' = [progress EXCEPT ![req[r].t] = Append(@, req[r].seq)]
<1> USE DEF IInv
<1>1. ASSUME NEW r \in Slots, GateInsert(r)
      PROVE  /\ gate' \in [Gates -> GateRow \cup {[status |-> "absent"]}]
             /\ \A g \in Gates : gate[g].status # "absent" => gate'[g].status # "absent"
  <2> DEFINE row == [status |-> "pending", task |-> req[r].t, owner |-> req[r].by]
  <2>1. req[r].g \in Gates /\ row \in GateRow /\ row.status # "absent"
    BY <1>1, RequestFields DEF GateInsert, TypeOK, GateRow
  <2>2. gate' = [gate EXCEPT ![req[r].g] = row]
    BY <1>1 DEF GateInsert
  <2> HIDE DEF row
  <2> QED BY <2>1, <2>2 DEF TypeOK
<1>2. ASSUME NEW r \in Slots, gate' = Decided(r), req[r].pc \in {"resolve_agg", "resolve_apply"}
      PROVE  /\ gate' \in [Gates -> GateRow \cup {[status |-> "absent"]}]
             /\ \A g \in Gates : gate[g].status # "absent" => gate'[g].status # "absent"
  <2> DEFINE g0 == req[r].g
             row == [gate[g0] EXCEPT !.status = req[r].decision]
  <2>1. g0 \in Gates /\ req[r].decision \in {"approved", "rejected"} /\ gate[g0] \in GateRow
    BY <1>2, RequestFields DEF TypeOK, RowsExist
  <2>2. row \in GateRow /\ row.status # "absent"
    BY <2>1 DEF GateRow
  <2>3. gate' = [gate EXCEPT ![g0] = row]
    BY <1>2 DEF Decided
  <2> HIDE DEF row, g0
  <2> QED BY <2>1, <2>2, <2>3 DEF TypeOK
<1>3. CASE \E r \in Slots : Step(r)
  <2>1. PICK r \in Slots : Step(r)
    BY <1>3
  <2>2. /\ gate' = gate \/ GateInsert(r)
             \/ (gate' = Decided(r) /\ req[r].pc \in {"resolve_agg", "resolve_apply"})
        /\ aborts' = aborts
        /\ \/ progress' = progress
           \/ /\ req[r].pc = "progress_insert" /\ Return(r)
              /\ progress' = [progress EXCEPT ![req[r].t] = Append(@, req[r].seq)]
    BY <2>1 DEF Step, CreateInsert, ClaimBroadcast, ClaimLock, ClaimUpdate, HeartbeatWrite,
                ProgressSeq, ProgressInsert, CompleteApply, UnblockSelect, UnblockCheck,
                UnblockWrite, DispatchWrite, ResolveAgg, ResolveApply, GateInsert
  <2> QED BY <1>1, <1>2, <2>2 DEF TypeOK
<1>4. CASE \E r \in Slots : Abort(r) \/ UnblockError(r)
  BY <1>4, BoundsAssumption DEF Abort, UnblockError, TypeOK
<1>5. CASE \E r \in Slots, p \in Callers : Call(r, p)
  <2>1. ASSUME NEW r \in Slots, NEW p \in Callers, Call(r, p)
        PROVE  UNCHANGED <<gate, progress, aborts>>
    BY <2>1 DEF Call, CreateRead, ClaimRead, HeartbeatFence, ProgressFence, CompleteSnapshot,
                DispatchRead, GateSnapshot, ResolveGate
  <2> QED BY <1>5, <2>1 DEF TypeOK
<1>6. CASE \E p \in Callers, t \in Tasks : AtomicCall(p, t)
  BY <1>6 DEF AtomicCall, McpClaim, Fail, Block, UnblockTask, Cancel, Retry, TypeOK
<1>7. CASE (\E t \in Tasks : LeaseLapses(t) \/ ExpireStaleLease(t)) \/ UNCHANGED vars
  BY <1>7 DEF LeaseLapses, ExpireStaleLease, vars, TypeOK
<1> QED BY <1>3, <1>4, <1>5, <1>6, <1>7 DEF Next

(* No step takes from a handler what it relies on.                         *)
LEMMA OthersUndisturbed ==
    ASSUME IInv, [Next]_vars
    PROVE  Undisturbed
<1> USE DEF IInv
<1> SUFFICES ASSUME NEW s \in Slots, req'[s] = req[s]
             PROVE  /\ req[s].pc = "create_insert" => task'[req[s].t] = NoRow
                    /\ req[s].pc = "heartbeat_write" => task'[req[s].t].status \in Working
                    /\ req[s].pc = "progress_insert" => progress'[req[s].t] = progress[req[s].t]
                    /\ req[s].pc \in {"resolve_agg", "resolve_apply"} =>
                         gate'[req[s].g].status # "absent"
  BY DEF Undisturbed
<1>1. req[s] \in Request
  BY DEF TypeOK
<1>2. ASSUME NEW r \in Slots, Return(r), req[s].pc # "idle" PROVE s # r
  <2>1. Idle.pc = "idle"
    BY DEF Idle
  <2>2. req'[r] = Idle
    BY <1>2 DEF Return, TypeOK
  <2> QED BY <1>2, <2>1, <2>2
<1>3. ASSUME req[s].pc = "create_insert" PROVE task'[req[s].t] = NoRow
  <2>1. req[s].t \in Tasks /\ task[req[s].t] = NoRow
    BY <1>1, <1>3, RequestFields DEF LocalsCurrent
  <2>2. ~Licensed(req[s].t)
    BY <1>2, <1>3, <2>1 DEF Licensed, OneHolder
  <2> QED BY <2>1, <2>2, OneWriter
<1>4. ASSUME req[s].pc = "heartbeat_write" PROVE task'[req[s].t].status \in Working
  <2>1. req[s].t \in Tasks /\ task[req[s].t] # NoRow /\ task[req[s].t].status \in Working
    BY <1>1, <1>4, RequestFields DEF LocalsCurrent, RowsExist, RowPcs, LockPcs
  <2>2. Licensed(req[s].t) => task'[req[s].t].status = task[req[s].t].status
    BY <1>2, <1>4, <2>1 DEF Licensed, Locked, LockPcs, OneHolder
  <2> QED BY <2>1, <2>2, OneWriter
<1>5. ASSUME req[s].pc = "progress_insert" PROVE progress'[req[s].t] = progress[req[s].t]
  <2>1. req[s].t \in Tasks
    BY <1>1, <1>5, RequestFields
  <2>2. ASSUME NEW r \in Slots, req[r].pc = "progress_insert", Return(r),
               progress' = [progress EXCEPT ![req[r].t] = Append(@, req[r].seq)]
        PROVE  progress'[req[s].t] = progress[req[s].t]
    <3>1. req[r].t # req[s].t
      BY <1>2, <1>5, <2>2 DEF OneHolder, LockPcs
    <3> QED BY <2>1, <2>2, <3>1 DEF TypeOK
  <2> QED BY <2>2, TablesAfter
<1>6. ASSUME req[s].pc \in {"resolve_agg", "resolve_apply"}
      PROVE  gate'[req[s].g].status # "absent"
  BY <1>1, <1>6, RequestFields, TablesAfter DEF RowsExist
<1> QED BY <1>3, <1>4, <1>5, <1>6

-----------------------------------------------------------------------------
(* The invariant is inductive.                                             *)

LEMMA InitInv == Init => IInv
<1> SUFFICES ASSUME Init PROVE IInv
  OBVIOUS
<1> USE DEF Init
<1>1. \A r \in Slots : req[r] = Idle /\ req[r].pc = "idle"
  BY DEF Idle
<1>2. ASSUME NEW t \in Tasks
      PROVE  \/ task[t] = NoRow
             \/ /\ task[t] \in Row /\ task[t].lease = NoLease
                /\ task[t].status \in {"ready", "pending"}
  <2>1. CASE t \in DOMAIN Seed
    <3>1. Seed[t] \in Submitted
      BY <2>1, SubmissionAssumption
    <3>2. \E s \in {"ready", "pending"} : task[t] = NewRow(Seed[t], s)
      BY <2>1
    <3> QED BY <3>1, <3>2, NewRows
  <2> QED BY <2>1
<1>3. NoRow.status = "absent" /\ {"absent", "ready", "pending", "blocked"} \cap InProgress = {}
  BY DEF NoRow, InProgress, Working
<1>4. TypeOK
  <2>1. task \in [Tasks -> Row \cup {NoRow}]
    BY <1>2
  <2>2. Idle \in Request
    BY DEF Request
  <2> QED BY <2>1, <2>2, BoundsAssumption DEF TypeOK
<1>5. RowsExist /\ LocalsCurrent /\ OneHolder
  BY <1>1 DEF RowsExist, LocalsCurrent, OneHolder, RowPcs, LockPcs, ClaimPcs
<1>6. ProgressGapless /\ GrantsHonest
  BY DEF ProgressGapless, GrantsHonest
<1>7. InProgressOwned /\ LeaseIsNewestGrant /\ AnswersRemembered
  BY <1>2, <1>3 DEF InProgressOwned, LeaseIsNewestGrant, AnswersRemembered
<1> QED BY <1>4, <1>5, <1>6, <1>7 DEF IInv

(* A step moves a handler, writes rows and tables and disturbs nobody.     *)
LEMMA StepInv == IInv /\ [Next]_vars => IInv'
<1> SUFFICES ASSUME IInv, [Next]_vars PROVE IInv'
  OBVIOUS
<1> USE DEF IInv
<1>1. /\ task' \in [Tasks -> Row \cup {NoRow}]
      /\ grants' \in Seq(Grant) /\ Len(grants') <= MaxLeases
      /\ done' \in [Tasks -> SUBSET Accepted]
      /\ \A t \in Tasks : task[t] # NoRow => task'[t] # NoRow
      /\ DOMAIN grants \subseteq DOMAIN grants'
      /\ \A l \in DOMAIN grants : grants'[l] = grants[l]
      /\ InProgressOwned' /\ LeaseIsNewestGrant' /\ GrantsHonest' /\ AnswersRemembered'
  BY RowSteps, RowsAfter
<1>2. Moves /\ Undisturbed
  BY RequestSteps, OthersUndisturbed
<1>3. ASSUME NEW s \in Slots
      PROVE  req'[s] = req[s] \/ (Admissible(s, req'[s]) /\ \A u \in Slots \ {s} : req'[u] = req[u])
  BY <1>2 DEF Moves, TypeOK
<1>4. req' \in [Slots -> Request]
  <2>1. \A s \in Slots : req'[s] \in Request
    BY <1>3 DEF Admissible, TypeOK
  <2>2. req' = [s \in Slots |-> req'[s]]
    BY <1>2 DEF Moves, TypeOK
  <2> QED BY <2>1, <2>2
<1>5. ProgressGapless' /\ progress' \in [Tasks -> Seq(Nat)]
  <2>1. ASSUME NEW r \in Slots, req[r].pc = "progress_insert",
               progress' = [progress EXCEPT ![req[r].t] = Append(@, req[r].seq)]
        PROVE  ProgressGapless' /\ progress' \in [Tasks -> Seq(Nat)]
    <3> DEFINE t == req[r].t
               n == Len(progress[t])
    <3>1. t \in Tasks /\ req[r].seq = n
      BY <2>1, RequestFields DEF LocalsCurrent, TypeOK
    <3>2. progress[t] \in Seq(Nat) /\ n \in Nat
      BY <3>1 DEF TypeOK
    <3>3. progress'[t] = Append(progress[t], n)
      BY <2>1, <3>1 DEF TypeOK
    <3>4. \A u \in Tasks \ {t} : progress'[u] = progress[u]
      BY <2>1 DEF TypeOK
    <3>5. progress' \in [Tasks -> Seq(Nat)]
      BY <2>1, <3>1, <3>2 DEF TypeOK
    <3> HIDE DEF t, n
    <3>6. \A i \in 1 .. Len(progress'[t]) : progress'[t][i] = i - 1
      <4>1. Len(progress'[t]) = n + 1 /\ progress'[t][n + 1] = n
        BY <3>2, <3>3 DEF n
      <4>2. \A i \in 1 .. n : progress'[t][i] = progress[t][i] /\ progress[t][i] = i - 1
        BY <3>1, <3>2, <3>3 DEF ProgressGapless, n
      <4> QED BY <3>2, <4>1, <4>2
    <3> QED BY <3>4, <3>5, <3>6 DEF ProgressGapless
  <2> QED BY <2>1, TablesAfter DEF ProgressGapless, TypeOK
<1>6. TypeOK'
  BY <1>1, <1>4, <1>5, TablesAfter DEF TypeOK
<1>7. RowsExist'
  <2> SUFFICES ASSUME NEW s \in Slots
               PROVE  /\ req'[s].pc \in RowPcs => task'[req'[s].t] # NoRow
                      /\ req'[s].pc \in {"unblock_check", "unblock_write"} =>
                           \A c \in req'[s].todo : task'[c] # NoRow
                      /\ req'[s].pc = "unblock_write" => task'[req'[s].c] # NoRow
                      /\ req'[s].pc \in {"resolve_agg", "resolve_apply"} =>
                           gate'[req'[s].g].status # "absent"
    BY DEF RowsExist
  <2>1. CASE Admissible(s, req'[s])
    BY <2>1 DEF Admissible
  <2>2. CASE req'[s] = req[s]
    <3>1. req[s] \in Request
      BY DEF TypeOK
    <3>2. req[s].pc \in RowPcs => req[s].t \in Tasks
      BY <3>1, RequestFields DEF RowPcs, LockPcs
    <3>3. /\ req[s].pc \in {"unblock_check", "unblock_write"} => req[s].todo \in SUBSET Tasks
          /\ req[s].pc = "unblock_write" => req[s].c \in Tasks
      BY <3>1, RequestFields
    <3> QED BY <1>1, <1>2, <2>2, <3>2, <3>3 DEF RowsExist, Undisturbed
  <2> QED BY <1>3, <2>1, <2>2
<1> DEFINE PresentableAfter(p, t) ==
             {NoLease} \cup {l \in 1 .. Len(grants') : grants'[l].task = t /\ grants'[l].by = p}
<1>8. \A p, t : Presentable(p, t) \subseteq PresentableAfter(p, t)
  BY <1>1 DEF Presentable, TypeOK
<1> HIDE DEF PresentableAfter
<1>9. LocalsCurrent'
  <2> SUFFICES ASSUME NEW s \in Slots
               PROVE  /\ req'[s].pc = "create_insert" => task'[req'[s].t] = NoRow
                      /\ req'[s].pc = "heartbeat_write" => task'[req'[s].t].status \in Working
                      /\ req'[s].pc = "progress_insert" => req'[s].seq = Len(progress'[req'[s].t])
                      /\ req'[s].pc \in ClaimPcs => req'[s].agent \in OnBehalf(req'[s].by)
                      /\ req'[s].pc = "complete_apply" =>
                           /\ req'[s].eff \in OnBehalf(req'[s].by)
                           /\ req'[s].lease \in PresentableAfter(req'[s].by, req'[s].t)
    BY DEF LocalsCurrent, Presentable, PresentableAfter
  <2>1. CASE Admissible(s, req'[s])
    BY <1>8, <2>1 DEF Admissible
  <2>2. CASE req'[s] = req[s]
    BY <1>2, <1>8, <2>2 DEF LocalsCurrent, Undisturbed
  <2> QED BY <1>3, <2>1, <2>2
<1>10. OneHolder'
  <2> SUFFICES ASSUME NEW r \in Slots, NEW s \in Slots, r # s PROVE Compatible(req'[r], req'[s])
    BY DEF OneHolder, Compatible
  <2>1. CASE req'[r] = req[r] /\ req'[s] = req[s]
    BY <2>1 DEF OneHolder, Compatible, LockPcs
  <2>2. CASE Admissible(r, req'[r]) /\ req'[s] = req[s]
    BY <2>2 DEF Admissible
  <2>3. CASE Admissible(s, req'[s]) /\ req'[r] = req[r]
    BY <2>3 DEF Admissible, Compatible
  <2> QED BY <1>3, <2>1, <2>2, <2>3
<1> QED BY <1>1, <1>5, <1>6, <1>7, <1>9, <1>10

(* Every reachable state satisfies the inductive invariant.                *)
THEOREM Invariance == Spec => []IInv
  BY InitInv, StepInv, PTL DEF Spec

-----------------------------------------------------------------------------
(* The results.                                                            *)

(* The tables keep their types: no handler writes a row it has not seen,   *)
(* and no lease id beyond the granted ones.                                *)
THEOREM TypeCorrect == Spec => []TypeOK
<1>1. IInv => TypeOK
  BY DEF IInv
<1> QED BY <1>1, Invariance, PTL

(* A task in progress always has an owner, whatever interleaving of the    *)
(* handlers produced it.                                                   *)
THEOREM OwnershipSafe == Spec => []InProgressOwned
<1>1. IInv => InProgressOwned
  BY DEF IInv
<1> QED BY <1>1, Invariance, PTL

(* An old lease id never matches a row again, so the fence on              *)
(* claim_lease_id excludes every earlier claimant.                         *)
THEOREM FencingSafe == Spec => []LeaseIsNewestGrant
<1>1. IInv => LeaseIsNewestGrant
  BY DEF IInv
<1> QED BY <1>1, Invariance, PTL

(* Progress events are numbered without gap or duplicate under any number  *)
(* of concurrent posters.                                                  *)
THEOREM ProgressSafe == Spec => []ProgressGapless
<1>1. IInv => ProgressGapless
  BY DEF IInv
<1> QED BY <1>1, Invariance, PTL

(* A repeated complete or fail of an agent is answered 403 only after a    *)
(* retry of the task, or when a later claimant's name has replaced the     *)
(* agent's on the row (classify_fenced_rejection).                         *)
THEOREM RepeatSafe == Spec => []RepeatedCallIsConflict
<1>1. IInv => RepeatedCallIsConflict
  <2> SUFFICES ASSUME IInv, NEW t \in Tasks, NEW a \in done[t], NEW already,
                      ~a.retried, ~FinishedByLaterClaimant(t, a.claims)
               PROVE  Classify(a.by, t, NoLease, already) = "conflict"
    BY DEF RepeatedCallIsConflict
  <2>1. task[t] # NoRow /\ task[t].finalized_by = a.by
    BY DEF IInv, AnswersRemembered
  <2> QED BY <2>1 DEF Classify
<1> QED BY <1>1, Invariance, PTL
=============================================================================
