--------------------------- MODULE TaskLeaseProofs ---------------------------
(* Proofs that TaskLifecycle implements TaskLease, and that its action     *)
(* properties hold, for exclusive tasks without dependencies and any       *)
(* number of tasks, callers, gates and handlers.                           *)
(*                                                                         *)
(* The restriction is needed: a broadcast claim and the release of a       *)
(* dependent write a row they read earlier without looking at it again.    *)
(* Without those two, every write re-reads the status it depends on, in    *)
(* the same statement or under the row lock (HandlersExclusive), and so    *)
(* moves the row along one arrow of the abstract protocol (Moved).         *)
EXTENDS TaskLifecycleProofs, FiniteSetTheorems

Exclusive == "broadcast" \notin Policies /\ DepLists \subseteq {<<>>}

-----------------------------------------------------------------------------
(* The inductive invariant.                                                *)

(* No handler waits to write a row it does not hold the lock of, except to *)
(* finish it; the holder of a claim's lock still finds the task ready.     *)
HandlersExclusive ==
    \A r \in Slots :
        /\ req[r].pc \notin {"claim_broadcast", "unblock_write"}
        /\ req[r].pc = "unblock_check" => req[r].todo = {}
        /\ req[r].pc = "create_insert" => req[r].status = "ready"
        /\ req[r].pc = "claim_update" => task[req[r].t].status = "ready"

(* A lease id and an attribution are left only where they belong.          *)
Tidy(row) ==
    /\ row.lease # NoLease => PhaseOf(row) \in {"held", "finished"}
    /\ row.finalized_by # NoOne => PhaseOf(row) \in {"stopped", "finished"}

RowsTidy == \A t \in Tasks : task[t] # NoRow => Tidy(task[t])

LInv == IInv /\ HandlersExclusive /\ RowsTidy

-----------------------------------------------------------------------------
(* The abstract view.                                                      *)

PhaseMap == [t \in Tasks |-> PhaseOf(task[t])]
LeaseMap == [t \in Tasks |-> HeldLease(task[t])]

LEMMA Phases ==
    ASSUME NEW row
    PROVE  /\ row.status = "absent" => PhaseOf(row) = "absent"
           /\ row.status = "ready" => PhaseOf(row) = "open"
           /\ row.status \in {"pending", "blocked"} => PhaseOf(row) = "parked"
           /\ row.status \in InProgress => PhaseOf(row) = "held"
           /\ row.status \in {"failed", "cancelled"} => PhaseOf(row) = "stopped"
           /\ row.status = "finished" => PhaseOf(row) = "finished"
  BY DEF PhaseOf, InProgress, Working

LEMMA HeldLeases ==
    ASSUME NEW row
    PROVE  /\ row.status \in InProgress => HeldLease(row) = row.lease
           /\ row.status \notin InProgress => HeldLease(row) = NoLease
  BY DEF HeldLease

(* The statuses of a row, and what is in progress.                         *)
LEMMA Statuses ==
    /\ {"absent", "ready", "pending", "blocked", "failed", "cancelled", "finished"}
         \cap InProgress = {}
    /\ Working \subseteq InProgress /\ "waiting_review" \in InProgress
    /\ \A s \in Status : s \in InProgress
         \/ s \in {"ready", "pending", "blocked", "failed", "cancelled", "finished"}
    /\ {"ready", "pending", "blocked", "failed", "cancelled", "finished"} \subseteq Status
    /\ NoRow.status = "absent"
  BY DEF Status, InProgress, Working, NoRow

(* The arrows of the abstract protocol that hand out no lease.             *)
Arrows ==
    {<<"absent", "open">>, <<"held", "open">>, <<"held", "parked">>, <<"parked", "open">>,
     <<"open", "stopped">>, <<"parked", "stopped">>, <<"held", "stopped">>, <<"stopped", "open">>,
     <<"open", "finished">>, <<"parked", "finished">>, <<"held", "finished">>,
     <<"stopped", "finished">>}

(* What a write that grants no lease makes of the row of t.                *)
Moved(t, row) ==
    /\ row \in Row /\ Tidy(row)
    /\ \/ PhaseOf(row) = PhaseOf(task[t]) /\ HeldLease(row) = HeldLease(task[t])
       \/ <<PhaseOf(task[t]), PhaseOf(row)>> \in Arrows /\ HeldLease(row) = NoLease
    /\ row.lease = NoLease \/ (task[t] # NoRow /\ row.lease = task[t].lease)
    /\ (task[t] # NoRow /\ task[t].finalized_by # NoOne) =>
         \/ row.finalized_by = task[t].finalized_by
         \/ task[t].status \in {"failed", "cancelled"} /\ row.status = "ready"

Stays == task' = task /\ grants' = grants

Writes ==
    /\ grants' = grants
    /\ \E t \in Tasks, row \in Row : task' = [task EXCEPT ![t] = row] /\ Moved(t, row)

Grants ==
    /\ Len(grants') = Len(grants) + 1
    /\ \E t \in Tasks, row \in Row :
         /\ task' = [task EXCEPT ![t] = row]
         /\ task[t].status = "ready" /\ task[t] # NoRow
         /\ row.status \in Working /\ row.lease = Len(grants) + 1
         /\ row.finalized_by = task[t].finalized_by

-----------------------------------------------------------------------------
(* Each write of the handlers moves its row along an arrow.                *)

LEMMA FinalizedMoves ==
    ASSUME NEW t \in Tasks, task[t] \in Row, NEW s \in {"finished", "failed", "cancelled"},
           NEW who \in Callers \cup {NoOne},
           task[t].status \in InProgress
             \/ (s = "cancelled" /\ task[t].status \notin {"finished", "cancelled"}),
           task[t].finalized_by \in {NoOne, who}
    PROVE  Moved(t, Finalized(task[t], s, who))
<1> DEFINE row == Finalized(task[t], s, who)
<1>1. row \in Row /\ row.status = s /\ row.lease = NoLease /\ row.finalized_by = who
  <2>1. s \in Status
    BY Statuses
  <2> QED BY <2>1, FinalizedRow
<1> HIDE DEF row
<1>2. PhaseOf(row) = IF s = "finished" THEN "finished" ELSE "stopped"
  BY <1>1, Phases
<1>3. HeldLease(row) = NoLease
  BY <1>1, Statuses, HeldLeases
<1>4. task[t].status \in Status
  BY DEF Row
<1>5. \/ <<PhaseOf(task[t]), PhaseOf(row)>> \in Arrows
      \/ PhaseOf(row) = PhaseOf(task[t]) /\ HeldLease(task[t]) = NoLease
  <2>1. CASE task[t].status \in InProgress
    BY <1>2, <2>1, Phases DEF Arrows
  <2>2. CASE s = "cancelled" /\ task[t].status \in {"ready", "pending", "blocked"}
    BY <1>2, <2>2, Phases DEF Arrows
  <2>3. CASE s = "cancelled" /\ task[t].status = "failed"
    BY <1>2, <2>3, Phases, HeldLeases, Statuses
  <2> QED BY <1>4, <2>1, <2>2, <2>3, Statuses
<1>6. Moved(t, row)
  BY <1>1, <1>2, <1>3, <1>5 DEF Moved, Tidy
<1> QED BY <1>6 DEF row

LEMMA RetriedMoves ==
    ASSUME NEW t \in Tasks, task[t] \in Row, task[t].status \in {"failed", "cancelled"}
    PROVE  Moved(t, Finalized(task[t], "ready", NoOne))
<1> DEFINE row == Finalized(task[t], "ready", NoOne)
<1>1. row \in Row /\ row.status = "ready" /\ row.lease = NoLease /\ row.finalized_by = NoOne
  BY FinalizedRow, Statuses
<1> HIDE DEF row
<1>2. PhaseOf(row) = "open" /\ PhaseOf(task[t]) = "stopped" /\ HeldLease(row) = NoLease
  BY <1>1, Phases, HeldLeases, Statuses
<1>3. Moved(t, row)
  BY <1>1, <1>2 DEF Moved, Tidy, Arrows
<1> QED BY <1>3 DEF row

LEMMA BlockedMoves ==
    ASSUME NEW t \in Tasks, task[t] \in Row, Tidy(task[t]), task[t].status \in Working
    PROVE  Moved(t, Blocked(task[t]))
<1> DEFINE row == Blocked(task[t])
<1>1. /\ row \in Row /\ row.status = "blocked" /\ row.lease = NoLease
      /\ row.finalized_by = task[t].finalized_by
  BY BlockedRow
<1> HIDE DEF row
<1>2. PhaseOf(row) = "parked" /\ PhaseOf(task[t]) = "held" /\ HeldLease(row) = NoLease
  BY <1>1, Phases, HeldLeases, Statuses
<1>3. Moved(t, row)
  BY <1>1, <1>2 DEF Moved, Tidy, Arrows
<1> QED BY <1>3 DEF row

LEMMA ExpiredMoves ==
    ASSUME NEW t \in Tasks, task[t] \in Row, Tidy(task[t]), task[t].status \in Working
    PROVE  Moved(t, Expired(task[t]))
<1> DEFINE row == Expired(task[t])
<1>1. /\ row \in Row /\ row.status \in {"failed", "ready"} /\ row.lease = NoLease
      /\ row.finalized_by = task[t].finalized_by
  BY ExpiredRow
<1> HIDE DEF row
<1>2. PhaseOf(row) \in {"stopped", "open"} /\ PhaseOf(task[t]) = "held" /\ HeldLease(row) = NoLease
  BY <1>1, Phases, HeldLeases, Statuses
<1>3. Moved(t, row)
  BY <1>1, <1>2 DEF Moved, Tidy, Arrows
<1> QED BY <1>3 DEF row

(* A write that keeps the status in progress and the lease.                *)
LEMMA HeldMoves ==
    ASSUME NEW t \in Tasks, task[t] \in Row, Tidy(task[t]), NEW row \in Row,
           task[t].status \in InProgress, row.status \in InProgress, row.lease = task[t].lease,
           row.finalized_by = task[t].finalized_by
    PROVE  Moved(t, row)
<1>1. PhaseOf(row) = "held" /\ PhaseOf(task[t]) = "held"
  BY Phases
<1>2. HeldLease(row) = HeldLease(task[t])
  BY HeldLeases
<1>3. task[t] # NoRow
  BY RowIsPresent
<1> QED BY <1>1, <1>2, <1>3 DEF Moved, Tidy

LEMMA LapsedMoves ==
    ASSUME NEW t \in Tasks, task[t] \in Row, Tidy(task[t])
    PROVE  Moved(t, [task[t] EXCEPT !.expires = "lapsed"])
<1> DEFINE row == [task[t] EXCEPT !.expires = "lapsed"]
<1>1. /\ row \in Row /\ row.status = task[t].status /\ row.lease = task[t].lease
      /\ row.finalized_by = task[t].finalized_by
  BY LapsedRow
<1> HIDE DEF row
<1>2. PhaseOf(row) = PhaseOf(task[t]) /\ HeldLease(row) = HeldLease(task[t])
  BY <1>1 DEF PhaseOf, HeldLease
<1>3. task[t] # NoRow
  BY RowIsPresent
<1>4. Moved(t, row)
  BY <1>1, <1>2, <1>3 DEF Moved, Tidy
<1> QED BY <1>4 DEF row

LEMMA UnblockedMoves ==
    ASSUME NEW t \in Tasks, task[t] \in Row, Tidy(task[t]), task[t].status = "blocked"
    PROVE  Moved(t, [task[t] EXCEPT !.status = "ready"])
<1> DEFINE row == [task[t] EXCEPT !.status = "ready"]
<1>1. /\ row \in Row /\ row.status = "ready" /\ row.lease = task[t].lease
      /\ row.finalized_by = task[t].finalized_by
  BY RelabelledRow, Statuses
<1> HIDE DEF row
<1>2. PhaseOf(row) = "open" /\ PhaseOf(task[t]) = "parked" /\ HeldLease(row) = NoLease
  BY <1>1, Phases, HeldLeases, Statuses
<1>3. Moved(t, row)
  BY <1>1, <1>2 DEF Moved, Tidy, Arrows
<1> QED BY <1>3 DEF row

(* dispatch_task, whatever has happened to the row since it was read.      *)
LEMMA DispatchedMoves ==
    ASSUME NEW t \in Tasks, task[t] \in Row
    PROVE  Moved(t, [task[t] EXCEPT !.status = "finished"])
<1> DEFINE row == [task[t] EXCEPT !.status = "finished"]
<1>1. /\ row \in Row /\ row.status = "finished" /\ row.lease = task[t].lease
      /\ row.finalized_by = task[t].finalized_by
  BY RelabelledRow, Statuses
<1> HIDE DEF row
<1>2. PhaseOf(row) = "finished" /\ HeldLease(row) = NoLease
  BY <1>1, Phases, HeldLeases, Statuses
<1>3. \/ <<PhaseOf(task[t]), PhaseOf(row)>> \in Arrows
      \/ PhaseOf(row) = PhaseOf(task[t]) /\ HeldLease(row) = HeldLease(task[t])
  <2>1. task[t].status \in Status
    BY DEF Row
  <2>2. CASE task[t].status = "finished"
    BY <1>2, <2>2, Phases, HeldLeases, Statuses
  <2>3. CASE task[t].status # "finished"
    <3>1. PhaseOf(task[t]) \in {"open", "parked", "held", "stopped"}
      BY <2>1, <2>3, Phases, Statuses
    <3> QED BY <1>2, <3>1 DEF Arrows
  <2> QED BY <2>2, <2>3
<1>4. task[t] # NoRow
  BY RowIsPresent
<1>5. Moved(t, row)
  BY <1>1, <1>2, <1>3, <1>4 DEF Moved, Tidy
<1> QED BY <1>5 DEF row

LEMMA InsertedMoves ==
    ASSUME NEW t \in Tasks, task[t] = NoRow, NEW sub \in Submitted
    PROVE  Moved(t, NewRow(sub, "ready"))
<1> DEFINE row == NewRow(sub, "ready")
<1>1. row \in Row /\ row.status = "ready" /\ row.lease = NoLease
  BY NewRows
<1>2. row.finalized_by = NoOne
  BY DEF NewRow
<1> HIDE DEF row
<1>3. PhaseOf(row) = "open" /\ PhaseOf(task[t]) = "absent" /\ HeldLease(row) = NoLease
  BY <1>1, Phases, HeldLeases, Statuses
<1>4. Moved(t, row)
  BY <1>1, <1>2, <1>3 DEF Moved, Tidy, Arrows
<1> QED BY <1>4 DEF row

-----------------------------------------------------------------------------
(* Every step of TaskLifecycle is one of the three.                        *)

LEMMA RowHere ==
    ASSUME LInv, NEW t \in Tasks, task[t] # NoRow
    PROVE  task[t] \in Row /\ Tidy(task[t]) /\ task[t].status \in Status
  BY RowOf DEF LInv, IInv, RowsTidy

(* A claim writes a row that is ready.                                     *)
LEMMA ClaimGrants ==
    ASSUME LInv, NEW t \in Tasks, task[t].status = "ready", NEW agent \in Callers, NEW by,
           NEW v \in Nat, GrantLease(t, agent, by),
           task' = [task EXCEPT ![t] = Claimed(task[t], "claimed", agent, v)]
    PROVE  Grants
<1>0. TypeOK
  BY DEF LInv, IInv
<1>1. task[t] # NoRow /\ task[t] \in Row
  BY <1>0, RowOf, Statuses
<1> DEFINE row == Claimed(task[t], "claimed", agent, v)
<1>2. Len(grants) < MaxLeases
  BY DEF GrantLease
<1>3. "claimed" \in Working
  BY DEF Working
<1>4. row \in Row /\ row.status = "claimed" /\ row.lease = Len(grants) + 1
  BY <1>0, <1>1, <1>2, <1>3, ClaimedRows
<1>5. row.finalized_by = task[t].finalized_by
  BY <1>1 DEF Claimed, Row
<1> HIDE DEF row
<1>6. Len(grants') = Len(grants) + 1
  BY <1>0 DEF GrantLease, TypeOK
<1>7. task' = [task EXCEPT ![t] = row]
  BY DEF row
<1> QED BY <1>1, <1>3, <1>4, <1>5, <1>6, <1>7 DEF Grants

LEMMA LeaseSteps ==
    ASSUME Exclusive, LInv, [Next]_vars
    PROVE  Stays \/ Writes \/ Grants
<1>0. IInv /\ TypeOK
  BY DEF LInv, IInv
<1>req. \A r \in Slots : req[r] \in Request
  BY <1>0 DEF TypeOK
<1>1. ASSUME NEW t \in Tasks, NEW row, task' = [task EXCEPT ![t] = row], grants' = grants, Moved(t, row)
      PROVE  Writes
  BY <1>1 DEF Writes, Moved
<1>2. ASSUME NEW r \in Slots, CreateInsert(r) PROVE Writes
  <2>1. /\ req[r].t \in Tasks /\ req[r].sub \in Submitted /\ req[r].status = "ready"
        /\ task[req[r].t] = NoRow
    BY <1>0, <1>req, <1>2, RequestFields DEF CreateInsert, LInv, IInv, HandlersExclusive, LocalsCurrent
  <2>2. Moved(req[r].t, NewRow(req[r].sub, "ready"))
    BY <2>1, InsertedMoves
  <2> QED BY <1>1, <1>2, <2>1, <2>2 DEF CreateInsert
<1>3. ASSUME NEW r \in Slots, ClaimUpdate(r) PROVE Stays \/ Grants
  <2>1. /\ req[r].t \in Tasks /\ req[r].agent \in Callers /\ req[r].version + 1 \in Nat
        /\ task[req[r].t].status = "ready"
    BY <1>req, <1>3, RequestFields DEF ClaimUpdate, LInv, HandlersExclusive
  <2>2. CASE task[req[r].t].version = req[r].version
    BY <1>3, <2>1, <2>2, ClaimGrants DEF ClaimUpdate
  <2>3. CASE task[req[r].t].version # req[r].version
    BY <1>3, <2>3 DEF ClaimUpdate, Stays
  <2> QED BY <2>2, <2>3
<1>4. ASSUME NEW p \in Callers, NEW t \in Tasks, McpClaim(p, t) PROVE Grants
  <2>1. PICK agent \in OnBehalf(p) :
          /\ task' = [task EXCEPT ![t] = Claimed(task[t], "claimed", agent, task[t].version + 1)]
          /\ GrantLease(t, agent, p)
    BY <1>4 DEF McpClaim
  <2>2. agent \in Callers
    BY <2>1 DEF OnBehalf, Callers
  <2>3. task[t].status = "ready" /\ task[t].version + 1 \in Nat
    BY <1>0, <1>4, RowOf DEF McpClaim, Row, Status
  <2> QED BY <2>1, <2>2, <2>3, ClaimGrants
<1>5. ASSUME NEW r \in Slots, HeartbeatWrite(r) PROVE Writes
  <2>1. req[r].t \in Tasks /\ task[req[r].t].status \in Working
    BY <1>0, <1>req, <1>5, RequestFields DEF HeartbeatWrite, IInv, LocalsCurrent
  <2>2. task[req[r].t] \in Row /\ Tidy(task[req[r].t])
    BY <2>1, RowHere, Statuses DEF Working
  <2>3. Moved(req[r].t, Heartbeaten(task[req[r].t]))
    BY <2>1, <2>2, HeartbeatenRow, HeldMoves, Statuses DEF Working
  <2> QED BY <1>1, <1>5, <2>1, <2>3 DEF HeartbeatWrite
<1>6. ASSUME NEW t \in Tasks, NEW p \in Callers, NEW eff \in OnBehalf(p), NEW l \in Presentable(p, t),
             Finishable(p, eff, t, l)
      PROVE  /\ task[t] \in Row /\ task[t].status \in InProgress /\ Tidy(task[t])
             /\ task[t].finalized_by = NoOne
             /\ Coalesce(task[t].claimed_by, eff) \in Callers
  <2>1. task[t] \in Row /\ task[t].status \in InProgress /\ task[t].claimed_by \in Callers
    BY <1>0, <1>6, FinisherIsClaimant
  <2>2. Tidy(task[t])
    BY <2>1, RowIsPresent, RowHere
  <2>3. task[t].finalized_by = NoOne
    BY <2>1, <2>2, Phases DEF Tidy
  <2> QED BY <2>1, <2>2, <2>3, PrincipalsAssumption DEF Coalesce
<1>7. ASSUME NEW r \in Slots, CompleteApply(r) PROVE Stays \/ Writes
  <2> DEFINE t == req[r].t
             p == req[r].by
             eff == req[r].eff
  <2>1. /\ t \in Tasks /\ p \in Callers /\ eff \in OnBehalf(p)
        /\ req[r].lease \in Presentable(p, t)
    BY <1>0, <1>req, <1>7, RequestFields DEF CompleteApply, IInv, LocalsCurrent
  <2>2. CASE ~Finishable(p, eff, t, req[r].lease)
    BY <1>7, <2>2 DEF CompleteApply, Stays
  <2>3. CASE Finishable(p, eff, t, req[r].lease)
    <3>0. /\ grants' = grants
          /\ \/ task' = [task EXCEPT ![t].status = "waiting_review"]
             \/ task' = [task EXCEPT ![t] = Finalized(task[t], "finished", Coalesce(task[t].claimed_by, eff))]
      BY <1>7, <2>3 DEF CompleteApply
    <3> HIDE DEF t, p, eff
    <3>1. /\ task[t] \in Row /\ task[t].status \in InProgress /\ Tidy(task[t])
          /\ task[t].finalized_by = NoOne
          /\ Coalesce(task[t].claimed_by, eff) \in Callers
      BY <1>6, <2>1, <2>3
    <3>2. CASE task' = [task EXCEPT ![t].status = "waiting_review"]
      <4> DEFINE row == [task[t] EXCEPT !.status = "waiting_review"]
      <4>1. "waiting_review" \in Status
        BY Statuses DEF Status
      <4>2. /\ row \in Row /\ row.status = "waiting_review" /\ row.lease = task[t].lease
            /\ row.finalized_by = task[t].finalized_by
        BY <3>1, <4>1, RelabelledRow
      <4>3. task' = [task EXCEPT ![t] = row]
        BY <3>2
      <4> HIDE DEF row
      <4>4. Moved(t, row)
        BY <2>1, <3>1, <4>2, HeldMoves, Statuses
      <4> QED BY <1>1, <2>1, <3>0, <4>3, <4>4
    <3>3. CASE task' = [task EXCEPT ![t] = Finalized(task[t], "finished", Coalesce(task[t].claimed_by, eff))]
      <4>1. Moved(t, Finalized(task[t], "finished", Coalesce(task[t].claimed_by, eff)))
        BY <2>1, <3>1, FinalizedMoves
      <4> QED BY <1>1, <2>1, <3>0, <3>3, <4>1
    <3> QED BY <3>0, <3>2, <3>3
  <2> QED BY <2>2, <2>3
<1>8. ASSUME NEW p \in Callers, NEW t \in Tasks, Fail(p, t) PROVE Writes
  <2>1. PICK eff \in OnBehalf(p), l \in Presentable(p, t) :
          /\ Finishable(p, eff, t, l)
          /\ task' = [task EXCEPT ![t] =
                        Finalized(task[t], "failed", Coalesce(task[t].claimed_by, eff))]
    BY <1>8 DEF Fail
  <2>2. Moved(t, Finalized(task[t], "failed", Coalesce(task[t].claimed_by, eff)))
    BY <1>6, <2>1, FinalizedMoves
  <2> QED BY <1>1, <1>8, <2>1, <2>2 DEF Fail
<1>9. ASSUME NEW p \in Callers, NEW t \in Tasks, Block(p, t) PROVE Writes
  <2>1. task[t].status \in Working
    BY <1>9 DEF Block
  <2>2. task[t] \in Row /\ Tidy(task[t])
    BY <2>1, RowHere, Statuses DEF Working
  <2> QED BY <1>1, <1>9, <2>1, <2>2, BlockedMoves DEF Block
<1>10. ASSUME NEW p \in Callers, NEW t \in Tasks, UnblockTask(p, t) PROVE Writes
  <2>1. task[t].status = "blocked"
    BY <1>10 DEF UnblockTask
  <2>2. task[t] \in Row /\ Tidy(task[t])
    BY <2>1, RowHere, Statuses
  <2> QED BY <1>1, <1>10, <2>1, <2>2, UnblockedMoves DEF UnblockTask
<1>11. ASSUME NEW p \in Callers, NEW t \in Tasks, Cancel(p, t) PROVE Writes
  <2>1. task[t] \in Row /\ Tidy(task[t]) /\ task[t].status \in Status \ {"finished", "cancelled"}
    BY <1>11, RowHere DEF Cancel
  <2>2. Coalesce(task[t].finalized_by, p) \in Callers
        /\ task[t].finalized_by \in {NoOne, Coalesce(task[t].finalized_by, p)}
    BY <2>1 DEF Coalesce, Row
  <2>3. Moved(t, Finalized(task[t], "cancelled", Coalesce(task[t].finalized_by, p)))
    BY <2>1, <2>2, FinalizedMoves
  <2> QED BY <1>1, <1>11, <2>3 DEF Cancel, Canceller
<1>12. ASSUME NEW p \in Callers, NEW t \in Tasks, Retry(p, t) PROVE Writes
  <2>1. task[t].status \in {"failed", "cancelled"}
    BY <1>12 DEF Retry, Retryable
  <2>2. task[t] \in Row
    BY <2>1, RowHere, Statuses
  <2> QED BY <1>1, <1>12, <2>1, <2>2, RetriedMoves DEF Retry
<1>13. ASSUME NEW r \in Slots, DispatchWrite(r) PROVE Writes
  <2>1. req[r].t \in Tasks /\ task[req[r].t] # NoRow
    BY <1>0, <1>req, <1>13, RequestFields DEF DispatchWrite, IInv, RowsExist, RowPcs
  <2>2. Moved(req[r].t, [task[req[r].t] EXCEPT !.status = "finished"])
    BY <2>1, RowHere, DispatchedMoves
  <2> QED BY <1>1, <1>13, <2>1, <2>2 DEF DispatchWrite
<1>14. ASSUME NEW r \in Slots, ResolveApply(r) PROVE Stays \/ Writes
  <2> DEFINE t == gate[req[r].g].task
  <2>1. t \in Tasks
    BY <1>0, <1>14, DecidedTask DEF ResolveApply, IInv
  <2>2. CASE task[t].status # "waiting_review"
    BY <1>14, <2>2 DEF ResolveApply, Stays
  <2>3. CASE task[t].status = "waiting_review"
    <3>0. /\ grants' = grants
          /\ \E s \in {"finished", "failed"} :
               task' = [task EXCEPT ![t] = Finalized(task[t], s,
                          Coalesce(task[t].claimed_by, Coalesce(task[t].finalized_by, req[r].by)))]
      BY <1>14, <2>3 DEF ResolveApply
    <3> DEFINE who == Coalesce(task[t].claimed_by, Coalesce(task[t].finalized_by, req[r].by))
    <3> HIDE DEF t
    <3>1. task[t] \in Row /\ Tidy(task[t]) /\ task[t].status \in InProgress
      BY <2>1, <2>3, RowHere, Statuses
    <3>2. task[t].finalized_by = NoOne
      BY <3>1, Phases DEF Tidy
    <3>3. who \in Callers
      BY <1>0, <2>1, <3>1, PrincipalsAssumption DEF Coalesce, IInv, InProgressOwned, Row
    <3> HIDE DEF who
    <3>4. PICK s \in {"finished", "failed"} : task' = [task EXCEPT ![t] = Finalized(task[t], s, who)]
      BY <3>0 DEF who
    <3>5. Moved(t, Finalized(task[t], s, who))
      BY <2>1, <3>1, <3>2, <3>3, FinalizedMoves
    <3> QED BY <1>1, <2>1, <3>0, <3>4, <3>5
  <2> QED BY <2>2, <2>3
<1>15. ASSUME NEW t \in Tasks, LeaseLapses(t) PROVE Writes
  <2>1. task[t] \in Row /\ Tidy(task[t])
    BY <1>0, <1>15, RowOf, RowHere DEF LeaseLapses
  <2> QED BY <1>1, <1>15, <2>1, LapsedMoves DEF LeaseLapses
<1>16. ASSUME NEW t \in Tasks, ExpireStaleLease(t) PROVE Writes
  <2>1. task[t].status \in Working
    BY <1>16 DEF ExpireStaleLease, Sweepable
  <2>2. task[t] \in Row /\ Tidy(task[t])
    BY <2>1, RowHere, Statuses DEF Working
  <2> QED BY <1>1, <1>16, <2>1, <2>2, ExpiredMoves DEF ExpireStaleLease
<1>17. ASSUME NEW r \in Slots, NEW p \in Callers, Call(r, p) PROVE Stays
  BY <1>17 DEF Stays, Call, CreateRead, ClaimRead, HeartbeatFence, ProgressFence, CompleteSnapshot,
         DispatchRead, GateSnapshot, ResolveGate
<1>18. ASSUME NEW r \in Slots,
              \/ ClaimLock(r) \/ ProgressSeq(r) \/ ProgressInsert(r) \/ UnblockSelect(r)
              \/ UnblockCheck(r) \/ UnblockError(r) \/ GateInsert(r) \/ ResolveAgg(r) \/ Abort(r)
       PROVE  Stays
  BY <1>18 DEF Stays, ClaimLock, ProgressSeq, ProgressInsert, UnblockSelect, UnblockCheck,
         UnblockError, GateInsert, ResolveAgg, Abort
<1>19. ASSUME NEW r \in Slots PROVE ~ClaimBroadcast(r) /\ ~UnblockWrite(r)
  BY DEF LInv, HandlersExclusive, ClaimBroadcast, UnblockWrite
<1>20. CASE UNCHANGED vars
  BY <1>20 DEF vars, Stays
<1> QED
  BY <1>2, <1>3, <1>4, <1>5, <1>7, <1>8, <1>9, <1>10, <1>11, <1>12, <1>13, <1>14, <1>15, <1>16,
     <1>17, <1>18, <1>19, <1>20 DEF Next, Step, AtomicCall

-----------------------------------------------------------------------------
(* The invariant is inductive.                                             *)

(* What a request that a handler has just moved to has to be.              *)
Proper(q) ==
    /\ q.pc \notin {"claim_broadcast", "unblock_write"}
    /\ q.pc = "unblock_check" => q.todo = {}
    /\ q.pc = "create_insert" => q.status = "ready"
    /\ q.pc = "claim_update" => task'[q.t].status = "ready"

Harmless ==
    {"idle", "claim_lock", "dispatch_write", "heartbeat_write", "progress_seq", "progress_insert",
     "complete_apply", "gate_insert", "resolve_agg", "resolve_apply", "unblock_select"}

LEMMA NoDependencies ==
    ASSUME Exclusive, TypeOK
    PROVE  /\ \A deps \in DepLists : deps = <<>> /\ DepsFinished(deps)
           /\ \A t \in Tasks : task[t] # NoRow => Range(task[t].depends_on) = {}
           /\ \A t \in Tasks : task[t] # NoRow => task[t].claim_policy # "broadcast"
<1>1. Range(<<>>) = {} /\ Len(<<>>) = 0
  BY DEF Range
<1>2. Cardinality({}) = 0
  BY FS_EmptySet
<1>3. \A deps \in DepLists : deps = <<>>
  BY DEF Exclusive
<1>4. DepsFinished(<<>>)
  BY <1>1, <1>2 DEF DepsFinished
<1>5. \A t \in Tasks : task[t] # NoRow => task[t].depends_on \in DepLists /\ task[t].claim_policy \in Policies
  BY RowOf DEF Row
<1> QED BY <1>1, <1>3, <1>4, <1>5 DEF Exclusive

(* A step leaves the slots alone or moves one of them to a proper request. *)
LEMMA ProperMoves ==
    ASSUME Exclusive, LInv, [Next]_vars
    PROVE  req' = req \/ \E r \in Slots, q \in Request : req' = [req EXCEPT ![r] = q] /\ Proper(q)
<1> DEFINE Goal == req' = req \/ \E r \in Slots, q \in Request :
                                   req' = [req EXCEPT ![r] = q] /\ Proper(q)
<1>0. IInv /\ TypeOK
  BY DEF LInv, IInv
<1>moves. req' = req \/ \E r \in Slots, q \in Request : req' = [req EXCEPT ![r] = q]
  BY <1>0, RequestSteps DEF Moves, Admissible
<1>1. ASSUME NEW r \in Slots, NEW q, req' = [req EXCEPT ![r] = q], Proper(q) PROVE Goal
  <2>1. q \in Request \/ req' = req
    <3>1. CASE req' # req
      <4>1. PICK u \in Slots, o \in Request : req' = [req EXCEPT ![u] = o]
        BY <1>moves, <3>1
      <4>2. req'[r] = q /\ \A v \in Slots : v # r => req'[v] = req[v]
        BY <1>0, <1>1 DEF TypeOK
      <4>3. \A v \in Slots : req'[v] \in Request
        BY <1>0, <4>1 DEF TypeOK
      <4> QED BY <4>2, <4>3
    <3> QED BY <3>1
  <2> QED BY <1>1, <2>1
<1>2. ASSUME NEW r \in Slots, NEW q, Goto(r, q) \/ Enter(r, q), Proper(q) PROVE Goal
  BY <1>1, <1>2 DEF Goto, Enter
<1>3. \A q : q.pc \in Harmless => Proper(q)
  BY DEF Harmless, Proper
<1>4. ASSUME NEW r \in Slots, Return(r) PROVE Goal
  <2>1. Proper(Idle)
    BY <1>3 DEF Harmless, Idle
  <2> QED BY <1>1, <1>4, <2>1 DEF Return
<1>5. ASSUME NEW r \in Slots, NEW p \in Callers, NEW t \in Tasks, CreateRead(r, p, t) PROVE Goal
  <2>1. PICK policy \in Policies, deps \in DepLists :
          Enter(r, [pc |-> "create_insert", t |-> t,
                    sub |-> [claim_policy |-> policy, depends_on |-> deps, created_by |-> p],
                    status |-> IF DepsFinished(deps) THEN "ready" ELSE "pending"])
    BY <1>5 DEF CreateRead
  <2>2. DepsFinished(deps)
    BY <1>0, NoDependencies
  <2> DEFINE q == [pc |-> "create_insert", t |-> t,
                   sub |-> [claim_policy |-> policy, depends_on |-> deps, created_by |-> p],
                   status |-> "ready"]
  <2>3. Enter(r, q)
    BY <2>1, <2>2
  <2>4. Proper(q)
    BY DEF Proper
  <2> HIDE DEF q
  <2> QED BY <1>2, <2>3, <2>4
<1>6. ASSUME NEW r \in Slots, NEW p \in Callers, NEW t \in Tasks, ClaimRead(r, p, t) PROVE Goal
  <2>1. task[t] # NoRow
    BY <1>6, Statuses DEF ClaimRead
  <2>2. task[t].claim_policy # "broadcast"
    BY <1>0, <2>1, NoDependencies
  <2>3. PICK agent \in OnBehalf(p) :
          Enter(r, [pc |-> "claim_lock", t |-> t, by |-> p, agent |-> agent])
    BY <1>6, <2>2 DEF ClaimRead
  <2>4. Proper([pc |-> "claim_lock", t |-> t, by |-> p, agent |-> agent])
    BY <1>3 DEF Harmless
  <2> QED BY <1>2, <2>3, <2>4
<1>7. ASSUME NEW r \in Slots, ClaimLock(r) PROVE Goal
  <2> DEFINE q == [pc |-> "claim_update", t |-> req[r].t, by |-> req[r].by, agent |-> req[r].agent,
                   version |-> task[req[r].t].version]
  <2>1. CASE Lockable(req[r].t)
    <3>1. Goto(r, q) /\ task' = task
      BY <1>7, <2>1 DEF ClaimLock
    <3>2. Proper(q)
      BY <2>1, <3>1 DEF Proper, Lockable
    <3> HIDE DEF q
    <3> QED BY <1>2, <3>1, <3>2
  <2>2. CASE ~Lockable(req[r].t)
    BY <1>4, <1>7, <2>2 DEF ClaimLock
  <2> QED BY <2>1, <2>2
<1>8. ASSUME NEW r \in Slots, UnblockSelect(r) PROVE Goal
  <2> DEFINE q == [pc |-> "unblock_check", t |-> req[r].t,
                   todo |-> {c \in Tasks : /\ task[c].status \in Held
                                           /\ req[r].t \in Range(task[c].depends_on)}]
  <2>1. \A c \in Tasks : task[c].status \in Held => Range(task[c].depends_on) = {}
    BY <1>0, Statuses, NoDependencies DEF Held
  <2>2. Goto(r, q)
    BY <1>8 DEF UnblockSelect
  <2>3. Proper(q)
    BY <2>1 DEF Proper
  <2> HIDE DEF q
  <2> QED BY <1>2, <2>2, <2>3
<1>9. ASSUME NEW r \in Slots, UnblockCheck(r) PROVE Goal
  <2>1. req[r].todo = {}
    BY <1>9 DEF UnblockCheck, LInv, HandlersExclusive
  <2> QED BY <1>4, <1>9, <2>1 DEF UnblockCheck
<1>10. ASSUME NEW r \in Slots, ProgressSeq(r) PROVE Goal
  <2>1. Proper([pc |-> "progress_insert", t |-> req[r].t, seq |-> NextSeq(progress[req[r].t])])
    BY <1>3 DEF Harmless
  <2> QED BY <1>2, <1>10, <2>1 DEF ProgressSeq
<1>11. ASSUME NEW r \in Slots, NEW t, Goto(r, [pc |-> "unblock_select", t |-> t]) PROVE Goal
  <2>1. Proper([pc |-> "unblock_select", t |-> t])
    BY <1>3 DEF Harmless
  <2> QED BY <1>2, <1>11, <2>1
<1>12. ASSUME NEW r \in Slots, CompleteApply(r) PROVE Goal
  BY <1>4, <1>11, <1>12 DEF CompleteApply
<1>13. ASSUME NEW r \in Slots, ResolveApply(r) PROVE Goal
  BY <1>4, <1>11, <1>13 DEF ResolveApply
<1>14. ASSUME NEW r \in Slots, ResolveAgg(r) PROVE Goal
  <2> DEFINE rejected == AnyRejected(Decided(r), gate[req[r].g].task)
             q == [pc |-> "resolve_apply", g |-> req[r].g, by |-> req[r].by,
                   decision |-> req[r].decision, any_rejected |-> rejected]
  <2>1. Goto(r, q) \/ Return(r)
    BY <1>14 DEF ResolveAgg
  <2>2. Proper(q)
    BY <1>3 DEF Harmless
  <2> HIDE DEF q
  <2> QED BY <1>2, <1>4, <2>1, <2>2
<1>15. ASSUME NEW r \in Slots,
              \/ CreateInsert(r) \/ ClaimUpdate(r) \/ HeartbeatWrite(r) \/ ProgressInsert(r)
              \/ DispatchWrite(r) \/ GateInsert(r) \/ Abort(r)
       PROVE  Goal
  BY <1>4, <1>15 DEF CreateInsert, ClaimUpdate, HeartbeatWrite, ProgressInsert, DispatchWrite,
     GateInsert, Abort
<1>16. ASSUME NEW r \in Slots, NEW p \in Callers, NEW t \in Tasks,
              HeartbeatFence(r, p, t) \/ ProgressFence(r, p, t) \/ DispatchRead(r, p, t)
       PROVE  Goal
  <2>1. \A pc \in {"heartbeat_write", "progress_seq", "dispatch_write"} : Proper([pc |-> pc, t |-> t])
    BY <1>3 DEF Harmless
  <2> QED BY <1>2, <1>16, <2>1 DEF HeartbeatFence, ProgressFence, DispatchRead
<1>17. ASSUME NEW r \in Slots, NEW p \in Callers, NEW t \in Tasks, CompleteSnapshot(r, p, t) PROVE Goal
  <2>1. PICK eff \in OnBehalf(p), l \in Presentable(p, t) :
          Enter(r, [pc |-> "complete_apply", t |-> t, by |-> p, eff |-> eff, lease |-> l,
                    has_pending |-> HasPendingGate(t)])
    BY <1>17 DEF CompleteSnapshot
  <2>2. Proper([pc |-> "complete_apply", t |-> t, by |-> p, eff |-> eff, lease |-> l,
                has_pending |-> HasPendingGate(t)])
    BY <1>3 DEF Harmless
  <2> QED BY <1>2, <2>1, <2>2
<1>18. ASSUME NEW r \in Slots, NEW p \in Callers, NEW t \in Tasks, NEW g \in Gates, GateSnapshot(r, p, t, g)
       PROVE  Goal
  <2>1. Proper([pc |-> "gate_insert", t |-> t, by |-> p, g |-> g])
    BY <1>3 DEF Harmless
  <2> QED BY <1>2, <1>18, <2>1 DEF GateSnapshot
<1>19. ASSUME NEW r \in Slots, NEW p \in Callers, NEW g \in Gates, ResolveGate(r, p, g) PROVE Goal
  <2>1. PICK decision \in {"approved", "rejected"} :
          Enter(r, [pc |-> "resolve_agg", g |-> g, by |-> p, decision |-> decision])
    BY <1>19 DEF ResolveGate
  <2>2. Proper([pc |-> "resolve_agg", g |-> g, by |-> p, decision |-> decision])
    BY <1>3 DEF Harmless
  <2> QED BY <1>2, <2>1, <2>2
<1>20. ASSUME NEW p \in Callers, NEW t \in Tasks, AtomicCall(p, t) PROVE Goal
  BY <1>20 DEF AtomicCall, McpClaim, Fail, Block, UnblockTask, Cancel, Retry
<1>21. ASSUME NEW t \in Tasks, LeaseLapses(t) \/ ExpireStaleLease(t) PROVE Goal
  BY <1>21 DEF LeaseLapses, ExpireStaleLease
<1>22. CASE UNCHANGED vars
  BY <1>22 DEF vars
<1>23. ASSUME NEW r \in Slots PROVE ~ClaimBroadcast(r) /\ ~UnblockWrite(r)
  BY DEF LInv, HandlersExclusive, ClaimBroadcast, UnblockWrite
<1>24. ASSUME NEW r \in Slots, UnblockError(r) PROVE Goal
  <2>1. PICK todo \in WithoutStatement(req[r]) :
          Goto(r, [pc |-> "unblock_check", t |-> req[r].t, todo |-> todo])
    BY <1>24 DEF UnblockError
  <2>2. \/ req[r].pc = "unblock_select"
        \/ req[r].pc = "unblock_check" /\ req[r].todo = {}
    BY <1>24 DEF UnblockError, LInv, HandlersExclusive
  <2>3. todo = {}
    BY <2>1, <2>2 DEF WithoutStatement
  <2>4. Proper([pc |-> "unblock_check", t |-> req[r].t, todo |-> todo])
    BY <2>3 DEF Proper
  <2> QED BY <1>2, <2>1, <2>4
<1> QED
  BY <1>5, <1>6, <1>7, <1>8, <1>9, <1>10, <1>12, <1>13, <1>14, <1>15, <1>16, <1>17, <1>18,
     <1>19, <1>20, <1>21, <1>22, <1>23, <1>24 DEF Next, Step, Call

LEMMA RowsTidyAfter ==
    ASSUME LInv, Stays \/ Writes \/ Grants
    PROVE  RowsTidy'
<1>0. TypeOK /\ RowsTidy
  BY DEF LInv, IInv
<1>1. CASE Stays
  BY <1>0, <1>1 DEF Stays, RowsTidy, Tidy
<1>2. ASSUME NEW t \in Tasks, NEW row \in Row, task' = [task EXCEPT ![t] = row], Tidy(row)
      PROVE  RowsTidy'
  <2>1. task'[t] = row /\ \A u \in Tasks : u # t => task'[u] = task[u]
    BY <1>0, <1>2 DEF TypeOK
  <2> QED BY <1>0, <1>2, <2>1 DEF RowsTidy, Tidy
<1>3. CASE Writes
  BY <1>2, <1>3 DEF Writes, Moved
<1>4. CASE Grants
  <2>1. PICK t \in Tasks, row \in Row :
          /\ task' = [task EXCEPT ![t] = row]
          /\ task[t].status = "ready" /\ task[t] # NoRow
          /\ row.status \in Working /\ row.lease = Len(grants) + 1
          /\ row.finalized_by = task[t].finalized_by
    BY <1>4 DEF Grants
  <2>2. row.finalized_by = NoOne
    BY <1>0, <2>1, Phases DEF RowsTidy, Tidy
  <2>3. PhaseOf(row) = "held"
    BY <2>1, Phases, Statuses
  <2> QED BY <1>2, <2>1, <2>2, <2>3 DEF Tidy
<1> QED BY <1>1, <1>3, <1>4

LEMMA HandlersAfter ==
    ASSUME Exclusive, LInv, [Next]_vars
    PROVE  HandlersExclusive'
<1>0. IInv /\ TypeOK /\ HandlersExclusive
  BY DEF LInv, IInv
<1> SUFFICES ASSUME NEW s \in Slots PROVE Proper(req'[s])
  BY DEF HandlersExclusive, Proper
<1>1. CASE req'[s] # req[s]
  <2>1. PICK r \in Slots, q \in Request : req' = [req EXCEPT ![r] = q] /\ Proper(q)
    BY <1>1, ProperMoves
  <2>2. req'[s] = q
    BY <1>0, <1>1, <2>1 DEF TypeOK
  <2> QED BY <2>1, <2>2
<1>2. CASE req'[s] = req[s]
  <2>1. ASSUME req[s].pc = "claim_update" PROVE task'[req[s].t].status = "ready"
    <3>1. req[s] \in Request
      BY <1>0 DEF TypeOK
    <3>2. req[s].t \in Tasks /\ task[req[s].t].status = "ready" /\ task[req[s].t] # NoRow
      BY <1>0, <2>1, <3>1, RequestFields, Statuses DEF HandlersExclusive
    <3>3. ASSUME NEW r \in Slots, Return(r) PROVE s # r
      <4>1. req'[r] = Idle /\ Idle.pc = "idle"
        BY <1>0, <3>3 DEF Return, TypeOK, Idle
      <4> QED BY <1>2, <2>1, <4>1
    <3>4. Licensed(req[s].t) => task'[req[s].t].status = task[req[s].t].status
      BY <1>0, <2>1, <3>2, <3>3 DEF Licensed, Locked, LockPcs, IInv, OneHolder
    <3> QED BY <1>0, <3>2, <3>4, OneWriter
  <2> QED BY <1>0, <1>2, <2>1 DEF Proper, HandlersExclusive
<1> QED BY <1>1, <1>2

LEMMA InitLInv == ASSUME Exclusive PROVE Init => LInv
<1> SUFFICES ASSUME Init PROVE LInv
  OBVIOUS
<1>1. IInv
  BY InitInv
<1>2. HandlersExclusive
  BY DEF Init, Idle, HandlersExclusive
<1>3. RowsTidy
  <2> SUFFICES ASSUME NEW t \in Tasks, task[t] # NoRow PROVE Tidy(task[t])
    BY DEF RowsTidy
  <2>1. task[t].lease = NoLease /\ task[t].finalized_by = NoOne
    BY DEF Init, NewRow
  <2> QED BY <2>1 DEF Tidy
<1> QED BY <1>1, <1>2, <1>3 DEF LInv

LEMMA StepLInv == ASSUME Exclusive PROVE LInv /\ [Next]_vars => LInv'
<1> SUFFICES ASSUME LInv, [Next]_vars PROVE LInv'
  OBVIOUS
<1>1. IInv'
  BY StepInv DEF LInv
<1>2. HandlersExclusive' /\ RowsTidy'
  BY HandlersAfter, LeaseSteps, RowsTidyAfter
<1> QED BY <1>1, <1>2 DEF LInv

-----------------------------------------------------------------------------
(* The refinement mapping, step by step.                                   *)

LEMMA InitRefines == ASSUME Exclusive PROVE Init => Lease!Init
<1> SUFFICES ASSUME Init PROVE Lease!Init
  OBVIOUS
<1>1. ASSUME NEW t \in Tasks
      PROVE  PhaseOf(task[t]) \in {"absent", "open"} /\ HeldLease(task[t]) = 0
  <2>1. CASE t \in DOMAIN Seed
    <3>1. Seed[t] \in Submitted
      BY <2>1, SubmissionAssumption
    <3>2. Seed[t].depends_on = <<>>
      BY <3>1 DEF Submitted, Exclusive
    <3>3. task[t].status = "ready"
      BY <2>1, <3>2 DEF Init, NewRow
    <3> QED BY <3>3, Phases, HeldLeases, Statuses DEF NoLease
  <2>2. CASE t \notin DOMAIN Seed
    <3>1. task[t].status = "absent"
      BY <2>2, Statuses DEF Init
    <3> QED BY <3>1, Phases, HeldLeases, Statuses DEF NoLease
  <2> QED BY <2>1, <2>2
<1>2. Len(grants) = 0
  BY DEF Init
<1> QED BY <1>1, <1>2 DEF Lease!Init

LEMMA MapsAfter ==
    ASSUME TypeOK, NEW t \in Tasks, NEW row, task' = [task EXCEPT ![t] = row]
    PROVE  /\ PhaseMap' = [PhaseMap EXCEPT ![t] = PhaseOf(row)]
           /\ LeaseMap' = [LeaseMap EXCEPT ![t] = HeldLease(row)]
           /\ PhaseMap[t] = PhaseOf(task[t]) /\ LeaseMap[t] = HeldLease(task[t])
<1>1. \A u \in Tasks : task'[u] = IF u = t THEN row ELSE task[u]
  BY DEF TypeOK
<1>2. \A u \in Tasks :
        /\ PhaseOf(task'[u]) = IF u = t THEN PhaseOf(row) ELSE PhaseOf(task[u])
        /\ HeldLease(task'[u]) = IF u = t THEN HeldLease(row) ELSE HeldLease(task[u])
  BY <1>1
<1> QED BY <1>2 DEF PhaseMap, LeaseMap

(* An arrow is one of the moves of the abstract protocol.                  *)
LEMMA ArrowRefines ==
    ASSUME TypeOK, NEW t \in Tasks, NEW row, task' = [task EXCEPT ![t] = row], grants' = grants,
           <<PhaseOf(task[t]), PhaseOf(row)>> \in Arrows, HeldLease(row) = NoLease
    PROVE  Lease!Next
<1> DEFINE from == PhaseOf(task[t])
           to == PhaseOf(row)
<1>1. /\ PhaseMap' = [PhaseMap EXCEPT ![t] = to] /\ PhaseMap[t] = from
      /\ LeaseMap' = [LeaseMap EXCEPT ![t] = 0]
  BY MapsAfter DEF NoLease
<1>2. Len(grants') = Len(grants)
  OBVIOUS
<1>3. <<from, to>> \in Arrows
  OBVIOUS
<1> HIDE DEF from, to
<1>4. ASSUME NEW F, NEW T, from \in F, to \in T PROVE Lease!Move(t, F, T)
  BY <1>1, <1>2, <1>4 DEF Lease!Move, PhaseMap, LeaseMap
<1>5. CASE from = "absent" /\ to = "open"
  BY <1>4, <1>5 DEF Lease!Next, Lease!Create
<1>6. CASE from = "held" /\ to \in {"open", "parked"}
  BY <1>4, <1>6 DEF Lease!Next, Lease!Release
<1>7. CASE from = "parked" /\ to = "open"
  BY <1>4, <1>7 DEF Lease!Next, Lease!Unpark
<1>8. CASE from \in {"open", "parked", "held"} /\ to = "stopped"
  BY <1>4, <1>8 DEF Lease!Next, Lease!Stop
<1>9. CASE from = "stopped" /\ to = "open"
  BY <1>4, <1>9 DEF Lease!Next, Lease!Reopen
<1>10. CASE from \in {"open", "parked", "held", "stopped"} /\ to = "finished"
  BY <1>4, <1>10 DEF Lease!Next, Lease!Finish
<1> QED BY <1>3, <1>5, <1>6, <1>7, <1>8, <1>9, <1>10 DEF Arrows

LEMMA StepRefines ==
    ASSUME LInv, Stays \/ Writes \/ Grants
    PROVE  Lease!Next \/ UNCHANGED <<PhaseMap, LeaseMap, Len(grants)>>
<1>0. TypeOK
  BY DEF LInv, IInv
<1>1. CASE Stays
  BY <1>1 DEF Stays, PhaseMap, LeaseMap
<1>2. CASE Writes
  <2>1. PICK t \in Tasks, row \in Row :
          grants' = grants /\ task' = [task EXCEPT ![t] = row] /\ Moved(t, row)
    BY <1>2 DEF Writes
  <2>2. CASE PhaseOf(row) = PhaseOf(task[t]) /\ HeldLease(row) = HeldLease(task[t])
    <3>1. PhaseMap' = PhaseMap /\ LeaseMap' = LeaseMap
      BY <1>0, <2>1, <2>2, MapsAfter DEF PhaseMap, LeaseMap
    <3> QED BY <2>1, <3>1
  <2>3. CASE <<PhaseOf(task[t]), PhaseOf(row)>> \in Arrows /\ HeldLease(row) = NoLease
    BY <1>0, <2>1, <2>3, ArrowRefines
  <2> QED BY <2>1, <2>2, <2>3 DEF Moved
<1>3. CASE Grants
  <2>1. PICK t \in Tasks, row \in Row :
          /\ task' = [task EXCEPT ![t] = row]
          /\ task[t].status = "ready" /\ task[t] # NoRow
          /\ row.status \in Working /\ row.lease = Len(grants) + 1
    BY <1>3 DEF Grants
  <2>2. PhaseOf(task[t]) = "open" /\ PhaseOf(row) = "held" /\ HeldLease(row) = Len(grants) + 1
    BY <2>1, Phases, HeldLeases, Statuses
  <2>3. /\ PhaseMap' = [PhaseMap EXCEPT ![t] = PhaseOf(row)] /\ PhaseMap[t] = PhaseOf(task[t])
        /\ LeaseMap' = [LeaseMap EXCEPT ![t] = HeldLease(row)]
    BY <1>0, <2>1, MapsAfter
  <2>4. Len(grants') = Len(grants) + 1
    BY <1>3 DEF Grants
  <2>5. Lease!Grant(t)
    BY <2>2, <2>3, <2>4 DEF Lease!Grant, PhaseMap, LeaseMap
  <2> QED BY <2>5 DEF Lease!Next
<1> QED BY <1>1, <1>2, <1>3

-----------------------------------------------------------------------------
(* What no step does to a row.                                             *)

(* A row in the table stays in the table, and one step of it is one of     *)
(* three: nothing, a move, a grant.                                        *)
LEMMA RowMoves ==
    ASSUME NEW t \in Tasks, LInv, Stays \/ Writes \/ Grants, task[t] # NoRow
    PROVE  \/ task'[t] = task[t]
           \/ \E row \in Row : task'[t] = row /\ Moved(t, row)
           \/ /\ task[t].status = "ready" /\ task[t].lease = NoLease
              /\ task[t].finalized_by = NoOne
<1>0. TypeOK
  BY DEF LInv, IInv
<1>1. CASE Stays
  BY <1>1 DEF Stays
<1>2. ASSUME NEW u \in Tasks, NEW row \in Row, task' = [task EXCEPT ![u] = row]
      PROVE  task'[t] = IF t = u THEN row ELSE task[t]
  BY <1>0, <1>2 DEF TypeOK
<1>3. CASE Writes
  <2>1. PICK u \in Tasks, row \in Row : task' = [task EXCEPT ![u] = row] /\ Moved(u, row)
    BY <1>3 DEF Writes
  <2>2. CASE t = u
    BY <1>2, <2>1, <2>2
  <2>3. CASE t # u
    BY <1>2, <2>1, <2>3
  <2> QED BY <2>2, <2>3
<1>4. CASE Grants
  <2>1. PICK u \in Tasks, row \in Row : task' = [task EXCEPT ![u] = row] /\ task[u].status = "ready"
    BY <1>4 DEF Grants
  <2>2. CASE t = u
    <3>1. task[t].status = "ready" /\ PhaseOf(task[t]) = "open"
      BY <2>1, <2>2, Phases
    <3>2. Tidy(task[t])
      BY RowHere
    <3> QED BY <3>1, <3>2 DEF Tidy
  <2>3. CASE t # u
    BY <1>2, <2>1, <2>3
  <2> QED BY <2>2, <2>3
<1> QED BY <1>1, <1>3, <1>4

LEMMA FinalStep ==
    ASSUME NEW t \in Tasks, LInv, Stays \/ Writes \/ Grants, task[t].status = "finished"
    PROVE  task'[t].status = "finished"
<1>1. task[t] # NoRow
  BY Statuses
<1>2. ASSUME NEW row \in Row, Moved(t, row) PROVE row.status = "finished"
  <2>1. PhaseOf(task[t]) = "finished"
    BY Phases
  <2>2. PhaseOf(row) = "finished"
    BY <1>2, <2>1 DEF Moved, Arrows
  <2>3. row.status \in Status
    BY DEF Row
  <2> QED BY <2>2, <2>3, Statuses, Phases
<1>3. CASE \E row \in Row : task'[t] = row /\ Moved(t, row)
  BY <1>2, <1>3
<1> QED BY <1>1, <1>3, RowMoves

LEMMA AttributionStep ==
    ASSUME NEW t \in Tasks, LInv, Stays \/ Writes \/ Grants, task[t] # NoRow,
           task[t].finalized_by # NoOne
    PROVE  \/ task'[t].finalized_by = task[t].finalized_by
           \/ task[t].status \in {"failed", "cancelled"} /\ task'[t].status = "ready"
  BY RowMoves DEF Moved

LEMMA ReclaimStep ==
    ASSUME NEW t \in Tasks, LInv, Stays \/ Writes \/ Grants, task[t] # NoRow,
           task[t].lease # NoLease
    PROVE  task'[t].lease \in {task[t].lease, NoLease}
  BY RowMoves DEF Moved

-----------------------------------------------------------------------------
(* The theorems.                                                           *)

(* Without broadcast tasks and dependencies, the table of claimable tasks  *)
(* keeps the promise of TaskLease: every handler, in however many steps,   *)
(* moves a task along the protocol or not at all, and every claim hands    *)
(* out a new lease of an open task.                                        *)
THEOREM Refinement == ASSUME Exclusive PROVE Spec => ImplementsTaskLease
<1>1. Init => LInv
  BY InitLInv
<1>2. LInv /\ [Next]_vars => LInv'
  BY StepLInv
<1>3. Init => Lease!Init
  BY InitRefines
<1>4. LInv /\ [Next]_vars =>
        [Lease!Next]_<<[t \in Tasks |-> PhaseOf(task[t])], [t \in Tasks |-> HeldLease(task[t])],
                       Len(grants)>>
  BY LeaseSteps, StepRefines DEF PhaseMap, LeaseMap
<1> QED BY <1>1, <1>2, <1>3, <1>4, PTL DEF Spec, ImplementsTaskLease, Lease!Spec

(* A finished task is finished for good, whichever handlers were already   *)
(* past their checks when it finished (complete, fail, dispatch, sweep).   *)
THEOREM FinalityHolds == ASSUME Exclusive PROVE Spec => FinishedIsFinal
<1>1. Init => LInv
  BY InitLInv
<1>2. LInv /\ [Next]_vars => LInv'
  BY StepLInv
<1>3. LInv /\ [Next]_vars =>
        [\A t \in Tasks : task[t].status = "finished" => task'[t].status = "finished"]_vars
  BY LeaseSteps, FinalStep
<1> QED BY <1>1, <1>2, <1>3, PTL DEF Spec, FinishedIsFinal

(* The finalized_by a terminal transition wrote survives every later one   *)
(* until a retry (the COALESCE of cancel, the fences of complete and fail).*)
THEOREM AttributionSafe == ASSUME Exclusive PROVE Spec => AttributionKept
<1>1. Init => LInv
  BY InitLInv
<1>2. LInv /\ [Next]_vars => LInv'
  BY StepLInv
<1>3. LInv /\ [Next]_vars =>
        [\A t \in Tasks :
           (task[t] # NoRow /\ task[t].finalized_by # NoOne) =>
              \/ task'[t].finalized_by = task[t].finalized_by
              \/ task[t].status \in {"failed", "cancelled"} /\ task'[t].status = "ready"]_vars
  BY LeaseSteps, AttributionStep
<1> QED BY <1>1, <1>2, <1>3, PTL DEF Spec, AttributionKept

(* No claim replaces a lease that is still on the row: release, expiry or  *)
(* a terminal transition has taken it off first.                           *)
THEOREM ReclaimSafe == ASSUME Exclusive PROVE Spec => ReclaimAfterRelease
<1>1. Init => LInv
  BY InitLInv
<1>2. LInv /\ [Next]_vars => LInv'
  BY StepLInv
<1>3. LInv /\ [Next]_vars =>
        [\A t \in Tasks :
           (task[t] # NoRow /\ task[t].claim_policy # "broadcast" /\ task[t].lease # NoLease) =>
              task'[t].lease \in {task[t].lease, NoLease}]_vars
  BY LeaseSteps, ReclaimStep
<1> QED BY <1>1, <1>2, <1>3, PTL DEF Spec, ReclaimAfterRelease
=============================================================================
