--------------------------- MODULE TaskStepProofs ---------------------------
(* Proofs of what no step of the task table does, whatever the policies    *)
(* and the dependencies: leave a dependent that nobody will release        *)
(* (NobodyForgotten), or change a decision on a review gate                *)
(* (DecisionFinal).                                                        *)
EXTENDS TaskLifecycleProofs

-----------------------------------------------------------------------------
(* A task's dependencies.                                                  *)

(* Every write keeps the list of dependencies, and none makes a task       *)
(* pending that has a row already.                                         *)
LEMMA DependenciesKept ==
    ASSUME IInv, [Next]_vars, NEW t \in Tasks, task[t] # NoRow
    PROVE  /\ task'[t].depends_on = task[t].depends_on
           /\ task'[t].status = "pending" => task[t].status = "pending"
<1>0. /\ TypeOK /\ task[t] \in Row
      /\ \A s \in {"ready", "finished", "waiting_review", "failed", "cancelled"} :
            s \in Status /\ s # "pending"
  BY RowOf DEF IInv, Status, InProgress
<1>1. ASSUME Granting PROVE task'[t] = task[t]
                            \/ \E s \in Working : \E agent, v : task'[t] = Claimed(task[t], s, agent, v)
  BY <1>0, <1>1 DEF Granting, TypeOK
<1>2. ASSUME NEW s \in Working, NEW agent, NEW v, task'[t] = Claimed(task[t], s, agent, v)
      PROVE  task'[t].depends_on = task[t].depends_on /\ task'[t].status # "pending"
  BY <1>0, <1>2 DEF Claimed, Row, Working
<1>3. ASSUME RowStep(t)
      PROVE  \/ task'[t] = task[t]
             \/ \E s \in Status \ {"pending"} : task'[t] = [task[t] EXCEPT !.status = s]
             \/ \E s \in Status \ {"pending"}, p \in Callers \cup {NoOne} :
                  task'[t] = Finalized(task[t], s, p)
             \/ task'[t] \in {Blocked(task[t]), Heartbeaten(task[t]), Expired(task[t])}
             \/ task'[t] = [task[t] EXCEPT !.expires = "lapsed"]
  <2>1. CASE Keeps(t) \/ Inserts(t) \/ Relabels(t)
    BY <1>0, <2>1 DEF Keeps, Inserts, Relabels
  <2>2. CASE Finalizes(t)
    <3>1. task[t].claimed_by \in Callers \cup {NoOne}
      BY <1>0 DEF Row
    <3>2. PICK s \in {"finished", "failed"} : task'[t] = Finalized(task[t], s, task[t].claimed_by)
      BY <2>2 DEF Finalizes
    <3> QED BY <1>0, <3>1, <3>2
  <2>3. CASE Cancels(t)
    <3>1. PICK p \in Callers :
            task'[t] = Finalized(task[t], "cancelled", Coalesce(task[t].finalized_by, p))
      BY <2>3 DEF Cancels
    <3>2. Coalesce(task[t].finalized_by, p) \in Callers \cup {NoOne}
      BY <1>0 DEF Coalesce, Row
    <3> QED BY <1>0, <3>1, <3>2
  <2>4. CASE Retries(t)
    BY <1>0, <2>4 DEF Retries
  <2>5. CASE Rewrites(t) \/ Lapses(t)
    BY <2>5 DEF Rewrites, Lapses
  <2> QED BY <1>3, <2>1, <2>2, <2>3, <2>4, <2>5 DEF RowStep
<1>4. ASSUME NEW s \in Status \ {"pending"},
             \/ task'[t] = [task[t] EXCEPT !.status = s]
             \/ \E p \in Callers \cup {NoOne} : task'[t] = Finalized(task[t], s, p)
      PROVE  task'[t].depends_on = task[t].depends_on /\ task'[t].status # "pending"
  <2>1. CASE task'[t] = [task[t] EXCEPT !.status = s]
    BY <1>0, <2>1 DEF Row
  <2>2. ASSUME NEW p \in Callers \cup {NoOne}, task'[t] = Finalized(task[t], s, p)
        PROVE  task'[t].depends_on = task[t].depends_on /\ task'[t].status # "pending"
    BY <1>0, <2>2 DEF Finalized, Released, Row
  <2> QED BY <1>4, <2>1, <2>2
<1>5. ASSUME task'[t] \in {Blocked(task[t]), Heartbeaten(task[t])}
      PROVE  task'[t].depends_on = task[t].depends_on /\ task'[t].status # "pending"
  BY <1>0, <1>5 DEF Blocked, Heartbeaten, Row
<1>6. ASSUME task'[t] = Expired(task[t])
      PROVE  task'[t].depends_on = task[t].depends_on /\ task'[t].status # "pending"
  <2>1. task'[t].status \in {"failed", "ready"}
    BY <1>0, <1>6, ExpiredRow
  <2>2. task'[t].depends_on = task[t].depends_on
    BY <1>0, <1>6 DEF Expired, Released, Row
  <2> QED BY <2>1, <2>2
<1>7. ASSUME task'[t] = [task[t] EXCEPT !.expires = "lapsed"]
      PROVE  task'[t].depends_on = task[t].depends_on /\ task'[t].status = task[t].status
  BY <1>0, <1>7 DEF Row
<1>8. Granting \/ RowStep(t)
  BY RowSteps DEF Quiet
<1> QED BY <1>1, <1>2, <1>3, <1>4, <1>5, <1>6, <1>7, <1>8

-----------------------------------------------------------------------------
(* Finishing and releasing.                                                *)

(* A handler that finishes a task goes on to release its dependents, but   *)
(* for dispatch_task.                                                      *)
LEMMA FinishHandsOver ==
    ASSUME IInv, [Next]_vars, NEW d \in Tasks, task[d].status # "finished",
           task'[d].status = "finished"
    PROVE  \/ \E r \in Slots : DispatchWrite(r) /\ req[r].t = d
           \/ \E r \in Slots : req'[r] = [pc |-> "unblock_select", t |-> d]
<1> DEFINE Goal == \/ \E r \in Slots : DispatchWrite(r) /\ req[r].t = d
                   \/ \E r \in Slots : req'[r] = [pc |-> "unblock_select", t |-> d]
<1>0. TypeOK
  BY DEF IInv
<1>1. ASSUME NEW u \in Tasks, NEW row, task' = [task EXCEPT ![u] = row],
             row.status # "finished"
      PROVE  FALSE
  BY <1>0, <1>1 DEF TypeOK
<1>2. ASSUME NEW u \in Tasks, task[u] \in Row,
             \/ \E s \in Status \ {"finished"} :
                  \/ task' = [task EXCEPT ![u].status = s]
                  \/ \E p \in Callers \cup {NoOne} : task' = [task EXCEPT ![u] = Finalized(task[u], s, p)]
             \/ \E row \in {Blocked(task[u]), Heartbeaten(task[u]), Expired(task[u])} :
                  task' = [task EXCEPT ![u] = row]
      PROVE  FALSE
  <2>1. ASSUME NEW s \in Status \ {"finished"}, task' = [task EXCEPT ![u].status = s] PROVE FALSE
    <3>1. task' = [task EXCEPT ![u] = [task[u] EXCEPT !.status = s]]
      BY <1>0, <2>1 DEF TypeOK
    <3> QED BY <1>1, <1>2, <2>1, <3>1, RelabelledRow
  <2>2. ASSUME NEW s \in Status \ {"finished"}, NEW p \in Callers \cup {NoOne},
               task' = [task EXCEPT ![u] = Finalized(task[u], s, p)]
        PROVE  FALSE
    BY <1>1, <1>2, <2>2, FinalizedRow
  <2>3. ASSUME NEW row \in {Blocked(task[u]), Heartbeaten(task[u]), Expired(task[u])},
               task' = [task EXCEPT ![u] = row]
        PROVE  FALSE
    <3>1. row.status \in {"blocked", "running", "failed", "ready"}
      BY <1>2, BlockedRow, HeartbeatenRow, ExpiredRow
    <3> QED BY <1>1, <2>3, <3>1
  <2> QED BY <1>2, <2>1, <2>2, <2>3
<1>st. {"ready", "waiting_review", "failed", "cancelled"} \subseteq Status \ {"finished"}
  BY DEF Status, InProgress
<1>3. ASSUME NEW u \in Tasks, task[u] \in Row, NEW s \in Working, NEW agent, NEW v,
             task' = [task EXCEPT ![u] = Claimed(task[u], s, agent, v)]
      PROVE  FALSE
  <2>1. Claimed(task[u], s, agent, v).status # "finished"
    BY <1>3 DEF Claimed, Row, Working
  <2> QED BY <1>1, <1>3, <2>1
<1>4. ASSUME NEW r \in Slots, CreateInsert(r) PROVE FALSE
  <2>1. /\ req[r].t \in Tasks /\ req[r].sub \in Submitted /\ req[r].status \in {"ready", "pending"}
        /\ task' = [task EXCEPT ![req[r].t] = NewRow(req[r].sub, req[r].status)]
    BY <1>0, <1>4, RequestFields DEF CreateInsert, TypeOK
  <2>2. NewRow(req[r].sub, req[r].status).status # "finished"
    BY <2>1, NewRows
  <2> QED BY <1>1, <2>1, <2>2
<1>5. ASSUME NEW r \in Slots, ClaimBroadcast(r) \/ ClaimUpdate(r) PROVE FALSE
  <2>1. req[r].t \in Tasks /\ task[req[r].t] \in Row
    BY <1>0, <1>5, RequestFields, RowOf
       DEF ClaimBroadcast, ClaimUpdate, TypeOK, IInv, RowsExist, RowPcs, LockPcs
  <2> QED BY <1>3, <1>5, <2>1 DEF ClaimBroadcast, ClaimUpdate, Working
<1>6. ASSUME NEW p \in Callers, NEW t \in Tasks, McpClaim(p, t) PROVE FALSE
  <2>1. task[t] \in Row
    BY <1>0, <1>6, RowOf DEF McpClaim, Status
  <2> QED BY <1>3, <1>6, <2>1 DEF McpClaim, Working
<1>7. ASSUME NEW r \in Slots, HeartbeatWrite(r) PROVE FALSE
  <2>1. req[r].t \in Tasks /\ task[req[r].t] \in Row
    BY <1>0, <1>7, RequestFields, RowOf
       DEF HeartbeatWrite, TypeOK, IInv, RowsExist, RowPcs, LockPcs
  <2> QED BY <1>2, <1>7, <2>1 DEF HeartbeatWrite
<1>8. ASSUME NEW r \in Slots, UnblockWrite(r) PROVE FALSE
  <2>1. req[r].c \in Tasks /\ task[req[r].c] \in Row
    BY <1>0, <1>8, RequestFields, RowOf DEF UnblockWrite, TypeOK, IInv, RowsExist
  <2> QED BY <1>2, <1>8, <1>st, <2>1 DEF UnblockWrite
<1>9. ASSUME NEW r \in Slots, CompleteApply(r) PROVE Goal
  <2> DEFINE u == req[r].t
  <2>1. u \in Tasks /\ task[u] \in Row
    BY <1>0, <1>9, RequestFields, RowOf DEF CompleteApply, TypeOK, IInv, RowsExist, RowPcs
  <2>2. CASE Goto(r, [pc |-> "unblock_select", t |-> u])
    <3>1. req'[r] = [pc |-> "unblock_select", t |-> u]
      BY <1>0, <2>2 DEF Goto, TypeOK
    <3>2. u = d
      BY <1>0, <1>9, <2>1 DEF CompleteApply, TypeOK
    <3> QED BY <3>1, <3>2
  <2>3. CASE task' = [task EXCEPT ![u].status = "waiting_review"] \/ task' = task
    BY <1>2, <1>st, <2>1, <2>3
  <2> QED BY <1>9, <2>2, <2>3 DEF CompleteApply
<1>10. ASSUME NEW r \in Slots, ResolveApply(r) PROVE Goal
  <2> DEFINE u == gate[req[r].g].task
  <2>1. u \in Tasks
    BY <1>0, <1>10, DecidedTask DEF ResolveApply, IInv
  <2> HIDE DEF u
  <2>2. task' # task
    OBVIOUS
  <2>3. PICK who :
          /\ task[u].status = "waiting_review"
          /\ \/ /\ task' = [task EXCEPT ![u] = Finalized(task[u], "finished", who)]
                /\ Goto(r, [pc |-> "unblock_select", t |-> u])
             \/ /\ task' = [task EXCEPT ![u] = Finalized(task[u], "failed", who)]
                /\ Return(r)
    BY <1>10, <2>2 DEF ResolveApply, u
  <2>4. task[u] \in Row
    BY <1>0, <2>1, <2>3, RowOf DEF Status, InProgress
  <2>5. Finalized(task[u], "failed", who).status # "finished"
    BY <2>4 DEF Finalized, Released, Row
  <2>6. Goto(r, [pc |-> "unblock_select", t |-> u])
    BY <1>1, <2>1, <2>3, <2>5
  <2>7. u = d
    BY <1>0, <2>1, <2>3 DEF TypeOK
  <2> QED BY <1>0, <2>6, <2>7 DEF Goto, TypeOK
<1>11. ASSUME NEW r \in Slots, DispatchWrite(r) PROVE Goal
  <2>1. req[r].t \in Tasks
    BY <1>0, <1>11, RequestFields DEF DispatchWrite, TypeOK
  <2>2. req[r].t = d
    BY <1>0, <1>11, <2>1 DEF DispatchWrite, TypeOK
  <2> QED BY <1>11, <2>2
<1>12. ASSUME NEW p \in Callers, NEW t \in Tasks, Fail(p, t) PROVE FALSE
  <2>1. PICK eff \in OnBehalf(p) :
          /\ task[t].status \in InProgress
          /\ task' = [task EXCEPT ![t] =
                        Finalized(task[t], "failed", Coalesce(task[t].claimed_by, eff))]
    BY <1>12 DEF Fail, Finishable
  <2>2. task[t] \in Row
    BY <1>0, <2>1, RowOf DEF Status
  <2>3. Coalesce(task[t].claimed_by, eff) \in Callers \cup {NoOne}
    BY <2>2 DEF Coalesce, Row, OnBehalf, Callers
  <2> QED BY <1>2, <1>st, <2>1, <2>2, <2>3
<1>13. ASSUME NEW p \in Callers, NEW t \in Tasks,
              Block(p, t) \/ UnblockTask(p, t) \/ Cancel(p, t) \/ Retry(p, t)
       PROVE  FALSE
  <2>1. task[t] \in Row
    BY <1>0, <1>13, RowOf DEF Block, UnblockTask, Cancel, Retry, Retryable, Status, InProgress
  <2>2. Canceller(task[t], p) \in Callers \cup {NoOne}
    BY <2>1 DEF Canceller, Coalesce, Row
  <2> QED BY <1>2, <1>13, <1>st, <2>1, <2>2 DEF Block, UnblockTask, Cancel, Retry
<1>14. ASSUME NEW t \in Tasks, ExpireStaleLease(t) PROVE FALSE
  <2>1. task[t] \in Row
    BY <1>0, <1>14, RowOf DEF ExpireStaleLease, Sweepable, Status, InProgress
  <2> QED BY <1>2, <1>14, <2>1 DEF ExpireStaleLease
<1>15. ASSUME NEW t \in Tasks, LeaseLapses(t) PROVE FALSE
  <2>1. task[t] \in Row
    BY <1>0, <1>15, RowOf DEF LeaseLapses
  <2>2. task'[t].status = task[t].status /\ \A u \in Tasks \ {t} : task'[u] = task[u]
    BY <1>0, <1>15, <2>1, LapsedRow DEF LeaseLapses, TypeOK
  <2> QED BY <2>2
<1>16. ASSUME task' = task PROVE FALSE
  BY <1>16
<1>17. ASSUME NEW r \in Slots, NEW p \in Callers, Call(r, p) PROVE FALSE
  BY <1>16, <1>17 DEF Call, CreateRead, ClaimRead, HeartbeatFence, ProgressFence,
                      CompleteSnapshot, DispatchRead, GateSnapshot, ResolveGate
<1>18. ASSUME NEW r \in Slots,
              \/ ClaimLock(r) \/ ProgressSeq(r) \/ ProgressInsert(r) \/ UnblockSelect(r)
              \/ UnblockCheck(r) \/ UnblockError(r) \/ GateInsert(r) \/ ResolveAgg(r) \/ Abort(r)
       PROVE  FALSE
  BY <1>16, <1>18 DEF ClaimLock, ProgressSeq, ProgressInsert, UnblockSelect, UnblockCheck,
                      UnblockError, GateInsert, ResolveAgg, Abort
<1>19. CASE UNCHANGED vars
  BY <1>16, <1>19 DEF vars
<1> QED
  BY <1>4, <1>5, <1>6, <1>7, <1>8, <1>9, <1>10, <1>11, <1>12, <1>13, <1>14, <1>15, <1>17, <1>18,
     <1>19 DEF Next, Step, AtomicCall

(* A handler that releases dependents is moved by its own statements or by *)
(* the failure of one, or by being dropped.                                *)
LEMMA ReleaserMoves ==
    ASSUME TypeOK, [Next]_vars, NEW r \in Slots, req'[r] # req[r],
           req[r].pc \in {"unblock_select", "unblock_check", "unblock_write"}
    PROVE  UnblockSelect(r) \/ UnblockCheck(r) \/ UnblockWrite(r) \/ UnblockError(r) \/ Abort(r)
<1>0. req[r] # Idle
  BY DEF Idle
<1>1. ASSUME NEW s \in Slots, s # r, NEW q, req' = [req EXCEPT ![s] = q] PROVE FALSE
  BY <1>1 DEF TypeOK
<1>2. ASSUME NEW s \in Slots, Step(s) PROVE s = r
  <2>1. \E q : req' = [req EXCEPT ![s] = q]
    BY <1>2 DEF Step, CreateInsert, ClaimBroadcast, ClaimLock, ClaimUpdate, HeartbeatWrite,
                ProgressSeq, ProgressInsert, CompleteApply, UnblockSelect, UnblockCheck,
                UnblockWrite, DispatchWrite, GateInsert, ResolveAgg, ResolveApply, Goto, Return
  <2> QED BY <1>1, <2>1
<1>3. Step(r) => UnblockSelect(r) \/ UnblockCheck(r) \/ UnblockWrite(r)
  BY DEF Step, CreateInsert, ClaimBroadcast, ClaimLock, ClaimUpdate, HeartbeatWrite,
         ProgressSeq, ProgressInsert, CompleteApply, DispatchWrite, GateInsert, ResolveAgg,
         ResolveApply
<1>4. ASSUME NEW s \in Slots, Abort(s) \/ UnblockError(s) PROVE s = r
  BY <1>1, <1>4 DEF Abort, UnblockError, Return, Goto
<1>5. ASSUME NEW s \in Slots, NEW p \in Callers, Call(s, p) PROVE FALSE
  <2>1. req[s] = Idle /\ \E q : req' = [req EXCEPT ![s] = q]
    BY <1>5 DEF Call, CreateRead, ClaimRead, HeartbeatFence, ProgressFence, CompleteSnapshot,
                DispatchRead, GateSnapshot, ResolveGate, Enter
  <2> QED BY <1>0, <1>1, <2>1
<1>6. ASSUME req' = req PROVE FALSE
  BY <1>6
<1>7. ASSUME NEW p \in Callers, NEW t \in Tasks, AtomicCall(p, t) PROVE FALSE
  BY <1>6, <1>7 DEF AtomicCall, McpClaim, Fail, Block, UnblockTask, Cancel, Retry
<1>8. ASSUME NEW t \in Tasks, LeaseLapses(t) \/ ExpireStaleLease(t) PROVE FALSE
  BY <1>6, <1>8 DEF LeaseLapses, ExpireStaleLease
<1>9. ~UNCHANGED vars
  BY <1>6 DEF vars
<1> QED BY <1>2, <1>3, <1>4, <1>5, <1>7, <1>8, <1>9 DEF Next

(* A handler that releases t keeps t among its candidates until it has     *)
(* released it, when nothing t waits for is unfinished.                    *)
LEMMA ReleaserKeeps ==
    ASSUME TypeOK, [Next]_vars, NEW t \in Tasks, NEW r \in Slots, Releasing(r, t),
           task[t].status = "pending", task'[t].status = "pending",
           task'[t].depends_on = task[t].depends_on,
           DepsFinished(task[t].depends_on), ~Abort(r), ~UnblockError(r)
    PROVE  Releasing(r, t)'
<1>1. CASE req'[r] = req[r]
  BY <1>1 DEF Releasing
<1>2. CASE req'[r] # req[r]
  <2>0. UnblockSelect(r) \/ UnblockCheck(r) \/ UnblockWrite(r)
    BY <1>2, ReleaserMoves DEF Releasing
  <2>1. CASE UnblockSelect(r)
    <3> DEFINE todo == {c \in Tasks : /\ task[c].status \in Held
                                       /\ req[r].t \in Range(task[c].depends_on)}
    <3>1. req'[r] = [pc |-> "unblock_check", t |-> req[r].t, todo |-> todo]
      BY <2>1 DEF UnblockSelect, Goto, TypeOK
    <3>2. t \in todo
      BY <2>1 DEF UnblockSelect, Releasing, Held
    <3> HIDE DEF todo
    <3> QED BY <3>1, <3>2 DEF Releasing
  <2>2. CASE UnblockCheck(r)
    <3>1. t \in req[r].todo
      BY <2>2 DEF UnblockCheck, Releasing
    <3>2. PICK c \in req[r].todo :
            IF DepsFinished(task[c].depends_on)
              THEN Goto(r, [pc |-> "unblock_write", t |-> req[r].t,
                            todo |-> req[r].todo \ {c}, c |-> c])
              ELSE Goto(r, [pc |-> "unblock_check", t |-> req[r].t,
                            todo |-> req[r].todo \ {c}])
      BY <2>2, <3>1 DEF UnblockCheck
    <3>3. CASE c = t
      <4>1. req'[r] = [pc |-> "unblock_write", t |-> req[r].t,
                       todo |-> req[r].todo \ {c}, c |-> c]
        BY <3>2, <3>3 DEF Goto, TypeOK
      <4> QED BY <3>3, <4>1 DEF Releasing
    <3>4. CASE c # t
      <4>1. /\ req'[r].pc \in {"unblock_check", "unblock_write"}
            /\ req'[r].todo = req[r].todo \ {c}
        BY <3>2 DEF Goto, TypeOK
      <4> QED BY <3>1, <3>4, <4>1 DEF Releasing
    <3> QED BY <3>3, <3>4
  <2>3. CASE UnblockWrite(r)
    <3>1. req[r].c # t
      <4>1. req[r].c = t => task'[t].status = "ready"
        BY <2>3 DEF UnblockWrite, TypeOK, Row, NoRow
      <4> QED BY <4>1
    <3>2. t \in req[r].todo
      BY <2>3, <3>1 DEF UnblockWrite, Releasing
    <3>3. req'[r] = [pc |-> "unblock_check", t |-> req[r].t, todo |-> req[r].todo]
      BY <2>3 DEF UnblockWrite, Goto, TypeOK
    <3> QED BY <3>2, <3>3 DEF Releasing
  <2> QED BY <2>0, <2>1, <2>2, <2>3
<1> QED BY <1>1, <1>2

(* A dependent is left to nobody only in the listed ways.                  *)
LEMMA ForgottenStep ==
    ASSUME IInv, [Next]_vars, NEW t \in Tasks, task[t] # NoRow, ~Forgotten(t), Forgotten(t)'
    PROVE  \/ \E r \in Slots : (Abort(r) \/ UnblockError(r)) /\ Releasing(r, t)
           \/ \E r \in Slots : DispatchWrite(r) /\ req[r].t \in Range(task[t].depends_on)
           \/ Cardinality(Range(task[t].depends_on)) # Len(task[t].depends_on)
<1> DEFINE deps == task[t].depends_on
<1>1. TypeOK
  BY DEF IInv
<1>2. task'[t].depends_on = deps /\ task[t].status = "pending" /\ task'[t].status = "pending"
  BY DependenciesKept DEF Forgotten
<1>3. /\ \A d \in Range(deps) : task'[d].status = "finished"
      /\ \A r \in Slots : ~Releasing(r, t)'
  BY <1>2 DEF Forgotten
<1>4. Range(deps) \subseteq Tasks
  <2>1. deps \in Seq(Tasks)
    BY <1>1, RowOf, SubmissionAssumption DEF Row
  <2> QED BY <2>1 DEF Range
<1>5. CASE \A d \in Range(deps) : task[d].status = "finished"
  <2>1. PICK r \in Slots : Releasing(r, t)
    BY <1>2, <1>5 DEF Forgotten
  <2>2. CASE Cardinality(Range(deps)) = Len(deps)
    <3>1. DepsFinished(deps)
      BY <1>5, <2>2 DEF DepsFinished
    <3> QED BY <1>1, <1>2, <1>3, <2>1, <3>1, ReleaserKeeps
  <2> QED BY <2>2
<1>6. ASSUME NEW d \in Range(deps), task[d].status # "finished"
      PROVE  \E r \in Slots : DispatchWrite(r) /\ req[r].t \in Range(deps)
  <2>1. d \in Tasks /\ task'[d].status = "finished"
    BY <1>3, <1>4, <1>6
  <2>2. ~\E r \in Slots : req'[r] = [pc |-> "unblock_select", t |-> d]
    BY <1>2, <1>3, <1>6 DEF Releasing
  <2> QED BY <1>6, <2>1, <2>2, FinishHandsOver
<1> QED BY <1>5, <1>6

-----------------------------------------------------------------------------
(* Gates.                                                                  *)

(* A handler that inserts a gate, or decides one, is alone with it and     *)
(* still finds it as it did when it began.                                 *)
Deciding == {"resolve_agg", "resolve_apply"}

GatesHeld ==
    /\ \A r \in Slots :
         /\ req[r].pc = "gate_insert" => gate[req[r].g].status = "absent"
         /\ req[r].pc \in Deciding => gate[req[r].g].status = "pending"
    /\ \A r, s \in Slots : r # s =>
         /\ ~(req[r].pc = "gate_insert" /\ req[s].pc = "gate_insert" /\ req[r].g = req[s].g)
         /\ ~(req[r].pc \in Deciding /\ req[s].pc \in Deciding /\ req[r].g = req[s].g)

(* The request a slot may take up about a gate.                            *)
Fit(r, q) ==
    /\ q.pc = "gate_insert" =>
         /\ gate[q.g].status = "absent" /\ gate' = gate
         /\ \A s \in Slots \ {r} : req[s].pc = "gate_insert" => req[s].g # q.g
    /\ q.pc \in Deciding =>
         /\ gate[q.g].status = "pending" /\ gate' = gate
         /\ \A s \in Slots \ {r} : req[s].pc \in Deciding => req[s].g # q.g

(* The gates stay as they are, or the handler in slot r inserts or decides *)
(* its gate and is done with it.                                           *)
Settles(r) ==
    /\ \/ req[r].pc = "gate_insert"
             /\ gate' = [gate EXCEPT ![req[r].g] =
                           [status |-> "pending", task |-> req[r].t, owner |-> req[r].by]]
       \/ req[r].pc \in Deciding /\ gate' = Decided(r)
    /\ \E q : /\ req' = [req EXCEPT ![r] = q]
              /\ q.pc \notin Deciding \cup {"gate_insert"}

LEMMA GateSteps ==
    ASSUME IInv, GatesHeld, [Next]_vars
    PROVE  \/ gate' = gate /\ req' = req
           \/ gate' = gate /\ \E r \in Slots : \E q : req' = [req EXCEPT ![r] = q] /\ Fit(r, q)
           \/ \E r \in Slots : Settles(r)
<1> DEFINE Goal == \/ gate' = gate /\ req' = req
                   \/ gate' = gate /\ \E r \in Slots : \E q : req' = [req EXCEPT ![r] = q] /\ Fit(r, q)
                   \/ \E r \in Slots : Settles(r)
<1>0. TypeOK
  BY DEF IInv
<1>1. ASSUME NEW r \in Slots, NEW q, Goto(r, q) \/ Enter(r, q), gate' = gate, Fit(r, q) PROVE Goal
  BY <1>1 DEF Goto, Enter
<1>2. ASSUME NEW r \in Slots, NEW q, Goto(r, q) \/ Enter(r, q), gate' = gate,
             q.pc \notin Deciding \cup {"gate_insert"}
      PROVE  Goal
  BY <1>1, <1>2 DEF Fit
<1>idle. Idle.pc \notin Deciding \cup {"gate_insert"}
  BY DEF Idle, Deciding
<1>3. ASSUME NEW r \in Slots, Return(r), gate' = gate PROVE Goal
  BY <1>2, <1>3, <1>idle DEF Return, Goto
<1>set. ASSUME NEW r \in Slots, NEW q, Goto(r, q), q.pc \notin Deciding \cup {"gate_insert"},
               \/ /\ req[r].pc = "gate_insert"
                  /\ gate' = [gate EXCEPT ![req[r].g] =
                                [status |-> "pending", task |-> req[r].t, owner |-> req[r].by]]
               \/ req[r].pc \in Deciding /\ gate' = Decided(r)
        PROVE  Goal
  BY <1>set DEF Settles, Goto
<1>sr. ASSUME NEW r \in Slots, Return(r) PROVE Goto(r, Idle)
  BY <1>sr DEF Return, Goto
<1>4. ASSUME NEW r \in Slots, GateInsert(r) PROVE Goal
  BY <1>4, <1>idle, <1>set, <1>sr DEF GateInsert
<1>5. ASSUME NEW r \in Slots, ResolveAgg(r) PROVE Goal
  <2>1. CASE gate' = Decided(r) /\ Return(r)
    BY <1>5, <1>idle, <1>set, <1>sr, <2>1 DEF ResolveAgg, Deciding
  <2>2. ASSUME NEW rejected,
               Goto(r, [pc |-> "resolve_apply", g |-> req[r].g, by |-> req[r].by,
                        decision |-> req[r].decision, any_rejected |-> rejected]),
               gate' = gate
        PROVE  Goal
    <3> DEFINE q == [pc |-> "resolve_apply", g |-> req[r].g, by |-> req[r].by,
                     decision |-> req[r].decision, any_rejected |-> rejected]
    <3>1. Fit(r, q)
      BY <1>5, <2>2 DEF ResolveAgg, GatesHeld, Fit, Deciding
    <3> QED BY <1>1, <2>2, <3>1
  <2> QED BY <1>5, <2>1, <2>2 DEF ResolveAgg
<1>6. ASSUME NEW r \in Slots, ResolveApply(r) PROVE Goal
  <2>1. \/ Return(r)
        \/ \E t : Goto(r, [pc |-> "unblock_select", t |-> t])
    BY <1>6 DEF ResolveApply
  <2>2. req[r].pc \in Deciding /\ gate' = Decided(r)
    BY <1>6 DEF ResolveApply, Deciding
  <2>3. CASE Return(r)
    BY <1>idle, <1>set, <1>sr, <2>2, <2>3
  <2>4. ASSUME NEW t, Goto(r, [pc |-> "unblock_select", t |-> t]) PROVE Goal
    <3>1. [pc |-> "unblock_select", t |-> t].pc \notin Deciding \cup {"gate_insert"}
      BY DEF Deciding
    <3> QED BY <1>set, <2>2, <2>4, <3>1
  <2> QED BY <2>1, <2>3, <2>4
<1>7. ASSUME NEW r \in Slots, NEW p \in Callers, NEW t \in Tasks, NEW g \in Gates,
             GateSnapshot(r, p, t, g)
      PROVE  Goal
  <2> DEFINE q == [pc |-> "gate_insert", t |-> t, by |-> p, g |-> g]
  <2>1. Fit(r, q)
    BY <1>7 DEF GateSnapshot, Fit, Deciding
  <2> QED BY <1>1, <1>7, <2>1 DEF GateSnapshot
<1>8. ASSUME NEW r \in Slots, NEW p \in Callers, NEW g \in Gates, ResolveGate(r, p, g) PROVE Goal
  <2>1. PICK decision : Enter(r, [pc |-> "resolve_agg", g |-> g, by |-> p, decision |-> decision])
    BY <1>8 DEF ResolveGate
  <2> DEFINE q == [pc |-> "resolve_agg", g |-> g, by |-> p, decision |-> decision]
  <2>2. Fit(r, q)
    BY <1>8 DEF ResolveGate, GateLocked, Fit, Deciding
  <2> QED BY <1>1, <1>8, <2>1, <2>2 DEF ResolveGate
<1>9. ASSUME NEW r \in Slots, NEW p \in Callers, NEW t \in Tasks,
             \/ CreateRead(r, p, t) \/ ClaimRead(r, p, t)
             \/ HeartbeatFence(r, p, t) \/ ProgressFence(r, p, t)
             \/ CompleteSnapshot(r, p, t) \/ DispatchRead(r, p, t)
      PROVE  Goal
  <2>0. gate' = gate
    BY <1>9 DEF CreateRead, ClaimRead, HeartbeatFence, ProgressFence, CompleteSnapshot,
                DispatchRead
  <2> DEFINE Others == {"create_insert", "claim_broadcast", "claim_lock", "heartbeat_write",
                        "progress_seq", "complete_apply", "dispatch_write"}
  <2>1. Others \cap (Deciding \cup {"gate_insert"}) = {}
    BY DEF Deciding
  <2>2. \E q : Enter(r, q) /\ q.pc \in Others
    <3>1. CASE CreateRead(r, p, t)
      BY <3>1 DEF CreateRead
    <3>2. CASE ClaimRead(r, p, t)
      BY <3>2 DEF ClaimRead
    <3>3. CASE HeartbeatFence(r, p, t) \/ ProgressFence(r, p, t)
      BY <3>3 DEF HeartbeatFence, ProgressFence
    <3>4. CASE CompleteSnapshot(r, p, t)
      BY <3>4 DEF CompleteSnapshot
    <3>5. CASE DispatchRead(r, p, t)
      BY <3>5 DEF DispatchRead
    <3> QED BY <1>9, <3>1, <3>2, <3>3, <3>4, <3>5
  <2> QED BY <1>2, <2>0, <2>1, <2>2
<1>10. ASSUME NEW r \in Slots,
              \/ CreateInsert(r) \/ ClaimBroadcast(r) \/ ClaimLock(r) \/ ClaimUpdate(r)
              \/ HeartbeatWrite(r) \/ ProgressSeq(r) \/ ProgressInsert(r) \/ CompleteApply(r)
              \/ UnblockSelect(r) \/ UnblockCheck(r) \/ UnblockWrite(r) \/ DispatchWrite(r)
              \/ UnblockError(r) \/ Abort(r)
       PROVE  Goal
  <2>0. gate' = gate
    BY <1>10 DEF CreateInsert, ClaimBroadcast, ClaimLock, ClaimUpdate, HeartbeatWrite, ProgressSeq,
                 ProgressInsert, CompleteApply, UnblockSelect, UnblockCheck, UnblockWrite,
                 DispatchWrite, UnblockError, Abort
  <2> DEFINE Others == {"claim_update", "progress_insert", "unblock_select", "unblock_check",
                        "unblock_write"}
  <2>1. Others \cap (Deciding \cup {"gate_insert"}) = {}
    BY DEF Deciding
  <2>2. Return(r) \/ \E q : Goto(r, q) /\ q.pc \in Others
    <3>1. CASE \/ CreateInsert(r) \/ ClaimBroadcast(r) \/ ClaimUpdate(r) \/ HeartbeatWrite(r)
               \/ ProgressInsert(r) \/ DispatchWrite(r) \/ Abort(r)
      BY <3>1 DEF CreateInsert, ClaimBroadcast, ClaimUpdate, HeartbeatWrite, ProgressInsert,
                  DispatchWrite, Abort
    <3>2. CASE ClaimLock(r)
      BY <3>2 DEF ClaimLock
    <3>3. CASE ProgressSeq(r)
      BY <3>3 DEF ProgressSeq
    <3>4. CASE CompleteApply(r)
      BY <3>4 DEF CompleteApply
    <3>5. CASE UnblockSelect(r)
      BY <3>5 DEF UnblockSelect
    <3>6. CASE UnblockCheck(r)
      <4>1. CASE req[r].todo = {} /\ Return(r)
        BY <4>1
      <4>2. ASSUME NEW c, NEW todo,
                   \/ Goto(r, [pc |-> "unblock_write", t |-> req[r].t, todo |-> todo, c |-> c])
                   \/ Goto(r, [pc |-> "unblock_check", t |-> req[r].t, todo |-> todo])
            PROVE  \E q : Goto(r, q) /\ q.pc \in Others
        BY <4>2
      <4> QED BY <3>6, <4>1, <4>2 DEF UnblockCheck
    <3>7. CASE UnblockWrite(r)
      BY <3>7 DEF UnblockWrite
    <3>8. CASE UnblockError(r)
      <4>1. PICK todo : Goto(r, [pc |-> "unblock_check", t |-> req[r].t, todo |-> todo])
        BY <3>8 DEF UnblockError
      <4> QED BY <4>1
    <3> QED BY <1>10, <3>1, <3>2, <3>3, <3>4, <3>5, <3>6, <3>7, <3>8
  <2> QED BY <1>2, <1>3, <2>0, <2>1, <2>2
<1>11. ASSUME NEW p \in Callers, NEW t \in Tasks, AtomicCall(p, t) PROVE Goal
  BY <1>11 DEF AtomicCall, McpClaim, Fail, Block, UnblockTask, Cancel, Retry
<1>12. ASSUME NEW t \in Tasks, LeaseLapses(t) \/ ExpireStaleLease(t) PROVE Goal
  BY <1>12 DEF LeaseLapses, ExpireStaleLease
<1>13. CASE UNCHANGED vars
  BY <1>13 DEF vars
<1> QED
  BY <1>4, <1>5, <1>6, <1>7, <1>8, <1>9, <1>10, <1>11, <1>12, <1>13 DEF Next, Step, Call

(* One handler at a time holds a gate.                                     *)
LEMMA GatesHeldAfter ==
    ASSUME IInv, GatesHeld, [Next]_vars
    PROVE  GatesHeld'
<1>0. TypeOK /\ TypeOK'
  BY StepInv DEF IInv
<1>1. CASE gate' = gate /\ req' = req
  BY <1>1 DEF GatesHeld
<1>2. ASSUME NEW r \in Slots, NEW q, req' = [req EXCEPT ![r] = q], gate' = gate, Fit(r, q)
      PROVE  GatesHeld'
  <2>1. req'[r] = q /\ \A s \in Slots \ {r} : req'[s] = req[s]
    BY <1>0, <1>2 DEF TypeOK
  <2> QED BY <1>2, <2>1 DEF GatesHeld, Fit
<1>3. ASSUME NEW r \in Slots, Settles(r) PROVE GatesHeld'
  <2>1. PICK q : req' = [req EXCEPT ![r] = q] /\ q.pc \notin Deciding \cup {"gate_insert"}
    BY <1>3 DEF Settles
  <2>2. /\ req'[r].pc \notin Deciding \cup {"gate_insert"}
        /\ \A s \in Slots \ {r} : req'[s] = req[s]
    BY <1>0, <2>1 DEF TypeOK
  <2>4. \A g \in Gates \ {req[r].g} : gate'[g] = gate[g]
    BY <1>0, <1>3 DEF Settles, Decided, TypeOK
  <2>5. ASSUME NEW s \in Slots \ {r}, req[s].pc \in Deciding \cup {"gate_insert"}
        PROVE  gate'[req[s].g] = gate[req[s].g]
    <3>1. req[s].g \in Gates
      BY <1>0, <2>5, RequestFields DEF TypeOK, Deciding
    <3>2. req[s].g # req[r].g
      <4>1. CASE req[r].pc = "gate_insert" /\ req[s].pc \in Deciding
        BY <4>1 DEF GatesHeld
      <4>2. CASE req[r].pc \in Deciding /\ req[s].pc = "gate_insert"
        BY <4>2 DEF GatesHeld
      <4>3. CASE req[r].pc = "gate_insert" /\ req[s].pc = "gate_insert"
        BY <4>3 DEF GatesHeld
      <4>4. CASE req[r].pc \in Deciding /\ req[s].pc \in Deciding
        BY <4>4 DEF GatesHeld
      <4> QED BY <1>3, <2>5, <4>1, <4>2, <4>3, <4>4 DEF Settles
    <3> QED BY <2>4, <3>1, <3>2
  <2> QED BY <2>2, <2>5 DEF GatesHeld
<1> QED BY <1>1, <1>2, <1>3, GateSteps

-----------------------------------------------------------------------------
(* The theorems.                                                           *)

(* Whatever finishes and releases race, a task that waits for nothing any  *)
(* more is in the hands of a handler that will release it, unless one is   *)
(* dropped or has a statement fail, a dispatch bypasses the release or the *)
(* list names a task twice: the release on finish needs no lock across its *)
(* statements.                                                             *)
THEOREM ReleaseSafe == Spec => NobodyForgotten
<1>1. IInv /\ [Next]_vars
        => [\A t \in Tasks :
              (task[t] # NoRow /\ ~Forgotten(t) /\ Forgotten(t)') =>
                 \/ \E r \in Slots : (Abort(r) \/ UnblockError(r)) /\ Releasing(r, t)
                 \/ \E r \in Slots : DispatchWrite(r) /\ req[r].t \in Range(task[t].depends_on)
                 \/ Cardinality(Range(task[t].depends_on)) # Len(task[t].depends_on)]_vars
  BY ForgottenStep
<1> QED BY <1>1, Invariance, PTL DEF Spec, NobodyForgotten

(* One handler at a time decides a gate, and finds it pending.             *)
THEOREM GatesInvariance == Spec => []GatesHeld
<1>1. Init => GatesHeld
  BY DEF Init, GatesHeld, Idle, Deciding
<1>2. IInv /\ GatesHeld /\ [Next]_vars => GatesHeld'
  BY GatesHeldAfter
<1> QED BY <1>1, <1>2, Invariance, PTL DEF Spec

(* A decision is never overwritten, however many reviewers race.           *)
THEOREM DecisionSafe == Spec => DecisionFinal
<1>1. IInv /\ GatesHeld /\ [Next]_vars
        => [\A g \in Gates : gate[g].status \in {"approved", "rejected"} => gate'[g] = gate[g]]_vars
  <2> SUFFICES ASSUME IInv, GatesHeld, [Next]_vars, NEW g \in Gates,
                      gate[g].status \in {"approved", "rejected"}
               PROVE  gate'[g] = gate[g]
    OBVIOUS
  <2>1. ASSUME NEW r \in Slots, Settles(r) PROVE gate'[g] = gate[g]
    <3>1. req[r].g # g
      BY <2>1 DEF Settles, GatesHeld
    <3> QED BY <2>1, <3>1 DEF Settles, Decided, IInv, TypeOK
  <2> QED BY <2>1, GateSteps
<1> QED BY <1>1, GatesInvariance, Invariance, PTL DEF Spec, DecisionFinal
=============================================================================
