-------------------------- MODULE TaskRunnerProofs --------------------------
(* Proofs that TaskRunner is type correct, keeps the worktree of a running *)
(* subprocess and cleans up after its lifecycles, for every number of      *)
(* tasks, loops, permits, enrolments, claims and crashes.                  *)
(*                                                                         *)
(* The argument: a lifecycle owns its task, because the task is in         *)
(* in_flight from before the lifecycle exists until it is over             *)
(* (OnePerTask), and its agent, because enrolments are numbered (OneAgent).*)
(* What a step does to directories, agents and runs is therefore about the *)
(* acting lifecycle alone.                                                 *)
(* A subprocess that a crash left behind has nobody in memory to own its   *)
(* task; its claim, while it stands, keeps the task off the list           *)
(* (Orphaned).                                                             *)
EXTENDS TaskRunner, TLAPS

-----------------------------------------------------------------------------
(* The inductive invariant.                                                *)

WithAgent == {"claim", "worktree", "start_run", "subprocess", "close_run", "settle", "delete", "remove"}

OnePerTask ==
    /\ \A s \in Slots : Live(s) => life[s].t \in in_flight
    /\ \A s, r \in Slots : (Live(s) /\ Live(r) /\ life[s].t = life[r].t) => s = r

DirInUse == \A s \in Slots : life[s].pc \in {"start_run", "subprocess"} => life[s].t \in worktrees

OneAgent ==
    /\ \A s \in Slots : life[s].pc \in WithAgent => life[s].agent \in 1 .. enrolled
    /\ \A s, r \in Slots :
         (life[s].pc \in WithAgent /\ life[r].pc \in WithAgent /\ life[s].agent = life[r].agent)
            => s = r
    /\ \A a \in Agents : a > enrolled => (a \notin agents /\ a \notin runs)

(* Whoever still has a row has a lifecycle that will delete it, or a reason. *)
AgentsAccounted ==
    \A a \in agents :
        \/ why[a] \in {"call failed", "crash"}
        \/ \E s \in Slots : life[s].pc \in WithAgent \ {"remove"} /\ life[s].agent = a

RunsAccounted ==
    \A a \in runs :
        \/ why[a] # "nothing"
        \/ \E s \in Slots : /\ life[s].pc \in {"subprocess", "close_run"}
                            /\ life[s].agent = a /\ life[s].run

Owned == OnePerTask /\ DirInUse /\ OneAgent /\ AgentsAccounted /\ RunsAccounted

(* A subprocess that outlived its daemon has the directory to itself while *)
(* its claim stands: the task is not offered, so no lifecycle is on it.    *)
HeldBySomebody == \A t \in Tasks : holder[t] # Nobody => Held(t)

Undisturbed(t) ==
    /\ Held(t) /\ t \notin list /\ t \in worktrees
    /\ \A s \in Slots : Live(s) => life[s].t # t

Orphaned ==
    /\ HeldBySomebody
    /\ \A o \in orphans :
         /\ o.agent \in 1 .. enrolled
         /\ \A s \in Slots : life[s].pc \in WithAgent => life[s].agent # o.agent
         /\ holder[o.t] = o.agent => Undisturbed(o.t)

IInv == TypeOK /\ Owned /\ Orphaned

-----------------------------------------------------------------------------
(* Records of lifecycles.                                                  *)

LivePcs == WithAgent \cup {"enroll", "leave"}
LiveRecord == [pc : LivePcs, t : Tasks, agent : Agents \cup {NoAgent},
               ok : BOOLEAN, dir : BOOLEAN, run : BOOLEAN]

LEMMA LivesSplit == Lives = {Free} \cup LiveRecord
  BY DEF Lives, LiveRecord, LivePcs, WithAgent

LEMMA LiveIsRecord ==
    ASSUME TypeOK, NEW s \in Slots, Live(s)
    PROVE  life[s] \in LiveRecord
<1>1. life[s] \in Lives
  BY DEF TypeOK
<1>2. life[s] # Free
  BY DEF Live, Free
<1> QED BY <1>1, <1>2, LivesSplit

(* A slot either is free or has a program counter of a lifecycle.          *)
LEMMA FreeOrLive ==
    ASSUME TypeOK, NEW s \in Slots
    PROVE  /\ Live(s) <=> life[s].pc \in LivePcs
           /\ ~Live(s) <=> life[s] = Free
           /\ life[s].pc \in LivePcs \cup {"free"}
<1>1. life[s] \in {Free} \cup LiveRecord
  <2>1. life[s] \in Lives
    BY DEF TypeOK
  <2> QED BY <2>1, LivesSplit
<1> QED BY <1>1 DEF Live, Free, LiveRecord, LivePcs, WithAgent

LEMMA MoveTo ==
    ASSUME NEW x \in LiveRecord, NEW pc \in LivePcs
    PROVE  /\ [x EXCEPT !.pc = pc] \in LiveRecord
           /\ [x EXCEPT !.pc = pc].pc = pc
           /\ [x EXCEPT !.pc = pc].t = x.t
           /\ [x EXCEPT !.pc = pc].agent = x.agent
           /\ [x EXCEPT !.pc = pc].run = x.run
  BY DEF LiveRecord

-----------------------------------------------------------------------------
(* The tower's tasks.                                                      *)

TowerOK ==
    /\ phase \in [Tasks -> Tower!Phases]
    /\ lease \in [Tasks -> 0 .. MaxLeases]
    /\ issued \in 0 .. MaxLeases
    /\ holder \in [Tasks -> Holders]
    /\ lapsed \subseteq Tasks

LEMMA ClaimTyped ==
    ASSUME TowerOK, NEW t \in Tasks, NEW who \in Holders, Claim(t, who)
    PROVE  TowerOK'
<1>1. issued + 1 \in 0 .. MaxLeases /\ issued' = issued + 1
  BY RunnerBounds DEF TowerOK, Claim, Tower!Grant
<1>2. phase' \in [Tasks -> Tower!Phases] /\ lease' \in [Tasks -> 0 .. MaxLeases]
  BY <1>1 DEF TowerOK, Claim, Tower!Grant, Tower!Phases
<1>3. holder' \in [Tasks -> Holders] /\ lapsed' \subseteq Tasks
  BY DEF TowerOK, Claim
<1> QED BY <1>1, <1>2, <1>3 DEF TowerOK

LEMMA MoveTyped ==
    ASSUME TowerOK, NEW t \in Tasks, NEW from, NEW to \in SUBSET Tower!Phases,
           Tower!Move(t, from, to), LetGo(t)
    PROVE  TowerOK'
<1>1. 0 \in 0 .. MaxLeases /\ Nobody \in Holders
  BY RunnerBounds DEF Holders
<1> QED BY <1>1 DEF TowerOK, Tower!Move, LetGo

LEMMA FinishTyped ==
    ASSUME TowerOK, NEW t \in Tasks, NEW who, NEW ok, Finish(t, who, ok)
    PROVE  TowerOK'
<1>1. CASE UNCHANGED tower
  BY <1>1 DEF TowerOK, tower
<1>2. CASE (Tower!Finish(t) \/ Tower!Stop(t)) /\ LetGo(t)
  <2>1. {"finished"} \in SUBSET Tower!Phases /\ {"stopped"} \in SUBSET Tower!Phases
    BY DEF Tower!Phases
  <2> QED BY <1>2, <2>1, MoveTyped DEF Tower!Finish, Tower!Stop
<1> QED BY <1>1, <1>2 DEF Finish

LEMMA ExpireTyped ==
    ASSUME TowerOK, NEW t \in Tasks, Expire(t)
    PROVE  TowerOK'
<1>1. {"open", "stopped"} \in SUBSET Tower!Phases
  BY DEF Tower!Phases
<1> QED BY <1>1, MoveTyped DEF Expire

LEMMA OthersMoveTyped ==
    ASSUME TowerOK, NEW t \in Tasks, OthersMove(t)
    PROVE  TowerOK'
<1>1. {"finished"} \in SUBSET Tower!Phases /\ {"stopped"} \in SUBSET Tower!Phases
      /\ {"open"} \in SUBSET Tower!Phases
  BY DEF Tower!Phases
<1> QED BY <1>1, MoveTyped DEF OthersMove, Tower!Finish, Tower!Stop, Tower!Reopen

-----------------------------------------------------------------------------
(* Type correctness.                                                       *)

NodeOK ==
    /\ agents \subseteq Agents /\ runs \subseteq Agents
    /\ enrolled \in 0 .. MaxEnrolls
    /\ list \subseteq Tasks
    /\ in_flight \subseteq Tasks
    /\ life \in [Slots -> Lives]
    /\ worktrees \subseteq Tasks
    /\ loop \in [Loops -> LoopStates]
    /\ watchdog \in {"connected", "degraded", "offline"}
    /\ why \in [Agents -> {"nothing", "call failed", "crash", "refused"}]
    /\ crashes \in 0 .. MaxCrashes
    /\ orphans \subseteq [t : Tasks, agent : Agents]

LEMMA TypeSplit == TypeOK <=> TowerOK /\ NodeOK
  BY DEF TypeOK, TowerOK, NodeOK

LEMMA TypeSplitNext == TowerOK' /\ NodeOK' => TypeOK'
  BY DEF TypeOK, TowerOK, NodeOK

(* The tower is well typed after a worker's step.                          *)
LEMMA LifecycleTower ==
    ASSUME TypeOK, OneAgent, NEW s \in Slots, Lifecycle(s) \/ SubprocessEnds(s)
    PROVE  TowerOK'
<1>0. TowerOK
  BY TypeSplit
<1>1. UNCHANGED tower => TowerOK'
  BY <1>0 DEF TowerOK, tower
<1>2. CASE LifeClaim(s)
  <2>1. Live(s) /\ life[s].pc \in WithAgent
    BY <1>2 DEF LifeClaim, At, Live, WithAgent
  <2>2. life[s].t \in Tasks /\ life[s].agent \in Holders
    <3>1. enrolled \in 0 .. MaxEnrolls
      BY DEF TypeOK
    <3>2. life[s].agent \in Agents
      BY <2>1, <3>1, RunnerBounds DEF OneAgent, Agents
    <3> QED BY <2>1, <3>2, LiveIsRecord DEF LiveRecord, Holders
  <2>3. UNCHANGED tower \/ Claim(life[s].t, life[s].agent)
    BY <1>2 DEF LifeClaim
  <2> QED BY <1>0, <1>1, <2>2, <2>3, ClaimTyped
<1>3. CASE Settle(s)
  <2>1. Live(s)
    BY <1>3 DEF Settle, At, Live
  <2>2. life[s].t \in Tasks
    BY <2>1, LiveIsRecord DEF LiveRecord
  <2>3. UNCHANGED tower \/ Finish(life[s].t, life[s].agent, life[s].ok)
    BY <1>3 DEF Settle
  <2> QED BY <1>0, <1>1, <2>2, <2>3, FinishTyped
<1>4. CASE ~LifeClaim(s) /\ ~Settle(s)
  BY <1>1, <1>4 DEF Lifecycle, SubprocessEnds, Enroll, CreateWorktree, StartRun, CloseRun,
       DeleteAgent, RemoveWorktree, Leave
<1> QED BY <1>2, <1>3, <1>4

(* What a step of the lifecycle in s may do to its slot.                   *)
LEMMA LifecycleSlot ==
    ASSUME TypeOK, OneAgent, NEW s \in Slots, Lifecycle(s) \/ SubprocessEnds(s)
    PROVE  /\ Live(s)
           /\ \/ Leave(s) /\ life' = [life EXCEPT ![s] = Free]
              \/ /\ ~Leave(s)
                 /\ UNCHANGED in_flight
                 /\ \E x \in LiveRecord : life' = [life EXCEPT ![s] = x] /\ x.t = life[s].t
<1>1. Live(s)
  BY DEF Lifecycle, SubprocessEnds, Enroll, LifeClaim, CreateWorktree, StartRun, CloseRun, Settle,
         DeleteAgent, RemoveWorktree, Leave, At, Live
<1>2. life[s] \in LiveRecord
  BY <1>1, LiveIsRecord
<1>3. \A pc \in LivePcs : To(s, pc) =>
         \E x \in LiveRecord : life' = [life EXCEPT ![s] = x] /\ x.t = life[s].t
  <2> SUFFICES ASSUME NEW pc \in LivePcs, To(s, pc)
               PROVE  \E x \in LiveRecord : life' = [life EXCEPT ![s] = x] /\ x.t = life[s].t
    OBVIOUS
  <2>1. [life[s] EXCEPT !.pc = pc] \in LiveRecord /\ [life[s] EXCEPT !.pc = pc].t = life[s].t
    BY <1>2, MoveTo
  <2> QED BY <2>1 DEF To, Becomes
<1>pcs. {"claim", "worktree", "start_run", "subprocess", "close_run", "settle", "delete", "remove",
         "leave"} \subseteq LivePcs
  BY DEF LivePcs, WithAgent
<1>4. CASE Leave(s)
  BY <1>1, <1>4 DEF Leave, Becomes
<1>5. CASE Enroll(s)
  <2>1. CASE To(s, "leave")
    BY <1>1, <1>3, <1>5, <1>pcs, <2>1 DEF Enroll, Leave, At
  <2>2. CASE enrolled < MaxEnrolls /\ enrolled' = enrolled + 1
             /\ Becomes(s, [life[s] EXCEPT !.pc = "claim", !.agent = enrolled'])
    <3>1. enrolled' \in Agents
      <4>1. enrolled \in 0 .. MaxEnrolls
        BY DEF TypeOK
      <4> QED BY <2>2, <4>1, RunnerBounds DEF Agents
    <3>2. [life[s] EXCEPT !.pc = "claim", !.agent = enrolled'] \in LiveRecord
          /\ [life[s] EXCEPT !.pc = "claim", !.agent = enrolled'].t = life[s].t
      BY <1>2, <3>1, <1>pcs DEF LiveRecord
    <3> QED BY <1>1, <1>5, <2>2, <3>2 DEF Enroll, Leave, At, Becomes
  <2> QED BY <1>5, <2>1, <2>2 DEF Enroll
<1>6. CASE LifeClaim(s)
  BY <1>1, <1>3, <1>6, <1>pcs DEF LifeClaim, AfterLostClaim, Leave, At
<1>7. CASE CreateWorktree(s)
  <2>1. [life[s] EXCEPT !.pc = "start_run", !.dir = TRUE] \in LiveRecord
        /\ [life[s] EXCEPT !.pc = "start_run", !.dir = TRUE].t = life[s].t
    BY <1>2, <1>pcs DEF LiveRecord
  <2> QED BY <1>1, <1>3, <1>7, <1>pcs, <2>1 DEF CreateWorktree, Leave, At, Becomes
<1>8. CASE StartRun(s)
  <2>1. \A pc \in LivePcs :
          /\ [[life[s] EXCEPT !.run = TRUE] EXCEPT !.pc = pc] \in LiveRecord
          /\ [[life[s] EXCEPT !.run = TRUE] EXCEPT !.pc = pc].t = life[s].t
    BY <1>2 DEF LiveRecord
  <2> QED BY <1>1, <1>3, <1>8, <1>pcs, <2>1 DEF StartRun, Leave, At, Becomes
<1>9. CASE SubprocessEnds(s)
  <2>1. \A pc \in LivePcs, ok \in BOOLEAN :
          /\ [life[s] EXCEPT !.ok = ok, !.pc = pc] \in LiveRecord
          /\ [life[s] EXCEPT !.ok = ok, !.pc = pc].t = life[s].t
    BY <1>2 DEF LiveRecord
  <2>2. (IF life[s].run THEN "close_run" ELSE "settle") \in LivePcs
    BY <1>pcs
  <2>3. At(s, "subprocess") /\ UNCHANGED in_flight
    BY <1>9 DEF SubprocessEnds
  <2>4. ~Leave(s)
    BY <2>3 DEF Leave, At
  <2>5. PICK ok \in BOOLEAN :
          life' = [life EXCEPT ![s] = [life[s] EXCEPT !.ok = ok,
                                          !.pc = IF life[s].run THEN "close_run" ELSE "settle"]]
    BY <1>9 DEF SubprocessEnds, Becomes
  <2> DEFINE x == [life[s] EXCEPT !.ok = ok, !.pc = IF life[s].run THEN "close_run" ELSE "settle"]
  <2>6. x \in LiveRecord /\ x.t = life[s].t
    BY <2>1, <2>2
  <2>7. life' = [life EXCEPT ![s] = x]
    BY <2>5
  <2> HIDE DEF x
  <2> QED BY <1>1, <2>3, <2>4, <2>6, <2>7
<1>10. CASE CloseRun(s)
  BY <1>1, <1>3, <1>10, <1>pcs DEF CloseRun, Leave, At
<1>11. CASE Settle(s)
  BY <1>1, <1>3, <1>11, <1>pcs DEF Settle, Leave, At
<1>12. CASE DeleteAgent(s)
  BY <1>1, <1>3, <1>12, <1>pcs DEF DeleteAgent, Leave, At
<1>13. CASE RemoveWorktree(s)
  BY <1>1, <1>3, <1>13, <1>pcs DEF RemoveWorktree, Leave, At
<1> QED BY <1>4, <1>5, <1>6, <1>7, <1>8, <1>9, <1>10, <1>11, <1>12, <1>13 DEF Lifecycle

(* An enrolment takes the next number, or does not happen.                 *)
LEMMA EnrollRows ==
    ASSUME enrolled \in 0 .. MaxEnrolls, NEW s \in Slots, Enroll(s)
    PROVE  \/ enrolled' = enrolled /\ agents' = agents /\ UNCHANGED why
           \/ /\ enrolled' = enrolled + 1 /\ enrolled' \in Agents
              /\ enrolled' \in 0 .. MaxEnrolls
              /\ agents' = agents \cup {enrolled'}
<1>1. (enrolled < MaxEnrolls /\ enrolled' = enrolled + 1) =>
        (enrolled' \in Agents /\ enrolled' \in 0 .. MaxEnrolls)
  BY RunnerBounds DEF Agents
<1>2. CASE enrolled < MaxEnrolls /\ enrolled' = enrolled + 1 /\ agents' = agents \cup {enrolled'}
  BY <1>1, <1>2
<1>3. CASE UNCHANGED <<agents, enrolled, why>>
  BY <1>3
<1> QED BY <1>2, <1>3 DEF Enroll

(* The daemon's state after a worker's step.                               *)
LEMMA LifecycleNode ==
    ASSUME TypeOK, OneAgent, NEW s \in Slots, Lifecycle(s) \/ SubprocessEnds(s)
    PROVE  NodeOK'
<1>0. NodeOK
  BY TypeSplit
<1>1. life' \in [Slots -> Lives] /\ Live(s) /\ life[s] \in LiveRecord
  <2>1. life \in [Slots -> Lives]
    BY <1>0 DEF NodeOK
  <2> QED BY <2>1, LifecycleSlot, LivesSplit, LiveIsRecord
<1>2. UNCHANGED <<list, loop, watchdog, crashes, orphans>> /\ in_flight' \subseteq Tasks
  <2>1. in_flight \subseteq Tasks
    BY <1>0 DEF NodeOK
  <2> QED BY <2>1 DEF Lifecycle, SubprocessEnds, Enroll, LifeClaim, CreateWorktree, StartRun,
         CloseRun, Settle, DeleteAgent, RemoveWorktree, Leave, looping, rows, past, InFlightWithout
<1>3. enrolled' \in 0 .. MaxEnrolls
  <2>1. enrolled \in 0 .. MaxEnrolls
    BY <1>0 DEF NodeOK
  <2>2. CASE Enroll(s)
    BY <2>1, <2>2, EnrollRows
  <2>3. CASE ~Enroll(s)
    BY <2>1, <2>3 DEF Lifecycle, SubprocessEnds, LifeClaim, CreateWorktree,
         StartRun, CloseRun, Settle, DeleteAgent, RemoveWorktree, Leave, rows
  <2> QED BY <2>2, <2>3
<1>4. worktrees' \subseteq Tasks
  <2>1. worktrees \subseteq Tasks /\ life[s].t \in Tasks
    BY <1>0, <1>1 DEF NodeOK, LiveRecord
  <2> QED BY <2>1 DEF Lifecycle, SubprocessEnds, Enroll, LifeClaim, CreateWorktree,
         StartRun, CloseRun, Settle, DeleteAgent, RemoveWorktree, Leave, rows
<1>5. life[s].pc \in WithAgent => life[s].agent \in Agents
  <2>1. enrolled \in 0 .. MaxEnrolls
    BY <1>0 DEF NodeOK
  <2> QED BY <2>1, RunnerBounds DEF OneAgent, Agents
<1>6. agents' \subseteq Agents /\ runs' \subseteq Agents
  <2>1. agents \subseteq Agents /\ runs \subseteq Agents
    BY <1>0 DEF NodeOK
  <2>2. CASE Enroll(s)
    <3>1. enrolled \in 0 .. MaxEnrolls
      BY <1>0 DEF NodeOK
    <3>2. runs' = runs
      BY <2>2 DEF Enroll
    <3> QED BY <2>1, <2>2, <3>1, <3>2, EnrollRows
  <2>3. CASE StartRun(s)
    BY <1>5, <2>1, <2>3 DEF StartRun, At, WithAgent
  <2>4. CASE ~Enroll(s) /\ ~StartRun(s)
    BY <2>1, <2>4 DEF Lifecycle, SubprocessEnds, LifeClaim, CreateWorktree, CloseRun, Settle,
         DeleteAgent, RemoveWorktree, Leave, rows
  <2> QED BY <2>2, <2>3, <2>4
<1>7. why' \in [Agents -> {"nothing", "call failed", "crash", "refused"}]
  <2>1. why \in [Agents -> {"nothing", "call failed", "crash", "refused"}]
    BY <1>0 DEF NodeOK
  <2>2. CASE Enroll(s)
    BY <2>1, <2>2 DEF Enroll
  <2>3. CASE StartRun(s)
    BY <2>1, <2>3 DEF StartRun, CallFailed
  <2>4. CASE CloseRun(s) \/ DeleteAgent(s)
    BY <2>1, <2>4 DEF CloseRun, DeleteAgent, CallFailed
  <2>5. CASE ~Enroll(s) /\ ~StartRun(s) /\ ~CloseRun(s) /\ ~DeleteAgent(s)
    BY <2>1, <2>5 DEF Lifecycle, SubprocessEnds, LifeClaim, CreateWorktree, Settle,
         RemoveWorktree, Leave, rows
  <2> QED BY <2>2, <2>3, <2>4, <2>5
<1> QED BY <1>0, <1>1, <1>2, <1>3, <1>4, <1>6, <1>7 DEF NodeOK

-----------------------------------------------------------------------------
(* A lifecycle owns its task and, while it runs, its directory.            *)

LEMMA LifecycleTask ==
    ASSUME TypeOK, OneAgent, OnePerTask, NEW s \in Slots, Lifecycle(s) \/ SubprocessEnds(s)
    PROVE  OnePerTask'
<1>0. life \in [Slots -> Lives]
  BY DEF TypeOK
<1>1. Live(s)
  BY LifecycleSlot
<1>2. CASE Leave(s)
  <2>1. life' = [life EXCEPT ![s] = Free] /\ in_flight' = in_flight \ {life[s].t}
    BY <1>2 DEF Leave, Becomes, InFlightWithout
  <2> QED BY <1>0, <1>1, <2>1 DEF OnePerTask, Live, Free
<1>3. CASE ~Leave(s)
  <2>1. PICK x \in LiveRecord : life' = [life EXCEPT ![s] = x] /\ x.t = life[s].t
    BY <1>3, LifecycleSlot
  <2>2. in_flight' = in_flight
    BY <1>3, LifecycleSlot
  <2> QED BY <1>0, <1>1, <2>1, <2>2 DEF OnePerTask, Live
<1> QED BY <1>2, <1>3

LEMMA LifecycleDir ==
    ASSUME TypeOK, OneAgent, OnePerTask, DirInUse, NEW s \in Slots,
           Lifecycle(s) \/ SubprocessEnds(s)
    PROVE  DirInUse'
<1>0. life \in [Slots -> Lives]
  BY DEF TypeOK
<1>1. Live(s) /\ life[s] \in LiveRecord
  BY LifecycleSlot, LiveIsRecord
<1>2. PICK x \in LiveRecord \cup {Free} :
        life' = [life EXCEPT ![s] = x] /\ (x # Free => x.t = life[s].t)
  BY LifecycleSlot
<1>3. \A r \in Slots : r # s => life'[r] = life[r]
  BY <1>0, <1>2
<1>4. life'[s] = x
  BY <1>0, <1>2
<1>5. CASE RemoveWorktree(s)
  <2>1. x.pc = "leave"
    BY <1>1, <1>4, <1>5, <1>0 DEF RemoveWorktree, To, Becomes, LiveRecord
  <2>2. \A r \in Slots : (r # s /\ life[r].pc \in {"start_run", "subprocess"}) => life[r].t # life[s].t
    BY <1>1 DEF OnePerTask, Live
  <2> QED BY <1>3, <1>4, <1>5, <2>1, <2>2 DEF DirInUse, RemoveWorktree
<1>6. CASE CreateWorktree(s)
  <2>1. x.pc \in {"start_run", "subprocess"} => x.t \in worktrees'
    <3>1. (worktrees' = worktrees \cup {life[s].t}) \/ x.pc = "settle"
      BY <1>0, <1>1, <1>4, <1>6 DEF CreateWorktree, To, Becomes, LiveRecord
    <3>2. x # Free \/ x.pc = "free"
      BY DEF Free
    <3> QED BY <1>2, <3>1, <3>2
  <2>2. worktrees \subseteq worktrees'
    BY <1>6 DEF CreateWorktree
  <2> QED BY <1>3, <1>4, <2>1, <2>2 DEF DirInUse
<1>7. CASE ~RemoveWorktree(s) /\ ~CreateWorktree(s)
  <2>1. worktrees' = worktrees
    BY <1>7 DEF Lifecycle, SubprocessEnds, Enroll, LifeClaim, StartRun, CloseRun, Settle,
         DeleteAgent, Leave, rows
  <2>2. x.pc \in {"start_run", "subprocess"} => life[s].pc \in {"start_run", "subprocess"}
    <3>1. CASE StartRun(s)
      BY <3>1 DEF StartRun, At
    <3>2. CASE Leave(s)
      BY <1>0, <1>4, <3>2 DEF Leave, Becomes, Free
    <3>3. CASE Enroll(s)
      <4>1. \A y \in LiveRecord : \A a :
              /\ [y EXCEPT !.pc = "claim", !.agent = a].pc = "claim"
              /\ [y EXCEPT !.pc = "leave"].pc = "leave"
        BY DEF LiveRecord
      <4>2. \/ \E a : life' = [life EXCEPT ![s] = [life[s] EXCEPT !.pc = "claim", !.agent = a]]
            \/ life' = [life EXCEPT ![s] = [life[s] EXCEPT !.pc = "leave"]]
        BY <3>3 DEF Enroll, To, Becomes
      <4>3. \A y : life' = [life EXCEPT ![s] = y] => x = y
        BY <1>0, <1>4
      <4>4. CASE \E a : life' = [life EXCEPT ![s] = [life[s] EXCEPT !.pc = "claim", !.agent = a]]
        <5>1. PICK a : life' = [life EXCEPT ![s] = [life[s] EXCEPT !.pc = "claim", !.agent = a]]
          BY <4>4
        <5>2. x = [life[s] EXCEPT !.pc = "claim", !.agent = a]
          BY <4>3, <5>1
        <5> QED BY <1>1, <4>1, <5>2
      <4>5. CASE life' = [life EXCEPT ![s] = [life[s] EXCEPT !.pc = "leave"]]
        <5>1. x = [life[s] EXCEPT !.pc = "leave"]
          BY <4>3, <4>5
        <5> QED BY <1>1, <4>1, <5>1
      <4> QED BY <4>2, <4>4, <4>5
    <3>4. CASE SubprocessEnds(s)
      BY <3>4 DEF SubprocessEnds, At
    <3>5. ASSUME NEW pc \in {"worktree", "delete", "settle", "remove", "leave"}, To(s, pc)
          PROVE  x.pc = pc
      BY <1>0, <1>1, <1>4, <3>5 DEF To, Becomes, LiveRecord
    <3>6. CASE LifeClaim(s) \/ CloseRun(s) \/ Settle(s) \/ DeleteAgent(s)
      BY <3>5, <3>6 DEF LifeClaim, AfterLostClaim, CloseRun, Settle, DeleteAgent
    <3> QED BY <1>7, <3>1, <3>2, <3>3, <3>4, <3>6 DEF Lifecycle
  <2>3. x # Free \/ x.pc = "free"
    BY DEF Free
  <2> QED BY <1>2, <1>3, <1>4, <2>1, <2>2, <2>3 DEF DirInUse
<1> QED BY <1>5, <1>6, <1>7

-----------------------------------------------------------------------------
(* A lifecycle owns its agent and answers for its rows.                    *)

(* Where each step leaves the slot, and that it keeps the agent.           *)
LEMMA SlotAfter ==
    ASSUME TypeOK, OneAgent, NEW s \in Slots, Lifecycle(s) \/ SubprocessEnds(s)
    PROVE  /\ \A r \in Slots : r # s => life'[r] = life[r]
           /\ (~Enroll(s) /\ ~Leave(s)) =>
                life'[s].agent = life[s].agent /\ life[s].pc \in WithAgent
           /\ LifeClaim(s) => life'[s].pc \in {"worktree", "delete"}
           /\ CreateWorktree(s) => life'[s].pc \in {"start_run", "settle"}
           /\ StartRun(s) => life'[s].pc \in {"subprocess", "settle"}
           /\ SubprocessEnds(s) =>
                /\ life'[s].run = life[s].run
                /\ life'[s].pc \in {"close_run", "settle"}
                /\ life[s].run => life'[s].pc = "close_run"
           /\ CloseRun(s) => life'[s].pc = "settle"
           /\ Settle(s) => life'[s].pc = "delete"
           /\ DeleteAgent(s) => life'[s].pc \in {"remove", "leave"}
           /\ RemoveWorktree(s) => life'[s].pc = "leave"
           /\ Leave(s) => life'[s].pc = "free"
<1>0. life \in [Slots -> Lives]
  BY DEF TypeOK
<1>1. life[s] \in LiveRecord
  BY LifecycleSlot, LiveIsRecord
<1>2. \A r \in Slots : r # s => life'[r] = life[r]
  BY <1>0, LifecycleSlot
<1>3. ASSUME NEW pc \in LivePcs, To(s, pc)
      PROVE  life'[s].pc = pc /\ life'[s].agent = life[s].agent
  <2>1. life'[s] = [life[s] EXCEPT !.pc = pc]
    BY <1>0, <1>3 DEF To, Becomes
  <2> QED BY <1>1, <2>1, MoveTo
<1>pcs. {"worktree", "settle", "delete", "remove", "leave", "subprocess"} \subseteq LivePcs
  BY DEF LivePcs, WithAgent
<1>4. LifeClaim(s) => life'[s].pc \in {"worktree", "delete"} /\ life'[s].agent = life[s].agent
  BY <1>3, <1>pcs DEF LifeClaim, AfterLostClaim
<1>5. CreateWorktree(s) => life'[s].pc \in {"start_run", "settle"} /\ life'[s].agent = life[s].agent
  <2>1. Becomes(s, [life[s] EXCEPT !.pc = "start_run", !.dir = TRUE]) =>
          life'[s].pc = "start_run" /\ life'[s].agent = life[s].agent
    BY <1>0, <1>1 DEF Becomes, LiveRecord
  <2> QED BY <1>3, <1>pcs, <2>1 DEF CreateWorktree
<1>6. StartRun(s) => life'[s].pc \in {"subprocess", "settle"} /\ life'[s].agent = life[s].agent
  <2>1. ASSUME NEW pc \in {"subprocess", "settle"},
               Becomes(s, [[life[s] EXCEPT !.run = TRUE] EXCEPT !.pc = pc])
        PROVE  life'[s].pc = pc /\ life'[s].agent = life[s].agent
    BY <1>0, <1>1, <2>1 DEF Becomes, LiveRecord
  <2> QED BY <1>3, <1>pcs, <2>1 DEF StartRun
<1>7. SubprocessEnds(s) => /\ life'[s].agent = life[s].agent
                           /\ life'[s].run = life[s].run
                           /\ life'[s].pc = IF life[s].run THEN "close_run" ELSE "settle"
  <2>1. ASSUME NEW ok \in BOOLEAN, NEW pc,
               Becomes(s, [life[s] EXCEPT !.ok = ok, !.pc = pc])
        PROVE  life'[s].agent = life[s].agent /\ life'[s].run = life[s].run /\ life'[s].pc = pc
    BY <1>0, <1>1, <2>1 DEF Becomes, LiveRecord
  <2> QED BY <2>1 DEF SubprocessEnds
<1>8. /\ CloseRun(s) => life'[s].pc = "settle" /\ life'[s].agent = life[s].agent
      /\ Settle(s) => life'[s].pc = "delete" /\ life'[s].agent = life[s].agent
      /\ DeleteAgent(s) => life'[s].pc \in {"remove", "leave"} /\ life'[s].agent = life[s].agent
      /\ RemoveWorktree(s) => life'[s].pc = "leave" /\ life'[s].agent = life[s].agent
  BY <1>3, <1>pcs DEF CloseRun, Settle, DeleteAgent, RemoveWorktree
<1>9. Leave(s) => life'[s].pc = "free"
  BY <1>0 DEF Leave, Becomes, Free
<1>10. (~Enroll(s) /\ ~Leave(s)) => life[s].pc \in WithAgent
  BY DEF Lifecycle, LifeClaim, CreateWorktree, StartRun, CloseRun, Settle, DeleteAgent,
         RemoveWorktree, SubprocessEnds, At, WithAgent
<1>11. (~Enroll(s) /\ ~Leave(s)) => life'[s].agent = life[s].agent
  BY <1>4, <1>5, <1>6, <1>7, <1>8 DEF Lifecycle
<1> QED BY <1>2, <1>4, <1>5, <1>6, <1>7, <1>8, <1>9, <1>10, <1>11

(* The slot of an enrolment holds the new number, or no agent.             *)
LEMMA SlotEnrolled ==
    ASSUME TypeOK, NEW s \in Slots, Enroll(s)
    PROVE  /\ \A r \in Slots : r # s => life'[r] = life[r]
           /\ life[s].pc = "enroll"
           /\ runs' = runs
           /\ \/ /\ life'[s].pc = "leave"
                 /\ enrolled' = enrolled /\ agents' = agents /\ why' = why
              \/ /\ enrolled' = enrolled + 1 /\ enrolled' \in Agents
                 /\ agents' = agents \cup {enrolled'}
                 /\ \/ life'[s].pc = "leave" /\ why' = [why EXCEPT ![enrolled'] = "call failed"]
                    \/ life'[s].pc = "claim" /\ life'[s].agent = enrolled' /\ why' = why
<1>0. life \in [Slots -> Lives]
  BY DEF TypeOK
<1>1. life[s] \in LiveRecord
  BY LiveIsRecord DEF Enroll, At, Live
<1>2. enrolled \in 0 .. MaxEnrolls
  BY DEF TypeOK
<1>3. (enrolled < MaxEnrolls /\ enrolled' = enrolled + 1) => enrolled' \in Agents
  BY <1>2, RunnerBounds DEF Agents
<1>4. Becomes(s, [life[s] EXCEPT !.pc = "claim", !.agent = enrolled']) =>
        life'[s].pc = "claim" /\ life'[s].agent = enrolled'
  BY <1>0, <1>1 DEF Becomes, LiveRecord
<1>5. To(s, "leave") => life'[s].pc = "leave"
  BY <1>0, <1>1 DEF To, Becomes, LiveRecord
<1>6. \A r \in Slots : r # s => life'[r] = life[r]
  BY <1>0 DEF Enroll, To, Becomes
<1>7. CASE To(s, "leave") /\ UNCHANGED <<agents, enrolled, why>>
  BY <1>5, <1>6, <1>7 DEF Enroll, At
<1>8. CASE /\ enrolled < MaxEnrolls /\ enrolled' = enrolled + 1 /\ agents' = agents \cup {enrolled'}
           /\ \/ Becomes(s, [life[s] EXCEPT !.pc = "claim", !.agent = enrolled']) /\ UNCHANGED why
              \/ To(s, "leave") /\ why' = [why EXCEPT ![enrolled'] = "call failed"]
  BY <1>3, <1>4, <1>5, <1>6, <1>8 DEF Enroll, At
<1> QED BY <1>7, <1>8 DEF Enroll

(* A lifecycle that goes on holding an agent held the same one before.     *)
LEMMA AgentKept ==
    ASSUME TypeOK, OneAgent, NEW s \in Slots, Lifecycle(s) \/ SubprocessEnds(s), ~Enroll(s)
    PROVE  /\ enrolled' = enrolled
           /\ agents' \subseteq agents
           /\ \A r \in Slots : life'[r].pc \in WithAgent =>
                life[r].pc \in WithAgent /\ life'[r].agent = life[r].agent
<1>1. \A r \in Slots : life'[r].pc \in WithAgent =>
                life[r].pc \in WithAgent /\ life'[r].agent = life[r].agent
  BY SlotAfter DEF WithAgent
<1>2. enrolled' = enrolled /\ agents' \subseteq agents
  BY DEF Lifecycle, SubprocessEnds, LifeClaim, CreateWorktree, StartRun, CloseRun, Settle,
         DeleteAgent, RemoveWorktree, Leave, rows
<1> QED BY <1>1, <1>2

LEMMA LifecycleAgent ==
    ASSUME TypeOK, OneAgent, NEW s \in Slots, Lifecycle(s) \/ SubprocessEnds(s)
    PROVE  OneAgent'
<1>0. enrolled \in Nat
  <2>1. enrolled \in 0 .. MaxEnrolls
    BY DEF TypeOK
  <2> QED BY <2>1
<1>agents. Agents \subseteq Nat
  BY DEF Agents
<1>1. CASE Enroll(s)
  <2>0. (\A r \in Slots : r # s => life'[r] = life[r]) /\ runs' = runs
    BY <1>1, SlotEnrolled
  <2>1. CASE life'[s].pc = "leave" /\ enrolled' = enrolled /\ agents' = agents
    <3>1. \A r \in Slots : life'[r].pc \in WithAgent => r # s /\ life'[r] = life[r]
      BY <2>0, <2>1 DEF WithAgent
    <3> QED BY <2>0, <2>1, <3>1 DEF OneAgent
  <2>2. CASE /\ enrolled' = enrolled + 1 /\ agents' = agents \cup {enrolled'}
             /\ life'[s].pc = "leave" \/ (life'[s].pc = "claim" /\ life'[s].agent = enrolled')
    <3>1. \A r \in Slots : life'[r].pc \in WithAgent =>
            \/ r = s /\ life'[r].agent = enrolled + 1
            \/ r # s /\ life'[r] = life[r] /\ life'[r].agent \in 1 .. enrolled
      BY <1>1, <2>2, SlotEnrolled DEF OneAgent, WithAgent
    <3>2. \A r \in Slots : life'[r].pc \in WithAgent => life'[r].agent \in 1 .. enrolled'
      BY <1>0, <2>2, <3>1
    <3>3. \A q, r \in Slots :
            (life'[q].pc \in WithAgent /\ life'[r].pc \in WithAgent
             /\ life'[q].agent = life'[r].agent) => q = r
      <4>1. enrolled + 1 \notin 1 .. enrolled
        BY <1>0
      <4> QED BY <3>1, <4>1 DEF OneAgent
    <3>4. \A a \in Agents : a > enrolled' => (a \notin agents' /\ a \notin runs')
      <4>1. \A a \in Agents : a > enrolled + 1 => (a > enrolled /\ a # enrolled + 1)
        BY <1>0, <1>agents
      <4> QED BY <1>1, <2>2, <4>1, SlotEnrolled DEF OneAgent
    <3> QED BY <3>2, <3>3, <3>4 DEF OneAgent
  <2> QED BY <1>1, <2>1, <2>2, SlotEnrolled
<1>2. CASE ~Enroll(s)
  <2>1. runs' \subseteq runs \cup (1 .. enrolled)
    <3>1. CASE StartRun(s)
      <4>1. life[s].agent \in 1 .. enrolled
        BY <3>1 DEF StartRun, At, OneAgent, WithAgent
      <4> QED BY <3>1, <4>1 DEF StartRun
    <3>2. CASE ~StartRun(s)
      BY <1>2, <3>2 DEF Lifecycle, SubprocessEnds, LifeClaim, CreateWorktree, CloseRun, Settle,
         DeleteAgent, RemoveWorktree, Leave, rows
    <3> QED BY <3>1, <3>2
  <2>2. \A a \in Agents : a > enrolled => a \notin 1 .. enrolled
    BY <1>0
  <2> QED BY <1>2, <2>1, <2>2, AgentKept DEF OneAgent
<1> QED BY <1>1, <1>2

LEMMA LifecycleAgentsAccounted ==
    ASSUME TypeOK, OneAgent, AgentsAccounted, NEW s \in Slots, Lifecycle(s) \/ SubprocessEnds(s)
    PROVE  AgentsAccounted'
<1>why. /\ why \in [Agents -> {"nothing", "call failed", "crash", "refused"}]
        /\ agents \subseteq Agents
  BY DEF TypeOK
<1>1. CASE Enroll(s)
  <2>0. (\A r \in Slots : r # s => life'[r] = life[r]) /\ life[s].pc = "enroll"
    BY <1>1, SlotEnrolled
  <2>1. \A a \in agents :
          \/ why[a] \in {"call failed", "crash"}
          \/ \E r \in Slots : life'[r].pc \in WithAgent \ {"remove"} /\ life'[r].agent = a
    <3> SUFFICES ASSUME NEW a \in agents, why[a] \notin {"call failed", "crash"}
                 PROVE  \E r \in Slots : life'[r].pc \in WithAgent \ {"remove"} /\ life'[r].agent = a
      OBVIOUS
    <3>1. PICK r \in Slots : life[r].pc \in WithAgent \ {"remove"} /\ life[r].agent = a
      BY DEF AgentsAccounted
    <3>2. r # s
      BY <2>0, <3>1 DEF WithAgent
    <3>3. life'[r] = life[r]
      BY <2>0, <3>2
    <3> QED BY <3>1, <3>3
  <2>2. CASE agents' = agents /\ why' = why
    BY <2>1, <2>2 DEF AgentsAccounted
  <2>3. CASE /\ enrolled' \in Agents /\ agents' = agents \cup {enrolled'}
             /\ why' = [why EXCEPT ![enrolled'] = "call failed"]
    <3>1. why'[enrolled'] = "call failed" /\ \A a \in agents : a # enrolled' => why'[a] = why[a]
      BY <1>why, <2>3
    <3> QED BY <2>1, <2>3, <3>1 DEF AgentsAccounted
  <2>4. CASE /\ agents' = agents \cup {enrolled'} /\ why' = why
             /\ life'[s].pc = "claim" /\ life'[s].agent = enrolled'
    <3>1. life'[s].pc \in WithAgent \ {"remove"}
      BY <2>4 DEF WithAgent
    <3> QED BY <2>1, <2>4, <3>1 DEF AgentsAccounted
  <2> QED BY <1>1, <2>2, <2>3, <2>4, SlotEnrolled
<1>2. CASE ~Enroll(s)
  <2>sub. agents' \subseteq agents
    BY <1>2, AgentKept
  <2>1. \A a \in Agents : a # life[s].agent => why'[a] = why[a]
    BY <1>2, <1>why DEF Lifecycle, SubprocessEnds, LifeClaim, CreateWorktree, StartRun, CloseRun,
       Settle, DeleteAgent, RemoveWorktree, Leave, CallFailed, rows
  <2>2. \A a \in agents : a # life[s].agent =>
          \/ why'[a] \in {"call failed", "crash"}
          \/ \E r \in Slots : life'[r].pc \in WithAgent \ {"remove"} /\ life'[r].agent = a
    <3> SUFFICES ASSUME NEW a \in agents, a # life[s].agent, why[a] \notin {"call failed", "crash"}
                 PROVE  \E r \in Slots : life'[r].pc \in WithAgent \ {"remove"} /\ life'[r].agent = a
      BY <1>why, <2>1
    <3>1. PICK r \in Slots : life[r].pc \in WithAgent \ {"remove"} /\ life[r].agent = a
      BY DEF AgentsAccounted
    <3>2. life'[r] = life[r]
      BY <3>1, SlotAfter
    <3> QED BY <3>1, <3>2
  <2>3. ASSUME life[s].agent \in agents'
        PROVE  \/ why'[life[s].agent] \in {"call failed", "crash"}
               \/ \E r \in Slots : life'[r].pc \in WithAgent \ {"remove"} /\ life'[r].agent = life[s].agent
    <3>1. CASE life[s].pc \in WithAgent \ {"remove"} /\ ~DeleteAgent(s)
      <4>1. ~Leave(s) /\ ~RemoveWorktree(s)
        BY <3>1 DEF Leave, RemoveWorktree, At, WithAgent
      <4>2. life'[s].pc \in WithAgent \ {"remove"} /\ life'[s].agent = life[s].agent
        BY <1>2, <3>1, <4>1, SlotAfter DEF Lifecycle, WithAgent
      <4> QED BY <4>2
    <3>2. CASE DeleteAgent(s)
      BY <1>why, <2>3, <2>sub, <3>2 DEF DeleteAgent, CallFailed
    <3>3. CASE life[s].pc \notin WithAgent \ {"remove"} /\ ~DeleteAgent(s)
      <4>1. RemoveWorktree(s) \/ Leave(s)
        BY <1>2, <3>3, SlotAfter DEF Lifecycle, SubprocessEnds, LifeClaim, CreateWorktree, StartRun,
           CloseRun, Settle, At, WithAgent
      <4>2. why' = why /\ agents' = agents
        BY <4>1 DEF RemoveWorktree, Leave, rows
      <4>3. life[s].agent \in agents
        BY <2>3, <4>2
      <4>4. CASE why[life[s].agent] \in {"call failed", "crash"}
        BY <4>2, <4>4
      <4>5. CASE \E r \in Slots : life[r].pc \in WithAgent \ {"remove"} /\ life[r].agent = life[s].agent
        <5>1. PICK r \in Slots : life[r].pc \in WithAgent \ {"remove"} /\ life[r].agent = life[s].agent
          BY <4>5
        <5>2. life'[r] = life[r]
          BY <3>3, <5>1, SlotAfter
        <5> QED BY <5>1, <5>2
      <4> QED BY <4>3, <4>4, <4>5 DEF AgentsAccounted
    <3> QED BY <3>1, <3>2, <3>3
  <2> QED BY <2>sub, <2>2, <2>3 DEF AgentsAccounted
<1> QED BY <1>1, <1>2

LEMMA LifecycleRunsAccounted ==
    ASSUME TypeOK, OneAgent, RunsAccounted, NEW s \in Slots, Lifecycle(s) \/ SubprocessEnds(s)
    PROVE  RunsAccounted'
<1>why. /\ why \in [Agents -> {"nothing", "call failed", "crash", "refused"}]
        /\ runs \subseteq Agents
  BY DEF TypeOK
<1> DEFINE Closes(r, a) == life[r].pc \in {"subprocess", "close_run"} /\ life[r].agent = a /\ life[r].run
<1>0. \A r \in Slots : r # s => life'[r] = life[r]
  BY LifecycleSlot, SlotAfter
<1>1. CASE ~StartRun(s) /\ ~CloseRun(s)
  <2>1. runs' = runs
    BY <1>1 DEF Lifecycle, SubprocessEnds, Enroll, LifeClaim, CreateWorktree, Settle, DeleteAgent,
       RemoveWorktree, Leave, rows
  <2>2. \A a \in Agents : why'[a] = why[a] \/ why'[a] = "call failed"
    <3>1. why' = why \/ \E b : why' = [why EXCEPT ![b] = "call failed"]
      <4>1. CASE Enroll(s)
        BY <4>1 DEF Enroll
      <4>2. CASE DeleteAgent(s)
        BY <4>2 DEF DeleteAgent, CallFailed
      <4>3. CASE ~Enroll(s) /\ ~DeleteAgent(s)
        BY <1>1, <4>3 DEF Lifecycle, SubprocessEnds, LifeClaim, CreateWorktree, Settle,
           RemoveWorktree, Leave, rows
      <4> QED BY <4>1, <4>2, <4>3
    <3> QED BY <1>why, <3>1
  <2> SUFFICES ASSUME NEW a \in runs, why'[a] = "nothing"
               PROVE  \E r \in Slots : Closes(r, a)'
    BY <2>1 DEF RunsAccounted
  <2>3. why[a] = "nothing"
    BY <1>why, <2>2
  <2>4. PICK r \in Slots : Closes(r, a)
    BY <2>3 DEF RunsAccounted
  <2>5. CASE r # s
    BY <1>0, <2>4, <2>5
  <2>6. CASE r = s
    <3>1. SubprocessEnds(s)
      BY <1>1, <2>4, <2>6 DEF Lifecycle, Enroll, LifeClaim, CreateWorktree, StartRun, CloseRun, Settle,
         DeleteAgent, RemoveWorktree, Leave, At
    <3>2. ~Enroll(s) /\ ~Leave(s)
      BY <3>1 DEF SubprocessEnds, Enroll, Leave, At
    <3>3. life'[s].agent = a /\ life'[s].run /\ life'[s].pc = "close_run"
      BY <2>4, <2>6, <3>1, <3>2, SlotAfter
    <3> QED BY <3>3
  <2> QED BY <2>5, <2>6
<1>2. CASE StartRun(s) \/ CloseRun(s)
  <2>1. /\ runs' \subseteq runs \cup {life[s].agent}
        /\ \A a \in Agents : a # life[s].agent => why'[a] = why[a]
    BY <1>2, <1>why DEF StartRun, CloseRun, CallFailed
  <2>2. \A a \in runs : a # life[s].agent =>
          \/ why'[a] # "nothing"
          \/ \E r \in Slots : Closes(r, a)'
    <3> SUFFICES ASSUME NEW a \in runs, a # life[s].agent, why[a] = "nothing"
                 PROVE  \E r \in Slots : Closes(r, a)'
      BY <1>why, <2>1
    <3>1. PICK r \in Slots : Closes(r, a)
      BY DEF RunsAccounted
    <3> QED BY <1>0, <3>1
  <2>agent. life[s].agent \in Agents
    <3>1. life[s].agent \in 1 .. enrolled
      BY <1>2 DEF StartRun, CloseRun, At, OneAgent, WithAgent
    <3>2. enrolled \in 0 .. MaxEnrolls
      BY DEF TypeOK
    <3> QED BY <3>1, <3>2, RunnerBounds DEF Agents
  <2>3. ASSUME NEW a \in runs', a = life[s].agent
        PROVE  why'[a] # "nothing" \/ \E r \in Slots : Closes(r, a)'
    <3>1. CASE CallFailed(s) \/ why' = [why EXCEPT ![life[s].agent] = "refused"]
      BY <1>why, <2>agent, <2>3, <3>1 DEF CallFailed
    <3>2. CASE Becomes(s, [life[s] EXCEPT !.run = TRUE, !.pc = "subprocess"])
      <4>1. life \in [Slots -> Lives]
        BY DEF TypeOK
      <4>2. life[s] \in LiveRecord
        BY LifecycleSlot, LiveIsRecord
      <4>3. life'[s].pc = "subprocess" /\ life'[s].run /\ life'[s].agent = a
        BY <2>3, <3>2, <4>1, <4>2 DEF Becomes, LiveRecord
      <4> QED BY <4>3
    <3>3. CASE runs' = runs \ {life[s].agent}
      BY <2>3, <3>3
    <3> QED BY <1>2, <3>1, <3>2, <3>3 DEF StartRun, CloseRun
  <2>4. ASSUME NEW a \in runs'
        PROVE  why'[a] # "nothing" \/ \E r \in Slots : Closes(r, a)'
    <3>1. CASE a = life[s].agent
      BY <2>3, <3>1
    <3>2. CASE a # life[s].agent
      <4>1. a \in runs
        BY <2>1, <3>2
      <4> QED BY <2>2, <3>2, <4>1
    <3> QED BY <3>1, <3>2
  <2> QED BY <2>4, Zenon DEF RunsAccounted
<1> QED BY <1>1, <1>2

-----------------------------------------------------------------------------
(* The steps that leave the lifecycles and their rows alone.               *)

Quiet == UNCHANGED <<in_flight, life, rows>>

LEMMA QuietOwned ==
    ASSUME Owned, Quiet
    PROVE  Owned'
<1>1. /\ in_flight' = in_flight /\ life' = life /\ agents' = agents /\ runs' = runs
      /\ enrolled' = enrolled /\ worktrees' = worktrees /\ why' = why
  BY DEF Quiet, rows
<1>2. OnePerTask'
  BY <1>1 DEF Owned, OnePerTask, Live
<1>3. DirInUse'
  BY <1>1 DEF Owned, DirInUse
<1>4. OneAgent'
  BY <1>1 DEF Owned, OneAgent
<1>5. AgentsAccounted' /\ RunsAccounted'
  BY <1>1 DEF Owned, AgentsAccounted, RunsAccounted
<1> QED BY <1>2, <1>3, <1>4, <1>5 DEF Owned

LEMMA QuietNode ==
    ASSUME NodeOK, Quiet, UNCHANGED past, list' \subseteq Tasks,
           loop' \in [Loops -> LoopStates], watchdog' \in {"connected", "degraded", "offline"}
    PROVE  NodeOK'
<1>1. /\ in_flight' = in_flight /\ life' = life /\ agents' = agents /\ runs' = runs
      /\ enrolled' = enrolled /\ worktrees' = worktrees /\ why' = why
  BY DEF Quiet, rows
<1>2. agents' \subseteq Agents /\ runs' \subseteq Agents /\ enrolled' \in 0 .. MaxEnrolls
  BY <1>1 DEF NodeOK
<1>3. in_flight' \subseteq Tasks /\ life' \in [Slots -> Lives] /\ worktrees' \subseteq Tasks
  BY <1>1 DEF NodeOK
<1>4. why' \in [Agents -> {"nothing", "call failed", "crash", "refused"}]
  BY <1>1 DEF NodeOK
<1>5. crashes' \in 0 .. MaxCrashes /\ orphans' \subseteq [t : Tasks, agent : Agents]
  BY DEF NodeOK, past
<1> QED BY <1>2, <1>3, <1>4, <1>5 DEF NodeOK

QuietPoll == PollSweeps \/ PollLists

LEMMA PollTyped ==
    ASSUME TypeOK, QuietPoll
    PROVE  TypeOK' /\ Quiet
<1>0. TowerOK /\ NodeOK
  BY TypeSplit
<1>1. Quiet
  BY DEF QuietPoll, PollSweeps, PollLists, Quiet, worker
<1>2. TowerOK'
  <2>1. UNCHANGED tower => TowerOK'
    BY <1>0 DEF TowerOK, tower
  <2> QED BY <1>0, <2>1, ExpireTyped DEF QuietPoll, PollSweeps, PollLists
<1>3. NodeOK'
  <2>1. list' \subseteq Tasks
    BY <1>0 DEF NodeOK, QuietPoll, PollSweeps, PollLists, Ready, worker
  <2>2. UNCHANGED <<loop, watchdog, past>>
    BY DEF QuietPoll, PollSweeps, PollLists, looping
  <2>3. loop' \in [Loops -> LoopStates] /\ watchdog' \in {"connected", "degraded", "offline"}
    BY <1>0, <2>2 DEF NodeOK
  <2> QED BY <1>0, <1>1, <2>1, <2>2, <2>3, QuietNode
<1> QED BY <1>1, <1>2, <1>3, TypeSplitNext

(* A task loop is well typed after its step.                               *)
LEMMA LoopStateTyped ==
    ASSUME loop \in [Loops -> LoopStates], NEW l \in Loops, TaskLoop(l) \/ StreamEnds(l)
    PROVE  loop' \in [Loops -> LoopStates]
<1>1. \A t \in Tasks : \A pc \in {"claim", "stream", "settle"} : [pc |-> pc, t |-> t] \in LoopStates
  BY DEF LoopStates
<1>2. \A pc \in {"head", "beat", "scan"} : [pc |-> pc] \in LoopStates
  BY DEF LoopStates
<1>3. Head \in LoopStates
  BY DEF LoopStates, Head
<1>4. loop[l].pc \in {"claim", "stream"} => loop[l].t \in Tasks
  BY DEF LoopStates
<1>5. \A x \in LoopStates : LoopTo(l, x) => loop' \in [Loops -> LoopStates]
  BY DEF LoopTo
<1>6. CASE LoopClaim(l) \/ StreamEnds(l)
  <2>1. loop[l].t \in Tasks
    BY <1>4, <1>6 DEF LoopClaim, StreamEnds, LoopAt
  <2>2. [pc |-> "stream", t |-> loop[l].t] \in LoopStates /\ [pc |-> "settle", t |-> loop[l].t] \in LoopStates
    BY <1>1, <2>1
  <2> QED BY <1>3, <1>5, <1>6, <2>2 DEF LoopClaim, StreamEnds
<1>7. CASE LoopPicks(l)
  <2>1. PICK t \in Tasks : LoopTo(l, [pc |-> "claim", t |-> t])
    BY <1>7 DEF LoopPicks, Ready
  <2> QED BY <1>1, <1>5, <2>1
<1>8. CASE LoopHead(l) \/ HeartbeatFails(l) \/ HeartbeatLands(l) \/ LoopFindsNothing(l) \/ LoopSettle(l)
  BY <1>2, <1>3, <1>5, <1>8 DEF LoopHead, HeartbeatFails, HeartbeatLands, LoopFindsNothing, LoopSettle
<1>9. CASE LoopSweeps(l)
  BY <1>9 DEF LoopSweeps, looping
<1> QED BY <1>6, <1>7, <1>8, <1>9 DEF TaskLoop

LEMMA LoopTyped ==
    ASSUME TypeOK, NEW l \in Loops, TaskLoop(l) \/ StreamEnds(l)
    PROVE  TypeOK' /\ Quiet
<1>0. TowerOK /\ NodeOK
  BY TypeSplit
<1>1. Quiet /\ UNCHANGED <<list, past>>
  BY DEF Quiet, TaskLoop, StreamEnds, LoopHead, HeartbeatFails, HeartbeatLands, LoopSweeps,
         LoopFindsNothing, LoopPicks, LoopClaim, LoopSettle, worker
<1>2. loop' \in [Loops -> LoopStates]
  <2>1. loop \in [Loops -> LoopStates]
    BY DEF TypeOK
  <2> QED BY <2>1, LoopStateTyped
<1>3. watchdog' \in {"connected", "degraded", "offline"}
  <2>1. watchdog \in {"connected", "degraded", "offline"}
    BY DEF TypeOK
  <2> QED BY <2>1 DEF TaskLoop, StreamEnds, LoopHead, HeartbeatFails, HeartbeatLands, LoopSweeps,
         LoopFindsNothing, LoopPicks, LoopClaim, LoopSettle, AfterFailure, looping
<1>4. TowerOK'
  <2>1. UNCHANGED tower => TowerOK'
    BY <1>0 DEF TowerOK, tower
  <2>2. loop[l].pc \in {"claim", "settle"} => loop[l].t \in Tasks
    <3>1. loop \in [Loops -> LoopStates]
      BY DEF TypeOK
    <3> QED BY <3>1 DEF LoopStates
  <2>3. Node \in Holders
    BY DEF Holders
  <2>4. CASE LoopClaim(l)
    <3>1. UNCHANGED tower \/ (loop[l].t \in Tasks /\ Claim(loop[l].t, Node))
      BY <2>2, <2>4 DEF LoopClaim, LoopAt
    <3> QED BY <1>0, <2>1, <2>3, <3>1, ClaimTyped
  <2>5. CASE LoopSettle(l)
    <3>1. UNCHANGED tower \/ (loop[l].t \in Tasks /\ \E ok \in BOOLEAN : Finish(loop[l].t, Node, ok))
      BY <2>2, <2>5 DEF LoopSettle, LoopAt
    <3> QED BY <1>0, <2>1, <3>1, FinishTyped
  <2>6. CASE LoopSweeps(l)
    BY <1>0, <2>6, ExpireTyped DEF LoopSweeps
  <2>7. CASE ~LoopClaim(l) /\ ~LoopSettle(l) /\ ~LoopSweeps(l)
    BY <2>1, <2>7 DEF TaskLoop, StreamEnds, LoopHead, HeartbeatFails, HeartbeatLands,
       LoopFindsNothing, LoopPicks
  <2> QED BY <2>4, <2>5, <2>6, <2>7
<1>5. NodeOK'
  <2>1. list' \subseteq Tasks
    BY <1>0, <1>1 DEF NodeOK
  <2> QED BY <1>0, <1>1, <1>2, <1>3, <2>1, QuietNode
<1> QED BY <1>1, <1>4, <1>5, TypeSplitNext

LEMMA OthersTyped ==
    ASSUME TypeOK, NEW t \in Tasks, Lapse(t) \/ OthersClaim(t) \/ OthersMove(t)
    PROVE  TypeOK' /\ Quiet
<1>0. TowerOK /\ NodeOK
  BY TypeSplit
<1>1. Quiet /\ UNCHANGED <<list, loop, watchdog, past>>
  BY DEF Quiet, Lapse, OthersClaim, OthersMove, worker, looping
<1>2. TowerOK'
  <2>1. CASE Lapse(t)
    BY <1>0, <2>1 DEF TowerOK, Lapse
  <2>2. CASE OthersClaim(t)
    <3>1. Other \in Holders
      BY DEF Holders
    <3> QED BY <1>0, <2>2, <3>1, ClaimTyped DEF OthersClaim
  <2>3. CASE OthersMove(t)
    BY <1>0, <2>3, OthersMoveTyped
  <2> QED BY <2>1, <2>2, <2>3
<1>3. NodeOK'
  <2>1. list' \subseteq Tasks
    BY <1>0, <1>1 DEF NodeOK
  <2>2. loop' \in [Loops -> LoopStates] /\ watchdog' \in {"connected", "degraded", "offline"}
    BY <1>0, <1>1 DEF NodeOK
  <2> QED BY <1>0, <1>1, <2>1, <2>2, QuietNode
<1> QED BY <1>1, <1>2, <1>3, TypeSplitNext

-----------------------------------------------------------------------------
(* A new lifecycle, the end of all of them, and the invariant.             *)

LEMMA TakesInductive ==
    ASSUME TypeOK, Owned, NEW t \in Tasks, PollTakes(t)
    PROVE  TypeOK' /\ Owned'
<1>0. TowerOK /\ NodeOK
  BY TypeSplit
<1>1. UNCHANGED <<tower, rows, loop, watchdog, past>>
  BY DEF PollTakes, looping
<1>2. TowerOK'
  BY <1>0, <1>1 DEF TowerOK, tower
<1>3. list' \subseteq Tasks
  <2>1. list \subseteq Tasks
    BY DEF TypeOK
  <2> QED BY <2>1 DEF PollTakes
<1>4. loop' \in [Loops -> LoopStates] /\ watchdog' \in {"connected", "degraded", "offline"}
  BY <1>0, <1>1 DEF NodeOK
<1>5. CASE UNCHANGED <<in_flight, life>>
  <2>1. Quiet
    BY <1>1, <1>5 DEF Quiet
  <2>2. NodeOK'
    BY <1>0, <1>1, <1>3, <1>4, <2>1, QuietNode
  <2> QED BY <1>2, <2>1, <2>2, QuietOwned, TypeSplitNext
<1>6. CASE ~UNCHANGED <<in_flight, life>>
  <2> DEFINE x == [pc |-> "enroll", t |-> t, agent |-> NoAgent,
                   ok |-> FALSE, dir |-> FALSE, run |-> FALSE]
  <2>1. PICK s \in FreeSlots : life' = [life EXCEPT ![s] = x]
    <3>1. FreeSlots # {} /\ life' = [life EXCEPT ![CHOOSE s \in FreeSlots : TRUE] = x]
      BY <1>6 DEF PollTakes
    <3>2. (CHOOSE s \in FreeSlots : TRUE) \in FreeSlots
      BY <3>1
    <3> QED BY <3>1, <3>2
  <2>2. t \notin in_flight /\ in_flight' = in_flight \cup {t}
    BY <1>6 DEF PollTakes, Skips
  <2>3. s \in Slots /\ life[s].pc = "free"
    BY <2>1 DEF FreeSlots, Free
  <2>4. x \in LiveRecord /\ x.pc = "enroll" /\ x.t = t
    BY DEF LiveRecord, LivePcs
  <2> HIDE DEF x
  <2>5. life \in [Slots -> Lives]
    BY DEF TypeOK
  <2>6. life'[s] = x /\ \A r \in Slots : r # s => life'[r] = life[r]
    BY <2>1, <2>3, <2>5
  <2>7. NodeOK'
    <3>1. life' \in [Slots -> Lives]
      BY <2>1, <2>3, <2>4, <2>5, LivesSplit
    <3>2. in_flight' \subseteq Tasks
      <4>1. in_flight \subseteq Tasks
        BY DEF TypeOK
      <4> QED BY <2>2, <4>1
    <3> QED BY <1>0, <1>1, <1>3, <1>4, <3>1, <3>2 DEF NodeOK, rows, past
  <2>8. /\ agents' = agents /\ runs' = runs /\ enrolled' = enrolled
        /\ worktrees' = worktrees /\ why' = why
    BY <1>1 DEF rows
  <2>9. OnePerTask'
    BY <2>2, <2>3, <2>4, <2>6 DEF Owned, OnePerTask, Live
  <2>10. DirInUse'
    BY <2>4, <2>6, <2>8 DEF Owned, DirInUse
  <2>11. OneAgent'
    <3>1. \A r \in Slots : life'[r].pc \in WithAgent => life'[r] = life[r]
      BY <2>4, <2>6 DEF WithAgent
    <3> QED BY <2>8, <3>1 DEF Owned, OneAgent
  <2>12. AgentsAccounted'
    <3>1. \A r \in Slots : life[r].pc \in WithAgent => life'[r] = life[r]
      BY <2>3, <2>6 DEF WithAgent
    <3> QED BY <2>8, <3>1 DEF Owned, AgentsAccounted
  <2>13. RunsAccounted'
    <3>1. \A r \in Slots : life[r].pc \in {"subprocess", "close_run"} => life'[r] = life[r]
      BY <2>3, <2>6
    <3> QED BY <2>8, <3>1 DEF Owned, RunsAccounted
  <2> QED BY <1>2, <2>7, <2>9, <2>10, <2>11, <2>12, <2>13, TypeSplitNext DEF Owned
<1> QED BY <1>5, <1>6

LEMMA CrashInductive ==
    ASSUME TypeOK, Owned, Crash
    PROVE  TypeOK' /\ Owned'
<1>0. TowerOK /\ NodeOK
  BY TypeSplit
<1>1. TowerOK'
  BY <1>0 DEF TowerOK, Crash, tower
<1>2. life' = [s \in Slots |-> Free]
  BY DEF Crash
<1>3. \A s \in Slots : life'[s].pc = "free"
  BY <1>2 DEF Free
<1>4. /\ why \in [Agents -> {"nothing", "call failed", "crash", "refused"}]
      /\ agents \subseteq Agents /\ runs \subseteq Agents
  BY DEF TypeOK
<1>5. /\ why' \in [Agents -> {"nothing", "call failed", "crash", "refused"}]
      /\ \A a \in Agents : why'[a] = IF \E s \in Slots : Live(s) /\ life[s].agent = a
                                     THEN "crash" ELSE why[a]
  BY <1>4 DEF Crash
<1>6. NodeOK'
  <2>1. life' \in [Slots -> Lives]
    BY <1>2 DEF Lives
  <2>2. loop' \in [Loops -> LoopStates]
    BY DEF Crash, Head, LoopStates
  <2>3. crashes' \in 0 .. MaxCrashes
    <3>1. crashes \in 0 .. MaxCrashes
      BY DEF TypeOK
    <3> QED BY <3>1, RunnerBounds DEF Crash
  <2>4. list' = {} /\ in_flight' = {} /\ watchdog' = "connected"
        /\ UNCHANGED <<agents, runs, enrolled, worktrees>>
    BY DEF Crash
  <2>5. orphans' \subseteq [t : Tasks, agent : Agents]
    <3>1. ASSUME NEW s \in Running
          PROVE  life[s].t \in Tasks /\ life[s].agent \in Agents
      <4>1. s \in Slots /\ Live(s) /\ life[s].pc \in WithAgent
        BY <3>1 DEF Running, At, Live, WithAgent
      <4>2. enrolled \in 0 .. MaxEnrolls
        BY DEF TypeOK
      <4>3. life[s].agent \in Agents
        BY <4>1, <4>2, RunnerBounds DEF Owned, OneAgent, Agents
      <4> QED BY <4>1, <4>3, LiveIsRecord DEF LiveRecord
    <3>2. ASSUME NEW o \in orphans' PROVE o \in [t : Tasks, agent : Agents]
      <4>1. CASE o \in orphans
        BY <4>1 DEF TypeOK
      <4>2. CASE \E s \in Running : o = [t |-> life[s].t, agent |-> life[s].agent]
        BY <3>1, <4>2
      <4> QED BY <4>1, <4>2 DEF Crash
    <3> QED BY <3>2
  <2> QED BY <1>0, <1>5, <2>1, <2>2, <2>3, <2>4, <2>5 DEF NodeOK
<1>7. OnePerTask' /\ DirInUse'
  BY <1>3 DEF OnePerTask, DirInUse, Live
<1>8. UNCHANGED <<agents, runs, enrolled>>
  BY DEF Crash
<1>9. OneAgent'
  BY <1>3, <1>8 DEF Owned, OneAgent, WithAgent
<1>10. AgentsAccounted'
  <2>1. \A s \in Slots : life[s].pc \in WithAgent => Live(s)
    BY DEF Live, WithAgent
  <2> QED BY <1>4, <1>5, <1>8, <2>1 DEF Owned, AgentsAccounted
<1>11. RunsAccounted'
  <2>1. \A s \in Slots : life[s].pc \in {"subprocess", "close_run"} => Live(s)
    BY DEF Live
  <2> SUFFICES ASSUME NEW a \in runs
               PROVE  why'[a] # "nothing"
    BY <1>8 DEF RunsAccounted
  <2>2. CASE why[a] # "nothing"
    BY <1>4, <1>5, <2>2
  <2>3. CASE \E s \in Slots : /\ life[s].pc \in {"subprocess", "close_run"}
                              /\ life[s].agent = a /\ life[s].run
    <3>1. why'[a] = "crash"
      BY <1>4, <1>5, <2>1, <2>3
    <3> QED BY <3>1
  <2> QED BY <2>2, <2>3 DEF Owned, RunsAccounted
<1> QED BY <1>1, <1>6, <1>7, <1>9, <1>10, <1>11, TypeSplitNext DEF Owned

LEMMA InitInv == Init => IInv
<1> SUFFICES ASSUME Init PROVE IInv
  OBVIOUS
<1>1. TowerOK
  <2>1. 0 \in 0 .. MaxLeases /\ Nobody \in Holders /\ "open" \in Tower!Phases
    BY RunnerBounds DEF Holders, Tower!Phases
  <2> QED BY <2>1 DEF Init, TowerOK
<1>2. NodeOK
  <2>1. Free \in Lives /\ [pc |-> "head"] \in LoopStates
    BY DEF Lives, LoopStates
  <2>2. 0 \in 0 .. MaxEnrolls /\ 0 \in 0 .. MaxCrashes
    BY RunnerBounds
  <2> QED BY <2>1, <2>2 DEF Init, NodeOK
<1>3. \A s \in Slots : life[s].pc = "free"
  BY DEF Init, Free
<1>4. agents = {} /\ runs = {}
  BY DEF Init
<1>5. Orphaned
  BY DEF Init, Orphaned, HeldBySomebody
<1> QED BY <1>1, <1>2, <1>3, <1>4, <1>5, TypeSplit
     DEF IInv, Owned, OnePerTask, DirInUse, OneAgent, AgentsAccounted, RunsAccounted, Live, WithAgent

LEMMA OwnedAfter ==
    ASSUME TypeOK, Owned, [Next]_vars
    PROVE  TypeOK' /\ Owned'
<1>1. CASE Poll
  BY <1>1, PollTyped, QuietOwned, TakesInductive DEF Poll, QuietPoll
<1>2. ASSUME NEW s \in Slots, Lifecycle(s) \/ SubprocessEnds(s)
      PROVE  TypeOK' /\ Owned'
  <2>1. OnePerTask /\ DirInUse /\ OneAgent /\ AgentsAccounted /\ RunsAccounted
    BY DEF Owned
  <2>2. TypeOK'
    BY <1>2, <2>1, LifecycleTower, LifecycleNode, TypeSplitNext
  <2>3. OnePerTask' /\ DirInUse' /\ OneAgent'
    BY <1>2, <2>1, LifecycleTask, LifecycleDir, LifecycleAgent
  <2>4. AgentsAccounted' /\ RunsAccounted'
    BY <1>2, <2>1, LifecycleAgentsAccounted, LifecycleRunsAccounted
  <2> QED BY <2>2, <2>3, <2>4 DEF Owned
<1>3. ASSUME NEW l \in Loops, TaskLoop(l) \/ StreamEnds(l)
      PROVE  TypeOK' /\ Owned'
  BY <1>3, LoopTyped, QuietOwned
<1>4. ASSUME NEW t \in Tasks, Lapse(t) \/ OthersClaim(t) \/ OthersMove(t)
      PROVE  TypeOK' /\ Owned'
  BY <1>4, OthersTyped, QuietOwned
<1>5. CASE Crash
  BY <1>5, CrashInductive
<1>6. CASE UNCHANGED vars
  <2>1. Quiet
    BY <1>6 DEF vars, worker, Quiet
  <2>2. TypeOK'
    BY <1>6 DEF vars, tower, worker, rows, looping, past, TypeOK
  <2> QED BY <2>1, <2>2, QuietOwned
<1>7. ASSUME NEW o \in orphans, OrphanEnds(o)
      PROVE  TypeOK' /\ Owned'
  <2>1. Quiet
    BY <1>7 DEF OrphanEnds, worker, Quiet
  <2>2. TypeOK'
    BY <1>7 DEF OrphanEnds, tower, worker, rows, looping, TypeOK
  <2> QED BY <2>1, <2>2, QuietOwned
<1> QED BY <1>1, <1>2, <1>3, <1>4, <1>5, <1>6, <1>7 DEF Next

-----------------------------------------------------------------------------
(* The subprocesses of earlier lives.                                      *)

(* What a step does to the tower's tasks, seen from the claims.            *)
Claimants == {Node, Other} \cup {life[s].agent : s \in {u \in Slots : life[u].pc = "claim"}}

TowerMoves ==
    \/ phase' = phase /\ holder' = holder
    \/ \E t \in Tasks, who \in Claimants :
         /\ phase[t] = "open"
         /\ phase' = [phase EXCEPT ![t] = "held"]
         /\ holder' = [holder EXCEPT ![t] = who]
    \/ \E t \in Tasks : \E p :
         /\ phase' = [phase EXCEPT ![t] = p]
         /\ holder' = [holder EXCEPT ![t] = Nobody]

LEMMA ClaimMoves ==
    ASSUME NEW t \in Tasks, NEW who \in Claimants, Claim(t, who)
    PROVE  TowerMoves
  BY DEF Claim, Tower!Grant, TowerMoves

LEMMA LetGoMoves ==
    ASSUME NEW t \in Tasks, NEW from, NEW to, Tower!Move(t, from, to), LetGo(t)
    PROVE  TowerMoves
  BY DEF Tower!Move, LetGo, TowerMoves

LEMMA FinishMoves ==
    ASSUME NEW t \in Tasks, NEW who, NEW ok, Finish(t, who, ok)
    PROVE  TowerMoves
<1>1. CASE UNCHANGED tower
  BY <1>1 DEF TowerMoves, tower
<1>2. CASE (Tower!Finish(t) \/ Tower!Stop(t)) /\ LetGo(t)
  BY <1>2, LetGoMoves DEF Tower!Finish, Tower!Stop
<1> QED BY <1>1, <1>2 DEF Finish

LEMMA TowerStep ==
    ASSUME TypeOK, [Next]_vars
    PROVE  TowerMoves
<1>1. UNCHANGED tower => TowerMoves
  BY DEF TowerMoves, tower
<1>2. ASSUME NEW t \in Tasks, Expire(t) PROVE TowerMoves
  BY <1>2, LetGoMoves DEF Expire
<1>3. CASE Poll
  BY <1>1, <1>2, <1>3 DEF Poll, PollSweeps, PollLists, PollTakes
<1>4. ASSUME NEW s \in Slots, Lifecycle(s) \/ SubprocessEnds(s) PROVE TowerMoves
  <2>1. CASE LifeClaim(s) \/ Settle(s)
    <3>1. life[s].t \in Tasks
      <4>1. Live(s)
        BY <2>1 DEF LifeClaim, Settle, At, Live
      <4> QED BY <4>1, LiveIsRecord DEF LiveRecord
    <3>2. LifeClaim(s) => life[s].agent \in Claimants
      BY DEF LifeClaim, At, Claimants
    <3>3. CASE LifeClaim(s)
      BY <1>1, <3>1, <3>2, <3>3, ClaimMoves DEF LifeClaim
    <3>4. CASE Settle(s)
      BY <1>1, <3>1, <3>4, FinishMoves DEF Settle
    <3> QED BY <2>1, <3>3, <3>4
  <2>2. CASE ~LifeClaim(s) /\ ~Settle(s)
    BY <1>1, <1>4, <2>2 DEF Lifecycle, SubprocessEnds, Enroll, CreateWorktree, StartRun, CloseRun,
       DeleteAgent, RemoveWorktree, Leave
  <2> QED BY <2>1, <2>2
<1>5. ASSUME NEW l \in Loops, TaskLoop(l) \/ StreamEnds(l) PROVE TowerMoves
  <2>1. loop[l].pc \in {"claim", "settle"} => loop[l].t \in Tasks
    <3>1. loop[l] \in LoopStates
      BY DEF TypeOK
    <3> QED BY <3>1 DEF LoopStates
  <2>2. CASE LoopClaim(l)
    <3>1. UNCHANGED tower \/ Claim(loop[l].t, Node)
      BY <2>2 DEF LoopClaim
    <3>2. loop[l].t \in Tasks /\ Node \in Claimants
      BY <2>1, <2>2 DEF LoopClaim, LoopAt, Claimants
    <3> QED BY <1>1, <3>1, <3>2, ClaimMoves
  <2>3. CASE LoopSettle(l)
    <3>1. loop[l].t \in Tasks
      BY <2>1, <2>3 DEF LoopSettle, LoopAt
    <3> QED BY <1>1, <2>3, <3>1, FinishMoves DEF LoopSettle
  <2>4. CASE LoopSweeps(l)
    BY <1>2, <2>4 DEF LoopSweeps
  <2>5. CASE ~LoopClaim(l) /\ ~LoopSettle(l) /\ ~LoopSweeps(l)
    BY <1>1, <1>5, <2>5 DEF TaskLoop, StreamEnds, LoopHead, HeartbeatFails, HeartbeatLands,
       LoopFindsNothing, LoopPicks
  <2> QED BY <2>2, <2>3, <2>4, <2>5
<1>6. ASSUME NEW t \in Tasks, Lapse(t) \/ OthersClaim(t) \/ OthersMove(t) PROVE TowerMoves
  <2>1. Other \in Claimants
    BY DEF Claimants
  <2>2. CASE OthersMove(t)
    BY <2>2, LetGoMoves DEF OthersMove, Tower!Finish, Tower!Stop, Tower!Reopen
  <2>3. CASE Lapse(t)
    BY <2>3 DEF Lapse, TowerMoves
  <2>4. CASE OthersClaim(t)
    BY <2>1, <2>4, ClaimMoves DEF OthersClaim
  <2> QED BY <1>6, <2>2, <2>3, <2>4
<1>7. CASE Crash \/ (\E o \in orphans : OrphanEnds(o)) \/ UNCHANGED vars
  BY <1>1, <1>7 DEF Crash, OrphanEnds, vars
<1> QED BY <1>3, <1>4, <1>5, <1>6, <1>7 DEF Next

(* What a step other than a crash does to the rest.                        *)
LEMMA RestSteps ==
    ASSUME TypeOK, Owned, [Next]_vars, ~Crash
    PROVE  /\ orphans' \subseteq orphans
           /\ enrolled' \in {enrolled, enrolled + 1}
           /\ list' \subseteq list \cup Ready
           /\ \A s \in Slots : Live(s)' =>
                life'[s].t \in list \/ (Live(s) /\ life'[s].t = life[s].t)
           /\ \A s \in Slots : life'[s].pc \in WithAgent =>
                \/ life'[s].agent = enrolled + 1
                \/ life[s].pc \in WithAgent /\ life'[s].agent = life[s].agent
           /\ \A t \in worktrees : t \in worktrees' \/ \E s \in Slots : Live(s) /\ life[s].t = t
<1> DEFINE Goal ==
      /\ orphans' \subseteq orphans
      /\ enrolled' \in {enrolled, enrolled + 1}
      /\ list' \subseteq list \cup Ready
      /\ \A s \in Slots : Live(s)' =>
           life'[s].t \in list \/ (Live(s) /\ life'[s].t = life[s].t)
      /\ \A s \in Slots : life'[s].pc \in WithAgent =>
           \/ life'[s].agent = enrolled + 1
           \/ life[s].pc \in WithAgent /\ life'[s].agent = life[s].agent
      /\ \A t \in worktrees : t \in worktrees' \/ \E s \in Slots : Live(s) /\ life[s].t = t
<1>0. life \in [Slots -> Lives]
  BY DEF TypeOK
<1>1. ASSUME UNCHANGED <<life, enrolled, worktrees>>, orphans' \subseteq orphans,
             list' \subseteq list \cup Ready
      PROVE  Goal
  BY <1>1 DEF Live
<1>2. CASE PollSweeps \/ PollLists
  BY <1>1, <1>2 DEF PollSweeps, PollLists, worker, rows, past
<1>3. ASSUME NEW t \in Tasks, PollTakes(t) PROVE Goal
  <2>0. /\ enrolled' = enrolled /\ worktrees' = worktrees /\ orphans' = orphans
        /\ list' \subseteq list /\ t \in list
    BY <1>3 DEF PollTakes, rows, past
  <2>1. CASE life' = life
    BY <1>1, <2>0, <2>1
  <2>2. CASE life' # life
    <3> DEFINE x == [pc |-> "enroll", t |-> t, agent |-> NoAgent,
                     ok |-> FALSE, dir |-> FALSE, run |-> FALSE]
    <3>1. PICK s : life' = [life EXCEPT ![s] = x]
      BY <1>3, <2>2 DEF PollTakes
    <3>2. x.t = t /\ x.pc \notin WithAgent
      BY DEF WithAgent
    <3> HIDE DEF x
    <3>3. \A r \in Slots : life'[r] = x \/ life'[r] = life[r]
      BY <1>0, <3>1
    <3>4. \A r \in Slots : Live(r)' => life'[r].t \in list \/ (Live(r) /\ life'[r].t = life[r].t)
      BY <2>0, <3>2, <3>3 DEF Live
    <3>5. \A r \in Slots : life'[r].pc \in WithAgent =>
            life[r].pc \in WithAgent /\ life'[r].agent = life[r].agent
      BY <3>2, <3>3
    <3> QED BY <2>0, <3>4, <3>5
  <2> QED BY <2>1, <2>2
<1>4. ASSUME NEW s \in Slots, Lifecycle(s) \/ SubprocessEnds(s) PROVE Goal
  <2>0. OnePerTask /\ OneAgent
    BY DEF Owned
  <2>1. orphans' = orphans /\ list' = list
    BY <1>4 DEF Lifecycle, SubprocessEnds, Enroll, LifeClaim, CreateWorktree, StartRun, CloseRun, Settle,
       DeleteAgent, RemoveWorktree, Leave, past
  <2>2. /\ Live(s)
        /\ \A r \in Slots : r # s => life'[r] = life[r]
        /\ life'[s] = Free \/ life'[s].t = life[s].t
    BY <1>0, <1>4, <2>0, LifecycleSlot
  <2>3. \A r \in Slots : Live(r)' => Live(r) /\ life'[r].t = life[r].t
    BY <2>2 DEF Live, Free
  <2>4. \A t \in worktrees : t \in worktrees' \/ t = life[s].t
    BY <1>4 DEF Lifecycle, SubprocessEnds, Enroll, LifeClaim, CreateWorktree, StartRun, CloseRun, Settle,
       DeleteAgent, RemoveWorktree, Leave, rows
  <2>5. CASE Enroll(s)
    <3>1. enrolled' \in {enrolled, enrolled + 1}
      BY <2>5, SlotEnrolled
    <3>2. life'[s].pc \in WithAgent => life'[s].agent = enrolled + 1
      BY <2>5, SlotEnrolled DEF WithAgent
    <3> QED BY <2>1, <2>2, <2>3, <2>4, <3>1, <3>2
  <2>6. CASE ~Enroll(s)
    <3>1. /\ enrolled' = enrolled
          /\ \A r \in Slots : life'[r].pc \in WithAgent =>
                life[r].pc \in WithAgent /\ life'[r].agent = life[r].agent
      BY <1>4, <2>0, <2>6, AgentKept
    <3> QED BY <2>1, <2>2, <2>3, <2>4, <3>1
  <2> QED BY <2>5, <2>6
<1>5. ASSUME NEW l \in Loops, TaskLoop(l) \/ StreamEnds(l) PROVE Goal
  <2>1. Quiet /\ UNCHANGED <<list, past>>
    BY <1>5 DEF Quiet, TaskLoop, StreamEnds, LoopHead, HeartbeatFails, HeartbeatLands, LoopSweeps,
         LoopFindsNothing, LoopPicks, LoopClaim, LoopSettle, worker
  <2> QED BY <1>1, <2>1 DEF Quiet, rows, past
<1>6. ASSUME NEW t \in Tasks, Lapse(t) \/ OthersClaim(t) \/ OthersMove(t) PROVE Goal
  BY <1>1, <1>6 DEF Lapse, OthersClaim, OthersMove, worker, rows, past
<1>7. ASSUME NEW o \in orphans, OrphanEnds(o) PROVE Goal
  BY <1>1, <1>7 DEF OrphanEnds, worker, rows
<1>8. CASE UNCHANGED vars
  BY <1>1, <1>8 DEF vars, worker, rows, past
<1> QED BY <1>2, <1>3, <1>4, <1>5, <1>6, <1>7, <1>8 DEF Next, Poll

LEMMA OrphanedAfter ==
    ASSUME TypeOK, Owned, Orphaned, [Next]_vars
    PROVE  Orphaned'
<1>0. /\ phase \in [Tasks -> Tower!Phases] /\ holder \in [Tasks -> Holders]
      /\ enrolled \in Nat /\ orphans \subseteq [t : Tasks, agent : Agents]
  <2>1. enrolled \in 0 .. MaxEnrolls
    BY DEF TypeOK
  <2>2. enrolled \in Nat
    BY <2>1
  <2> QED BY <2>2 DEF TypeOK
<1>nobody. Nobody \notin Agents /\ Node \notin Agents /\ Other \notin Agents
  BY HoldersAssumption DEF Agents
<1>1. HeldBySomebody'
  <2>1. ASSUME NEW t \in Tasks, NEW who,
               phase' = [phase EXCEPT ![t] = "held"], holder' = [holder EXCEPT ![t] = who]
        PROVE  HeldBySomebody'
    BY <1>0, <2>1 DEF Orphaned, HeldBySomebody, Held
  <2>2. ASSUME NEW t \in Tasks, NEW p,
               phase' = [phase EXCEPT ![t] = p], holder' = [holder EXCEPT ![t] = Nobody]
        PROVE  HeldBySomebody'
    BY <1>0, <2>2 DEF Orphaned, HeldBySomebody, Held
  <2>3. CASE phase' = phase /\ holder' = holder
    BY <2>3 DEF Orphaned, HeldBySomebody, Held
  <2> QED BY <2>1, <2>2, <2>3, TowerStep DEF TowerMoves
<1>2. CASE Crash
  <2>1. \A s \in Slots : life'[s].pc = "free"
    BY <1>2 DEF Crash, Free
  <2>2. UNCHANGED <<phase, holder, worktrees, enrolled>> /\ list' = {}
    BY <1>2 DEF Crash, tower
  <2>3. ASSUME NEW o \in orphans' PROVE o.agent \in 1 .. enrolled
    <3>1. CASE o \in orphans
      BY <3>1 DEF Orphaned
    <3>2. CASE o \notin orphans
      <4>1. PICK s \in Running : o = [t |-> life[s].t, agent |-> life[s].agent]
        BY <1>2, <3>2 DEF Crash
      <4>2. s \in Slots /\ life[s].pc \in WithAgent
        BY <4>1 DEF Running, At, WithAgent
      <4>3. o.agent = life[s].agent
        BY <4>1
      <4> QED BY <4>2, <4>3 DEF Owned, OneAgent
    <3> QED BY <3>1, <3>2
  <2>4. ASSUME NEW o \in orphans', holder[o.t] = o.agent PROVE Held(o.t) /\ o.t \in worktrees
    <3>1. CASE o \in orphans
      BY <2>4, <3>1 DEF Orphaned, Undisturbed
    <3>2. CASE o \notin orphans
      <4>1. PICK s \in Running : o = [t |-> life[s].t, agent |-> life[s].agent]
        BY <1>2, <3>2 DEF Crash
      <4>2. s \in Slots /\ Live(s) /\ life[s].pc = "subprocess" /\ life[s].pc \in WithAgent
        BY <4>1 DEF Running, At, Live, WithAgent
      <4>3. o.agent = life[s].agent /\ o.t = life[s].t
        BY <4>1
      <4>4. o.t \in worktrees
        BY <4>2, <4>3 DEF Owned, DirInUse
      <4>5. o.agent # Nobody
        BY <4>2, <4>3, <1>0, HoldersAssumption DEF Owned, OneAgent
      <4>6. o.t \in Tasks
        BY <4>2, <4>3, LiveIsRecord DEF LiveRecord
      <4> QED BY <2>4, <4>4, <4>5, <4>6 DEF Orphaned, HeldBySomebody
    <3> QED BY <3>1, <3>2
  <2>5. \A o \in orphans' : holder'[o.t] = o.agent => Undisturbed(o.t)'
    BY <2>1, <2>2, <2>4 DEF Undisturbed, Held, Live
  <2>6. \A o \in orphans' : /\ o.agent \in 1 .. enrolled'
                            /\ \A s \in Slots : life'[s].pc \in WithAgent => life'[s].agent # o.agent
    BY <2>1, <2>2, <2>3 DEF WithAgent
  <2> QED BY <1>1, <2>5, <2>6 DEF Orphaned
<1>3. CASE ~Crash
  <2> SUFFICES ASSUME NEW o \in orphans'
               PROVE  /\ o.agent \in 1 .. enrolled'
                      /\ \A s \in Slots : life'[s].pc \in WithAgent => life'[s].agent # o.agent
                      /\ holder'[o.t] = o.agent => Undisturbed(o.t)'
    BY <1>1 DEF Orphaned
  <2>0. o \in orphans /\ o.t \in Tasks /\ o.agent \in Agents
    BY <1>0, <1>3, RestSteps
  <2>1. o.agent \in 1 .. enrolled
    BY <2>0 DEF Orphaned
  <2>2. o.agent \in 1 .. enrolled' /\ o.agent # enrolled + 1
    <3>1. enrolled' \in {enrolled, enrolled + 1}
      BY <1>3, RestSteps
    <3> QED BY <1>0, <2>1, <3>1
  <2>3. \A s \in Slots : life[s].pc \in WithAgent => life[s].agent # o.agent
    BY <2>0 DEF Orphaned
  <2>4. \A s \in Slots : life'[s].pc \in WithAgent => life'[s].agent # o.agent
    BY <1>3, <2>2, <2>3, RestSteps
  <2>5. ASSUME holder'[o.t] = o.agent PROVE Undisturbed(o.t)'
    <3>1. o.agent \notin Claimants
      BY <1>nobody, <2>0, <2>3 DEF Claimants, WithAgent
    <3>2. holder[o.t] = o.agent /\ phase'[o.t] = phase[o.t]
      <4>1. ASSUME NEW t \in Tasks, NEW who, who # o.agent, holder' = [holder EXCEPT ![t] = who]
            PROVE  t # o.t /\ holder[o.t] = o.agent
        BY <1>0, <2>0, <2>5, <4>1
      <4>2. CASE phase' = phase /\ holder' = holder
        BY <2>5, <4>2
      <4>3. ASSUME NEW t \in Tasks, NEW who \in Claimants,
                   phase' = [phase EXCEPT ![t] = "held"], holder' = [holder EXCEPT ![t] = who]
            PROVE  holder[o.t] = o.agent /\ phase'[o.t] = phase[o.t]
        BY <1>0, <2>0, <3>1, <4>1, <4>3
      <4>4. ASSUME NEW t \in Tasks, NEW p,
                   phase' = [phase EXCEPT ![t] = p], holder' = [holder EXCEPT ![t] = Nobody]
            PROVE  holder[o.t] = o.agent /\ phase'[o.t] = phase[o.t]
        BY <1>0, <1>nobody, <2>0, <4>1, <4>4
      <4> QED BY <4>2, <4>3, <4>4, TowerStep DEF TowerMoves
    <3>3. Undisturbed(o.t)
      BY <2>0, <3>2 DEF Orphaned
    <3>4. o.t \notin list \cup Ready
      BY <3>3 DEF Undisturbed, Held, Ready
    <3>5. Held(o.t)' /\ o.t \notin list'
      BY <1>3, <3>2, <3>3, <3>4, RestSteps DEF Undisturbed, Held
    <3>6. o.t \in worktrees'
      BY <1>3, <3>3, RestSteps DEF Undisturbed
    <3>7. \A s \in Slots : Live(s)' => life'[s].t # o.t
      BY <1>3, <3>3, <3>4, RestSteps DEF Undisturbed
    <3> QED BY <3>5, <3>6, <3>7 DEF Undisturbed
  <2> QED BY <2>2, <2>4, <2>5
<1> QED BY <1>2, <1>3

LEMMA StepInv == IInv /\ [Next]_vars => IInv'
  BY OwnedAfter, OrphanedAfter DEF IInv

-----------------------------------------------------------------------------
(* The theorems.                                                           *)

(* Every reachable state of the daemon has the inductive invariant: each   *)
(* lifecycle of run_task_lifecycle has a task and an agent of its own.     *)
THEOREM RunnerInvariance == Spec => []IInv
  BY InitInv, StepInv, PTL DEF Spec

(* The variables of the worker, the task loops and the watchdog keep their *)
(* types, whatever calls fail and whenever the daemon crashes.             *)
THEOREM RunnerTypeCorrect == Spec => []TypeOK
<1>1. IInv => TypeOK
  BY DEF IInv
<1> QED BY <1>1, RunnerInvariance, PTL

(* The directory of a running subprocess (create_dir_all ... remove_dir_all *)
(* in run_task_lifecycle) is never removed by another lifecycle, not even  *)
(* when the daemon has crashed since, as long as its claim stands.         *)
THEOREM WorktreeSafe == Spec => []WorktreeKept
<1>1. IInv => WorktreeKept
  BY DEF IInv, Owned, DirInUse, Orphaned, Undisturbed, WorktreeKept, Running, At
<1> QED BY <1>1, RunnerInvariance, PTL

(* A lifecycle that is over has deleted its agent and closed its run, but  *)
(* for a failed call, a crash or capabilities that were refused.           *)
THEOREM CleanupSafe == Spec => []NothingLeftBehind
<1>1. IInv => NothingLeftBehind
  <2> SUFFICES ASSUME IInv, NEW a \in Agents, ~\E s \in Slots : Live(s) /\ life[s].agent = a
               PROVE  /\ a \in agents => why[a] \in {"call failed", "crash"}
                      /\ a \in runs => why[a] # "nothing"
    BY DEF NothingLeftBehind
  <2>1. \A s \in Slots : life[s].pc \in WithAgent \cup {"subprocess", "close_run"} => Live(s)
    BY DEF Live, WithAgent
  <2> QED BY <2>1 DEF IInv, Owned, AgentsAccounted, RunsAccounted
<1> QED BY <1>1, RunnerInvariance, PTL
=============================================================================
