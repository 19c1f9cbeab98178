-------------------------- MODULE MCTaskLifecycle --------------------------
(* Small instances of TaskLifecycle.                                       *)
EXTENDS TaskLifecycle, TLC

CONSTANTS t1, t2, t3

NoDeps == {<<>>}
ChainDeps == {<<>>, <<t1>>}
JoinDeps == {<<>>, <<t1, t2>>}

Submission(policy, deps) ==
    [claim_policy |-> policy, depends_on |-> deps, created_by |-> NoOne]

(* One task that exists already. *)
SeedSolo == t1 :> Submission("first_claim", <<>>)
SeedBroadcast == t1 :> Submission("broadcast", <<>>)
(* t3 waits for t1 and t2. *)
SeedJoin == t1 :> Submission("first_claim", <<>>) @@ t2 :> Submission("first_claim", <<>>)
              @@ t3 :> Submission("first_claim", <<t1, t2>>)
SeedNone == <<>>

Symmetry == Permutations(Agents) \cup Permutations(Slots)
SlotSymmetry == Permutations(Slots)
GateSymmetry == Permutations(Gates) \cup Permutations(Slots)
=============================================================================
