-------------------------- MODULE MCReconciliation --------------------------
(***************************************************************************)
(* Symmetry of the instances: nothing orders accounts, transactions, rows  *)
(* of runs or slots of the worker; and a bound that keeps the instance     *)
(* small: the runs are of one job, since those of different jobs share     *)
(* nothing, and a second payment begins only while there is one run at     *)
(* most and nothing has failed, or both fail after the runs.               *)
(***************************************************************************)
EXTENDS Reconciliation, TLC

Symmetry == Permutations(Accounts) \cup Permutations(Txns)
              \cup Permutations(Workers) \cup Permutations(Runs)

Begun == {x \in Txns : txn[x].status # "PENDING"}
Started == {r \in Runs : run[r].status # "ABSENT"} \cup {w \in Workers : wk[w].pc = "started"}
JobsOfRuns == ({run[r].job : r \in Runs} \cup {wk[w].job : w \in Workers}) \ {None}
Finished ==
    /\ now = MaxTime /\ faults = 0
    /\ \A w \in Workers : wk[w].pc = "idle"
    /\ \A r \in Runs : run[r].status # "ABSENT"
    /\ \A x \in Txns : txn[x].status \in {"FAILING", "FAILED"}
Narrow ==
    /\ Cardinality(Begun) > 1 => Finished \/ (faults = 0 /\ Cardinality(Started) <= 1)
    /\ Cardinality(JobsOfRuns) <= 1
=============================================================================
