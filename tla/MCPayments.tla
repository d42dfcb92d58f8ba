----------------------------- MODULE MCPayments -----------------------------
(* Model-checking instances of Payments.                                   *)
EXTENDS Payments

CONSTANTS a1, a2, a3, t1, t2, h1, u1

\* Constraint: attempts and row ids are interchangeable, so they are used in
\* order; the first request stands for any, and one other may differ from it
\* outside the hash.  Fairness is about steps of an attempt or a sweeper, each
\* of which can be taken within the constraint.
Canonical ==
    /\ pc[a2] # "idle" => pc[a1] # "idle"
    /\ pc[a3] # "idle" => pc[a2] # "idle"
    /\ txn[t2].status # "ABSENT" => txn[t1].status # "ABSENT"
    /\ req[a1].payload.hashed \in {None, h1}
    /\ \A a \in {a1, a3} : req[a].payload.rest \in {None, u1}
=============================================================================
