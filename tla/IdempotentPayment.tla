-------------------------- MODULE IdempotentPayment --------------------------
(***************************************************************************)
(* What POST /payments promises for an idempotency key, with the database, *)
(* the worker and the failures left out: the payment of a key is opened    *)
(* once, settled once (money moves exactly when it succeeds), and nobody   *)
(* is ever told an outcome other than the settled one.                     *)
(***************************************************************************)
EXTENDS Naturals

CONSTANTS Keys

VARIABLES
    status,     \* status[k]: how far the payment of key k is
    transfers,  \* transfers[k]: how many journals were posted for k
    told        \* told[k]: outcomes some client was told for k

vars == <<status, transfers, told>>

Outcome == {"SUCCESS", "FAILED"}

Init ==
    /\ status = [k \in Keys |-> "ABSENT"]
    /\ transfers = [k \in Keys |-> 0]
    /\ told = [k \in Keys |-> {}]

Open(k) ==
    /\ status[k] = "ABSENT"
    /\ status' = [status EXCEPT ![k] = "PENDING"]
    /\ UNCHANGED <<transfers, told>>

Pay(k) ==
    /\ status[k] = "PENDING"
    /\ status' = [status EXCEPT ![k] = "SUCCESS"]
    /\ transfers' = [transfers EXCEPT ![k] = @ + 1]
    /\ UNCHANGED told

Reject(k) ==
    /\ status[k] = "PENDING"
    /\ status' = [status EXCEPT ![k] = "FAILED"]
    /\ UNCHANGED <<transfers, told>>

Tell(k) ==
    /\ status[k] \in Outcome
    /\ told' = [told EXCEPT ![k] = @ \cup {status[k]}]
    /\ UNCHANGED <<status, transfers>>

Next == \E k \in Keys : Open(k) \/ Pay(k) \/ Reject(k) \/ Tell(k)

Spec == Init /\ [][Next]_vars
=============================================================================
