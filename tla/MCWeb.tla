-------------------------------- MODULE MCWeb --------------------------------
(***************************************************************************)
(* Instances of WebApp, and the tables of the pages.                       *)
(***************************************************************************)
EXTENDS WebApp

ConstCreated == [w1 |-> 1, w2 |-> 2]
ConstSystemType == [w1 |-> Unset, w2 |-> Unset, s1 |-> "DEPOSIT", s2 |-> "FEE_REVENUE"]
ConstOwner == [w1 |-> "ann", w2 |-> "bob", s1 |-> Unset, s2 |-> Unset]

Leg(id, account, direction, amount, balance) ==
    [id |-> id, account |-> account, direction |-> direction, amount |-> amount,
     balanceAfter |-> balance]

\* A payment with a charge, which is settled at time 1, and a deposit at time 1.
PaymentsAt(t) ==
    {[id |-> "t1", at |-> 0, type |-> "TRANSFER", user |-> "ann",
      status |-> IF t = 0 THEN "PENDING" ELSE "SUCCESS",
      legs |-> IF t = 0 THEN <<>>
               ELSE <<Leg(1, "w1", "DEBIT", 3, 0), Leg(2, "w2", "CREDIT", 2, 2),
                      Leg(3, "s2", "CREDIT", 1, 1)>>]}
    \cup (IF t = 0 THEN {}
          ELSE {[id |-> "t2", at |-> 1, type |-> "DEPOSIT", user |-> "bob", status |-> "SUCCESS",
                 legs |-> <<Leg(4, "s1", "DEBIT", 5, -5), Leg(5, "w2", "CREDIT", 5, 7)>>]})

EventsOf(p) ==
    {[id |-> e, at |-> p.at, transaction |-> p.id, type |-> p.type, status |-> p.status,
      event |-> IF e = 1 THEN "PAYMENT_INITIATED" ELSE "PAYMENT_SUCCEEDED", metadata |-> Unset] :
        e \in IF p.status = "SUCCESS" THEN 1..2 ELSE {1}}
KeyOf(p) == [id |-> p.id, at |-> p.at, expiresAt |-> p.at + 1, requestHash |-> p.id,
             status |-> IF p.status = "SUCCESS" THEN "COMPLETED" ELSE "IN_PROGRESS",
             response |-> Unset]
EntriesOf(p) ==
    {p.legs[i] @@ [at |-> p.at, transaction |-> p.id, type |-> p.type, status |-> p.status] :
        i \in DOMAIN p.legs}
\* The rows of runs depend on no table.
Jobs == INSTANCE ReconciliationPage WITH Table <- <<>>
RunsAt(t) ==
    {IF t = 0 THEN Jobs!StartedRun(1, 0, "LEDGER_CONSISTENCY")
     ELSE Jobs!CompletedRun(1, 0, "LEDGER_CONSISTENCY", <<1>>, Unset)}
    \cup (IF t = 0 THEN {} ELSE {Jobs!CompletedRun(2, 1, "PENDING_SWEEPER", <<1>>, Unset)})

ConstAnomalies == {<<>>, <<1>>}

\* The first simulation has its result, though at time 1 a late spawn handler has made it
\* run again; of the second only the status is there until then, when a third has begun.
SimulationsAt(t) ==
    {[id |-> 1, at |-> 0, status |-> IF t = 0 THEN "COMPLETED" ELSE "RUNNING", result |-> TRUE],
     [id |-> 2, at |-> 0, status |-> "COMPLETED", result |-> t > 0]}
    \cup (IF t = 0 THEN {} ELSE {[id |-> 3, at |-> 1, status |-> "RUNNING", result |-> FALSE]})

ConstTables ==
    [transactions |-> [t \in 0..MaxTime |-> PaymentsAt(t)],
     events |-> [t \in 0..MaxTime |-> UNION {EventsOf(p) : p \in PaymentsAt(t)}],
     keys |-> [t \in 0..MaxTime |-> {KeyOf(p) : p \in PaymentsAt(t)}],
     ledger |-> [t \in 0..MaxTime |-> UNION {EntriesOf(p) : p \in PaymentsAt(t)}],
     runs |-> [t \in 0..MaxTime |-> RunsAt(t)],
     simulations |-> [t \in 0..MaxTime |-> SimulationsAt(t)]]
=============================================================================
