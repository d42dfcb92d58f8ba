--------------------------- MODULE PaymentsProofs ---------------------------
(***************************************************************************)
(* Proofs about Payments, for every number of keys, attempts, sweepers and *)
(* faults: its invariants, and that it implements IdempotentPayment.       *)
(***************************************************************************)
EXTENDS Payments, FiniteSetTheorems, TLAPS

(* Facts about rows.  The provers see a row update through these lemmas    *)
(* only, so that no later step has to expand a record.                     *)

LEMMA AppendType ==
  ASSUME NEW S, NEW q \in Seq(S), NEW e \in S PROVE Append(q, e) \in Seq(S)
OBVIOUS

LEMMA ExceptType ==
  ASSUME NEW S, NEW T, NEW f \in [S -> T], NEW x, NEW v, x \in S => v \in T
  PROVE  [f EXCEPT ![x] = v] \in [S -> T]
OBVIOUS

LEMMA FailedRowFields ==
  ASSUME TypeOK, NEW t \in Txns
  PROVE  /\ FailedRow(t) \in TxnRow
         /\ FailedRow(t).status = "FAILED"
         /\ FailedRow(t).key = txn[t].key
         /\ FailedRow(t).stale = txn[t].stale
         /\ FailedRow(t).journals = txn[t].journals
         /\ FailedRow(t).events = Append(txn[t].events, "PAYMENT_FAILED")
<1>1. txn[t] \in TxnRow
  BY DEF TypeOK
<1>2. Append(txn[t].events, "PAYMENT_FAILED") \in Seq(Event)
  BY <1>1, AppendType DEF TxnRow, Event
<1> QED
  BY <1>1, <1>2 DEF TxnRow, FailedRow, TxnStatus

LEMMA PaidRowFields ==
  ASSUME TypeOK, NEW t \in Txns
  PROVE  /\ PaidRow(t) \in TxnRow
         /\ PaidRow(t).status = "SUCCESS"
         /\ PaidRow(t).key = txn[t].key
         /\ PaidRow(t).stale = txn[t].stale
         /\ PaidRow(t).journals = txn[t].journals + 1
         /\ PaidRow(t).events = Append(txn[t].events, "PAYMENT_SUCCEEDED")
<1>1. txn[t] \in TxnRow
  BY DEF TypeOK
<1>2. Append(txn[t].events, "PAYMENT_SUCCEEDED") \in Seq(Event)
  BY <1>1, AppendType DEF TxnRow, Event
<1>3. txn[t].journals + 1 \in Nat
  BY <1>1 DEF TxnRow
<1>4. "SUCCESS" \in TxnStatus
  BY DEF TxnStatus
<1> QED
  BY <1>1, <1>2, <1>3, <1>4 DEF TxnRow, PaidRow

LEMMA PendingRowFields ==
  ASSUME NEW k \in Keys \cup {None}
  PROVE  /\ PendingRow(k) \in TxnRow
         /\ PendingRow(k).status = "PENDING"
         /\ PendingRow(k).key = k
         /\ PendingRow(k).journals = 0
         /\ PendingRow(k).events = <<"PAYMENT_INITIATED">>
<1>1. <<"PAYMENT_INITIATED">> \in Seq(Event)
  BY DEF Event
<1> QED
  BY <1>1 DEF TxnRow, TxnStatus, PendingRow

LEMMA ReservationFields ==
  ASSUME NEW p \in Payload \cup {NoPayload}
  PROVE  /\ Reservation(p) \in KeyRow
         /\ Reservation(p).status = "IN_PROGRESS"
         /\ Reservation(p).hash = generateRequestHash(p)
         /\ Reservation(p).response = None
<1>1. generateRequestHash(p) \in Hashed \cup {None}
  BY DEF generateRequestHash, Payload, NoPayload
<1> QED
  BY <1>1 DEF KeyRow, KeyStatus, Reservation

LEMMA CompletedKeyFields ==
  ASSUME TypeOK, NEW k \in Keys
  PROVE  /\ CompletedKey(k) \in KeyRow
         /\ CompletedKey(k).status = "COMPLETED"
         /\ CompletedKey(k).response = "SUCCESS"
         /\ CompletedKey(k).hash = key[k].hash
         /\ CompletedKey(k).expired = key[k].expired
BY DEF TypeOK, KeyRow, KeyStatus, Outcome, CompletedKey

LEMMA FailedKeyFields ==
  ASSUME TypeOK, NEW k \in Keys
  PROVE  /\ FailedKey(k) \in KeyRow
         /\ FailedKey(k).status =
              IF key[k].status = "IN_PROGRESS" THEN "FAILED" ELSE key[k].status
         /\ FailedKey(k).response = key[k].response
         /\ FailedKey(k).hash = key[k].hash
         /\ FailedKey(k).expired = key[k].expired
BY DEF TypeOK, KeyRow, KeyStatus, Outcome, FailedKey

LEMMA SweptKeyFields ==
  ASSUME TypeOK, NEW k \in Keys
  PROVE  /\ SweptKey(k) \in KeyRow
         /\ SweptKey(k).status =
              IF key[k].status = "IN_PROGRESS" THEN "COMPLETED" ELSE key[k].status
         /\ SweptKey(k).response =
              IF key[k].status = "IN_PROGRESS" THEN "FAILED" ELSE key[k].response
         /\ SweptKey(k).hash = key[k].hash
         /\ SweptKey(k).expired = key[k].expired
BY DEF TypeOK, KeyRow, KeyStatus, Outcome, SweptKey

LEMMA NoRowTypes == NoKey \in KeyRow /\ NoTxn \in TxnRow
BY DEF NoKey, NoTxn, KeyRow, TxnRow, KeyStatus, TxnStatus

LEMMA RequestFields ==
  ASSUME TypeOK, NEW a \in Attempts
  PROVE  /\ req[a].key \in Keys \cup {None}
         /\ req[a].payload \in Payload \cup {NoPayload}
         /\ req[a].txn \in Txns \cup {None}
BY DEF TypeOK, Request

LEMMA UnlockedType ==
  ASSUME NEW S, NEW lock \in [S -> Holder], NEW p
  PROVE  /\ Unlocked(lock, p) \in [S -> Holder]
         /\ \A x \in S : Unlocked(lock, p)[x] = IF lock[x] = p THEN None ELSE lock[x]
BY DEF Unlocked, Holder

-----------------------------------------------------------------------------
LEMMA TypeStep == TypeOK /\ [Next]_vars => TypeOK'
<1> SUFFICES ASSUME TypeOK, [Next]_vars PROVE TypeOK'
  OBVIOUS
<1>1. ASSUME NEW a \in Attempts, NEW k \in Keys, NEW p \in Payload, Submit(a, k, p)
      PROVE  TypeOK'
  BY <1>1 DEF Submit, TypeOK, Request, PcState, keyVars, txnVars, swVars
<1>2. ASSUME NEW a \in Attempts, NEW t \in Txns, Reserve(a, t)
      PROVE  key' \in [Keys -> KeyRow] /\ txn' \in [Txns -> TxnRow]
  BY <1>2, RequestFields, ReservationFields, PendingRowFields DEF Reserve, TypeOK
<1>3. ASSUME NEW a \in Attempts, NEW t \in Txns, ReserveNew(a, t)
      PROVE  TypeOK'
  BY <1>2, <1>3 DEF ReserveNew, TypeOK, Request, PcState, SessState, swVars
<1>4. ASSUME NEW a \in Attempts, NEW t \in Txns, ReserveAckLost(a, t)
      PROVE  TypeOK'
  BY <1>2, <1>4 DEF ReserveAckLost, Finish, TypeOK, PcState, Reply, swVars
<1>5. ASSUME NEW a \in Attempts, ReserveDuplicate(a)
      PROVE  TypeOK'
  BY <1>5 DEF ReserveDuplicate, TypeOK, PcState, keyVars, txnVars, swVars
<1>6. ASSUME NEW a \in Attempts, InspectDuplicate(a)
      PROVE  TypeOK'
  <2>1. SameRequest(a) /\ req[a].key \in Keys => key[req[a].key].response \in Reply
    BY DEF TypeOK, KeyRow, Reply
  <2> QED
    BY <1>6, <2>1 DEF InspectDuplicate, Finish, TypeOK, PcState, Reply, keyVars, txnVars, swVars
<1>7. ASSUME NEW a \in Attempts, Reclaim(a)
      PROVE  TypeOK'
  BY <1>7 DEF Reclaim, Finish, TypeOK, PcState, Reply, Holder, txnVars, swVars
<1>8. ASSUME NEW a \in Attempts, InsertAfterReclaim(a)
      PROVE  TypeOK'
  <2>1. keyLock' \in [Keys -> Holder]
    BY <1>8, UnlockedType DEF InsertAfterReclaim, TypeOK
  <2>2. CASE UniqueAllows(req[a].key)
    <3>1. PICK t \in Txns :
            /\ key' = [key EXCEPT ![req[a].key] = Reservation(req[a].payload)]
            /\ txn' = [txn EXCEPT ![t] = PendingRow(req[a].key)]
            /\ pc' = [pc EXCEPT ![a] = "executing"]
            /\ req' = [req EXCEPT ![a].txn = t]
            /\ sess' = [sess EXCEPT ![a] = "open"]
            /\ reply' = reply
      BY <1>8, <2>2 DEF InsertAfterReclaim
    <3>2. key' \in [Keys -> KeyRow] /\ txn' \in [Txns -> TxnRow]
      BY <3>1, RequestFields, ReservationFields, PendingRowFields DEF TypeOK
    <3> QED
      BY <1>8, <2>1, <3>1, <3>2
         DEF InsertAfterReclaim, TypeOK, Request, PcState, SessState, swVars
  <2>3. CASE ~UniqueAllows(req[a].key)
    BY <1>8, <2>1, <2>3 DEF InsertAfterReclaim, Finish, TypeOK, PcState, Reply, swVars
  <2> QED
    BY <2>2, <2>3
<1>9. ASSUME NEW a \in Attempts, ReserveError(a)
      PROVE  TypeOK'
  BY <1>9, UnlockedType DEF ReserveError, Finish, TypeOK, PcState, Reply, txnVars, swVars
<1>10. ASSUME NEW a \in Attempts, MarkSuccess(a)
       PROVE  TypeOK'
  BY <1>10 DEF MarkSuccess, TypeOK, Holder, SessState, keyVars, swVars
<1>11. ASSUME NEW a \in Attempts, CompleteKey(a)
       PROVE  TypeOK'
  BY <1>11, UnlockedType DEF CompleteKey, TypeOK, Holder, PcState, SessState, swVars
<1>12. ASSUME NEW a \in Attempts, Commit(a)
       PROVE  TypeOK'
  <2>1. key' \in [Keys -> KeyRow] /\ txn' \in [Txns -> TxnRow]
    BY <1>12, ExceptType, PaidRowFields, CompletedKeyFields DEF Commit, TypeOK
  <2> QED
    BY <1>12, <2>1, UnlockedType DEF Commit, TypeOK, SessState, swVars
<1>13. ASSUME NEW a \in Attempts, CommitNeverArrives(a)
       PROVE  TypeOK'
  BY <1>13, UnlockedType DEF CommitNeverArrives, TypeOK, SessState, swVars
<1>14. ASSUME NEW a \in Attempts, CommitAck(a)
       PROVE  TypeOK'
  BY <1>14 DEF CommitAck, Finish, TypeOK, PcState, Reply, Outcome, keyVars, txnVars, swVars
<1>15. ASSUME NEW a \in Attempts, CommitAckLost(a)
       PROVE  TypeOK'
  BY <1>15 DEF CommitAckLost, TypeOK, PcState, keyVars, txnVars, swVars
<1>16. ASSUME NEW a \in Attempts, ExecuteError(a)
       PROVE  TypeOK'
  BY <1>16, UnlockedType DEF ExecuteError, TypeOK, PcState, SessState, keyVars, swVars
<1>17. ASSUME NEW a \in Attempts, FailMark(a)
       PROVE  TypeOK'
  BY <1>17 DEF FailMark, Finish, TypeOK, PcState, Reply, Holder, keyVars, swVars
<1>18. ASSUME NEW a \in Attempts, FailCommit(a)
       PROVE  TypeOK'
  <2>1. key' \in [Keys -> KeyRow] /\ txn' \in [Txns -> TxnRow]
    BY <1>18, ExceptType, FailedRowFields, FailedKeyFields DEF FailCommit, TypeOK
  <2> QED
    BY <1>18, <2>1, UnlockedType DEF FailCommit, Finish, TypeOK, PcState, Reply, swVars
<1>19. ASSUME NEW a \in Attempts, FailError(a)
       PROVE  TypeOK'
  BY <1>19, UnlockedType DEF FailError, Finish, TypeOK, PcState, Reply, keyVars, swVars
<1>20. CASE Crash
  <2>1. keyLock' \in [Keys -> Holder] /\ txnLock' \in [Txns -> Holder]
    BY <1>20 DEF Crash, TypeOK, Holder
  <2>2. pc' \in [Attempts -> PcState] /\ sess' \in [Attempts -> SessState]
    BY <1>20 DEF Crash, TypeOK, PcState, SessState
  <2>3. \A a \in Attempts : pc'[a] # "idle" => pc[a] # "idle"
    BY <1>20 DEF Crash, InFlight
  <2> QED
    BY <1>20, <2>1, <2>2, <2>3 DEF Crash, TypeOK, swVars
<1>21. ASSUME NEW s \in Sweepers, SweepStart(s)
       PROVE  TypeOK'
  BY <1>21 DEF SweepStart, StalePending, TypeOK, SwState, keyVars, txnVars, attVars
<1>22. ASSUME NEW s \in Sweepers, NEW t \in Txns, SweepMark(s, t)
       PROVE  TypeOK'
  BY <1>22 DEF SweepMark, TypeOK, SwState, Holder, keyVars, attVars
<1>23. ASSUME NEW s \in Sweepers, NEW t \in Txns, SweepCommit(s, t)
       PROVE  TypeOK'
  <2>1. key' \in [Keys -> KeyRow] /\ txn' \in [Txns -> TxnRow]
    BY <1>23, ExceptType, FailedRowFields, SweptKeyFields DEF SweepCommit, TypeOK
  <2> QED
    BY <1>23, <2>1, UnlockedType DEF SweepCommit, TypeOK, SwState, attVars
<1>24. ASSUME NEW s \in Sweepers, SweepDone(s)
       PROVE  TypeOK'
  BY <1>24 DEF SweepDone, TypeOK, SwState, keyVars, txnVars, attVars
<1>25. ASSUME NEW s \in Sweepers, SweepError(s)
       PROVE  TypeOK'
  BY <1>25, UnlockedType, MaxFaultsNat DEF SweepError, TypeOK, SwState, keyVars, attVars
<1>26. CASE Cleanup
  BY <1>26, NoRowTypes DEF Cleanup, TypeOK, txnVars, attVars, swVars
<1>27. ASSUME NEW t \in Txns, BecomeStale(t)
       PROVE  TypeOK'
  BY <1>27 DEF BecomeStale, TypeOK, TxnRow, keyVars, attVars, swVars
<1>28. ASSUME NEW k \in Keys, Expire(k)
       PROVE  TypeOK'
  BY <1>28 DEF Expire, TypeOK, KeyRow, txnVars, attVars, swVars
<1>29. CASE UNCHANGED vars
  BY <1>29 DEF TypeOK, vars, keyVars, txnVars, attVars, swVars
<1> QED
  BY <1>1, <1>3, <1>4, <1>5, <1>6, <1>7, <1>8, <1>9, <1>10, <1>11, <1>12, <1>13,
     <1>14, <1>15, <1>16, <1>17, <1>18, <1>19, <1>20, <1>21, <1>22, <1>23, <1>24,
     <1>25, <1>26, <1>27, <1>28, <1>29
     DEF Next, AttemptStep, CommitResolves, SweeperStep, Quiescent

\* Every table, lock and program counter keeps its type.
THEOREM TypeCorrect == Spec => []TypeOK
<1>1. Init => TypeOK
  BY NoRowTypes, MaxFaultsNat
     DEF Init, TypeOK, Holder, PcState, SessState, Reply, SwState, Request
<1> QED
  BY <1>1, TypeStep, PTL DEF Spec

-----------------------------------------------------------------------------
(* The inductive invariant.  The properties alone are not inductive: why a *)
(* commit finds its row still PENDING rests on who holds which row lock.   *)

HasRow(t) == txn[t].status # "ABSENT"

\* A row has a key, and a key has one row (transactions.idempotencyKey is unique).
RowsUnique ==
    /\ \A t \in Txns : txn[t].status = "ABSENT" <=> txn[t].key = None
    /\ \A t, u \in Txns : (HasRow(t) /\ txn[t].key = txn[u].key) => t = u

\* An attempt past its reservation works on the row reserved with its key.
Owns(a) ==
    sess[a] # "none" \/ pc[a] \in {"executing", "committing", "failing", "failMarked"}

AttemptsOwnRows ==
    \A a \in Attempts : Owns(a) =>
        /\ pc[a] # "idle"
        /\ req[a].txn \in Txns
        /\ txn[req[a].txn].key = req[a].key

\* What a session of transaction B may be, given where its attempt is.
SessionsFit ==
    \A a \in Attempts :
        /\ sess[a] \in {"open", "marked"} => pc[a] = "executing"
        /\ sess[a] = "completing" => pc[a] \in {"committing", "failing", "done", "crashed"}
        /\ pc[a] \in {"reserving", "duplicate", "reclaiming", "reclaimed"}
             => sess[a] = "none"
        /\ sess[a] = "committed" => txn[req[a].txn].status = "SUCCESS"
        /\ pc[a] = "idle" => reply[a] = None

\* The row locks that open transactions hold, and what they keep unchanged.
TxnLocksHeld ==
    /\ \A a \in Attempts : (sess[a] \in {"marked", "completing"} \/ pc[a] = "failMarked")
         => txnLock[req[a].txn] = a
    /\ \A a \in Attempts : pc[a] = "failMarked" => txn[req[a].txn].status = "PENDING"
    /\ \A s \in Sweepers, t \in Txns : txnLock[t] = s => txn[t].status = "PENDING"

KeyLocksHeld ==
    /\ \A a \in Attempts : sess[a] = "completing" =>
         keyLock[req[a].key] = a /\ key[req[a].key].status = "IN_PROGRESS"
    /\ \A a \in Attempts : pc[a] = "reclaimed" =>
         /\ keyLock[req[a].key] = a
         /\ key[req[a].key].status \in {"FAILED", "IN_PROGRESS"}

\* The attempts that may still be answered with an outcome, or were, all sent
\* the hash the key was reserved with.
Entitled(a) == sess[a] # "none" \/ reply[a] \in Outcome

HashesBound ==
    \A a \in Attempts : Entitled(a) =>
        /\ key[req[a].key].status # "ABSENT" =>
             key[req[a].key].hash = generateRequestHash(req[a].payload)
        /\ \A b \in Attempts :
             Entitled(b) /\ req[b].key = req[a].key =>
               generateRequestHash(req[b].payload) = generateRequestHash(req[a].payload)

Safe ==
    /\ RowsUnique
    /\ AttemptsOwnRows
    /\ SessionsFit
    /\ TxnLocksHeld
    /\ KeyLocksHeld
    /\ RecordsAgree
    /\ KeyMatchesTransaction
    /\ RepliesTruthful
    /\ HashesBound

IInv == TypeOK /\ Safe

LEMMA RowsFrame ==
  ASSUME Safe, UNCHANGED <<key, txn>>
  PROVE  RowsUnique' /\ RecordsAgree' /\ KeyMatchesTransaction'
BY DEF Safe, RowsUnique, HasRow, RecordsAgree, KeyMatchesTransaction, RowsOf, History, KeyFits

\* A PENDING row is settled, and its key with it: what an update of the two
\* rows has to satisfy for the tables to agree afterwards.
LEMMA Settles ==
  ASSUME TypeOK, Safe,
         NEW t \in Txns, txn[t].status = "PENDING",
         txn' \in [Txns -> TxnRow], \A u \in Txns \ {t} : txn'[u] = txn[u],
         key' \in [Keys -> KeyRow], \A k \in Keys \ {txn[t].key} : key'[k] = key[k],
         txn'[t].key = txn[t].key, Final(txn'[t].status),
         txn'[t].journals = IF txn'[t].status = "SUCCESS" THEN 1 ELSE 0,
         txn'[t].events = History(txn'[t].status),
         key'[txn[t].key].status # "ABSENT",
         KeyFits(key'[txn[t].key], txn'[t].status)
  PROVE  RowsUnique' /\ RecordsAgree' /\ KeyMatchesTransaction'
<1> USE DEF Safe
<1>1. txn[t].key \in Keys /\ HasRow(t)
  BY DEF TypeOK, TxnRow, RowsUnique, HasRow
<1>2. \A u \in Txns : txn'[u].key = txn[u].key
  OBVIOUS
<1>3. \A u \in Txns \ {t} : HasRow(u) => txn[u].key # txn[t].key
  BY <1>1 DEF RowsUnique
<1>4. RowsUnique'
  BY <1>1, <1>2 DEF RowsUnique, HasRow, Final
<1>5. RecordsAgree'
  BY DEF RecordsAgree
<1>6. ASSUME NEW u \in Txns, txn'[u].status # "ABSENT"
      PROVE  KeyFits(key'[txn'[u].key], txn'[u].status)
  <2>1. CASE u = t
    BY <2>1
  <2>2. CASE u # t
    <3>1. HasRow(u) /\ txn[u].key \in Keys \ {txn[t].key}
      BY <1>3, <1>6, <2>2 DEF HasRow, RowsUnique, TypeOK, TxnRow
    <3> QED
      BY <3>1, <2>2 DEF HasRow, KeyMatchesTransaction
  <2> QED
    BY <2>1, <2>2
<1>7. ASSUME NEW k \in Keys, key'[k].status # "ABSENT"
      PROVE  RowsOf(k)' # {}
  BY <1>1, <1>2, <1>7 DEF RowsOf, KeyMatchesTransaction
<1> QED
  BY <1>4, <1>5, <1>6, <1>7 DEF KeyMatchesTransaction

\* The rows transaction A inserts agree with each other and with the rest.
LEMMA Opens ==
  ASSUME TypeOK, Safe, NEW a \in Attempts, NEW t \in Txns, pc[a] # "idle", Reserve(a, t)
  PROVE  /\ RowsUnique' /\ RecordsAgree' /\ KeyMatchesTransaction'
         /\ \A u \in Txns : u # t => txn'[u] = txn[u]
         /\ \A k \in Keys : k # req[a].key => key'[k] = key[k]
         /\ req[a].key \in Keys /\ RowsOf(req[a].key) = {}
         /\ txn[t].status = "ABSENT"
         /\ txn'[t].status = "PENDING" /\ txn'[t].key = req[a].key
         /\ key[req[a].key].status = "ABSENT"
         /\ key'[req[a].key].status = "IN_PROGRESS"
         /\ key'[req[a].key].hash = generateRequestHash(req[a].payload)
<1> USE DEF Safe
<1> DEFINE k == req[a].key
<1>1. k \in Keys /\ req[a].payload \in Payload \cup {NoPayload}
  BY RequestFields DEF TypeOK
<1>2. /\ key' = [key EXCEPT ![k] = Reservation(req[a].payload)]
      /\ txn' = [txn EXCEPT ![t] = PendingRow(k)]
      /\ key[k].status = "ABSENT" /\ RowsOf(k) = {} /\ txn[t].status = "ABSENT"
  BY DEF Reserve, UniqueAllows
<1>3. /\ txn'[t].status = "PENDING" /\ txn'[t].key = k
      /\ txn'[t].journals = 0 /\ txn'[t].events = <<"PAYMENT_INITIATED">>
      /\ \A u \in Txns : u # t => txn'[u] = txn[u]
  BY <1>1, <1>2, PendingRowFields DEF TypeOK
<1>4. /\ key'[k].status = "IN_PROGRESS"
      /\ key'[k].hash = generateRequestHash(req[a].payload)
      /\ \A l \in Keys : l # k => key'[l] = key[l]
  BY <1>1, <1>2, ReservationFields DEF TypeOK
<1>5. RowsUnique'
  BY <1>1, <1>2, <1>3, ProcessesDistinct DEF RowsUnique, HasRow, RowsOf
<1>6. RecordsAgree'
  BY <1>3 DEF RecordsAgree, History
<1>7. ASSUME NEW u \in Txns, txn'[u].status # "ABSENT"
      PROVE  KeyFits(key'[txn'[u].key], txn'[u].status)
  <2>1. CASE u = t
    BY <1>3, <1>4, <2>1 DEF KeyFits
  <2>2. CASE u # t
    <3>1. txn[u].key \in Keys /\ txn[u].key # k
      BY <1>2, <1>3, <1>7, <2>2 DEF RowsUnique, RowsOf, TypeOK, TxnRow
    <3> QED
      BY <1>3, <1>4, <1>7, <2>2, <3>1 DEF KeyMatchesTransaction
  <2> QED
    BY <2>1, <2>2
<1>8. ASSUME NEW l \in Keys, key'[l].status # "ABSENT"
      PROVE  RowsOf(l)' # {}
  <2>1. CASE l = k
    BY <1>3, <2>1 DEF RowsOf
  <2>2. CASE l # k
    <3>1. PICK u \in Txns : txn[u].key = l
      BY <1>4, <1>8, <2>2 DEF KeyMatchesTransaction, RowsOf
    <3>2. u # t
      BY <1>2, <3>1, ProcessesDistinct DEF RowsUnique
    <3> QED
      BY <1>3, <3>1, <3>2 DEF RowsOf
  <2> QED
    BY <2>1, <2>2
<1> QED
  BY <1>1, <1>2, <1>3, <1>4, <1>5, <1>6, <1>7, <1>8 DEF KeyMatchesTransaction

\* An attempt that owns a row, or was told an outcome, has a key with a row.
LEMMA KeyHasRow ==
  ASSUME TypeOK, Safe, NEW a \in Attempts, Owns(a) \/ reply[a] \in Outcome
  PROVE  \E u \in RowsOf(req[a].key) : HasRow(u)
<1> USE DEF Safe
<1>1. CASE Owns(a)
  <2>1. req[a].key \in Keys /\ req[a].txn \in RowsOf(req[a].key)
    BY <1>1 DEF TypeOK, AttemptsOwnRows, RowsOf
  <2> QED
    BY <2>1, ProcessesDistinct DEF RowsUnique, HasRow, RowsOf
<1>2. CASE reply[a] \in Outcome
  BY <1>2 DEF RepliesTruthful, HasRow, Outcome
<1> QED
  BY <1>1, <1>2

\* When the replies stay truthful: nobody is told anything new, no row changes
\* key, and no outcome is revised.
LEMMA RepliesFrame ==
  ASSUME RepliesTruthful,
         \A u \in Txns : /\ txn'[u].key = txn[u].key
                         /\ Final(txn[u].status) => txn'[u].status = txn[u].status,
         \A a \in Attempts : reply'[a] \in Outcome =>
                              reply'[a] = reply[a] /\ req'[a].key = req[a].key
  PROVE  RepliesTruthful'
<1> SUFFICES ASSUME NEW a \in Attempts, reply'[a] \in Outcome
             PROVE  \E t \in RowsOf(req[a].key)' : txn'[t].status = reply'[a]
  BY DEF RepliesTruthful
<1>1. PICK t \in Txns : txn[t].key = req[a].key /\ txn[t].status = reply[a]
  BY DEF RepliesTruthful, RowsOf
<1>2. /\ reply'[a] = reply[a] /\ req'[a].key = req[a].key
      /\ txn'[t].key = req'[a].key
  BY <1>1
<1>3. txn'[t].status = reply'[a]
  BY <1>1, <1>2 DEF Final, Outcome
<1> QED
  BY <1>2, <1>3 DEF RowsOf

\* When the hashes stay bound: nobody new becomes entitled, and no key row
\* appears or changes its hash.
LEMMA HashesFrame ==
  ASSUME HashesBound,
         \A a \in Attempts : Entitled(a)' =>
             /\ Entitled(a)
             /\ req'[a].key = req[a].key /\ req'[a].payload = req[a].payload
             /\ key'[req[a].key].status # "ABSENT" =>
                  /\ key[req[a].key].status # "ABSENT"
                  /\ key'[req[a].key].hash = key[req[a].key].hash
  PROVE  HashesBound'
BY DEF HashesBound

\* Every step of the system preserves the invariant.  Steps 1 to 18 change no
\* committed row; the others do, and rest on the lemmas above.
LEMMA SafeStep ==
  ASSUME TypeOK, TypeOK', Safe, [Next]_vars
  PROVE  Safe'
<1> USE DEF Safe
<1>1. ASSUME NEW a \in Attempts, NEW k \in Keys, NEW p \in Payload, Submit(a, k, p)
      PROVE  Safe'
  <2>1. RowsUnique' /\ RecordsAgree' /\ KeyMatchesTransaction'
    BY <1>1, RowsFrame DEF Submit, keyVars, txnVars
  <2>2. AttemptsOwnRows' /\ SessionsFit'
    BY <1>1 DEF Submit, txnVars, AttemptsOwnRows, Owns, SessionsFit
  <2>3. TxnLocksHeld' /\ KeyLocksHeld'
    BY <1>1 DEF Submit, keyVars, txnVars, TxnLocksHeld, KeyLocksHeld, SessionsFit
  <2>4. RepliesTruthful' /\ HashesBound'
    BY <1>1, NoneIsNoAnswer
       DEF Submit, keyVars, txnVars, AttemptsOwnRows, Owns, SessionsFit, RepliesTruthful,
           RowsOf, HashesBound, Entitled, Outcome
  <2> QED
    BY <2>1, <2>2, <2>3, <2>4
<1>2. ASSUME NEW a \in Attempts, ReserveDuplicate(a)
      PROVE  Safe'
  <2>1. RowsUnique' /\ RecordsAgree' /\ KeyMatchesTransaction'
    BY <1>2, RowsFrame DEF ReserveDuplicate, keyVars, txnVars
  <2>2. AttemptsOwnRows' /\ SessionsFit'
    BY <1>2 DEF ReserveDuplicate, txnVars, AttemptsOwnRows, Owns, SessionsFit
  <2>3. TxnLocksHeld' /\ KeyLocksHeld'
    BY <1>2 DEF ReserveDuplicate, keyVars, txnVars, TxnLocksHeld, KeyLocksHeld
  <2>4. RepliesTruthful' /\ HashesBound'
    BY <1>2
       DEF ReserveDuplicate, keyVars, txnVars, RepliesTruthful, RowsOf, HashesBound,
           Entitled
  <2> QED
    BY <2>1, <2>2, <2>3, <2>4
<1>3. ASSUME NEW a \in Attempts, InspectDuplicate(a)
      PROVE  Safe'
  <2>1. RowsUnique' /\ RecordsAgree' /\ KeyMatchesTransaction'
    BY <1>3, RowsFrame DEF InspectDuplicate, keyVars, txnVars
  <2>2. AttemptsOwnRows' /\ SessionsFit'
    BY <1>3
       DEF InspectDuplicate, Finish, txnVars, TypeOK, AttemptsOwnRows, Owns, SessionsFit
  <2>3. TxnLocksHeld' /\ KeyLocksHeld'
    BY <1>3
       DEF InspectDuplicate, Finish, keyVars, txnVars, TypeOK, TxnLocksHeld, KeyLocksHeld
  <2>4. RepliesTruthful' /\ HashesBound'
    <3>1. CASE reply' = reply
      BY <1>3, <3>1
         DEF InspectDuplicate, keyVars, txnVars, RepliesTruthful, RowsOf, HashesBound,
             Entitled
    <3>2. CASE Finish(a, "ERROR")
      BY <1>3, <3>2
         DEF InspectDuplicate, Finish, keyVars, txnVars, RepliesTruthful, RowsOf,
             HashesBound, Entitled, Outcome
    <3>3. CASE /\ SameRequest(a) /\ key[req[a].key].status = "COMPLETED"
               /\ Finish(a, key[req[a].key].response)
      <4>1. req[a].key \in Keys /\ key[req[a].key].hash = generateRequestHash(req[a].payload)
        BY <1>3, <3>3 DEF InspectDuplicate, SameRequest, TypeOK
      <4>2. PICK t \in RowsOf(req[a].key) : txn[t].status = key[req[a].key].response
        <5>1. PICK t \in RowsOf(req[a].key) : TRUE
          BY <3>3, <4>1 DEF KeyMatchesTransaction
        <5>2. txn[t].status \in TxnStatus \ {"ABSENT"} /\ txn[t].key = req[a].key
          BY <4>1, <5>1, ProcessesDistinct DEF RowsOf, RowsUnique, TypeOK, TxnRow
        <5>3. KeyFits(key[req[a].key], txn[t].status)
          BY <5>1, <5>2 DEF RowsOf, KeyMatchesTransaction
        <5>4. txn[t].status = key[req[a].key].response
          BY <3>3, <5>2, <5>3 DEF KeyFits, TxnStatus
        <5> QED
          BY <5>1, <5>4
      <4>3. RepliesTruthful'
        BY <1>3, <3>3, <4>2 DEF InspectDuplicate, Finish, txnVars, RepliesTruthful, RowsOf
      <4>4. HashesBound'
        BY <1>3, <3>3, <4>1 DEF InspectDuplicate, Finish, keyVars, HashesBound, Entitled
      <4> QED
        BY <4>3, <4>4
    <3> QED
      BY <1>3, <3>1, <3>2, <3>3 DEF InspectDuplicate
  <2> QED
    BY <2>1, <2>2, <2>3, <2>4
<1>4. ASSUME NEW a \in Attempts, Reclaim(a)
      PROVE  Safe'
  <2>1. RowsUnique' /\ RecordsAgree' /\ KeyMatchesTransaction'
    BY <1>4, RowsFrame DEF Reclaim, txnVars
  <2>2. AttemptsOwnRows' /\ SessionsFit'
    BY <1>4 DEF Reclaim, Finish, txnVars, TypeOK, AttemptsOwnRows, Owns, SessionsFit
  <2>3. TxnLocksHeld' /\ KeyLocksHeld'
    BY <1>4, UnlockedType, ProcessesDistinct
       DEF Reclaim, Finish, SameRequest, Reclaimable, txnVars, swVars,
           TypeOK, TxnLocksHeld, KeyLocksHeld, Owns, AttemptsOwnRows, SessionsFit
  <2>4. RepliesTruthful' /\ HashesBound'
    BY <1>4
       DEF Reclaim, Finish, txnVars, TypeOK, RepliesTruthful, RowsOf, HashesBound,
           Entitled, Outcome
  <2> QED
    BY <2>1, <2>2, <2>3, <2>4
<1>5. ASSUME NEW a \in Attempts, ReserveError(a)
      PROVE  Safe'
  <2>1. RowsUnique' /\ RecordsAgree' /\ KeyMatchesTransaction'
    BY <1>5, RowsFrame DEF ReserveError, txnVars
  <2>2. AttemptsOwnRows' /\ SessionsFit'
    BY <1>5 DEF ReserveError, Finish, txnVars, AttemptsOwnRows, Owns, SessionsFit
  <2>3. TxnLocksHeld' /\ KeyLocksHeld'
    BY <1>5, UnlockedType
       DEF ReserveError, Finish, txnVars, TypeOK, TxnLocksHeld, KeyLocksHeld, SessionsFit
  <2>4. RepliesTruthful' /\ HashesBound'
    BY <1>5
       DEF ReserveError, Finish, txnVars, RepliesTruthful, RowsOf, HashesBound, Entitled,
           Outcome
  <2> QED
    BY <2>1, <2>2, <2>3, <2>4
<1>6. ASSUME NEW a \in Attempts, MarkSuccess(a)
      PROVE  Safe'
  <2>1. RowsUnique' /\ RecordsAgree' /\ KeyMatchesTransaction'
    BY <1>6, RowsFrame DEF MarkSuccess, keyVars
  <2>2. AttemptsOwnRows' /\ SessionsFit'
    BY <1>6 DEF MarkSuccess, AttemptsOwnRows, Owns, SessionsFit
  <2>3. TxnLocksHeld' /\ KeyLocksHeld'
    BY <1>6, ProcessesDistinct DEF MarkSuccess, keyVars, TypeOK, TxnLocksHeld, KeyLocksHeld
  <2>4. RepliesTruthful' /\ HashesBound'
    BY <1>6 DEF MarkSuccess, keyVars, RepliesTruthful, RowsOf, HashesBound, Entitled
  <2> QED
    BY <2>1, <2>2, <2>3, <2>4
<1>7. ASSUME NEW a \in Attempts, CompleteKey(a)
      PROVE  Safe'
  <2>1. RowsUnique' /\ RecordsAgree' /\ KeyMatchesTransaction'
    BY <1>7, RowsFrame DEF CompleteKey
  <2>2. AttemptsOwnRows' /\ SessionsFit'
    BY <1>7 DEF CompleteKey, TypeOK, AttemptsOwnRows, Owns, SessionsFit
  <2>3. TxnLocksHeld' /\ KeyLocksHeld'
    BY <1>7, UnlockedType, ProcessesDistinct
       DEF CompleteKey, CanComplete, swVars, TypeOK, TxnLocksHeld, KeyLocksHeld, Owns,
           AttemptsOwnRows
  <2>4. RepliesTruthful' /\ HashesBound'
    BY <1>7 DEF CompleteKey, TypeOK, RepliesTruthful, RowsOf, HashesBound, Entitled
  <2> QED
    BY <2>1, <2>2, <2>3, <2>4
<1>8. ASSUME NEW a \in Attempts, CommitNeverArrives(a)
      PROVE  Safe'
  <2>1. RowsUnique' /\ RecordsAgree' /\ KeyMatchesTransaction'
    BY <1>8, RowsFrame DEF CommitNeverArrives
  <2>2. AttemptsOwnRows' /\ SessionsFit'
    BY <1>8 DEF CommitNeverArrives, AttemptsOwnRows, Owns, SessionsFit
  <2>3. TxnLocksHeld' /\ KeyLocksHeld'
    BY <1>8, UnlockedType, ProcessesDistinct
       DEF CommitNeverArrives, swVars, TypeOK, TxnLocksHeld, KeyLocksHeld, Owns,
           AttemptsOwnRows, SessionsFit
  <2>4. RepliesTruthful' /\ HashesBound'
    BY <1>8 DEF CommitNeverArrives, RepliesTruthful, RowsOf, HashesBound, Entitled
  <2> QED
    BY <2>1, <2>2, <2>3, <2>4
<1>9. ASSUME NEW a \in Attempts, CommitAck(a)
      PROVE  Safe'
  <2>1. RowsUnique' /\ RecordsAgree' /\ KeyMatchesTransaction'
    BY <1>9, RowsFrame DEF CommitAck, keyVars, txnVars
  <2>2. AttemptsOwnRows' /\ SessionsFit'
    BY <1>9 DEF CommitAck, Finish, txnVars, AttemptsOwnRows, Owns, SessionsFit
  <2>3. TxnLocksHeld' /\ KeyLocksHeld'
    BY <1>9 DEF CommitAck, Finish, keyVars, txnVars, TxnLocksHeld, KeyLocksHeld
  <2>4. RepliesTruthful' /\ HashesBound'
    BY <1>9
       DEF CommitAck, Finish, keyVars, txnVars, AttemptsOwnRows, Owns, SessionsFit,
           RepliesTruthful, RowsOf, HashesBound, Entitled
  <2> QED
    BY <2>1, <2>2, <2>3, <2>4
<1>10. ASSUME NEW a \in Attempts, CommitAckLost(a)
      PROVE  Safe'
  <2>1. RowsUnique' /\ RecordsAgree' /\ KeyMatchesTransaction'
    BY <1>10, RowsFrame DEF CommitAckLost, keyVars, txnVars
  <2>2. AttemptsOwnRows' /\ SessionsFit'
    BY <1>10 DEF CommitAckLost, txnVars, AttemptsOwnRows, Owns, SessionsFit
  <2>3. TxnLocksHeld' /\ KeyLocksHeld'
    BY <1>10 DEF CommitAckLost, keyVars, txnVars, TxnLocksHeld, KeyLocksHeld
  <2>4. RepliesTruthful' /\ HashesBound'
    BY <1>10
       DEF CommitAckLost, keyVars, txnVars, RepliesTruthful, RowsOf, HashesBound, Entitled
  <2> QED
    BY <2>1, <2>2, <2>3, <2>4
<1>11. ASSUME NEW a \in Attempts, ExecuteError(a)
      PROVE  Safe'
  <2>1. RowsUnique' /\ RecordsAgree' /\ KeyMatchesTransaction'
    BY <1>11, RowsFrame DEF ExecuteError, keyVars
  <2>2. AttemptsOwnRows' /\ SessionsFit'
    BY <1>11 DEF ExecuteError, TypeOK, AttemptsOwnRows, Owns, SessionsFit
  <2>3. TxnLocksHeld' /\ KeyLocksHeld'
    BY <1>11, UnlockedType, ProcessesDistinct
       DEF ExecuteError, keyVars, TypeOK, TxnLocksHeld, KeyLocksHeld, Owns, AttemptsOwnRows
  <2>4. RepliesTruthful' /\ HashesBound'
    BY <1>11 DEF ExecuteError, keyVars, RepliesTruthful, RowsOf, HashesBound, Entitled
  <2> QED
    BY <2>1, <2>2, <2>3, <2>4
<1>12. ASSUME NEW a \in Attempts, FailMark(a)
      PROVE  Safe'
  <2>1. RowsUnique' /\ RecordsAgree' /\ KeyMatchesTransaction'
    BY <1>12, RowsFrame DEF FailMark, keyVars
  <2>2. AttemptsOwnRows' /\ SessionsFit'
    BY <1>12, ProcessesDistinct
       DEF FailMark, Finish, TypeOK, AttemptsOwnRows, Owns, SessionsFit, TxnLocksHeld
  <2>3. TxnLocksHeld' /\ KeyLocksHeld'
    BY <1>12, ProcessesDistinct
       DEF FailMark, CanFail, Finish, keyVars, TypeOK, TxnLocksHeld, KeyLocksHeld, Owns,
           AttemptsOwnRows
  <2>4. RepliesTruthful' /\ HashesBound'
    BY <1>12
       DEF FailMark, Finish, keyVars, TypeOK, RepliesTruthful, RowsOf, HashesBound,
           Entitled, Outcome
  <2> QED
    BY <2>1, <2>2, <2>3, <2>4
<1>13. ASSUME NEW a \in Attempts, FailError(a)
      PROVE  Safe'
  <2>1. RowsUnique' /\ RecordsAgree' /\ KeyMatchesTransaction'
    BY <1>13, RowsFrame DEF FailError, keyVars
  <2>2. AttemptsOwnRows' /\ SessionsFit'
    BY <1>13 DEF FailError, Finish, AttemptsOwnRows, Owns, SessionsFit
  <2>3. TxnLocksHeld' /\ KeyLocksHeld'
    BY <1>13, UnlockedType, ProcessesDistinct
       DEF FailError, Finish, keyVars, TypeOK, TxnLocksHeld, KeyLocksHeld, Owns,
           AttemptsOwnRows, SessionsFit
  <2>4. RepliesTruthful' /\ HashesBound'
    BY <1>13
       DEF FailError, Finish, keyVars, RepliesTruthful, RowsOf, HashesBound, Entitled,
           Outcome
  <2> QED
    BY <2>1, <2>2, <2>3, <2>4
<1>14. ASSUME Crash
      PROVE  Safe'
  <2>1. RowsUnique' /\ RecordsAgree' /\ KeyMatchesTransaction'
    BY <1>14, RowsFrame DEF Crash
  <2>2. AttemptsOwnRows' /\ SessionsFit'
    BY <1>14 DEF Crash, AttemptsOwnRows, Owns, SessionsFit
  <2>3. TxnLocksHeld' /\ KeyLocksHeld'
    BY <1>14, ProcessesDistinct
       DEF Crash, LosesLocks, TypeOK, TxnLocksHeld, KeyLocksHeld, Owns, AttemptsOwnRows
  <2>4. RepliesTruthful' /\ HashesBound'
    BY <1>14 DEF Crash, RepliesTruthful, RowsOf, HashesBound, Entitled
  <2> QED
    BY <2>1, <2>2, <2>3, <2>4
<1>15. ASSUME NEW s \in Sweepers, SweepStart(s)
      PROVE  Safe'
  <2>1. RowsUnique' /\ RecordsAgree' /\ KeyMatchesTransaction'
    BY <1>15, RowsFrame DEF SweepStart, keyVars, txnVars
  <2>2. AttemptsOwnRows' /\ SessionsFit'
    BY <1>15 DEF SweepStart, txnVars, attVars, AttemptsOwnRows, Owns, SessionsFit
  <2>3. TxnLocksHeld' /\ KeyLocksHeld'
    BY <1>15 DEF SweepStart, keyVars, txnVars, attVars, TxnLocksHeld, KeyLocksHeld
  <2>4. RepliesTruthful' /\ HashesBound'
    BY <1>15
       DEF SweepStart, keyVars, txnVars, attVars, RepliesTruthful, RowsOf, HashesBound,
           Entitled
  <2> QED
    BY <2>1, <2>2, <2>3, <2>4
<1>16. ASSUME NEW s \in Sweepers, NEW t \in Txns, SweepMark(s, t)
      PROVE  Safe'
  <2>1. RowsUnique' /\ RecordsAgree' /\ KeyMatchesTransaction'
    BY <1>16, RowsFrame DEF SweepMark, keyVars
  <2>2. AttemptsOwnRows' /\ SessionsFit'
    BY <1>16 DEF SweepMark, attVars, AttemptsOwnRows, Owns, SessionsFit
  <2>3. TxnLocksHeld' /\ KeyLocksHeld'
    BY <1>16, ProcessesDistinct
       DEF SweepMark, CanFail, keyVars, attVars, TypeOK, TxnLocksHeld, KeyLocksHeld, Owns,
           AttemptsOwnRows
  <2>4. RepliesTruthful' /\ HashesBound'
    BY <1>16
       DEF SweepMark, keyVars, attVars, RepliesTruthful, RowsOf, HashesBound, Entitled
  <2> QED
    BY <2>1, <2>2, <2>3, <2>4
<1>17. ASSUME NEW s \in Sweepers, SweepDone(s)
      PROVE  Safe'
  <2>1. RowsUnique' /\ RecordsAgree' /\ KeyMatchesTransaction'
    BY <1>17, RowsFrame DEF SweepDone, keyVars, txnVars
  <2>2. AttemptsOwnRows' /\ SessionsFit'
    BY <1>17 DEF SweepDone, txnVars, attVars, AttemptsOwnRows, Owns, SessionsFit
  <2>3. TxnLocksHeld' /\ KeyLocksHeld'
    BY <1>17 DEF SweepDone, keyVars, txnVars, attVars, TxnLocksHeld, KeyLocksHeld
  <2>4. RepliesTruthful' /\ HashesBound'
    BY <1>17
       DEF SweepDone, keyVars, txnVars, attVars, RepliesTruthful, RowsOf, HashesBound,
           Entitled
  <2> QED
    BY <2>1, <2>2, <2>3, <2>4
<1>18. ASSUME NEW s \in Sweepers, SweepError(s)
      PROVE  Safe'
  <2>1. RowsUnique' /\ RecordsAgree' /\ KeyMatchesTransaction'
    BY <1>18, RowsFrame DEF SweepError, keyVars
  <2>2. AttemptsOwnRows' /\ SessionsFit'
    BY <1>18 DEF SweepError, attVars, AttemptsOwnRows, Owns, SessionsFit
  <2>3. TxnLocksHeld' /\ KeyLocksHeld'
    BY <1>18, UnlockedType, ProcessesDistinct
       DEF SweepError, keyVars, attVars, TypeOK, TxnLocksHeld, KeyLocksHeld, Owns,
           AttemptsOwnRows
  <2>4. RepliesTruthful' /\ HashesBound'
    BY <1>18
       DEF SweepError, keyVars, attVars, RepliesTruthful, RowsOf, HashesBound, Entitled
  <2> QED
    BY <2>1, <2>2, <2>3, <2>4
<1>19. ASSUME NEW a \in Attempts, NEW t \in Txns, ReserveNew(a, t)
      PROVE  Safe'
  <2>1. pc[a] # "idle" /\ Reserve(a, t)
    BY <1>19 DEF ReserveNew
  <2>2. RowsUnique' /\ RecordsAgree' /\ KeyMatchesTransaction'
    BY <2>1, Opens
  <2>3. /\ req'[a].key = req[a].key /\ req'[a].payload = req[a].payload /\ req'[a].txn = t
        /\ \A b \in Attempts : b # a => req'[b] = req[b]
    BY <1>19 DEF ReserveNew, TypeOK
  <2>4. \A b \in Attempts : Owns(b) \/ reply[b] \in Outcome => req[b].key # req[a].key
    BY <2>1, Opens, KeyHasRow
  <2>5. \A b \in Attempts : Owns(b) => txn'[req[b].txn] = txn[req[b].txn] /\ b # a
    BY <2>1, <2>4, Opens, ProcessesDistinct DEF AttemptsOwnRows, RowsUnique, TypeOK
  <2>6. AttemptsOwnRows' /\ SessionsFit'
    BY <1>19, <2>1, <2>3, <2>5, Opens
       DEF ReserveNew, TypeOK, AttemptsOwnRows, Owns, SessionsFit
  <2>7. TxnLocksHeld'
    BY <1>19, <2>1, <2>3, <2>5, Opens DEF ReserveNew, Owns, TxnLocksHeld
  <2>8. KeyLocksHeld'
    <3>1. \A b \in Attempts : pc'[b] = "reclaimed" =>
             pc[b] = "reclaimed" /\ b # a /\ req[b].key \in Keys \ {req[a].key}
      BY <1>19, <2>1, Opens DEF ReserveNew, TypeOK, KeyLocksHeld
    <3>2. \A b \in Attempts : sess'[b] = "completing" =>
             sess[b] = "completing" /\ b # a /\ req[b].key \in Keys \ {req[a].key}
      BY <1>19, <2>4 DEF ReserveNew, TypeOK, Owns, AttemptsOwnRows
    <3> QED
      BY <1>19, <2>1, <2>3, <3>1, <3>2, Opens DEF ReserveNew, KeyLocksHeld
  <2>9. RepliesTruthful'
    BY <1>19, <2>1, <2>3, Opens DEF ReserveNew, RepliesTruthful, RowsOf, Outcome
  <2>10. \A b \in Attempts : Entitled(b)' =>
            b = a \/ (Entitled(b) /\ req'[b] = req[b] /\ req[b].key # req[a].key
                      /\ req[b].key \in Keys)
    BY <1>19, <2>3, <2>4, NoneIsNoAnswer
       DEF ReserveNew, TypeOK, AttemptsOwnRows, Owns, SessionsFit, Entitled, Outcome
  <2>11. HashesBound'
    BY <2>1, <2>3, <2>10, Opens DEF HashesBound
  <2> QED
    BY <2>2, <2>6, <2>7, <2>8, <2>9, <2>11
<1>20. ASSUME NEW a \in Attempts, NEW t \in Txns, ReserveAckLost(a, t)
      PROVE  Safe'
  <2>1. pc[a] # "idle" /\ Reserve(a, t)
    BY <1>20 DEF ReserveAckLost
  <2>2. RowsUnique' /\ RecordsAgree' /\ KeyMatchesTransaction'
    BY <2>1, Opens
  <2>4. \A b \in Attempts : Owns(b) \/ reply[b] \in Outcome => req[b].key # req[a].key
    BY <2>1, Opens, KeyHasRow
  <2>5. \A b \in Attempts : Owns(b) => txn'[req[b].txn] = txn[req[b].txn] /\ b # a
    BY <2>1, <2>4, Opens, ProcessesDistinct DEF AttemptsOwnRows, RowsUnique, TypeOK
  <2>6. AttemptsOwnRows' /\ SessionsFit'
    BY <1>20, <2>5 DEF ReserveAckLost, Finish, AttemptsOwnRows, Owns, SessionsFit
  <2>7. TxnLocksHeld'
    BY <1>20, <2>1, <2>5, Opens, ProcessesDistinct
       DEF ReserveAckLost, Finish, swVars, TypeOK, Owns, TxnLocksHeld
  <2>8. KeyLocksHeld'
    <3>1. \A b \in Attempts : pc'[b] = "reclaimed" => pc[b] = "reclaimed" /\ b # a
      BY <1>20 DEF ReserveAckLost, Finish
    <3>2. \A b \in Attempts : pc[b] = "reclaimed" => req[b].key \in Keys \ {req[a].key}
      BY <2>1, Opens DEF TypeOK, KeyLocksHeld
    <3>3. \A b \in Attempts : sess[b] = "completing" => req[b].key \in Keys \ {req[a].key}
      BY <2>4 DEF TypeOK, Owns, AttemptsOwnRows
    <3> QED
      BY <1>20, <2>1, <3>1, <3>2, <3>3, Opens DEF ReserveAckLost, KeyLocksHeld
  <2>9. RepliesTruthful'
    <3>1. \A b \in Attempts : reply'[b] \in Outcome =>
             reply'[b] = reply[b] /\ req'[b] = req[b] /\ req[b].key # req[a].key
      BY <1>20, <2>4 DEF ReserveAckLost, Finish, Outcome
    <3>2. \A u \in Txns : txn[u].status \in Outcome => txn'[u] = txn[u]
      BY <2>1, Opens DEF Outcome
    <3> QED
      BY <3>1, <3>2 DEF RepliesTruthful, RowsOf
  <2>10. HashesBound'
    <3>1. \A b \in Attempts : Entitled(b)' =>
             /\ Entitled(b) /\ req'[b] = req[b]
             /\ req[b].key \in Keys \ {req[a].key}
      BY <1>20, <2>4, NoneIsNoAnswer
         DEF ReserveAckLost, Finish, TypeOK, AttemptsOwnRows, Owns, SessionsFit, Entitled,
             Outcome
    <3>2. \A k \in Keys \ {req[a].key} : key'[k] = key[k]
      BY <2>1, Opens
    <3> QED
      BY <3>1, <3>2, HashesFrame
  <2> QED
    BY <2>2, <2>6, <2>7, <2>8, <2>9, <2>10
<1>21. ASSUME NEW a \in Attempts, InsertAfterReclaim(a)
      PROVE  Safe'
  <2>0. ~UniqueAllows(req[a].key)
    BY <1>21
       DEF InsertAfterReclaim, UniqueAllows, TypeOK, KeyLocksHeld, KeyMatchesTransaction
  <2>1. RowsUnique' /\ RecordsAgree' /\ KeyMatchesTransaction'
    BY <1>21, <2>0, RowsFrame DEF InsertAfterReclaim
  <2>2. AttemptsOwnRows' /\ SessionsFit'
    BY <1>21, <2>0
       DEF InsertAfterReclaim, Finish, TypeOK, AttemptsOwnRows, Owns, SessionsFit
  <2>3. TxnLocksHeld' /\ KeyLocksHeld'
    BY <1>21, <2>0, UnlockedType
       DEF InsertAfterReclaim, Finish, TypeOK, SessionsFit, TxnLocksHeld, KeyLocksHeld
  <2>4. RepliesTruthful' /\ HashesBound'
    BY <1>21, <2>0
       DEF InsertAfterReclaim, Finish, swVars, TypeOK, RepliesTruthful, RowsOf,
           HashesBound, Entitled, Outcome
  <2> QED
    BY <2>1, <2>2, <2>3, <2>4
<1>22. ASSUME NEW a \in Attempts, Commit(a)
      PROVE  Safe'
  <2> DEFINE t == req[a].txn
             k == req[a].key
  <2>1. /\ t \in Txns /\ k \in Keys /\ txn[t].key = k
        /\ txnLock[t] = a /\ keyLock[k] = a
        /\ key[k].status = "IN_PROGRESS"
    BY <1>22 DEF Commit, TypeOK, AttemptsOwnRows, Owns, TxnLocksHeld, KeyLocksHeld
  <2>2. txn[t].status = "PENDING"
    <3>1. txn[t].status \in TxnStatus \ {"ABSENT"}
      BY <2>1, ProcessesDistinct DEF RowsUnique, TypeOK, TxnRow
    <3> QED
      BY <2>1, <3>1 DEF KeyMatchesTransaction, KeyFits, TxnStatus
  <2>3. /\ txn'[t] = PaidRow(t) /\ \A u \in Txns : u # t => txn'[u] = txn[u]
        /\ key'[k] = CompletedKey(k) /\ \A l \in Keys : l # k => key'[l] = key[l]
    BY <1>22, <2>1 DEF Commit, TypeOK
  <2>4. PaidRow(t).journals = 1 /\ PaidRow(t).events = History("SUCCESS")
    BY <2>1, <2>2, PaidRowFields DEF RecordsAgree, History
  <2>5. /\ txn'[t].status = "SUCCESS" /\ txn'[t].key = k
        /\ txn'[t].journals = 1 /\ txn'[t].events = History("SUCCESS")
        /\ key'[k].status = "COMPLETED" /\ key'[k].response = "SUCCESS"
        /\ key'[k].hash = key[k].hash
    BY <2>1, <2>3, <2>4, PaidRowFields, CompletedKeyFields
  <2>6. RowsUnique' /\ RecordsAgree' /\ KeyMatchesTransaction'
    BY <2>1, <2>2, <2>3, <2>5, Settles DEF TypeOK, Final, KeyFits
  <2>7. AttemptsOwnRows' /\ SessionsFit'
    BY <1>22, <2>1, <2>3, <2>5 DEF Commit, AttemptsOwnRows, Owns, SessionsFit
  <2>8. TxnLocksHeld' /\ KeyLocksHeld'
    BY <1>22, <2>1, <2>3, UnlockedType, ProcessesDistinct
       DEF Commit, swVars, TypeOK, AttemptsOwnRows, Owns, SessionsFit, TxnLocksHeld,
           KeyLocksHeld
  <2>9. RepliesTruthful'
    BY <1>22, <2>1, <2>2, <2>3, <2>5, RepliesFrame DEF Commit, Final
  <2>10. HashesBound'
    BY <1>22, <2>1, <2>3, <2>5, HashesFrame DEF Commit, Entitled
  <2> QED
    BY <2>6, <2>7, <2>8, <2>9, <2>10
<1>23. ASSUME NEW a \in Attempts, FailCommit(a)
      PROVE  Safe'
  <2> DEFINE t == req[a].txn
             k == req[a].key
  <2>1. /\ t \in Txns /\ k \in Keys /\ txn[t].key = k
        /\ txnLock[t] = a /\ keyLock[k] = None
        /\ txn[t].status = "PENDING"
    BY <1>23 DEF FailCommit, TypeOK, AttemptsOwnRows, Owns, TxnLocksHeld
  <2>2. key[k].status = "IN_PROGRESS"
    BY <2>1 DEF KeyMatchesTransaction, KeyFits
  <2>3. /\ txn'[t] = FailedRow(t) /\ \A u \in Txns : u # t => txn'[u] = txn[u]
        /\ key'[k] = FailedKey(k) /\ \A l \in Keys : l # k => key'[l] = key[l]
    BY <1>23, <2>1 DEF FailCommit, TypeOK
  <2>4. FailedRow(t).journals = 0 /\ FailedRow(t).events = History("FAILED")
    BY <2>1, FailedRowFields DEF RecordsAgree, History
  <2>5. /\ txn'[t].status = "FAILED" /\ txn'[t].key = k
        /\ txn'[t].journals = 0 /\ txn'[t].events = History("FAILED")
        /\ key'[k].status = "FAILED" /\ key'[k].hash = key[k].hash
    BY <2>1, <2>2, <2>3, <2>4, FailedRowFields, FailedKeyFields
  <2>6. RowsUnique' /\ RecordsAgree' /\ KeyMatchesTransaction'
    BY <2>1, <2>3, <2>5, Settles DEF TypeOK, Final, KeyFits
  <2>7. AttemptsOwnRows' /\ SessionsFit'
    BY <1>23, <2>1, <2>3, <2>5 DEF FailCommit, Finish, AttemptsOwnRows, Owns, SessionsFit
  <2>8. TxnLocksHeld' /\ KeyLocksHeld'
    BY <1>23, <2>1, <2>3, UnlockedType, ProcessesDistinct
       DEF FailCommit, Finish, swVars, TypeOK, AttemptsOwnRows, Owns, SessionsFit,
           TxnLocksHeld, KeyLocksHeld
  <2>9. RepliesTruthful'
    BY <1>23, <2>1, <2>3, <2>5, RepliesFrame DEF FailCommit, Finish, Final, Outcome
  <2>10. HashesBound'
    <3>1. \A b \in Attempts : Entitled(b)' => Entitled(b) /\ req'[b] = req[b]
      BY <1>23 DEF FailCommit, Finish, Entitled, Outcome
    <3>2. \A l \in Keys : /\ key'[l].hash = key[l].hash
                          /\ key'[l].status # "ABSENT" => key[l].status # "ABSENT"
      BY <2>2, <2>3, <2>5
    <3>3. \A b \in Attempts : Entitled(b) => req[b].key \in Keys
      BY NoneIsNoAnswer DEF TypeOK, AttemptsOwnRows, Owns, Entitled, SessionsFit, Outcome
    <3> QED
      BY <3>1, <3>2, <3>3, HashesFrame
  <2> QED
    BY <2>6, <2>7, <2>8, <2>9, <2>10
<1>24. ASSUME NEW s \in Sweepers, NEW t \in Txns, SweepCommit(s, t)
      PROVE  Safe'
  <2> DEFINE k == txn[t].key
  <2>1. /\ txn[t].status = "PENDING" /\ txnLock[t] = s
        /\ k \in Keys /\ keyLock[k] = None
    BY <1>24 DEF SweepCommit, TxnLocksHeld, TypeOK
  <2>2. key[k].status = "IN_PROGRESS"
    BY <2>1 DEF KeyMatchesTransaction, KeyFits
  <2>3. /\ txn'[t] = FailedRow(t) /\ \A u \in Txns : u # t => txn'[u] = txn[u]
        /\ key'[k] = SweptKey(k) /\ \A l \in Keys : l # k => key'[l] = key[l]
    BY <1>24, <2>1 DEF SweepCommit, TypeOK
  <2>4. FailedRow(t).journals = 0 /\ FailedRow(t).events = History("FAILED")
    BY <2>1, FailedRowFields DEF RecordsAgree, History
  <2>5. /\ txn'[t].status = "FAILED" /\ txn'[t].key = k
        /\ txn'[t].journals = 0 /\ txn'[t].events = History("FAILED")
        /\ key'[k].status = "COMPLETED" /\ key'[k].response = "FAILED"
        /\ key'[k].hash = key[k].hash
    BY <2>1, <2>2, <2>3, <2>4, FailedRowFields, SweptKeyFields
  <2>6. RowsUnique' /\ RecordsAgree' /\ KeyMatchesTransaction'
    BY <2>1, <2>3, <2>5, Settles DEF TypeOK, Final, KeyFits
  <2>7. AttemptsOwnRows' /\ SessionsFit'
    BY <1>24, <2>1, <2>3, <2>5 DEF SweepCommit, attVars, AttemptsOwnRows, Owns, SessionsFit
  <2>8. TxnLocksHeld' /\ KeyLocksHeld'
    BY <1>24, <2>1, <2>3, UnlockedType, ProcessesDistinct
       DEF SweepCommit, attVars, TypeOK, AttemptsOwnRows, Owns, TxnLocksHeld, KeyLocksHeld
  <2>9. RepliesTruthful'
    BY <1>24, <2>1, <2>3, <2>5, RepliesFrame DEF SweepCommit, attVars, Final
  <2>10. HashesBound'
    <3>1. \A b \in Attempts : Entitled(b)' => Entitled(b) /\ req'[b] = req[b]
      BY <1>24 DEF SweepCommit, attVars, Entitled
    <3>2. \A l \in Keys : /\ key'[l].hash = key[l].hash
                          /\ key'[l].status # "ABSENT" => key[l].status # "ABSENT"
      BY <2>2, <2>3, <2>5
    <3>3. \A b \in Attempts : Entitled(b) => req[b].key \in Keys
      BY NoneIsNoAnswer DEF TypeOK, AttemptsOwnRows, Owns, Entitled, SessionsFit, Outcome
    <3> QED
      BY <3>1, <3>2, <3>3, HashesFrame
  <2> QED
    BY <2>6, <2>7, <2>8, <2>9, <2>10
<1>25. ASSUME Cleanup
      PROVE  Safe'
  <2>1. /\ \A k \in Keys : key'[k] = IF k \in Expired THEN NoKey ELSE key[k]
        /\ txn' = txn /\ \A k \in Expired : keyLock[k] = None
    BY <1>25 DEF Cleanup, txnVars
  <2>2. RowsUnique' /\ RecordsAgree'
    BY <2>1 DEF RowsUnique, HasRow, RecordsAgree
  <2>3. KeyMatchesTransaction'
    <3>1. \A t \in Txns : txn[t].status # "ABSENT" => txn[t].key \in Keys
      BY DEF RowsUnique, TypeOK, TxnRow
    <3> QED
      BY <2>1, <3>1 DEF KeyMatchesTransaction, KeyFits, Expired, NoKey, RowsOf
  <2>4. AttemptsOwnRows' /\ SessionsFit'
    BY <1>25, <2>1 DEF Cleanup, attVars, AttemptsOwnRows, Owns, SessionsFit
  <2>5. TxnLocksHeld' /\ KeyLocksHeld'
    BY <1>25, <2>1, ProcessesDistinct
       DEF Cleanup, txnVars, attVars, TypeOK, AttemptsOwnRows, Owns, TxnLocksHeld,
           KeyLocksHeld
  <2>6. RepliesTruthful'
    BY <1>25, <2>1 DEF Cleanup, attVars, RepliesTruthful, RowsOf
  <2>7. \A a \in Attempts : Entitled(a) => req[a].key \in Keys
    BY NoneIsNoAnswer DEF TypeOK, AttemptsOwnRows, Owns, Entitled, SessionsFit, Outcome
  <2>8. HashesBound'
    BY <1>25, <2>1, <2>7, HashesFrame DEF Cleanup, attVars, Entitled, NoKey
  <2> QED
    BY <2>2, <2>3, <2>4, <2>5, <2>6, <2>8
<1>26. ASSUME NEW t \in Txns, BecomeStale(t)
      PROVE  Safe'
  <2>1. /\ key' = key
        /\ \A u \in Txns : /\ txn'[u].status = txn[u].status /\ txn'[u].key = txn[u].key
                           /\ txn'[u].journals = txn[u].journals
                           /\ txn'[u].events = txn[u].events
    BY <1>26 DEF BecomeStale, keyVars
  <2>2. \A k : RowsOf(k)' = RowsOf(k)
    BY <2>1 DEF RowsOf
  <2>3. RowsUnique' /\ RecordsAgree' /\ KeyMatchesTransaction'
    BY <2>1, <2>2 DEF RowsUnique, HasRow, RecordsAgree, KeyMatchesTransaction
  <2>4. AttemptsOwnRows' /\ SessionsFit' /\ TxnLocksHeld' /\ KeyLocksHeld'
    BY <1>26, <2>1
       DEF BecomeStale, keyVars, attVars, AttemptsOwnRows, Owns, SessionsFit, TxnLocksHeld,
           KeyLocksHeld
  <2>5. RepliesTruthful' /\ HashesBound'
    BY <1>26, <2>1, RepliesFrame, HashesFrame DEF BecomeStale, attVars, Entitled
  <2> QED
    BY <2>3, <2>4, <2>5
<1>27. ASSUME NEW k \in Keys, Expire(k)
      PROVE  Safe'
  <2>1. /\ txn' = txn
        /\ \A l \in Keys : /\ key'[l].status = key[l].status /\ key'[l].hash = key[l].hash
                           /\ key'[l].response = key[l].response
    BY <1>27 DEF Expire, txnVars
  <2>2. RowsUnique' /\ RecordsAgree'
    BY <2>1 DEF RowsUnique, HasRow, RecordsAgree
  <2>3. KeyMatchesTransaction'
    <3>1. \A t \in Txns : txn[t].status # "ABSENT" => txn[t].key \in Keys
      BY DEF RowsUnique, TypeOK, TxnRow
    <3> QED
      BY <2>1, <3>1 DEF KeyMatchesTransaction, KeyFits, RowsOf
  <2>4. AttemptsOwnRows' /\ SessionsFit' /\ TxnLocksHeld' /\ KeyLocksHeld'
    BY <1>27, <2>1
       DEF Expire, txnVars, attVars, AttemptsOwnRows, Owns, SessionsFit, TxnLocksHeld,
           KeyLocksHeld
  <2>5. RepliesTruthful'
    BY <1>27, <2>1 DEF Expire, attVars, RepliesTruthful, RowsOf
  <2>6. \A a \in Attempts : Entitled(a) => req[a].key \in Keys
    BY NoneIsNoAnswer DEF TypeOK, AttemptsOwnRows, Owns, Entitled, SessionsFit, Outcome
  <2>7. HashesBound'
    BY <1>27, <2>1, <2>6, HashesFrame DEF Expire, attVars, Entitled
  <2> QED
    BY <2>2, <2>3, <2>4, <2>5, <2>7
<1>28. ASSUME UNCHANGED vars
      PROVE  Safe'
  <2>1. RowsUnique' /\ RecordsAgree' /\ KeyMatchesTransaction'
    BY <1>28, RowsFrame DEF vars, keyVars, txnVars
  <2>2. AttemptsOwnRows' /\ SessionsFit' /\ TxnLocksHeld' /\ KeyLocksHeld'
    BY <1>28
       DEF vars, keyVars, txnVars, attVars, AttemptsOwnRows, Owns, SessionsFit,
           TxnLocksHeld, KeyLocksHeld
  <2>3. RepliesTruthful' /\ HashesBound'
    BY <1>28
       DEF vars, keyVars, txnVars, attVars, RepliesTruthful, RowsOf, HashesBound, Entitled
  <2> QED
    BY <2>1, <2>2, <2>3
<1> QED
  BY <1>1, <1>2, <1>3, <1>4, <1>5, <1>6, <1>7, <1>8, <1>9, <1>10, <1>11, <1>12, <1>13,
     <1>14, <1>15, <1>16, <1>17, <1>18, <1>19, <1>20, <1>21, <1>22, <1>23, <1>24, <1>25,
     <1>26, <1>27, <1>28
     DEF Next, AttemptStep, CommitResolves, SweeperStep, Quiescent

-----------------------------------------------------------------------------
\* The inductive invariant holds in every reachable state.
THEOREM Invariant == Spec => []IInv
<1>1. Init => IInv
  <2>1. ASSUME Init PROVE TypeOK
    BY <2>1, NoRowTypes, MaxFaultsNat
       DEF Init, TypeOK, Holder, PcState, SessState, Reply, SwState, Request
  <2>2. ASSUME Init PROVE RowsUnique /\ RecordsAgree /\ KeyMatchesTransaction
    BY <2>2
       DEF Init, NoTxn, NoKey, RowsUnique, HasRow, RecordsAgree, History,
           KeyMatchesTransaction
  <2>3. ASSUME Init PROVE AttemptsOwnRows /\ SessionsFit /\ TxnLocksHeld /\ KeyLocksHeld
    BY <2>3, ProcessesDistinct
       DEF Init, AttemptsOwnRows, Owns, SessionsFit, TxnLocksHeld, KeyLocksHeld
  <2>4. ASSUME Init PROVE RepliesTruthful /\ HashesBound
    BY <2>4, NoneIsNoAnswer DEF Init, RepliesTruthful, HashesBound, Entitled, Outcome
  <2> QED
    BY <2>1, <2>2, <2>3, <2>4 DEF IInv, Safe
<1>2. IInv /\ [Next]_vars => IInv'
  BY TypeStep, SafeStep DEF IInv
<1> QED
  BY <1>1, <1>2, PTL DEF Spec

\* However often a key is used, and whatever fails in between, at most one
\* transaction row carries a journal for it, and it carries one.
THEOREM NoDoubleTransfer == Spec => []OneTransferPerKey
<1>1. IInv => OneTransferPerKey
  <2> SUFFICES ASSUME IInv, NEW t \in Txns, NEW u \in Txns
               PROVE  /\ txn[t].journals <= 1
                      /\ (/\ txn[t].journals = 1 /\ txn[u].journals = 1
                          /\ txn[t].key = txn[u].key) => t = u
    BY DEF OneTransferPerKey
  <2>1. txn[t].journals = IF txn[t].status = "SUCCESS" THEN 1 ELSE 0
    BY DEF IInv, Safe, RecordsAgree
  <2>2. (HasRow(t) /\ txn[t].key = txn[u].key) => t = u
    BY DEF IInv, Safe, RowsUnique
  <2> QED
    BY <2>1, <2>2 DEF HasRow
<1> QED
  BY <1>1, Invariant, PTL

\* The status column, the ledger and the event log tell one story of a payment.
THEOREM RecordsAlwaysAgree == Spec => []RecordsAgree
<1>1. IInv => RecordsAgree
  BY DEF IInv, Safe
<1> QED
  BY <1>1, Invariant, PTL

\* The idempotency key and the transaction reserved with it never contradict
\* each other in a committed state.
THEOREM KeysMatch == Spec => []KeyMatchesTransaction
<1>1. IInv => KeyMatchesTransaction
  BY DEF IInv, Safe
<1> QED
  BY <1>1, Invariant, PTL

\* No client is told an outcome the database does not hold.
THEOREM RepliesStayTruthful == Spec => []RepliesTruthful
<1>1. IInv => RepliesTruthful
  BY DEF IInv, Safe
<1> QED
  BY <1>1, Invariant, PTL

\* All clients that are told the outcome of a key sent the same hash, that is the
\* same payee, amount, type and locking strategy; their fees, taxes, originals and
\* users may differ (AnswersOnePayload is refuted by TLC).
THEOREM OneHashAnswered == Spec => []AnswersOneHash
<1>1. IInv => AnswersOneHash
  BY DEF IInv, Safe, HashesBound, Entitled, AnswersOneHash
<1> QED
  BY <1>1, Invariant, PTL

\* A reclaimed key always still has the row of the attempt that reserved it, so
\* the insert after a reclaim is always refused: the retry of a failed payment
\* under its own key cannot succeed, in any instance.
THEOREM ReclaimNeverInserts ==
  Spec => [](\A a \in Attempts : pc[a] = "reclaimed" => ~UniqueAllows(req[a].key))
<1>1. IInv => \A a \in Attempts : pc[a] = "reclaimed" => ~UniqueAllows(req[a].key)
  BY DEF IInv, Safe, TypeOK, KeyLocksHeld, KeyMatchesTransaction, UniqueAllows
<1> QED
  BY <1>1, Invariant, PTL

\* A settled row is never touched again, but for its growing older.
THEOREM SettledOnce == Spec => FinalStaysFinal
<1> DEFINE Kept == \A t \in Txns : Final(txn[t].status) =>
                      [txn[t] EXCEPT !.stale = TRUE] = [txn'[t] EXCEPT !.stale = TRUE]
<1>1. ASSUME IInv, IInv', [Next]_vars PROVE Kept
  <2> USE <1>1 DEF IInv, Safe
  <2> SUFFICES ASSUME NEW t \in Txns, Final(txn[t].status)
               PROVE  [txn[t] EXCEPT !.stale = TRUE] = [txn'[t] EXCEPT !.stale = TRUE]
    OBVIOUS
  <2>1. CASE UNCHANGED txn
    BY <2>1
  <2>2. ASSUME NEW a \in Attempts, NEW u \in Txns, Reserve(a, u) PROVE txn'[t] = txn[t]
    BY <2>2 DEF Reserve, Final
  <2>3. ASSUME NEW a \in Attempts, InsertAfterReclaim(a) PROVE txn'[t] = txn[t]
    <3>1. ~UniqueAllows(req[a].key)
      BY <2>3
         DEF InsertAfterReclaim, UniqueAllows, TypeOK, KeyLocksHeld, KeyMatchesTransaction
    <3> QED
      BY <2>3, <3>1 DEF InsertAfterReclaim
  <2>4. ASSUME NEW a \in Attempts, Commit(a) PROVE txn'[t] = txn[t]
    <3>1. key[req[a].key].status = "IN_PROGRESS" /\ txn[req[a].txn].key = req[a].key
      BY <2>4 DEF Commit, KeyLocksHeld, AttemptsOwnRows, Owns
    <3>2. req[a].txn # t
      BY <3>1 DEF KeyMatchesTransaction, KeyFits, Final
    <3> QED
      BY <2>4, <3>2 DEF Commit
  <2>5. ASSUME NEW a \in Attempts, FailCommit(a) PROVE txn'[t] = txn[t]
    BY <2>5 DEF FailCommit, TxnLocksHeld, Final
  <2>6. ASSUME NEW s \in Sweepers, NEW u \in Txns, SweepCommit(s, u) PROVE txn'[t] = txn[t]
    BY <2>6 DEF SweepCommit, TxnLocksHeld, Final
  <2>7. CASE \E u \in Txns : BecomeStale(u)
    <3>1. PICK u \in Txns : txn' = [txn EXCEPT ![u].stale = TRUE]
      BY <2>7 DEF BecomeStale
    <3>2. txn'[t] = IF t = u THEN [txn[t] EXCEPT !.stale = TRUE] ELSE txn[t]
      BY <3>1 DEF TypeOK
    <3>3. [[txn[t] EXCEPT !.stale = TRUE] EXCEPT !.stale = TRUE]
            = [txn[t] EXCEPT !.stale = TRUE]
      BY Zenon DEF TypeOK, TxnRow
    <3> QED
      BY <3>2, <3>3
  <2> QED
    BY <2>1, <2>2, <2>3, <2>4, <2>5, <2>6, <2>7
       DEF Next, AttemptStep, CommitResolves, SweeperStep, Quiescent, vars, keyVars, txnVars,
           Submit, ReserveNew, ReserveAckLost, ReserveDuplicate, InspectDuplicate, Reclaim,
           ReserveError, MarkSuccess, CompleteKey, CommitNeverArrives, CommitAck,
           CommitAckLost, ExecuteError, FailMark, FailError, Crash, SweepStart, SweepMark,
           SweepDone, SweepError, Cleanup, Expire
<1>2. IInv /\ IInv' /\ [Next]_vars => [Kept]_vars
  BY <1>1
<1> QED
  BY <1>2, Invariant, PTL DEF Spec, FinalStaysFinal

-----------------------------------------------------------------------------
(* Payments implements IdempotentPayment: the tables, the attempts, the    *)
(* sweepers and the failures, seen one key at a time through StatusOf,     *)
(* TransfersOf and ToldFor, only ever open, pay, reject or tell.           *)

(* The mapping is evaluated where the invariant holds.                     *)

LEMMA StatusIs ==
  ASSUME IInv, NEW k \in Keys
  PROVE  /\ RowsOf(k) = {} => StatusOf(k) = "ABSENT"
         /\ \A t \in RowsOf(k) : RowsOf(k) = {t} /\ HasRow(t) /\ StatusOf(k) = txn[t].status
<1>1. ASSUME NEW t \in RowsOf(k)
      PROVE  RowsOf(k) = {t} /\ HasRow(t)
  BY ProcessesDistinct DEF IInv, Safe, RowsUnique, HasRow, RowsOf
<1>2. ASSUME NEW t \in RowsOf(k)
      PROVE  StatusOf(k) = txn[t].status
  <2>1. Statuses(k) = {txn[t].status}
    BY <1>1, <1>2 DEF Statuses
  <2>2. \A st : st \in Statuses(k) <=> st = txn[t].status
    BY <2>1
  <2>3. (CHOOSE st \in Statuses(k) : TRUE) = txn[t].status
    BY <2>2
  <2> QED
    BY <1>2, <2>3 DEF StatusOf
<1> QED
  BY <1>1, <1>2 DEF StatusOf

\* Money moved for a key exactly if its payment succeeded, and once.
LEMMA TransfersAre ==
  ASSUME IInv, NEW k \in Keys
  PROVE  TransfersOf(k) = IF StatusOf(k) = "SUCCESS" THEN 1 ELSE 0
<1>1. CASE RowsOf(k) = {}
  <2>1. UNION {{t} \X (1..txn[t].journals) : t \in RowsOf(k)} = {}
    BY <1>1
  <2>2. StatusOf(k) = "ABSENT"
    BY <1>1, StatusIs
  <2> QED
    BY <2>1, <2>2, FS_EmptySet DEF TransfersOf
<1>2. ASSUME NEW t \in RowsOf(k)
      PROVE  TransfersOf(k) = IF StatusOf(k) = "SUCCESS" THEN 1 ELSE 0
  <2>1. RowsOf(k) = {t} /\ StatusOf(k) = txn[t].status
    BY <1>2, StatusIs
  <2>2. UNION {{u} \X (1..txn[u].journals) : u \in RowsOf(k)} = {t} \X (1..txn[t].journals)
    BY <2>1
  <2>3. txn[t].journals = IF txn[t].status = "SUCCESS" THEN 1 ELSE 0
    BY <1>2 DEF IInv, Safe, RecordsAgree, RowsOf
  <2>4. CASE txn[t].status = "SUCCESS"
    <3>1. {t} \X (1..txn[t].journals) = {<<t, 1>>}
      BY <2>3, <2>4
    <3> QED
      BY <2>1, <2>2, <2>4, <3>1, FS_Singleton DEF TransfersOf
  <2>5. CASE txn[t].status # "SUCCESS"
    <3>1. {t} \X (1..txn[t].journals) = {}
      BY <2>3, <2>5
    <3> QED
      BY <2>1, <2>2, <2>5, <3>1, FS_EmptySet DEF TransfersOf
  <2> QED
    BY <2>4, <2>5
<1> QED
  BY <1>1, <1>2

\* Whoever was told something was told how the payment was settled.
LEMMA ToldAre ==
  ASSUME IInv, NEW a \in Attempts, reply[a] \in Outcome
  PROVE  req[a].key \in Keys /\ StatusOf(req[a].key) = reply[a]
<1>1. PICK t \in RowsOf(req[a].key) : txn[t].status = reply[a]
  BY DEF IInv, Safe, RepliesTruthful
<1>2. req[a].key \in Keys
  BY <1>1, ProcessesDistinct
     DEF IInv, Safe, TypeOK, RowsOf, RowsUnique, TxnRow, Outcome
<1> QED
  BY <1>1, <1>2, StatusIs

\* What the mapping says of a state in which the tables are sound.
Mapped ==
    /\ \A k \in Keys :
         /\ RowsOf(k) = {} => StatusOf(k) = "ABSENT"
         /\ \A t \in RowsOf(k) : StatusOf(k) = txn[t].status
         /\ TransfersOf(k) = IF StatusOf(k) = "SUCCESS" THEN 1 ELSE 0
    /\ \A a \in Attempts : reply[a] \in Outcome =>
         req[a].key \in Keys /\ StatusOf(req[a].key) = reply[a]

LEMMA MappingHolds == IInv => Mapped /\ RowsUnique
BY StatusIs, TransfersAre, ToldAre DEF Mapped, IInv, Safe

LEMMA MappingHoldsNext == IInv' => Mapped' /\ RowsUnique'
BY MappingHolds, PTL

-----------------------------------------------------------------------------
(* The mapping, from one state to the next.                                *)

\* An attempt has no answer before it is done, so that no answer is replaced.
Unanswered == \A a \in Attempts : pc[a] # "done" => reply[a] = None

LEMMA UnansweredStep == TypeOK /\ Unanswered /\ [Next]_vars => Unanswered'
BY DEF TypeOK, Unanswered, Next, AttemptStep, CommitResolves, SweeperStep, Quiescent, vars,
       keyVars, txnVars, attVars, Submit, ReserveNew, ReserveAckLost, ReserveDuplicate,
       InspectDuplicate, Reclaim, InsertAfterReclaim, ReserveError, MarkSuccess, CompleteKey,
       Commit, CommitNeverArrives, CommitAck, CommitAckLost, ExecuteError, FailMark,
       FailCommit, FailError, Crash, InFlight, SweepStart, SweepMark, SweepCommit, SweepDone,
       SweepError, Cleanup, BecomeStale, Expire, Finish

\* A key whose rows keep their status keeps what the promise says of it.
LEMMA StatusFrame ==
  ASSUME Mapped, Mapped', NEW k \in Keys,
         \A t \in Txns : t \in RowsOf(k) \/ t \in RowsOf(k)' =>
             txn'[t].key = txn[t].key /\ txn'[t].status = txn[t].status
  PROVE  StatusOf(k)' = StatusOf(k) /\ TransfersOf(k)' = TransfersOf(k)
<1>1. RowsOf(k)' = RowsOf(k)
  BY DEF RowsOf
<1>2. CASE RowsOf(k) = {}
  BY <1>1, <1>2 DEF Mapped
<1>3. ASSUME NEW t \in RowsOf(k)
      PROVE  StatusOf(k)' = StatusOf(k)
  BY <1>1, <1>3 DEF Mapped, RowsOf
<1>4. StatusOf(k)' = StatusOf(k)
  BY <1>2, <1>3
<1> QED
  BY <1>4 DEF Mapped

\* One row of key k changes its status, or appears, and no other row does.
LEMMA StatusChange ==
  ASSUME Mapped, Mapped', RowsUnique, RowsUnique', NEW k \in Keys, NEW t \in Txns,
         txn'[t].key = k, IF HasRow(t) THEN txn[t].key = k ELSE RowsOf(k) = {},
         \A u \in Txns : u # t => txn'[u] = txn[u]
  PROVE  /\ StatusOf(k) = txn[t].status
         /\ StatusOf(k)' = txn'[t].status
         /\ \A l \in Keys : l # k => StatusOf(l)' = StatusOf(l)
                                   /\ TransfersOf(l)' = TransfersOf(l)
<1>1. StatusOf(k)' = txn'[t].status
  BY DEF Mapped, RowsOf
<1>2. StatusOf(k) = txn[t].status
  <2>1. CASE HasRow(t)
    BY <2>1 DEF Mapped, RowsOf
  <2>2. CASE ~HasRow(t)
    BY <2>2 DEF Mapped, HasRow
  <2> QED
    BY <2>1, <2>2
<1>3. ASSUME NEW l \in Keys, l # k
      PROVE  StatusOf(l)' = StatusOf(l) /\ TransfersOf(l)' = TransfersOf(l)
  <2>1. t \notin RowsOf(l) /\ t \notin RowsOf(l)'
    BY <1>3, ProcessesDistinct DEF RowsOf, RowsUnique, HasRow
  <2> QED
    BY <1>3, <2>1, StatusFrame DEF RowsOf
<1> QED
  BY <1>1, <1>2, <1>3

\* Nobody is told anything new for key k.
LEMMA ToldFrame ==
  ASSUME NEW k \in Keys,
         \A a \in Attempts : reply[a] \in Outcome \/ reply'[a] \in Outcome =>
             /\ req'[a].key = req[a].key
             /\ req[a].key = k => reply'[a] = reply[a]
  PROVE  ToldFor(k)' = ToldFor(k)
BY DEF ToldFor

\* Nobody is told anything new at all: what most steps do to the answers.
SameAnswers ==
    \A a \in Attempts : reply[a] \in Outcome \/ reply'[a] \in Outcome =>
        req'[a].key = req[a].key /\ reply'[a] = reply[a]

\* No row changes its key or its status: what most steps do to the tables.
SameStatuses ==
    \A t \in Txns : txn'[t].key = txn[t].key /\ txn'[t].status = txn[t].status

\* A step that changes no status and answers nobody is a step the promise does
\* not see.
LEMMA Unseen ==
  ASSUME Mapped, Mapped', SameStatuses, SameAnswers
  PROVE  UNCHANGED Promise!vars
<1>1. \A k \in Keys : StatusOf(k)' = StatusOf(k) /\ TransfersOf(k)' = TransfersOf(k)
  BY StatusFrame DEF SameStatuses
<1>2. \A k \in Keys : ToldFor(k)' = ToldFor(k)
  BY ToldFrame DEF SameAnswers
<1> QED
  BY <1>1, <1>2 DEF Promise!vars

\* Inserting the row of a key opens its payment; updating a PENDING row pays or
\* rejects it.
LEMMA Progress ==
  ASSUME Mapped, Mapped', RowsUnique, RowsUnique', SameAnswers,
         NEW k \in Keys, NEW t \in Txns,
         txn'[t].key = k, IF HasRow(t) THEN txn[t].key = k ELSE RowsOf(k) = {},
         \A u \in Txns : u # t => txn'[u] = txn[u],
         \/ txn[t].status = "ABSENT" /\ txn'[t].status = "PENDING"
         \/ txn[t].status = "PENDING" /\ txn'[t].status \in Outcome
  PROVE  Promise!Open(k) \/ Promise!Pay(k) \/ Promise!Reject(k)
<1>1. /\ StatusOf(k) = txn[t].status
      /\ StatusOf(k)' = txn'[t].status
      /\ \A l \in Keys : l # k => StatusOf(l)' = StatusOf(l)
                                /\ TransfersOf(l)' = TransfersOf(l)
  BY StatusChange
<1>2. \A l \in Keys : ToldFor(l)' = ToldFor(l)
  BY ToldFrame DEF SameAnswers
<1>3. /\ TransfersOf(k) = IF StatusOf(k) = "SUCCESS" THEN 1 ELSE 0
      /\ TransfersOf(k)' = IF StatusOf(k)' = "SUCCESS" THEN 1 ELSE 0
  BY DEF Mapped
<1>4. CASE txn[t].status = "ABSENT" /\ txn'[t].status = "PENDING"
  BY <1>1, <1>2, <1>3, <1>4 DEF Promise!Open
<1>5. CASE txn[t].status = "PENDING" /\ txn'[t].status = "SUCCESS"
  <2>1. TransfersOf(k) = 0 /\ TransfersOf(k)' = 1
    BY <1>1, <1>3, <1>5
  <2>2. [l \in Keys |-> StatusOf(l)]' = [[l \in Keys |-> StatusOf(l)] EXCEPT ![k] = "SUCCESS"]
    BY <1>1, <1>5
  <2>3. [l \in Keys |-> TransfersOf(l)]'
          = [[l \in Keys |-> TransfersOf(l)] EXCEPT ![k] = 1]
    BY <1>1, <2>1
  <2>4. [l \in Keys |-> TransfersOf(l)][k] + 1 = 1
    BY <2>1
  <2> QED
    BY <1>1, <1>2, <1>5, <2>2, <2>3, <2>4 DEF Promise!Pay
<1>6. CASE txn[t].status = "PENDING" /\ txn'[t].status = "FAILED"
  BY <1>1, <1>2, <1>3, <1>6 DEF Promise!Reject
<1> QED
  BY <1>4, <1>5, <1>6 DEF Outcome

\* Giving attempt a an outcome tells how the payment of its key was settled.
LEMMA Answer ==
  ASSUME Mapped, Mapped', SameStatuses, NEW a \in Attempts, NEW k \in Keys,
         req[a].key = k, req' = req, reply[a] \notin Outcome, reply'[a] \in Outcome,
         \A b \in Attempts : b # a => reply'[b] = reply[b]
  PROVE  Promise!Tell(k)
<1>1. \A l \in Keys : StatusOf(l)' = StatusOf(l) /\ TransfersOf(l)' = TransfersOf(l)
  BY StatusFrame DEF SameStatuses
<1>2. StatusOf(k)' = reply'[a]
  BY DEF Mapped
<1>3. ToldFor(k)' = ToldFor(k) \cup {reply'[a]}
  BY DEF ToldFor
<1>4. \A l \in Keys : l # k => ToldFor(l)' = ToldFor(l)
  BY ToldFrame
<1> QED
  BY <1>1, <1>2, <1>3, <1>4 DEF Promise!Tell, Promise!Outcome, Outcome

-----------------------------------------------------------------------------
\* Every step of the pipeline is a step of the promise, or one it does not see.
LEMMA StepKeepsPromise ==
  ASSUME IInv, IInv', Unanswered, [Next]_vars
  PROVE  Promise!Next \/ UNCHANGED Promise!vars
<1> USE DEF IInv, Safe
<1>0. Mapped /\ Mapped' /\ RowsUnique /\ RowsUnique'
  BY MappingHolds, MappingHoldsNext
<1>1. \A a \in Attempts : pc[a] # "done" => reply[a] \notin Outcome
  BY NoneIsNoAnswer DEF Unanswered, Outcome
<1>2. ASSUME SameStatuses, SameAnswers PROVE UNCHANGED Promise!vars
  BY <1>0, <1>2, Unseen
<1>3. ASSUME NEW a \in Attempts, NEW t \in Txns, pc[a] = "reserving", Reserve(a, t), SameAnswers
      PROVE  Promise!Next
  <2>1. /\ req[a].key \in Keys /\ RowsOf(req[a].key) = {} /\ txn[t].status = "ABSENT"
        /\ txn'[t].status = "PENDING" /\ txn'[t].key = req[a].key
        /\ \A u \in Txns : u # t => txn'[u] = txn[u]
    BY <1>3, Opens
  <2>2. \E k \in Keys : Promise!Open(k) \/ Promise!Pay(k) \/ Promise!Reject(k)
    BY <1>0, <1>3, <2>1, Progress DEF HasRow
  <2> QED
    BY <2>2 DEF Promise!Next
<1>4. ASSUME NEW a \in Attempts, NEW t \in Txns, ReserveNew(a, t)
      PROVE  Promise!Next
  <2>1. SameAnswers
    BY <1>4 DEF ReserveNew, TypeOK, SameAnswers
  <2> QED
    BY <1>3, <1>4, <2>1 DEF ReserveNew
<1>5. ASSUME NEW a \in Attempts, NEW t \in Txns, ReserveAckLost(a, t)
      PROVE  Promise!Next
  <2>1. SameAnswers
    BY <1>1, <1>5 DEF ReserveAckLost, Finish, TypeOK, SameAnswers, Outcome
  <2> QED
    BY <1>3, <1>5, <2>1 DEF ReserveAckLost
<1>6. ASSUME NEW a \in Attempts, Commit(a)
      PROVE  Promise!Next
  <2> DEFINE t == req[a].txn
  <2>1. /\ t \in Txns /\ req[a].key \in Keys /\ txn[t].key = req[a].key
        /\ key[req[a].key].status = "IN_PROGRESS"
    BY <1>6 DEF Commit, TypeOK, AttemptsOwnRows, Owns, KeyLocksHeld
  <2>2. txn[t].status = "PENDING"
    <3>1. txn[t].status \in TxnStatus \ {"ABSENT"}
      BY <2>1, ProcessesDistinct DEF RowsUnique, TypeOK, TxnRow
    <3> QED
      BY <2>1, <3>1 DEF KeyMatchesTransaction, KeyFits, TxnStatus
  <2>3. txn'[t] = PaidRow(t) /\ \A u \in Txns : u # t => txn'[u] = txn[u]
    BY <1>6, <2>1 DEF Commit, TypeOK
  <2>4. txn'[t].status = "SUCCESS" /\ txn'[t].key = req[a].key
    BY <2>1, <2>3, PaidRowFields
  <2>5. SameAnswers
    BY <1>6 DEF Commit, SameAnswers
  <2>6. \E k \in Keys : Promise!Open(k) \/ Promise!Pay(k) \/ Promise!Reject(k)
    BY <1>0, <2>1, <2>2, <2>3, <2>4, <2>5, Progress DEF HasRow, Outcome
  <2> QED
    BY <2>6 DEF Promise!Next
<1>7. ASSUME NEW t \in Txns, txn[t].status = "PENDING",
             txn' = [txn EXCEPT ![t] = FailedRow(t)], SameAnswers
      PROVE  Promise!Next
  <2>1. txn[t].key \in Keys
    BY <1>7 DEF RowsUnique, TypeOK, TxnRow
  <2>2. txn'[t] = FailedRow(t) /\ \A u \in Txns : u # t => txn'[u] = txn[u]
    BY <1>7 DEF TypeOK
  <2>3. txn'[t].status = "FAILED" /\ txn'[t].key = txn[t].key
    BY <2>2, FailedRowFields
  <2>4. \E k \in Keys : Promise!Open(k) \/ Promise!Pay(k) \/ Promise!Reject(k)
    BY <1>0, <1>7, <2>1, <2>2, <2>3, Progress DEF HasRow, Outcome
  <2> QED
    BY <2>4 DEF Promise!Next
<1>8. ASSUME NEW a \in Attempts, FailCommit(a)
      PROVE  Promise!Next
  <2>1. req[a].txn \in Txns /\ txn[req[a].txn].status = "PENDING"
    BY <1>8 DEF FailCommit, AttemptsOwnRows, Owns, TxnLocksHeld
  <2>2. SameAnswers
    BY <1>1, <1>8 DEF FailCommit, Finish, TypeOK, SameAnswers, Outcome
  <2> QED
    BY <1>7, <1>8, <2>1, <2>2 DEF FailCommit
<1>9. ASSUME NEW s \in Sweepers, NEW t \in Txns, SweepCommit(s, t)
      PROVE  Promise!Next
  <2>1. txn[t].status = "PENDING" /\ SameAnswers
    BY <1>9 DEF SweepCommit, attVars, TxnLocksHeld, SameAnswers
  <2> QED
    BY <1>7, <1>9, <2>1 DEF SweepCommit
<1>10. ASSUME NEW a \in Attempts, NEW r \in Outcome, pc[a] # "idle", pc[a] # "done",
              Finish(a, r), req' = req, txn' = txn
       PROVE  Promise!Next
  <2>1. SameStatuses /\ req[a].key \in Keys
    BY <1>10 DEF SameStatuses, TypeOK
  <2>2. reply[a] \notin Outcome /\ reply'[a] \in Outcome
    BY <1>1, <1>10 DEF Finish, TypeOK
  <2>3. \A b \in Attempts : b # a => reply'[b] = reply[b]
    BY <1>10 DEF Finish, TypeOK
  <2>4. Promise!Tell(req[a].key)
    BY <1>0, <1>10, <2>1, <2>2, <2>3, Answer
  <2> QED
    BY <2>1, <2>4 DEF Promise!Next
<1>11. ASSUME NEW a \in Attempts, CommitAck(a)
       PROVE  Promise!Next
  BY <1>10, <1>11 DEF CommitAck, txnVars, Outcome
<1>12. ASSUME NEW a \in Attempts, InspectDuplicate(a)
       PROVE  Promise!Next \/ UNCHANGED Promise!vars
  <2>1. SameStatuses
    BY <1>12 DEF InspectDuplicate, txnVars, SameStatuses
  <2>2. CASE \E r \in Outcome : Finish(a, r)
    BY <1>10, <1>12, <2>2 DEF InspectDuplicate, txnVars
  <2>3. CASE ~\E r \in Outcome : Finish(a, r)
    <3>1. SameAnswers
      BY <1>1, <1>12, <2>3 DEF InspectDuplicate, Finish, TypeOK, SameAnswers, Outcome
    <3> QED
      BY <1>2, <2>1, <3>1
  <2> QED
    BY <2>2, <2>3
<1>13. ASSUME NEW a \in Attempts, NEW k \in Keys, NEW p \in Payload, Submit(a, k, p)
       PROVE  UNCHANGED Promise!vars
  BY <1>1, <1>2, <1>13 DEF Submit, txnVars, TypeOK, SameStatuses, SameAnswers
<1>14. ASSUME NEW a \in Attempts, InsertAfterReclaim(a)
       PROVE  UNCHANGED Promise!vars
  <2>1. ~UniqueAllows(req[a].key)
    BY <1>14
       DEF InsertAfterReclaim, UniqueAllows, TypeOK, KeyLocksHeld, KeyMatchesTransaction
  <2>2. SameStatuses /\ SameAnswers
    BY <1>1, <1>14, <2>1
       DEF InsertAfterReclaim, Finish, TypeOK, SameStatuses, SameAnswers, Outcome
  <2> QED
    BY <1>2, <2>2
<1>15. ASSUME NEW t \in Txns, BecomeStale(t)
       PROVE  UNCHANGED Promise!vars
  <2>1. SameStatuses
    BY <1>15 DEF BecomeStale, TypeOK, TxnRow, SameStatuses
  <2>2. SameAnswers
    BY <1>15 DEF BecomeStale, attVars, SameAnswers
  <2> QED
    BY <1>2, <2>1, <2>2
\* The attempt's own steps that end in an error or go on without an answer.
<1>16. ASSUME NEW a \in Attempts,
              \/ ReserveDuplicate(a) \/ Reclaim(a) \/ ReserveError(a) \/ MarkSuccess(a)
              \/ CompleteKey(a) \/ CommitNeverArrives(a) \/ CommitAckLost(a)
              \/ ExecuteError(a) \/ FailMark(a) \/ FailError(a)
       PROVE  UNCHANGED Promise!vars
  <2>1. SameStatuses
    BY <1>16
       DEF SameStatuses, txnVars, ReserveDuplicate, Reclaim, ReserveError, MarkSuccess,
           CompleteKey, CommitNeverArrives, CommitAckLost, ExecuteError, FailMark, FailError
  <2>2. SameAnswers
    BY <1>1, <1>16
       DEF TypeOK, SameAnswers, Outcome, Finish, ReserveDuplicate, Reclaim, ReserveError,
           MarkSuccess, CompleteKey, CommitNeverArrives, CommitAckLost, ExecuteError,
           FailMark, FailError
  <2> QED
    BY <1>2, <2>1, <2>2
\* What nobody's client notices.
<1>17. ASSUME \/ Crash \/ Cleanup \/ UNCHANGED vars
              \/ \E k \in Keys : Expire(k)
              \/ \E s \in Sweepers : \/ SweepStart(s) \/ SweepDone(s) \/ SweepError(s)
                                   \/ \E t \in Txns : SweepMark(s, t)
       PROVE  UNCHANGED Promise!vars
  <2>1. txn' = txn /\ req' = req /\ reply' = reply
    BY <1>17
       DEF Crash, Cleanup, vars, Expire, SweepStart, SweepDone, SweepError, SweepMark,
           txnVars, attVars
  <2> QED
    BY <1>2, <2>1 DEF SameStatuses, SameAnswers
<1> QED
  BY <1>4, <1>5, <1>6, <1>8, <1>9, <1>11, <1>12, <1>13, <1>14, <1>15, <1>16, <1>17
     DEF Next, AttemptStep, CommitResolves, SweeperStep, Quiescent

\* The payment pipeline implements the promise of POST /payments: each key's
\* payment is opened once and settled once, money moves exactly when it
\* succeeds, and nobody is told an outcome other than the settled one.
THEOREM ImplementsPromise == Spec => KeepsPromise
<1>1. Init => Promise!Init
  <2> SUFFICES ASSUME Init PROVE Promise!Init
    OBVIOUS
  <2>1. \A k \in Keys : RowsOf(k) = {}
    BY ProcessesDistinct DEF Init, NoTxn, RowsOf
  <2>2. \A k \in Keys : StatusOf(k) = "ABSENT"
    BY <2>1 DEF StatusOf
  <2>3. \A k \in Keys : TransfersOf(k) = 0
    <3>1. \A k \in Keys : UNION {{t} \X (1..txn[t].journals) : t \in RowsOf(k)} = {}
      BY <2>1
    <3> QED
      BY <3>1, FS_EmptySet DEF TransfersOf
  <2>4. \A k \in Keys : ToldFor(k) = {}
    BY NoneIsNoAnswer DEF Init, ToldFor, Outcome
  <2> QED
    BY <2>2, <2>3, <2>4 DEF Promise!Init
<1>2. Init => Unanswered
  BY DEF Init, Unanswered
<1>3. IInv /\ Unanswered /\ [Next]_vars => Unanswered'
  BY UnansweredStep DEF IInv
<1>4. IInv /\ IInv' /\ Unanswered /\ [Next]_vars => [Promise!Next]_(Promise!vars)
  BY StepKeepsPromise
<1> QED
  BY <1>1, <1>2, <1>3, <1>4, Invariant, PTL DEF Spec, KeepsPromise, Promise!Spec
=============================================================================
