------------------------ MODULE ReconciliationProofs ------------------------
(***************************************************************************)
(* Proofs about Reconciliation, for any accounts, transactions, jobs, slots *)
(* of the worker, rows of runs, and bounds.                                *)
(***************************************************************************)
EXTENDS Reconciliation, TLAPS

Active(w) == wk[w].pc \notin {"idle", "started"}

\* What a transaction and its entries look like on the way to their COMMIT.
RowShape(x) ==
    /\ txn[x].status = "PENDING" => txn[x].updatedAt = 0 /\ txn[x].drafted = <<>>
    /\ txn[x].status = "POSTING" =>
         /\ txn[x].journal \in Accounts \X Accounts
         /\ Len(txn[x].drafted) <= 2
         /\ txn[x].updatedAt # 0 => Len(txn[x].drafted) = 2
    /\ txn[x].status \notin {"PENDING", "POSTING"} => txn[x].updatedAt # 0
    /\ \A i \in DOMAIN txn[x].drafted : txn[x].drafted[i] # 0

Shape ==
    /\ \A x \in Txns : RowShape(x)
    /\ \A e \in entry : e.at # 0

\* A row that has no window yet is not taken for a checkpoint.
Rows ==
    \A r \in Runs :
        /\ run[r].status \in {"ABSENT", "RUNNING"} => run[r].upto = 0
        /\ run[r].status = "SUCCESS" => run[r].upto # 0
        /\ run[r].upto <= now /\ run[r].completedAt <= now

\* A run belongs to one slot, and its window begins at the completion of an
\* earlier one.
Slot(w) ==
    /\ wk[w].pc # "idle" => wk[w].job \in Jobs
    /\ Active(w) =>
         /\ wk[w].run \in Runs
         /\ run[wk[w].run].job = wk[w].job
         /\ run[wk[w].run].status # "ABSENT"
         /\ wk[w].pc # "failing" => run[wk[w].run].status = "RUNNING"
         /\ wk[w].upto # 0 /\ wk[w].upto <= now
    /\ wk[w].completedAt <= now
    /\ \/ wk[w].from = 0
       \/ \E q \in Recorded(wk[w].job) : wk[w].from <= run[q].completedAt

Tasks ==
    /\ \A w \in Workers : Slot(w)
    /\ \A w, v \in Workers : Active(w) /\ Active(v) /\ w # v => wk[w].run # wk[v].run

\* S has the keys of what was committed before the end of the window.
Holding(j, from, upto, S) ==
    \A i \in Items(j) : InWindow(i.at, from, upto) /\ i.committedAt < upto => i.key \in S

HasScope(w) ==
    \/ wk[w].pc \in {"closing", "writing"} /\ wk[w].job \in Windowed
    \/ wk[w].pc = "checking" /\ wk[w].job = "LEDGER_CONSISTENCY"

Scanned ==
    /\ \A w \in Workers :
         HasScope(w) => Holding(wk[w].job, wk[w].from, wk[w].upto, wk[w].scope)
    /\ \A j \in Windowed : \A r \in Recorded(j) :
         Holding(j, run[r].from, run[r].upto, run[r].scanned)

\* Every time before the end of a window is in a window or in a gap.
Accounted(j, t) ==
    InGap(j, t) \/ \E r \in Recorded(j) : InWindow(t, run[r].from, run[r].upto)

Covered ==
    \A j \in Windowed : \A q \in Recorded(j) : \A t \in Nat :
        t # 0 /\ t <= run[q].upto => Accounted(j, t)

IInv == TypeOK /\ Shape /\ Rows /\ Tasks /\ Scanned /\ Covered

-----------------------------------------------------------------------------
(* Types.                                                                  *)

LEMMA Pair ==
  ASSUME NEW s \in Seq(Nat), Len(s) = 2
  PROVE  1 \in DOMAIN s /\ 2 \in DOMAIN s /\ s[1] \in Nat /\ s[2] \in Nat
OBVIOUS

LEMMA LessIsNot ==
  ASSUME NEW n \in Nat, n < 2
  PROVE  n # 2
OBVIOUS

USE BoundsOK, JobsOK

LEMMA AddedType ==
  ASSUME NEW S, NEW m \in Int, NEW n \in Int
  PROVE  /\ Added(S, m, n) \in Int
         /\ m >= 0 /\ n >= 0 => Added(S, m, n) \in Nat
BY DEF Added

LEMMA ExceptType ==
  ASSUME NEW S, NEW T, NEW f \in [S -> T], NEW x, NEW v, x \in S => v \in T
  PROVE  [f EXCEPT ![x] = v] \in [S -> T]
OBVIOUS

LEMMA TxnType ==
  ASSUME TypeOK, NEW x \in Txns
  PROVE  /\ txn[x] \in TxnRow
         /\ txn[x].journal \in Seq(Accounts)
         /\ txn[x].drafted \in Seq(Nat)
         /\ txn[x].updatedAt \in Nat
         /\ txn[x].settledAt \in Nat
BY DEF TypeOK, TxnRow

LEMMA TaskType ==
  ASSUME TypeOK, NEW w \in Workers
  PROVE  /\ wk[w] \in Task
         /\ wk[w].job \in Jobs \cup {None}
         /\ wk[w].run \in Runs \cup {None}
         /\ wk[w].from \in Nat
         /\ wk[w].upto \in Nat
         /\ wk[w].scope \in SUBSET (Accounts \cup Txns)
         /\ wk[w].found \in SUBSET (Accounts \cup Txns)
         /\ wk[w].completedAt \in Nat
BY DEF TypeOK, Task

LEMMA RunType ==
  ASSUME TypeOK, NEW r \in Runs
  PROVE  /\ run[r] \in RunRow
         /\ run[r].job \in Jobs \cup {None}
         /\ run[r].from \in Nat
         /\ run[r].upto \in Nat
         /\ run[r].completedAt \in Nat
BY DEF TypeOK, RunRow

LEMMA ConstantRows == NoRun \in RunRow /\ Idle \in Task
BY DEF NoRun, RunRow, Idle, Task

LEMMA NowType == TypeOK => now \in Nat /\ now # 0
BY DEF TypeOK

LEMMA PostedEntryType ==
  ASSUME TypeOK, Shape, NEW x \in Txns, txn[x].status = "POSTING",
         txn[x].updatedAt # 0, NEW i \in 1..2
  PROVE  /\ PostedEntry(x, i) \in EntryRow
         /\ PostedEntry(x, i).at # 0
         /\ PostedEntry(x, i).committedAt = now
<1>1. txn[x].journal[i] \in Accounts
  BY DEF Shape, RowShape
<1>2. Len(txn[x].drafted) = 2
  BY DEF Shape, RowShape
<1>3. i \in DOMAIN txn[x].drafted
  BY <1>2, TxnType
<1>4. txn[x].drafted[i] \in Nat /\ txn[x].drafted[i] # 0
  BY <1>3, TxnType DEF Shape, RowShape
<1>5. acct[txn[x].journal[i]] \in BalanceRow
  BY <1>1 DEF TypeOK
<1>6. acct[txn[x].journal[i]].last + Added(Own(x, txn[x].journal[i], i), 1, 1) \in Nat
  <2>1. Added(Own(x, txn[x].journal[i], i), 1, 1) \in Nat
    BY AddedType
  <2> QED
    BY <1>5, <2>1 DEF BalanceRow
<1>7. acct[txn[x].journal[i]].cachedBalance + Added(Own(x, txn[x].journal[i], i), -1, 1) \in Int
  <2>1. Added(Own(x, txn[x].journal[i], i), -1, 1) \in Int
    BY AddedType
  <2> QED
    BY <1>5, <2>1 DEF BalanceRow
<1> QED
  BY <1>1, <1>4, <1>6, <1>7, NowType DEF PostedEntry, EntryRow

LEMMA CompletedRowType ==
  ASSUME TypeOK, NEW w \in Workers
  PROVE  CompletedRow(w) \in RunRow
BY TaskType DEF CompletedRow, RunRow

LEMMA ChangedType ==
  ASSUME TypeOK, NEW j, NEW m, NEW n
  PROVE  Changed(j, m, n) \in SUBSET (Accounts \cup Txns)
BY DEF Changed, Items, Settled, TypeOK, EntryRow

LEMMA ExaminesType ==
  ASSUME TypeOK, NEW w \in Workers
  PROVE  Examines(w) \in SUBSET (Accounts \cup Txns)
BY TaskType, ChangedType DEF Examines

LEMMA FoundType ==
  ASSUME NEW j, NEW S \in SUBSET (Accounts \cup Txns), NEW F \in Found(j, S)
  PROVE  F \in SUBSET (Accounts \cup Txns)
BY DEF Found, Reports

LEMMA CheckpointType ==
  ASSUME TypeOK, NEW j, NEW t \in Checkpoint(j)
  PROVE  t \in Nat
BY RunType DEF Checkpoint, Successful

LEMMA TypeInit == Init => TypeOK
BY ConstantRows DEF Init, TypeOK, TxnRow, BalanceRow

LEMMA TypeStep == TypeOK /\ Shape /\ Tasks /\ [Next]_vars => TypeOK'
<1> SUFFICES ASSUME TypeOK, Shape, Tasks, [Next]_vars PROVE TypeOK'
  OBVIOUS
<1>1. CASE Tick
  BY <1>1 DEF Tick, TypeOK
<1>2. ASSUME NEW x \in Txns, Post(x) PROVE TypeOK'
  <2>1. ASSUME NEW payer \in Accounts, NEW payee \in Accounts, Begin(x, payer, payee)
        PROVE  TypeOK'
    <3>1. <<payer, payee>> \in Seq(Accounts)
      OBVIOUS
    <3>2. [txn[x] EXCEPT !.status = "POSTING", !.journal = <<payer, payee>>] \in TxnRow
      BY <3>1, TxnType DEF TxnRow
    <3> QED
      BY <2>1, <3>2, ExceptType DEF Begin, TypeOK
  <2>2. CASE WriteEntry(x)
    <3>1. Append(txn[x].drafted, now) \in Seq(Nat)
      BY TxnType, NowType
    <3>2. txn' \in [Txns -> TxnRow]
      BY <2>2, <3>1, TxnType DEF WriteEntry, TypeOK, TxnRow
    <3> QED
      BY <2>2, <3>2 DEF WriteEntry, TypeOK
  <2>3. CASE Mark(x)
    <3>1. txn' \in [Txns -> TxnRow]
      BY <2>3, TxnType, NowType DEF Mark, TypeOK, TxnRow
    <3> QED
      BY <2>3, <3>1 DEF Mark, TypeOK
  <2>4. CASE Commit(x)
    <3>5. [txn[x] EXCEPT !.status = "SUCCESS", !.settledAt = now] \in TxnRow
      BY TxnType, NowType DEF TxnRow
    <3>1. txn' \in [Txns -> TxnRow]
      BY <2>4, <3>5, ExceptType DEF Commit, TypeOK
    <3>2. entry' \subseteq EntryRow
      BY <2>4, PostedEntryType DEF Commit, TypeOK
    <3>3. ASSUME NEW a \in Accounts PROVE acct'[a] \in BalanceRow
      <4>1. /\ Added(Own(x, a, 2), -1, 1) \in Int
            /\ Added(Own(x, a, 2), 1, 1) \in Nat
        BY AddedType
      <4>2. acct[a] \in BalanceRow
        BY DEF TypeOK
      <4> QED
        BY <2>4, <4>1, <4>2 DEF Commit, BalanceRow
    <3>4. acct' \in [Accounts -> BalanceRow]
      BY <2>4, <3>3 DEF Commit
    <3> QED
      BY <2>4, <3>1, <3>2, <3>4 DEF Commit, TypeOK
  <2>5. CASE Fail(x)
    <3>1. <<>> \in Seq(Accounts) /\ <<>> \in Seq(Nat)
      OBVIOUS
    <3>2. [txn[x] EXCEPT !.status = "FAILING", !.drafted = <<>>,
                         !.journal = <<>>, !.updatedAt = now] \in TxnRow
      BY <3>1, TxnType, NowType DEF TxnRow
    <3> QED
      BY <2>5, <3>2, ExceptType DEF Fail, TypeOK
  <2>6. CASE FailCommit(x)
    <3>1. [txn[x] EXCEPT !.status = "FAILED", !.settledAt = now] \in TxnRow
      BY TxnType, NowType DEF TxnRow
    <3> QED
      BY <2>6, <3>1, ExceptType DEF FailCommit, TypeOK
  <2> QED
    BY <1>2, <2>1, <2>2, <2>3, <2>4, <2>5, <2>6 DEF Post
<1>3. ASSUME NEW w \in Workers, Work(w) PROVE TypeOK'
  <2>1. ASSUME NEW j \in Jobs, StartJob(w, j) PROVE TypeOK'
    <3>1. PICK t \in Checkpoint(j) :
            wk' = [wk EXCEPT ![w] = [Idle EXCEPT !.pc = "started", !.job = j, !.from = t]]
      BY <2>1 DEF StartJob
    <3>2. [Idle EXCEPT !.pc = "started", !.job = j, !.from = t] \in Task
      BY CheckpointType DEF Task, Idle
    <3> QED
      BY <2>1, <3>1, <3>2, ExceptType DEF StartJob, TypeOK
  <2>2. ASSUME NEW r \in Runs, FreezeWindow(w, r) PROVE TypeOK'
    <3>1. [wk[w] EXCEPT !.pc = "scoping", !.run = r, !.upto = now] \in Task
      BY TaskType, NowType DEF Task
    <3>2. [NoRun EXCEPT !.job = wk[w].job, !.status = "RUNNING"] \in RunRow
      BY TaskType DEF RunRow, NoRun
    <3> QED
      BY <2>2, <3>1, <3>2, ExceptType DEF FreezeWindow, TypeOK
  <2>3. CASE Scope(w)
    <3> DEFINE S == IF wk[w].job = "LEDGER_CONSISTENCY"
                    THEN Changed(wk[w].job, wk[w].from, wk[w].upto) ELSE {}
    <3>1. S \in SUBSET (Accounts \cup Txns)
      BY ChangedType
    <3>2. [wk[w] EXCEPT !.pc = "checking", !.scope = S] \in Task
      BY <3>1, TaskType DEF Task
    <3> QED
      BY <2>3, <3>2, ExceptType DEF Scope, TypeOK
  <2>4. CASE Check(w)
    <3>1. PICK F \in Found(wk[w].job, Examines(w)) :
            wk' = [wk EXCEPT ![w] = [@ EXCEPT !.pc = "closing", !.scope = Examines(w),
                                              !.found = F]]
      BY <2>4 DEF Check
    <3>2. [wk[w] EXCEPT !.pc = "closing", !.scope = Examines(w), !.found = F] \in Task
      <4>1. F \in SUBSET (Accounts \cup Txns)
        BY ExaminesType, FoundType
      <4> QED
        BY <4>1, ExaminesType, TaskType DEF Task
    <3> QED
      BY <2>4, <3>1, <3>2, ExceptType DEF Check, TypeOK
  <2>5. CASE ReadCompletedAt(w)
    <3>1. [wk[w] EXCEPT !.pc = "writing", !.completedAt = now] \in Task
      BY TaskType, NowType DEF Task
    <3> QED
      BY <2>5, <3>1, ExceptType DEF ReadCompletedAt, TypeOK
  <2>6. CASE CompleteRun(w) \/ CompleteAckLost(w)
    <3>1. wk' \in [Workers -> Task]
      BY <2>6, TaskType, ConstantRows DEF CompleteRun, CompleteAckLost, TypeOK, Task
    <3>2. run' \in [Runs -> RunRow]
      BY <2>6, CompletedRowType DEF CompleteRun, CompleteAckLost, TypeOK
    <3> QED
      BY <2>6, <3>1, <3>2 DEF CompleteRun, CompleteAckLost, Fault, TypeOK
  <2>7. CASE JobError(w) \/ Crash(w)
    <3>1. wk' \in [Workers -> Task]
      BY <2>7, TaskType, ConstantRows DEF JobError, Crash, TypeOK, Task
    <3> QED
      BY <2>7, <3>1 DEF JobError, Crash, Fault, TypeOK
  <2>8. CASE FailRun(w)
    <3>1. wk[w].run \in Runs =>
            [run[wk[w].run] EXCEPT !.status = "FAILED", !.completedAt = now] \in RunRow
      <4> SUFFICES ASSUME wk[w].run \in Runs
                   PROVE  [run[wk[w].run] EXCEPT !.status = "FAILED", !.completedAt = now]
                            \in RunRow
        OBVIOUS
      <4>1. run[wk[w].run] \in RunRow
        BY RunType
      <4> QED
        BY <4>1, NowType DEF RunRow
    <3> QED
      BY <2>8, <3>1, ConstantRows, ExceptType DEF FailRun, TypeOK
  <2> QED
    BY <1>3, <2>1, <2>2, <2>3, <2>4, <2>5, <2>6, <2>7, <2>8 DEF Work
<1>4. CASE Quiescent \/ UNCHANGED vars
  BY <1>4 DEF Quiescent, vars, TypeOK
<1> QED
  BY <1>1, <1>2, <1>3, <1>4 DEF Next

-----------------------------------------------------------------------------
(* Payments.                                                               *)

LEMMA ShapeInit == Init => Shape
BY DEF Init, Shape, RowShape

LEMMA ShapeStep == TypeOK /\ Shape /\ [Next]_vars => Shape'
<1> SUFFICES ASSUME TypeOK, Shape, [Next]_vars PROVE Shape'
  OBVIOUS
<1>1. CASE UNCHANGED <<txn, entry>>
  BY <1>1 DEF Shape, RowShape
<1>2. ASSUME NEW x \in Txns, Post(x) PROVE Shape'
  <2>1. ASSUME NEW payer \in Accounts, NEW payee \in Accounts, Begin(x, payer, payee)
        PROVE  Shape'
    <3>1. Len(txn[x].drafted) <= 2 /\ txn[x].updatedAt = 0
      BY <2>1 DEF Begin, Shape, RowShape
    <3> QED
      BY <2>1, <3>1, TxnType DEF Begin, Shape, RowShape, TypeOK, TxnRow
  <2>2. CASE WriteEntry(x)
    <3> DEFINE d == Append(txn[x].drafted, now)
    <3>1. /\ Len(d) <= 2
          /\ \A i \in DOMAIN d : d[i] # 0
      <4>1. txn[x].drafted \in Seq(Nat) /\ now \in Nat /\ now # 0
        BY TxnType, NowType
      <4>2. Len(txn[x].drafted) < 2 /\ \A i \in DOMAIN txn[x].drafted : txn[x].drafted[i] # 0
        BY <2>2 DEF WriteEntry, Shape, RowShape
      <4> QED
        BY <4>1, <4>2
    <3>2. txn[x].updatedAt = 0
      <4>2. Len(txn[x].drafted) < 2
        BY <2>2 DEF WriteEntry
      <4>3. Len(txn[x].drafted) \in Nat
        BY TxnType
      <4>1. Len(txn[x].drafted) # 2
        BY <4>2, <4>3, LessIsNot
      <4> QED
        BY <2>2, <4>1 DEF WriteEntry, Shape, RowShape
    <3>3. /\ txn'[x] = [txn[x] EXCEPT !.drafted = d]
          /\ \A y \in Txns : y # x => txn'[y] = txn[y]
          /\ entry' = entry
      BY <2>2 DEF WriteEntry, TypeOK
    <3>4. /\ txn'[x].drafted = d /\ txn'[x].status = "POSTING"
          /\ txn'[x].journal = txn[x].journal /\ txn'[x].updatedAt = 0
      BY <2>2, <3>2, <3>3, TxnType DEF WriteEntry, TxnRow
    <3> HIDE DEF d
    <3> QED
      BY <2>2, <3>1, <3>3, <3>4 DEF Shape, RowShape, WriteEntry
  <2>3. CASE Mark(x)
    BY <2>3, TxnType, NowType DEF Mark, Shape, RowShape, TypeOK, TxnRow
  <2>4. CASE Commit(x)
    <3>1. \A e \in entry' : e.at # 0
      BY <2>4, PostedEntryType DEF Commit, Shape
    <3> QED
      BY <2>4, <3>1, TxnType DEF Commit, Shape, RowShape, TypeOK, TxnRow
  <2>5. CASE Fail(x)
    <3>1. /\ txn'[x] = [txn[x] EXCEPT !.status = "FAILING", !.drafted = <<>>,
                                      !.journal = <<>>, !.updatedAt = now]
          /\ \A y \in Txns : y # x => txn'[y] = txn[y]
          /\ entry' = entry
      BY <2>5 DEF Fail, TypeOK
    <3>2. /\ txn'[x].drafted = <<>> /\ txn'[x].status = "FAILING"
          /\ txn'[x].updatedAt = now
      BY <3>1, TxnType DEF TxnRow
    <3>3. DOMAIN txn'[x].drafted = {}
      BY <3>2
    <3>4. now # 0
      BY NowType
    <3>5. \A i \in DOMAIN txn'[x].drafted : txn'[x].drafted[i] # 0
      BY <3>3
    <3>6. RowShape(x)'
      BY <3>2, <3>4, <3>5 DEF RowShape
    <3>7. \A y \in Txns : y # x => RowShape(y)'
      BY <3>1 DEF RowShape, Shape
    <3> QED
      BY <3>1, <3>6, <3>7 DEF Shape
  <2>6. CASE FailCommit(x)
    BY <2>6, TxnType DEF FailCommit, Shape, RowShape, TypeOK, TxnRow
  <2> QED
    BY <1>2, <2>1, <2>2, <2>3, <2>4, <2>5, <2>6 DEF Post
<1>3. ASSUME NEW w \in Workers, Work(w) PROVE Shape'
  BY <1>1, <1>3 DEF Work, StartJob, FreezeWindow, Scope, Check, ReadCompletedAt,
     CompleteRun, JobError, CompleteAckLost, FailRun, Crash
<1>4. CASE Tick \/ Quiescent \/ UNCHANGED vars
  BY <1>1, <1>4 DEF Tick, Quiescent, vars
<1> QED
  BY <1>2, <1>3, <1>4 DEF Next

\* Whatever becomes visible in a step is committed in this step.
LEMMA ItemsGrow ==
  ASSUME TypeOK, NEW x \in Txns, Post(x), NEW j, NEW i \in Items(j)'
  PROVE  i \in Items(j) \/ i.committedAt = now
<1>1. ASSUME NEW e \in entry' PROVE e \in entry \/ e.committedAt = now
  <2>1. CASE Commit(x)
    <3>1. e \in entry \/ \E k \in 1..2 : e = PostedEntry(x, k)
      BY <1>1, <2>1 DEF Commit
    <3> QED
      BY <3>1 DEF PostedEntry
  <2>2. CASE ~Commit(x)
    BY <1>1, <2>2 DEF Post, Begin, WriteEntry, Mark, Fail, FailCommit
  <2> QED
    BY <2>1, <2>2
<1>2. ASSUME NEW y \in Settled'
      PROVE  \/ y \in Settled /\ txn'[y] = txn[y]
             \/ txn'[y].settledAt = now
  <2>1. y \in Txns /\ txn'[y].status \in {"SUCCESS", "FAILED"}
    BY <1>2 DEF Settled
  <2>2. CASE y # x
    <3>1. txn'[y] = txn[y]
      BY <2>1, <2>2 DEF Post, Begin, WriteEntry, Mark, Commit, Fail, FailCommit, TypeOK
    <3> QED
      BY <2>1, <3>1 DEF Settled
  <2>3. CASE y = x
    <3>1. CASE Commit(x)
      BY <2>3, <3>1, TxnType DEF Commit, TypeOK, TxnRow
    <3>2. CASE FailCommit(x)
      BY <2>3, <3>2, TxnType DEF FailCommit, TypeOK, TxnRow
    <3>3. ASSUME NEW payer \in Accounts, NEW payee \in Accounts, Begin(x, payer, payee)
          PROVE  txn'[x].status = "POSTING"
      BY <3>3, TxnType DEF Begin, TypeOK, TxnRow
    <3>4. CASE WriteEntry(x)
      <4>1. txn'[x].status = "POSTING"
        BY <3>4, TxnType DEF WriteEntry, TypeOK, TxnRow
      <4> QED
        BY <2>1, <2>3, <4>1
    <3>5. CASE Mark(x)
      <4>1. txn'[x].status = "POSTING"
        BY <3>5, TxnType DEF Mark, TypeOK, TxnRow
      <4> QED
        BY <2>1, <2>3, <4>1
    <3>6. CASE Fail(x)
      <4>1. txn'[x].status = "FAILING"
        BY <3>6, TxnType DEF Fail, TypeOK, TxnRow
      <4> QED
        BY <2>1, <2>3, <4>1
    <3> QED
      BY <2>1, <2>3, <3>1, <3>2, <3>3, <3>4, <3>5, <3>6 DEF Post
  <2> QED
    BY <2>2, <2>3
<1>3. CASE j = "LEDGER_CONSISTENCY"
  <2>1. PICK e \in entry' :
          i = [key |-> e.account, at |-> e.at, committedAt |-> e.committedAt]
    BY <1>3 DEF Items
  <2> QED
    BY <1>1, <1>3, <2>1 DEF Items
<1>4. CASE j # "LEDGER_CONSISTENCY"
  <2>1. PICK y \in Settled' :
          i = [key |-> y, at |-> txn'[y].updatedAt, committedAt |-> txn'[y].settledAt]
    BY <1>4 DEF Items
  <2> QED
    BY <1>2, <1>4, <2>1 DEF Items
<1> QED
  BY <1>3, <1>4

\* A step that leaves the audit alone.
LEMMA AuditFrame ==
  ASSUME TypeOK, Rows, Tasks, Scanned, Covered, UNCHANGED <<run, wk>>,
         now' \in Nat, now <= now',
         \A j : \A i \in Items(j)' : i \in Items(j) \/ i.committedAt = now
  PROVE  (Rows /\ Tasks /\ Scanned /\ Covered)'
<1>1. ASSUME NEW j, NEW from \in Nat, NEW upto \in Nat, upto <= now, NEW S,
             Holding(j, from, upto, S)
      PROVE  Holding(j, from, upto, S)'
  BY <1>1, NowType DEF Holding
<1>2. \A j : Recorded(j)' = Recorded(j)
  BY DEF Recorded
<1>3. Rows'
  BY RunType, NowType DEF Rows
<1>4. Tasks'
  BY <1>2, TaskType, NowType DEF Tasks, Slot, Active
<1>5. Scanned'
  <2>1. ASSUME NEW w \in Workers, HasScope(w)'
        PROVE  Holding(wk[w].job, wk[w].from, wk[w].upto, wk[w].scope)'
    <3>1. HasScope(w) /\ Active(w)
      BY <2>1 DEF HasScope, Active
    <3>2. wk[w].upto <= now
      BY <3>1 DEF Tasks, Slot
    <3> QED
      BY <1>1, <3>1, <3>2, TaskType DEF Scanned
  <2>2. ASSUME NEW j \in Windowed, NEW r \in Recorded(j)'
        PROVE  Holding(j, run[r].from, run[r].upto, run[r].scanned)'
    <3>1. r \in Recorded(j) /\ r \in Runs
      BY <1>2, <2>2 DEF Recorded
    <3>2. run[r].upto <= now
      BY <3>1 DEF Rows
    <3> QED
      BY <1>1, <3>1, <3>2, RunType DEF Scanned
  <2> QED
    BY <2>1, <2>2 DEF Scanned
<1>6. Covered'
  BY <1>2 DEF Covered, Accounted, InGap
<1> QED
  BY <1>3, <1>4, <1>5, <1>6

-----------------------------------------------------------------------------
(* The worker.                                                             *)

\* The tables that the audit reads are not its to write.
LEMMA WorkReads ==
  ASSUME NEW w \in Workers, Work(w)
  PROVE  /\ UNCHANGED <<now, txn, entry, acct>>
         /\ \A j, from, upto, S :
              Holding(j, from, upto, S) => Holding(j, from, upto, S)'
<1>1. UNCHANGED <<now, txn, entry, acct>>
  BY DEF Work, StartJob, FreezeWindow, Scope, Check, ReadCompletedAt, CompleteRun,
     JobError, CompleteAckLost, FailRun, Crash
<1>2. \A j : Items(j)' = Items(j)
  BY <1>1 DEF Items, Settled
<1> QED
  BY <1>1, <1>2 DEF Holding

\* Recorded rows keep what they say of their window; completedAt only grows.
RowsKept ==
    \A q \in Runs : run[q].upto # 0 =>
        /\ run'[q].job = run[q].job /\ run'[q].from = run[q].from
        /\ run'[q].upto = run[q].upto /\ run'[q].scanned = run[q].scanned
        /\ run[q].completedAt <= run'[q].completedAt

\* The new state of slot w is to be shown; the others rest on rows that w does
\* not write, and on recorded rows.
LEMMA OtherSlots ==
  ASSUME TypeOK, Tasks, NEW w \in Workers, now' = now,
         \A v \in Workers : v # w => wk'[v] = wk[v],
         \A v \in Workers : v # w /\ Active(v) => run'[wk[v].run] = run[wk[v].run],
         RowsKept, TypeOK',
         Slot(w)',
         Active(w)' => \A v \in Workers : v # w /\ Active(v) => wk'[w].run # wk[v].run
  PROVE  Tasks'
<1>1. ASSUME NEW v \in Workers, v # w PROVE Slot(v)'
  <2>1. Slot(v)
    BY DEF Tasks
  <2>2. wk'[v] = wk[v] /\ Active(v)' = Active(v)
    BY <1>1 DEF Active
  <2>3. wk[v].from = 0 \/ \E q \in Runs :
          run'[q].job = wk[v].job /\ run'[q].upto # 0 /\ wk[v].from <= run'[q].completedAt
    <3>1. ASSUME NEW q \in Recorded(wk[v].job), wk[v].from <= run[q].completedAt
          PROVE  q \in Runs /\ run'[q].job = wk[v].job /\ run'[q].upto # 0
                 /\ wk[v].from <= run'[q].completedAt
      <4>1. q \in Runs /\ run[q].job = wk[v].job /\ run[q].upto # 0
        BY DEF Recorded
      <4>2. run[q].completedAt <= run'[q].completedAt
        BY <4>1 DEF RowsKept
      <4>3. wk[v].from \in Nat /\ run[q].completedAt \in Nat /\ run'[q].completedAt \in Nat
        BY <4>1, TaskType DEF TypeOK, RunRow
      <4>4. wk[v].from <= run'[q].completedAt
        BY <3>1, <4>2, <4>3
      <4> QED
        BY <4>1, <4>4 DEF RowsKept
    <3> QED
      BY <2>1, <3>1 DEF Slot
  <2> QED
    BY <1>1, <2>1, <2>2, <2>3 DEF Slot, Recorded
<1>2. ASSUME NEW u \in Workers, NEW v \in Workers, Active(u)', Active(v)', u # v
      PROVE  wk'[u].run # wk'[v].run
  BY <1>2 DEF Tasks, Active
<1> QED
  BY <1>1, <1>2 DEF Tasks

\* A row that becomes recorded has a window that begins at 0 or at the completion
\* of a recorded run.
RowAdded(q) ==
    \/ run'[q].from = 0
    \/ \E p \in Recorded(run'[q].job) : run'[q].from <= run[p].completedAt

LEMMA AccountedKept ==
  ASSUME TypeOK, TypeOK', RowsKept, NEW j, NEW t \in Nat, Accounted(j, t)
  PROVE  Accounted(j, t)'
<1>1. ASSUME NEW q \in Recorded(j), InWindow(t, run[q].upto, run[q].completedAt)
      PROVE  Accounted(j, t)'
  <2>1. q \in Runs /\ run[q].job = j /\ run[q].upto # 0
    BY DEF Recorded
  <2>2. /\ run'[q].job = j /\ run'[q].upto = run[q].upto
        /\ run[q].completedAt <= run'[q].completedAt
    BY <2>1 DEF RowsKept
  <2>3. run[q].completedAt \in Nat /\ run'[q].completedAt \in Nat /\ run[q].upto \in Nat
    BY <2>1 DEF TypeOK, RunRow
  <2>4. InWindow(t, run'[q].upto, run'[q].completedAt)
    BY <1>1, <2>2, <2>3 DEF InWindow
  <2> QED
    BY <2>1, <2>2, <2>4 DEF Accounted, InGap, Recorded
<1>2. ASSUME NEW r \in Recorded(j), InWindow(t, run[r].from, run[r].upto)
      PROVE  Accounted(j, t)'
  <2>1. r \in Runs /\ run[r].job = j /\ run[r].upto # 0
    BY DEF Recorded
  <2>2. run'[r].job = j /\ run'[r].upto = run[r].upto /\ run'[r].from = run[r].from
    BY <2>1 DEF RowsKept
  <2> QED
    BY <1>2, <2>1, <2>2 DEF Accounted, Recorded
<1> QED
  BY <1>1, <1>2 DEF Accounted, InGap

LEMMA CoveredKept ==
  ASSUME TypeOK, TypeOK', RowsKept, Covered,
         \A q \in Runs : run[q].upto = 0 /\ run'[q].upto # 0 => RowAdded(q)
  PROVE  Covered'
<1> SUFFICES ASSUME NEW j \in Windowed, NEW q \in Runs, run'[q].job = j, run'[q].upto # 0,
                    NEW t \in Nat, t # 0, t <= run'[q].upto
             PROVE  Accounted(j, t)'
  BY DEF Covered, Recorded
<1>1. CASE run[q].upto # 0
  <2>1. run[q].job = j /\ run[q].upto = run'[q].upto
    BY <1>1 DEF RowsKept
  <2>2. Accounted(j, t)
    BY <1>1, <2>1 DEF Covered, Recorded
  <2> QED
    BY <2>2, AccountedKept
<1>2. CASE run[q].upto = 0
  <2>1. run'[q].from \in Nat /\ run'[q].upto \in Nat
    BY DEF TypeOK, RunRow
  <2>2. CASE run'[q].from < t
    BY <2>2 DEF Accounted, Recorded, InWindow
  <2>3. CASE t <= run'[q].from
    <3>1. PICK p \in Recorded(j) : run'[q].from <= run[p].completedAt
      BY <1>2, <2>1, <2>3 DEF RowAdded
    <3>2. p \in Runs /\ run[p].upto \in Nat /\ run[p].completedAt \in Nat
      BY RunType DEF Recorded
    <3>3. CASE t <= run[p].upto
      <4>1. Accounted(j, t)
        BY <3>3 DEF Covered
      <4> QED
        BY <4>1, AccountedKept
    <3>4. CASE run[p].upto < t
      <4>1. InWindow(t, run[p].upto, run[p].completedAt)
        BY <2>1, <2>3, <3>1, <3>2, <3>4 DEF InWindow
      <4>2. Accounted(j, t)
        BY <4>1 DEF Accounted, InGap
      <4> QED
        BY <4>2, AccountedKept
    <3> QED
      BY <3>2, <3>3, <3>4
  <2> QED
    BY <2>1, <2>2, <2>3
<1> QED
  BY <1>1, <1>2

LEMMA ScannedKept ==
  ASSUME TypeOK, RowsKept, Scanned, NEW w \in Workers, Work(w),
         \A v \in Workers : v # w => wk'[v] = wk[v],
         HasScope(w)' => Holding(wk'[w].job, wk'[w].from, wk'[w].upto, wk'[w].scope),
         \A q \in Runs : run[q].upto = 0 /\ run'[q].upto # 0 /\ run'[q].job \in Windowed =>
           Holding(run'[q].job, run'[q].from, run'[q].upto, run'[q].scanned)
  PROVE  Scanned'
<1>1. \A j, from, upto, S : Holding(j, from, upto, S) => Holding(j, from, upto, S)'
  BY WorkReads
<1>2. ASSUME NEW v \in Workers, HasScope(v)'
      PROVE  Holding(wk'[v].job, wk'[v].from, wk'[v].upto, wk'[v].scope)
  <2>1. CASE v = w
    BY <1>2, <2>1
  <2>2. CASE v # w
    <3>1. HasScope(v) /\ wk'[v] = wk[v]
      BY <1>2, <2>2 DEF HasScope
    <3> QED
      BY <3>1 DEF Scanned
  <2> QED
    BY <2>1, <2>2
<1>3. ASSUME NEW q \in Runs, run'[q].upto # 0, run'[q].job \in Windowed
      PROVE  Holding(run'[q].job, run'[q].from, run'[q].upto, run'[q].scanned)
  <2>1. CASE run[q].upto # 0
    <3>1. /\ run'[q].job = run[q].job /\ run'[q].from = run[q].from
          /\ run'[q].upto = run[q].upto /\ run'[q].scanned = run[q].scanned
      BY <2>1 DEF RowsKept
    <3>2. q \in Recorded(run[q].job)
      BY <2>1 DEF Recorded
    <3> QED
      BY <1>3, <3>1, <3>2 DEF Scanned
  <2>2. CASE run[q].upto = 0
    BY <1>3, <2>2
  <2> QED
    BY <2>1, <2>2
<1>4. ASSUME NEW j, NEW from, NEW upto, NEW S, Holding(j, from, upto, S)
      PROVE  Holding(j, from, upto, S)'
  BY <1>1, <1>4
<1> QED
  BY <1>2, <1>3, <1>4 DEF Scanned, Recorded

-----------------------------------------------------------------------------
(* The steps of a slot.                                                    *)

Rest == Rows /\ Tasks /\ Scanned /\ Covered

LEMMA CheckpointBegins ==
  ASSUME TypeOK, Rows, NEW j, NEW t \in Checkpoint(j)
  PROVE  t = 0 \/ \E q \in Recorded(j) : t <= run[q].completedAt
<1>1. ASSUME NEW q \in Successful(j) PROVE q \in Recorded(j) /\ run[q].completedAt \in Nat
  BY RunType DEF Successful, Recorded, Rows
<1> QED
  BY <1>1 DEF Checkpoint

LEMMA AllKept == TypeOK /\ run' = run => RowsKept
BY RunType DEF RowsKept

\* A step that writes no row.
LEMMA SlotStep ==
  ASSUME TypeOK, TypeOK', Rest, NEW w \in Workers, Work(w), run' = run,
         \A v \in Workers : v # w => wk'[v] = wk[v],
         Slot(w)',
         HasScope(w)' => Holding(wk'[w].job, wk'[w].from, wk'[w].upto, wk'[w].scope),
         Active(w)' => Active(w) /\ wk'[w].run = wk[w].run
  PROVE  Rest'
<1>1. RowsKept
  BY AllKept
<1>2. now' = now
  BY WorkReads
<1>3. Rows'
  BY <1>2 DEF Rest, Rows
<1>4. Tasks'
  <2>1. Active(w)' => \A v \in Workers : v # w /\ Active(v) => wk'[w].run # wk[v].run
    BY DEF Rest, Tasks
  <2> QED
    BY <1>1, <1>2, <2>1, OtherSlots DEF Rest
<1>5. Scanned'
  BY <1>1, ScannedKept DEF Rest
<1>6. Covered'
  BY <1>1, CoveredKept DEF Rest
<1> QED
  BY <1>3, <1>4, <1>5, <1>6 DEF Rest

LEMMA StartJobStep ==
  ASSUME TypeOK, TypeOK', Rest, NEW w \in Workers, NEW j \in Jobs, StartJob(w, j)
  PROVE  Rest'
<1>1. PICK t \in Checkpoint(j) :
        wk' = [wk EXCEPT ![w] = [Idle EXCEPT !.pc = "started", !.job = j, !.from = t]]
  BY DEF StartJob
<1>2. /\ wk'[w].pc = "started" /\ wk'[w].job = j /\ wk'[w].from = t
      /\ wk'[w].completedAt = 0
      /\ \A v \in Workers : v # w => wk'[v] = wk[v]
  BY <1>1 DEF TypeOK, Idle
<1>3. Work(w) /\ run' = run /\ now' = now
  BY DEF StartJob, Work
<1>4. t = 0 \/ \E q \in Recorded(j) : t <= run[q].completedAt
  BY CheckpointBegins DEF Rest
<1>5. Slot(w)'
  <2>1. ~Active(w)'
    BY <1>2 DEF Active
  <2>2. wk'[w].completedAt <= now'
    BY <1>2, <1>3, NowType
  <2>3. wk'[w].from = 0
        \/ \E q \in Runs : run'[q].job = wk'[w].job /\ run'[q].upto # 0
                           /\ wk'[w].from <= run'[q].completedAt
    BY <1>2, <1>3, <1>4 DEF Recorded
  <2> QED
    BY <1>2, <2>1, <2>2, <2>3 DEF Slot, Recorded
<1> QED
  BY <1>2, <1>3, <1>5, SlotStep DEF Active, HasScope

LEMMA ScopeStep ==
  ASSUME TypeOK, TypeOK', Rest, NEW w \in Workers, Scope(w)
  PROVE  Rest'
<1> DEFINE S == IF wk[w].job = "LEDGER_CONSISTENCY"
                THEN Changed(wk[w].job, wk[w].from, wk[w].upto) ELSE {}
<1>1. /\ wk[w].pc = "scoping"
      /\ wk'[w] = [wk[w] EXCEPT !.pc = "checking", !.scope = S]
      /\ \A v \in Workers : v # w => wk'[v] = wk[v]
  BY DEF Scope, TypeOK
<1> HIDE DEF S
<1>2. /\ wk'[w].pc = "checking" /\ wk'[w].scope = S
      /\ wk'[w].job = wk[w].job /\ wk'[w].from = wk[w].from /\ wk'[w].upto = wk[w].upto
      /\ wk'[w].run = wk[w].run /\ wk'[w].completedAt = wk[w].completedAt
  BY <1>1, TaskType DEF Task
<1>3. Work(w) /\ run' = run /\ now' = now
  BY DEF Scope, Work
<1>4. Slot(w)'
  BY <1>1, <1>2, <1>3 DEF Rest, Tasks, Slot, Active, Recorded
<1>5. HasScope(w)' => Holding(wk'[w].job, wk'[w].from, wk'[w].upto, wk'[w].scope)
  BY <1>2 DEF HasScope, Holding, Changed, S
<1> QED
  BY <1>1, <1>2, <1>3, <1>4, <1>5, SlotStep DEF Active

LEMMA CheckStep ==
  ASSUME TypeOK, TypeOK', Rest, NEW w \in Workers, Check(w)
  PROVE  Rest'
<1>1. PICK F \in Found(wk[w].job, Examines(w)) :
        wk' = [wk EXCEPT ![w] = [@ EXCEPT !.pc = "closing", !.scope = Examines(w),
                                          !.found = F]]
  BY DEF Check
<1>2. /\ wk[w].pc = "checking"
      /\ wk'[w] = [wk[w] EXCEPT !.pc = "closing", !.scope = Examines(w), !.found = F]
      /\ \A v \in Workers : v # w => wk'[v] = wk[v]
  BY <1>1 DEF Check, TypeOK
<1>3. /\ wk'[w].pc = "closing" /\ wk'[w].scope = Examines(w)
      /\ wk'[w].job = wk[w].job /\ wk'[w].from = wk[w].from /\ wk'[w].upto = wk[w].upto
      /\ wk'[w].run = wk[w].run /\ wk'[w].completedAt = wk[w].completedAt
  BY <1>2, TaskType DEF Task
<1>4. Work(w) /\ run' = run /\ now' = now
  BY DEF Check, Work
<1>5. Slot(w)'
  BY <1>2, <1>3, <1>4 DEF Rest, Tasks, Slot, Active, Recorded
<1>6. HasScope(w)' => Holding(wk'[w].job, wk'[w].from, wk'[w].upto, wk'[w].scope)
  <2>1. CASE wk[w].job = "LEDGER_CONSISTENCY"
    <3>1. HasScope(w) /\ Examines(w) = wk[w].scope
      BY <1>2, <2>1 DEF HasScope, Examines
    <3> QED
      BY <1>3, <3>1 DEF Rest, Scanned
  <2>2. CASE wk[w].job = "ORPHAN_DETECTOR"
    <3>1. Examines(w) = Changed(wk[w].job, wk[w].from, wk[w].upto)
      BY <2>2 DEF Examines
    <3> QED
      BY <1>3, <3>1 DEF Holding, Changed
  <2>3. CASE wk[w].job \notin Windowed
    BY <1>3, <2>3 DEF HasScope
  <2> QED
    BY <2>1, <2>2, <2>3 DEF Windowed
<1> QED
  BY <1>2, <1>3, <1>4, <1>5, <1>6, SlotStep DEF Active

LEMMA ReadCompletedAtStep ==
  ASSUME TypeOK, TypeOK', Rest, NEW w \in Workers, ReadCompletedAt(w)
  PROVE  Rest'
<1>1. /\ wk[w].pc = "closing"
      /\ wk'[w] = [wk[w] EXCEPT !.pc = "writing", !.completedAt = now]
      /\ \A v \in Workers : v # w => wk'[v] = wk[v]
  BY DEF ReadCompletedAt, TypeOK
<1>2. /\ wk'[w].pc = "writing" /\ wk'[w].scope = wk[w].scope
      /\ wk'[w].job = wk[w].job /\ wk'[w].from = wk[w].from /\ wk'[w].upto = wk[w].upto
      /\ wk'[w].run = wk[w].run /\ wk'[w].completedAt = now
  BY <1>1, TaskType DEF Task
<1>3. Work(w) /\ run' = run /\ now' = now
  BY DEF ReadCompletedAt, Work
<1>4. Slot(w)'
  BY <1>1, <1>2, <1>3, NowType DEF Rest, Tasks, Slot, Active, Recorded
<1>5. HasScope(w)' => Holding(wk'[w].job, wk'[w].from, wk'[w].upto, wk'[w].scope)
  BY <1>1, <1>2 DEF Rest, Scanned, HasScope
<1> QED
  BY <1>1, <1>2, <1>3, <1>4, <1>5, SlotStep DEF Active

LEMMA JobErrorStep ==
  ASSUME TypeOK, TypeOK', Rest, NEW w \in Workers, JobError(w)
  PROVE  Rest'
<1>1. /\ wk[w].pc \in {"scoping", "checking", "closing", "writing"}
      /\ wk'[w] = [wk[w] EXCEPT !.pc = "failing"]
      /\ \A v \in Workers : v # w => wk'[v] = wk[v]
  BY DEF JobError, TypeOK
<1>2. /\ wk'[w].pc = "failing"
      /\ wk'[w].job = wk[w].job /\ wk'[w].from = wk[w].from /\ wk'[w].upto = wk[w].upto
      /\ wk'[w].run = wk[w].run /\ wk'[w].completedAt = wk[w].completedAt
  BY <1>1, TaskType DEF Task
<1>3. Work(w) /\ run' = run /\ now' = now
  BY DEF JobError, Work
<1>4. Slot(w)'
  BY <1>1, <1>2, <1>3 DEF Rest, Tasks, Slot, Active, Recorded
<1> QED
  BY <1>1, <1>2, <1>3, <1>4, SlotStep DEF Active, HasScope

LEMMA CrashStep ==
  ASSUME TypeOK, TypeOK', Rest, NEW w \in Workers, Crash(w)
  PROVE  Rest'
<1>1. wk'[w] = Idle /\ \A v \in Workers : v # w => wk'[v] = wk[v]
  BY DEF Crash, TypeOK
<1>2. Work(w) /\ run' = run /\ now' = now
  BY DEF Crash, Work
<1>3. Slot(w)'
  BY <1>1, <1>2, NowType DEF Slot, Active, Idle
<1> QED
  BY <1>1, <1>2, <1>3, SlotStep DEF Active, HasScope, Idle

LEMMA FreezeWindowStep ==
  ASSUME TypeOK, TypeOK', Rest, NEW w \in Workers, NEW r \in Runs, FreezeWindow(w, r)
  PROVE  Rest'
<1>1. /\ wk[w].pc = "started" /\ run[r].status = "ABSENT"
      /\ wk'[w] = [wk[w] EXCEPT !.pc = "scoping", !.run = r, !.upto = now]
      /\ \A v \in Workers : v # w => wk'[v] = wk[v]
      /\ run'[r] = [NoRun EXCEPT !.job = wk[w].job, !.status = "RUNNING"]
      /\ \A q \in Runs : q # r => run'[q] = run[q]
  BY DEF FreezeWindow, TypeOK
<1>2. /\ wk'[w].pc = "scoping" /\ wk'[w].run = r /\ wk'[w].upto = now
      /\ wk'[w].job = wk[w].job /\ wk'[w].from = wk[w].from
      /\ wk'[w].completedAt = wk[w].completedAt
  BY <1>1, TaskType DEF Task
<1>3. /\ run'[r].job = wk[w].job /\ run'[r].status = "RUNNING" /\ run'[r].upto = 0
      /\ run'[r].completedAt = 0
  BY <1>1 DEF NoRun
<1>4. Work(w) /\ now' = now
  BY DEF FreezeWindow, Work
<1>5. run[r].upto = 0
  BY <1>1 DEF Rest, Rows
<1>6. RowsKept
  BY <1>1, <1>5, RunType DEF RowsKept
<1>7. Rows'
  BY <1>1, <1>3, <1>4, NowType DEF Rest, Rows
<1>8. \A v \in Workers : Active(v) => wk[v].run # r
  BY <1>1 DEF Rest, Tasks, Slot
<1>9. Tasks'
  <2>1. wk[w].job \in Jobs /\ wk[w].completedAt <= now
    BY <1>1 DEF Rest, Tasks, Slot
  <2>2. \A q \in Recorded(wk[w].job) : run'[q] = run[q]
    BY <1>1, <1>5 DEF Recorded
  <2>3. wk[w].from = 0
        \/ \E q \in Runs : run'[q].job = wk[w].job /\ run'[q].upto # 0
                           /\ wk[w].from <= run'[q].completedAt
    BY <2>2 DEF Rest, Tasks, Slot, Recorded
  <2>4. Slot(w)'
    <3>1. now # 0 /\ now <= now
      BY NowType
    <3> QED
      BY <1>2, <1>3, <1>4, <2>1, <2>3, <3>1 DEF Slot, Active, Recorded
  <2>5. \A v \in Workers : v # w /\ Active(v) => run'[wk[v].run] = run[wk[v].run]
    BY <1>1, <1>8 DEF Rest, Tasks, Slot
  <2> QED
    BY <1>1, <1>2, <1>4, <1>6, <1>8, <2>4, <2>5, OtherSlots DEF Rest
<1>10. Scanned'
  BY <1>1, <1>2, <1>3, <1>4, <1>6, ScannedKept DEF Rest, HasScope
<1>11. Covered'
  BY <1>1, <1>3, <1>6, CoveredKept DEF Rest
<1> QED
  BY <1>7, <1>9, <1>10, <1>11 DEF Rest

LEMMA CompleteStep ==
  ASSUME TypeOK, TypeOK', Rest, NEW w \in Workers, CompleteRun(w) \/ CompleteAckLost(w)
  PROVE  Rest'
<1> DEFINE r == wk[w].run
<1>1. /\ wk[w].pc = "writing"
      /\ wk'[w] = Idle \/ wk'[w] = [wk[w] EXCEPT !.pc = "failing"]
      /\ \A v \in Workers : v # w => wk'[v] = wk[v]
  BY DEF CompleteRun, CompleteAckLost, TypeOK
<1>2. /\ r \in Runs /\ run[r].job = wk[w].job /\ run[r].status = "RUNNING"
      /\ wk[w].upto # 0 /\ wk[w].upto <= now /\ wk[w].completedAt <= now
      /\ wk[w].job \in Jobs
      /\ \/ wk[w].from = 0
         \/ \E q \in Recorded(wk[w].job) : wk[w].from <= run[q].completedAt
  BY <1>1 DEF Rest, Tasks, Slot, Active
<1>3. /\ run'[r] = CompletedRow(w)
      /\ \A q \in Runs : q # r => run'[q] = run[q]
  BY <1>2 DEF CompleteRun, CompleteAckLost, TypeOK
<1>4. /\ run'[r].job = wk[w].job /\ run'[r].status = "SUCCESS"
      /\ run'[r].from = wk[w].from /\ run'[r].upto = wk[w].upto
      /\ run'[r].completedAt = wk[w].completedAt /\ run'[r].scanned = wk[w].scope
  BY <1>3 DEF CompletedRow
<1>5. Work(w) /\ now' = now
  BY DEF CompleteRun, CompleteAckLost, Work
<1>6. run[r].upto = 0
  BY <1>2 DEF Rest, Rows
<1> HIDE DEF r
<1>7. RowsKept
  BY <1>2, <1>3, <1>6, RunType DEF RowsKept
<1>8. Rows'
  BY <1>2, <1>3, <1>4, <1>5 DEF Rest, Rows
<1>9. \A v \in Workers : v # w /\ Active(v) => wk[v].run # r
  BY <1>1 DEF Rest, Tasks, Active, r
<1>10. Tasks'
  <2>1. ASSUME NEW q \in Recorded(wk[w].job) PROVE run'[q] = run[q]
    BY <1>3, <1>6 DEF Recorded
  <2>2. wk[w].from = 0
        \/ \E q \in Runs : run'[q].job = wk[w].job /\ run'[q].upto # 0
                           /\ wk[w].from <= run'[q].completedAt
    BY <1>2, <2>1 DEF Recorded
  <2>3. Slot(w)'
    <3>1. CASE wk'[w] = Idle
      BY <1>5, <3>1, NowType DEF Slot, Active, Idle
    <3>2. CASE wk'[w] = [wk[w] EXCEPT !.pc = "failing"]
      <4>1. /\ wk'[w].pc = "failing" /\ wk'[w].run = r
            /\ wk'[w].job = wk[w].job /\ wk'[w].from = wk[w].from
            /\ wk'[w].upto = wk[w].upto /\ wk'[w].completedAt = wk[w].completedAt
        BY <3>2, TaskType DEF Task, r
      <4> QED
        BY <1>2, <1>4, <1>5, <2>2, <4>1 DEF Slot, Active, Recorded
    <3> QED
      BY <1>1, <3>1, <3>2
  <2>4. \A v \in Workers : v # w /\ Active(v) => run'[wk[v].run] = run[wk[v].run]
    BY <1>3, <1>9 DEF Rest, Tasks, Slot
  <2>5. Active(w)' => wk'[w].run = r
    BY <1>1, TaskType DEF Active, Idle, Task, r
  <2> QED
    BY <1>1, <1>5, <1>7, <1>9, <2>3, <2>4, <2>5, OtherSlots DEF Rest
<1>11. Scanned'
  <2>1. ~HasScope(w)'
    BY <1>1, TaskType DEF HasScope, Idle, Task
  <2>2. wk[w].job \in Windowed => Holding(wk[w].job, wk[w].from, wk[w].upto, wk[w].scope)
    BY <1>1 DEF Rest, Scanned, HasScope
  <2>3. \A q \in Runs : run[q].upto = 0 /\ run'[q].upto # 0 => q = r
    BY <1>3
  <2> QED
    BY <1>1, <1>4, <1>5, <1>7, <2>1, <2>2, <2>3, ScannedKept DEF Rest
<1>12. Covered'
  <2>1. \A q \in Runs : run[q].upto = 0 /\ run'[q].upto # 0 => q = r
    BY <1>3
  <2>2. RowAdded(r)
    BY <1>2, <1>4 DEF RowAdded
  <2> QED
    BY <1>7, <2>1, <2>2, CoveredKept DEF Rest
<1> QED
  BY <1>8, <1>10, <1>11, <1>12 DEF Rest

LEMMA FailRunStep ==
  ASSUME TypeOK, TypeOK', Rest, NEW w \in Workers, FailRun(w)
  PROVE  Rest'
<1> DEFINE r == wk[w].run
<1>1. /\ wk[w].pc = "failing" /\ wk'[w] = Idle
      /\ \A v \in Workers : v # w => wk'[v] = wk[v]
  BY DEF FailRun, TypeOK
<1>2. r \in Runs /\ run[r].status # "ABSENT"
  BY <1>1 DEF Rest, Tasks, Slot, Active
<1>3. /\ run'[r] = [run[r] EXCEPT !.status = "FAILED", !.completedAt = now]
      /\ \A q \in Runs : q # r => run'[q] = run[q]
  BY <1>2 DEF FailRun, TypeOK
<1> HIDE DEF r
<1>4. /\ run'[r].job = run[r].job /\ run'[r].status = "FAILED"
      /\ run'[r].from = run[r].from /\ run'[r].upto = run[r].upto
      /\ run'[r].scanned = run[r].scanned /\ run'[r].completedAt = now
  BY <1>2, <1>3, RunType DEF RunRow
<1>5. Work(w) /\ now' = now
  BY DEF FailRun, Work
<1>6. RowsKept
  <2>1. ASSUME NEW q \in Runs PROVE run[q].completedAt <= run'[q].completedAt
    <3>1. run[q].completedAt <= now /\ run[q].completedAt <= run[q].completedAt
      BY RunType DEF Rest, Rows
    <3> QED
      BY <1>3, <1>4, <3>1
  <2> QED
    BY <1>3, <1>4, <2>1 DEF RowsKept
<1>7. Rows'
  <2>1. now <= now
    BY NowType
  <2>2. run[r].upto <= now
    BY <1>2 DEF Rest, Rows
  <2> QED
    BY <1>3, <1>4, <1>5, <2>1, <2>2 DEF Rest, Rows
<1>8. \A v \in Workers : v # w /\ Active(v) => wk[v].run # r
  BY <1>1 DEF Rest, Tasks, Active, r
<1>9. Tasks'
  <2>1. Slot(w)' /\ ~Active(w)'
    BY <1>1, <1>5, NowType DEF Slot, Active, Idle
  <2>2. \A v \in Workers : v # w /\ Active(v) => run'[wk[v].run] = run[wk[v].run]
    BY <1>3, <1>8 DEF Rest, Tasks, Slot
  <2> QED
    BY <1>1, <1>5, <1>6, <2>1, <2>2, OtherSlots DEF Rest
<1>10. \A q \in Runs : run'[q].upto = run[q].upto
  BY <1>3, <1>4
<1>11. Scanned'
  BY <1>1, <1>5, <1>6, <1>10, ScannedKept DEF Rest, HasScope, Idle
<1>12. Covered'
  BY <1>6, <1>10, CoveredKept DEF Rest
<1> QED
  BY <1>7, <1>9, <1>11, <1>12 DEF Rest

-----------------------------------------------------------------------------
(* The theorems.                                                           *)

LEMMA RestInit == Init => Rest
BY DEF Init, Rest, Rows, Tasks, Slot, Active, Scanned, HasScope, Covered, Recorded,
   NoRun, Idle

LEMMA RestStep == TypeOK /\ TypeOK' /\ Rest /\ [Next]_vars => Rest'
<1> SUFFICES ASSUME TypeOK, TypeOK', Rest, [Next]_vars PROVE Rest'
  OBVIOUS
<1>1. ASSUME NEW x \in Txns, Post(x) PROVE Rest'
  <2>1. UNCHANGED <<now, run, wk>>
    BY <1>1 DEF Post, Begin, WriteEntry, Mark, Commit, Fail, FailCommit
  <2>2. \A j : \A i \in Items(j)' : i \in Items(j) \/ i.committedAt = now
    BY <1>1, ItemsGrow
  <2> QED
    BY <2>1, <2>2, NowType, AuditFrame DEF Rest
<1>2. CASE Tick \/ Quiescent \/ UNCHANGED vars
  <2>1. UNCHANGED <<txn, entry, run, wk>> /\ now' \in Nat /\ now <= now'
    BY <1>2, NowType DEF Tick, Quiescent, vars
  <2>2. \A j : Items(j)' = Items(j)
    BY <2>1 DEF Items, Settled
  <2> QED
    BY <2>1, <2>2, AuditFrame DEF Rest
<1>3. ASSUME NEW w \in Workers, Work(w) PROVE Rest'
  BY <1>3, StartJobStep, FreezeWindowStep, ScopeStep, CheckStep, ReadCompletedAtStep,
     CompleteStep, JobErrorStep, FailRunStep, CrashStep DEF Work
<1> QED
  BY <1>1, <1>2, <1>3 DEF Next

LEMMA Invariant == Spec => []IInv
<1>1. Init => IInv
  BY TypeInit, ShapeInit, RestInit DEF IInv, Rest
<1>2. IInv /\ [Next]_vars => IInv'
  BY TypeStep, ShapeStep, RestStep DEF IInv, Rest
<1> QED
  BY <1>1, <1>2, PTL DEF Spec

\* Every column of a run keeps its type, though failRun may overwrite it.
THEOREM TypeCorrect == Spec => []TypeOK
BY Invariant, PTL DEF IInv

\* A window of time is skipped in one way only: between the end of a window and
\* the completion time of its run.  Whatever else overlaps, fails, is retried or
\* overwritten, each row is in a window that looked at it if it was committed by
\* then (Checkpoint, FreezeWindow, completeRun, failRun).
THEOREM OnlyGapsSkip == Spec => []NothingElseIsSkipped
<1>1. IInv => NothingElseIsSkipped
  <2> SUFFICES ASSUME IInv, NEW j \in Jobs \cap Windowed, NEW i \in Items(j),
                      NEW q \in Recorded(j), i.at <= run[q].upto, ~InGap(j, i.at)
               PROVE  \E r \in Recorded(j) : Examined(r, i)
    BY DEF NothingElseIsSkipped
  <2>1. i.at \in Nat /\ i.at # 0
    <3>1. CASE j = "LEDGER_CONSISTENCY"
      BY <3>1 DEF Items, IInv, Shape, TypeOK, EntryRow
    <3>2. CASE j # "LEDGER_CONSISTENCY"
      BY <3>2, TxnType DEF Items, Settled, IInv, Shape, RowShape
    <3> QED
      BY <3>1, <3>2
  <2>2. PICK r \in Recorded(j) : InWindow(i.at, run[r].from, run[r].upto)
    BY <2>1 DEF IInv, Covered, Accounted
  <2>3. Examined(r, i)
    BY <2>2 DEF IInv, Scanned, Holding, Examined
  <2> QED
    BY <2>3
<1> QED
  BY <1>1, Invariant, PTL

-----------------------------------------------------------------------------
(* The ledger the jobs look at, and what they report.                      *)

\* Who posts on an account holds its row lock.
Disjoint ==
    \A x, y \in Txns : x # y /\ txn[x].status = "POSTING" /\ txn[y].status = "POSTING" =>
        \A i, k \in 1..2 : txn[x].journal[i] # txn[y].journal[k]

\* The entries of an account are numbered, and the last one carries its balance.
Numbered ==
    /\ \A e \in entry :
         /\ e.number # 0
         /\ e.number <= acct[e.account].last
         /\ e.number = acct[e.account].last => e.balanceAfter = acct[e.account].cachedBalance
    /\ \A a \in Accounts : acct[a].last # 0 => \E e \in EntriesOf(a) : e.number = acct[a].last

\* Exactly the transactions that succeeded have entries.
Owned ==
    /\ \A x \in Txns : txn[x].status = "SUCCESS" => \E e \in entry : e.txn = x
    /\ \A e \in entry : txn[e.txn].status = "SUCCESS"

\* The times of the entries of an account are in the order of their numbers, but
\* may be equal, and those on their way to a COMMIT are not before any other.
Timed ==
    /\ \A e \in entry : e.at <= now
    /\ \A e, f \in entry : e.account = f.account /\ e.number <= f.number => e.at <= f.at
    /\ \A x \in Txns : txn[x].status = "POSTING" =>
         /\ \A i \in DOMAIN txn[x].drafted :
              /\ txn[x].drafted[i] <= now
              /\ \A e \in entry : e.account = txn[x].journal[i] => e.at <= txn[x].drafted[i]
         /\ Len(txn[x].drafted) = 2 /\ txn[x].journal[1] = txn[x].journal[2] =>
              txn[x].drafted[1] <= txn[x].drafted[2]

Books == Disjoint /\ Numbered /\ Owned /\ Timed

\* Nothing was found but accounts with a tie.
TiedAccounts == {a \in Accounts : Tied(a)}

Quiet ==
    /\ \A r \in Runs : run[r].found \subseteq TiedAccounts
    /\ \A w \in Workers : wk[w].found \subseteq TiedAccounts

LEMMA EntryTypes ==
  ASSUME TypeOK, NEW e \in entry
  PROVE  /\ e.account \in Accounts /\ e.txn \in Txns /\ e.number \in Nat
         /\ e.balanceAfter \in Int /\ e.at \in Nat
         /\ acct[e.account].last \in Nat /\ acct[e.account].cachedBalance \in Int
BY DEF TypeOK, EntryRow, BalanceRow

\* What a COMMIT writes, account by account.
Written(x) ==
    LET payer == txn[x].journal[1]
        payee == txn[x].journal[2]
        first == PostedEntry(x, 1)
        second == PostedEntry(x, 2)
    IN  /\ payer \in Accounts /\ payee \in Accounts
        /\ entry' = entry \cup {first, second}
        /\ first.account = payer /\ first.txn = x /\ first.at = txn[x].drafted[1]
        /\ first.number = acct[payer].last + 1
        /\ first.balanceAfter = acct[payer].cachedBalance - 1
        /\ second.account = payee /\ second.txn = x /\ second.at = txn[x].drafted[2]
        /\ second.number = acct[payee].last + (IF payer = payee THEN 2 ELSE 1)
        /\ second.balanceAfter = acct[payee].cachedBalance + (IF payer = payee THEN 0 ELSE 1)
        /\ \A a \in Accounts :
             /\ acct'[a].last = acct[a].last + (IF a = payer THEN 1 ELSE 0)
                                             + (IF a = payee THEN 1 ELSE 0)
             /\ acct'[a].cachedBalance = acct[a].cachedBalance + (IF a = payer THEN -1 ELSE 0)
                                                               + (IF a = payee THEN 1 ELSE 0)

LEMMA CommitWrites ==
  ASSUME TypeOK, Shape, NEW x \in Txns, Commit(x)
  PROVE  Written(x)
<1> DEFINE payer == txn[x].journal[1]
           payee == txn[x].journal[2]
<1>1. payer \in Accounts /\ payee \in Accounts
  BY DEF Commit, Shape, RowShape
<1>2. \A a \in Accounts : acct[a].last \in Nat /\ acct[a].cachedBalance \in Int
  BY DEF TypeOK, BalanceRow
<1>3. entry' = entry \cup {PostedEntry(x, 1), PostedEntry(x, 2)}
  BY DEF Commit
<1>4. ASSUME NEW a, NEW m \in Int, NEW n \in Int
      PROVE  /\ Added(Own(x, a, 1), m, n) = IF a = payer THEN m ELSE 0
             /\ Added(Own(x, a, 2), m, n) = (IF a = payer THEN m ELSE 0) + (IF a = payee THEN n ELSE 0)
  <2>1. /\ 1 \in Own(x, a, 1) <=> a = payer
        /\ 2 \notin Own(x, a, 1)
        /\ 1 \in Own(x, a, 2) <=> a = payer
        /\ 2 \in Own(x, a, 2) <=> a = payee
    BY DEF Own
  <2> QED
    BY <2>1 DEF Added
<1>5. ASSUME NEW a \in Accounts
      PROVE  /\ acct'[a].last = acct[a].last + (IF a = payer THEN 1 ELSE 0)
                                             + (IF a = payee THEN 1 ELSE 0)
             /\ acct'[a].cachedBalance = acct[a].cachedBalance + (IF a = payer THEN -1 ELSE 0)
                                                               + (IF a = payee THEN 1 ELSE 0)
  <2>1. /\ acct'[a].last = acct[a].last + Added(Own(x, a, 2), 1, 1)
        /\ acct'[a].cachedBalance = acct[a].cachedBalance + Added(Own(x, a, 2), -1, 1)
    BY DEF Commit
  <2> QED
    BY <1>2, <1>4, <2>1
<1>6. /\ PostedEntry(x, 1).account = payer /\ PostedEntry(x, 1).txn = x
      /\ PostedEntry(x, 1).at = txn[x].drafted[1]
      /\ PostedEntry(x, 1).number = acct[payer].last + Added(Own(x, payer, 1), 1, 1)
      /\ PostedEntry(x, 1).balanceAfter = acct[payer].cachedBalance + Added(Own(x, payer, 1), -1, 1)
  BY DEF PostedEntry
<1>7. /\ PostedEntry(x, 2).account = payee /\ PostedEntry(x, 2).txn = x
      /\ PostedEntry(x, 2).at = txn[x].drafted[2]
      /\ PostedEntry(x, 2).number = acct[payee].last + Added(Own(x, payee, 2), 1, 1)
      /\ PostedEntry(x, 2).balanceAfter = acct[payee].cachedBalance + Added(Own(x, payee, 2), -1, 1)
  BY DEF PostedEntry
<1>8. /\ PostedEntry(x, 1).number = acct[payer].last + 1
      /\ PostedEntry(x, 1).balanceAfter = acct[payer].cachedBalance - 1
  <2>1. 1 \in Own(x, payer, 1) /\ 2 \notin Own(x, payer, 1)
    BY DEF Own
  <2>2. Added(Own(x, payer, 1), 1, 1) = 1 /\ Added(Own(x, payer, 1), -1, 1) = -1
    BY <2>1 DEF Added
  <2> QED
    BY <1>1, <1>2, <1>6, <2>2
<1>9. /\ PostedEntry(x, 2).number = acct[payee].last + (IF payer = payee THEN 2 ELSE 1)
      /\ PostedEntry(x, 2).balanceAfter = acct[payee].cachedBalance + (IF payer = payee THEN 0 ELSE 1)
  <2>1. /\ Added(Own(x, payee, 2), 1, 1) = IF payer = payee THEN 2 ELSE 1
        /\ Added(Own(x, payee, 2), -1, 1) = IF payer = payee THEN 0 ELSE 1
    BY <1>4
  <2> QED
    BY <1>1, <1>2, <1>7, <2>1
<1> QED
  BY <1>1, <1>3, <1>5, <1>6, <1>7, <1>8, <1>9 DEF Written

LEMMA BooksCommit ==
  ASSUME TypeOK, TypeOK', Shape, Books, NEW x \in Txns, Commit(x)
  PROVE  Books'
<1> DEFINE payer == txn[x].journal[1]
           payee == txn[x].journal[2]
           first == PostedEntry(x, 1)
           second == PostedEntry(x, 2)
           d == txn[x].drafted
<1>1. Written(x)
  BY CommitWrites
<1>2. /\ payer \in Accounts /\ payee \in Accounts
      /\ entry' = entry \cup {first, second}
      /\ first.account = payer /\ first.txn = x /\ first.at = d[1]
      /\ first.number = acct[payer].last + 1
      /\ first.balanceAfter = acct[payer].cachedBalance - 1
      /\ second.account = payee /\ second.txn = x /\ second.at = d[2]
      /\ second.number = acct[payee].last + (IF payer = payee THEN 2 ELSE 1)
      /\ second.balanceAfter = acct[payee].cachedBalance + (IF payer = payee THEN 0 ELSE 1)
      /\ \A a \in Accounts :
           /\ acct'[a].last = acct[a].last + (IF a = payer THEN 1 ELSE 0)
                                           + (IF a = payee THEN 1 ELSE 0)
           /\ acct'[a].cachedBalance = acct[a].cachedBalance + (IF a = payer THEN -1 ELSE 0)
                                                             + (IF a = payee THEN 1 ELSE 0)
  BY <1>1 DEF Written
<1>3. /\ txn[x].status = "POSTING" /\ txn'[x].status = "SUCCESS" /\ now' = now
      /\ \A y \in Txns : y # x => txn'[y] = txn[y]
  BY DEF Commit, TypeOK, TxnRow
<1>4. /\ Len(d) = 2 /\ 1 \in DOMAIN d /\ 2 \in DOMAIN d /\ d[1] \in Nat /\ d[2] \in Nat
  <2>1. Len(d) = 2 /\ d \in Seq(Nat)
    BY TxnType DEF Commit, Shape, RowShape
  <2> QED
    BY <2>1, Pair
<1> HIDE DEF first, second, payer, payee, d
<1>5. \A a \in Accounts : acct[a].last \in Nat /\ acct[a].cachedBalance \in Int
  BY DEF TypeOK, BalanceRow
<1>6. Disjoint'
  BY <1>3 DEF Books, Disjoint
<1>7. Owned'
  <2>1. ASSUME NEW e \in entry' PROVE txn'[e.txn].status = "SUCCESS"
    <3>1. CASE e \in entry
      <4>1. txn[e.txn].status = "SUCCESS" /\ e.txn \in Txns
        BY <3>1, EntryTypes DEF Books, Owned
      <4> QED
        BY <1>3, <4>1
    <3>2. CASE e \in {first, second}
      BY <1>2, <1>3, <3>2
    <3> QED
      BY <1>2, <3>1, <3>2
  <2>2. ASSUME NEW y \in Txns, txn'[y].status = "SUCCESS" PROVE \E e \in entry' : e.txn = y
    <3>1. CASE y = x
      BY <1>2, <3>1
    <3>2. CASE y # x
      BY <1>2, <1>3, <2>2, <3>2 DEF Books, Owned
    <3> QED
      BY <3>1, <3>2
  <2> QED
    BY <2>1, <2>2 DEF Owned
<1>8. Numbered'
  <2>1. ASSUME NEW e \in entry'
        PROVE  /\ e.number # 0
               /\ e.number <= acct'[e.account].last
               /\ e.number = acct'[e.account].last => e.balanceAfter = acct'[e.account].cachedBalance
    <3>1. CASE e \in entry
      <4>1. /\ e.account \in Accounts /\ e.number \in Nat /\ e.number # 0
            /\ e.number <= acct[e.account].last
            /\ e.number = acct[e.account].last => e.balanceAfter = acct[e.account].cachedBalance
        BY <3>1, EntryTypes DEF Books, Numbered
      <4> QED
        BY <1>2, <1>5, <4>1
    <3>2. CASE e = first
      BY <1>2, <1>5, <3>2
    <3>3. CASE e = second
      BY <1>2, <1>5, <3>3
    <3> QED
      BY <1>2, <3>1, <3>2, <3>3
  <2>2. ASSUME NEW a \in Accounts, acct'[a].last # 0
        PROVE  \E e \in EntriesOf(a)' : e.number = acct'[a].last
    <3>1. CASE a = payee
      BY <1>2, <1>5, <3>1 DEF EntriesOf
    <3>2. CASE a = payer /\ a # payee
      BY <1>2, <1>5, <3>2 DEF EntriesOf
    <3>3. CASE a # payer /\ a # payee
      <4>1. acct'[a].last = acct[a].last
        BY <1>2, <1>5, <3>3
      <4>2. PICK e \in EntriesOf(a) : e.number = acct[a].last
        BY <2>2, <4>1 DEF Books, Numbered
      <4> QED
        BY <1>2, <4>1, <4>2 DEF EntriesOf
    <3> QED
      BY <3>1, <3>2, <3>3
  <2> QED
    BY <2>1, <2>2 DEF Numbered
<1>9. Timed'
  <2>1. /\ \A i \in {1, 2} : d[i] <= now
        /\ \A e \in entry : e.account = payer => e.at <= d[1]
        /\ \A e \in entry : e.account = payee => e.at <= d[2]
        /\ payer = payee => d[1] <= d[2]
    BY <1>3, <1>4 DEF Books, Timed, payer, payee, d
  <2>2. \A e \in entry' : e.at <= now'
    BY <1>2, <1>3, <2>1 DEF Books, Timed
  <2>3. ASSUME NEW e \in entry', NEW f \in entry', e.account = f.account, e.number <= f.number
        PROVE  e.at <= f.at
    <3>1. CASE e \in entry /\ f \in entry
      BY <2>3, <3>1 DEF Books, Timed
    <3>2. CASE e \in entry /\ f \in {first, second}
      BY <1>2, <2>1, <2>3, <3>2
    <3>3. CASE e \in {first, second} /\ f \in entry
      <4>1. f.number \in Nat /\ f.number <= acct[f.account].last
        BY <3>3, EntryTypes DEF Books, Numbered
      <4> QED
        BY <1>2, <1>5, <2>3, <3>3, <4>1
    <3>4. CASE e \in {first, second} /\ f \in {first, second}
      <4>1. CASE e = f
        BY <1>2, <1>4, <3>4, <4>1
      <4>2. CASE e = first /\ f = second
        BY <1>2, <2>1, <2>3, <4>2
      <4>3. CASE e = second /\ f = first
        BY <1>2, <1>4, <1>5, <2>3, <4>3
      <4> QED
        BY <3>4, <4>1, <4>2, <4>3
    <3> QED
      BY <1>2, <3>1, <3>2, <3>3, <3>4
  <2>4. ASSUME NEW y \in Txns, txn'[y].status = "POSTING"
        PROVE  /\ \A i \in DOMAIN txn'[y].drafted :
                    /\ txn'[y].drafted[i] <= now'
                    /\ \A e \in entry' : e.account = txn'[y].journal[i] => e.at <= txn'[y].drafted[i]
               /\ Len(txn'[y].drafted) = 2 /\ txn'[y].journal[1] = txn'[y].journal[2] =>
                    txn'[y].drafted[1] <= txn'[y].drafted[2]
    <3>1. y # x /\ txn'[y] = txn[y] /\ txn[y].status = "POSTING"
      BY <1>3, <2>4
    <3>2. DOMAIN txn[y].drafted \subseteq 1..2
      <4>1. Len(txn[y].drafted) <= 2 /\ txn[y].drafted \in Seq(Nat)
        BY <3>1, TxnType DEF Shape, RowShape
      <4> QED
        BY <4>1
    <3>3. ASSUME NEW i \in DOMAIN txn[y].drafted
          PROVE  \A e \in entry' : e.account = txn[y].journal[i] => e \in entry
      <4>1. txn[y].journal[i] # payer /\ txn[y].journal[i] # payee
        BY <1>3, <3>1, <3>2 DEF Books, Disjoint, payer, payee
      <4> QED
        BY <1>2, <4>1
    <3> QED
      BY <1>3, <3>1, <3>3 DEF Books, Timed
  <2> QED
    BY <2>2, <2>3, <2>4 DEF Timed
<1> QED
  BY <1>6, <1>7, <1>8, <1>9 DEF Books

\* What the other transactions have drafted does not change.
LEMMA BooksDraft ==
  ASSUME TypeOK, Books, NEW x \in Txns, UNCHANGED <<now, entry, acct>>,
         \A y \in Txns : y # x => txn'[y] = txn[y],
         txn'[x].status = "SUCCESS" <=> txn[x].status = "SUCCESS",
         txn'[x].status = "POSTING" =>
           /\ \A y \in Txns : y # x /\ txn[y].status = "POSTING" =>
                \A i, k \in 1..2 : txn'[x].journal[i] # txn[y].journal[k]
           /\ \A i \in DOMAIN txn'[x].drafted :
                /\ txn'[x].drafted[i] <= now
                /\ \A e \in entry : e.account = txn'[x].journal[i] => e.at <= txn'[x].drafted[i]
           /\ Len(txn'[x].drafted) = 2 /\ txn'[x].journal[1] = txn'[x].journal[2] =>
                txn'[x].drafted[1] <= txn'[x].drafted[2]
  PROVE  Books'
<1>1. Disjoint'
  <2> SUFFICES ASSUME NEW y \in Txns, NEW z \in Txns, y # z, txn'[y].status = "POSTING",
                      txn'[z].status = "POSTING", NEW i \in 1..2, NEW k \in 1..2
               PROVE  txn'[y].journal[i] # txn'[z].journal[k]
    BY DEF Disjoint
  <2>1. CASE y = x
    BY <2>1
  <2>2. CASE z = x
    BY <2>2
  <2>3. CASE y # x /\ z # x
    BY <2>3 DEF Books, Disjoint
  <2> QED
    BY <2>1, <2>2, <2>3
<1>2. Numbered'
  BY DEF Books, Numbered, EntriesOf
<1>3. Owned'
  <2>1. \A e \in entry : e.txn \in Txns
    BY EntryTypes
  <2>2. \A y \in Txns : txn'[y].status = "SUCCESS" <=> txn[y].status = "SUCCESS"
    OBVIOUS
  <2> QED
    BY <2>1, <2>2 DEF Books, Owned
<1>4. Timed'
  BY DEF Books, Timed
<1> QED
  BY <1>1, <1>2, <1>3, <1>4 DEF Books

LEMMA BooksWrite ==
  ASSUME TypeOK, Shape, Books, NEW x \in Txns, WriteEntry(x)
  PROVE  Books'
<1> DEFINE d == txn[x].drafted
           n == Len(d) + 1
<1>1. /\ txn[x].status = "POSTING" /\ UNCHANGED <<now, entry, acct>>
      /\ txn'[x].status = "POSTING" /\ txn'[x].journal = txn[x].journal
      /\ txn'[x].drafted = Append(d, now)
      /\ \A y \in Txns : y # x => txn'[y] = txn[y]
  BY DEF WriteEntry, TypeOK, TxnRow
<1>2. now \in Nat /\ d \in Seq(Nat) /\ Len(d) < 2
  BY NowType, TxnType DEF WriteEntry
<1>3. /\ DOMAIN Append(d, now) = 1..n /\ Append(d, now)[n] = now
      /\ \A i \in DOMAIN d : Append(d, now)[i] = d[i]
      /\ Len(Append(d, now)) = n
      /\ \A i \in 1..n : i \in DOMAIN d \/ i = n
      /\ n \in 1..2 /\ DOMAIN d = 1..(n - 1)
  <2> HIDE DEF d
  <2> QED
    BY <1>2
<1>5. /\ \A e \in entry : e.at <= now /\ e.at \in Nat
      /\ \A i \in DOMAIN d : d[i] <= now /\ d[i] \in Nat
      /\ \A i \in DOMAIN d : \A e \in entry : e.account = txn[x].journal[i] => e.at <= d[i]
  <2>1. \A e \in entry : e.at \in Nat
    BY EntryTypes
  <2>2. \A i \in DOMAIN d : d[i] \in Nat
    BY <1>2
  <2> QED
    BY <1>1, <2>1, <2>2 DEF Books, Timed
<1> HIDE DEF d, n
<1>6. ASSUME NEW i \in DOMAIN txn'[x].drafted
      PROVE  /\ txn'[x].drafted[i] <= now
             /\ \A e \in entry : e.account = txn'[x].journal[i] => e.at <= txn'[x].drafted[i]
  <2>1. CASE i \in DOMAIN d
    BY <1>1, <1>3, <1>5, <2>1
  <2>2. CASE i = n
    BY <1>1, <1>2, <1>3, <1>5, <2>2
  <2> QED
    BY <1>1, <1>3, <2>1, <2>2
<1>7. ASSUME Len(txn'[x].drafted) = 2, txn'[x].journal[1] = txn'[x].journal[2]
      PROVE  txn'[x].drafted[1] <= txn'[x].drafted[2]
  <2>1. n = 2 /\ 1 \in DOMAIN d /\ 1 \in 1..(n - 1)
    BY <1>1, <1>3, <1>7
  <2> QED
    BY <1>1, <1>2, <1>3, <1>5, <2>1
<1>8. \A y \in Txns : y # x /\ txn[y].status = "POSTING" =>
        \A i, k \in 1..2 : txn'[x].journal[i] # txn[y].journal[k]
  BY <1>1 DEF Books, Disjoint
<1> QED
  BY <1>1, <1>6, <1>7, <1>8, BooksDraft

LEMMA BooksBegin ==
  ASSUME TypeOK, Shape, Books, NEW x \in Txns, NEW payer \in Accounts, NEW payee \in Accounts,
         Begin(x, payer, payee)
  PROVE  Books'
<1>1. /\ txn[x].status = "PENDING" /\ UNCHANGED <<now, entry, acct>>
      /\ txn'[x].status = "POSTING" /\ txn'[x].journal = <<payer, payee>>
      /\ txn'[x].drafted = <<>>
      /\ \A y \in Txns : y # x => txn'[y] = txn[y]
  BY DEF Begin, TypeOK, TxnRow, Shape, RowShape
<1>2. ASSUME NEW y \in Txns, txn[y].status = "POSTING", NEW i \in 1..2, NEW k \in 1..2
      PROVE  txn'[x].journal[i] # txn[y].journal[k]
  <2>1. ~Holds(y, payer) /\ ~Holds(y, payee)
    BY DEF Begin
  <2>2. txn[y].journal[k] # payer /\ txn[y].journal[k] # payee
    BY <1>2, <2>1 DEF Holds
  <2> QED
    BY <1>1, <2>2
<1>3. DOMAIN txn'[x].drafted = {} /\ Len(txn'[x].drafted) # 2
  BY <1>1
<1> QED
  BY <1>1, <1>2, <1>3, BooksDraft

LEMMA BooksStep ==
  TypeOK /\ TypeOK' /\ Shape /\ Books /\ [Next]_vars => Books'
<1> SUFFICES ASSUME TypeOK, TypeOK', Shape, Books, [Next]_vars PROVE Books'
  OBVIOUS
<1>1. ASSUME NEW x \in Txns, Mark(x) PROVE Books'
  <2>1. /\ txn[x].status = "POSTING" /\ UNCHANGED <<now, entry, acct>>
        /\ txn'[x].status = "POSTING" /\ txn'[x].journal = txn[x].journal
        /\ txn'[x].drafted = txn[x].drafted
        /\ \A y \in Txns : y # x => txn'[y] = txn[y]
    BY <1>1 DEF Mark, TypeOK, TxnRow
  <2>2. \A y \in Txns : y # x /\ txn[y].status = "POSTING" =>
          \A i, k \in 1..2 : txn'[x].journal[i] # txn[y].journal[k]
    BY <2>1 DEF Books, Disjoint
  <2>3. /\ \A i \in DOMAIN txn'[x].drafted :
             /\ txn'[x].drafted[i] <= now
             /\ \A e \in entry : e.account = txn'[x].journal[i] => e.at <= txn'[x].drafted[i]
        /\ Len(txn'[x].drafted) = 2 /\ txn'[x].journal[1] = txn'[x].journal[2] =>
             txn'[x].drafted[1] <= txn'[x].drafted[2]
    BY <2>1 DEF Books, Timed
  <2> QED
    BY <2>1, <2>2, <2>3, BooksDraft
<1>2. ASSUME NEW x \in Txns, Fail(x) \/ FailCommit(x) PROVE Books'
  <2>1. /\ UNCHANGED <<now, entry, acct>>
        /\ txn[x].status # "SUCCESS"
        /\ txn'[x].status \in {"FAILING", "FAILED"}
        /\ \A y \in Txns : y # x => txn'[y] = txn[y]
    BY <1>2 DEF Fail, FailCommit, TypeOK, TxnRow
  <2> QED
    BY <2>1, BooksDraft
<1>3. ASSUME UNCHANGED <<txn, entry, acct>>, now <= now' PROVE Books'
  <2>1. Disjoint' /\ Numbered' /\ Owned'
    BY <1>3 DEF Books, Disjoint, Numbered, Owned, EntriesOf
  <2>2. now \in Nat /\ now' \in Nat
    BY DEF TypeOK
  <2>3. \A e \in entry : e.at <= now'
    <3>1. \A e \in entry : e.at \in Nat /\ e.at <= now
      BY EntryTypes DEF Books, Timed
    <3> QED
      BY <1>3, <2>2, <3>1
  <2>4. \A x \in Txns : txn[x].status = "POSTING" =>
          \A i \in DOMAIN txn[x].drafted : txn[x].drafted[i] <= now'
    <3> SUFFICES ASSUME NEW x \in Txns, txn[x].status = "POSTING", NEW i \in DOMAIN txn[x].drafted
                 PROVE  txn[x].drafted[i] <= now'
      OBVIOUS
    <3>1. txn[x].drafted[i] \in Nat
      BY TxnType
    <3>2. txn[x].drafted[i] <= now
      BY DEF Books, Timed
    <3> QED
      BY <1>3, <2>2, <3>1, <3>2
  <2>5. Timed'
    BY <1>3, <2>3, <2>4 DEF Books, Timed
  <2> QED
    BY <2>1, <2>5 DEF Books
<1>4. CASE Tick \/ Quiescent \/ UNCHANGED vars
  <2>1. UNCHANGED <<txn, entry, acct>> /\ now <= now'
    BY <1>4, NowType DEF Tick, Quiescent, vars
  <2> QED
    BY <1>3, <2>1
<1>5. ASSUME NEW w \in Workers, Work(w) PROVE Books'
  <2>1. UNCHANGED <<txn, entry, acct>> /\ now <= now'
    BY <1>5, WorkReads, NowType
  <2> QED
    BY <1>3, <2>1
<1>6. ASSUME NEW x \in Txns, Post(x) PROVE Books'
  BY <1>1, <1>2, <1>6, BooksBegin, BooksWrite, BooksCommit DEF Post
<1> QED
  BY <1>4, <1>5, <1>6 DEF Next

LEMMA BooksInit == Init => Books
BY DEF Init, Books, Disjoint, Numbered, Owned, Timed, EntriesOf

-----------------------------------------------------------------------------
(* What the jobs find in such books.                                       *)

\* What the queries take for the latest entry of an account is the last one, or
\* shares its time with it.
LEMMA LatestOrTied ==
  ASSUME TypeOK, Books, NEW a, NEW e \in LatestByClock(a)
  PROVE  \/ e.number = acct[a].last /\ e.balanceAfter = acct[a].cachedBalance
         \/ Tied(a)
<1>1. e \in entry /\ e.account = a /\ \A f \in EntriesOf(a) : f.at <= e.at
  BY DEF LatestByClock, EntriesOf
<1>2. e.number \in Nat /\ e.number # 0 /\ e.number <= acct[a].last /\ acct[a].last \in Nat
  BY <1>1, EntryTypes DEF Books, Numbered
<1>3. PICK f \in EntriesOf(a) : f.number = acct[a].last
  <2>1. a \in Accounts /\ acct[a].last # 0
    BY <1>1, <1>2, EntryTypes
  <2> QED
    BY <2>1 DEF Books, Numbered
<1>4. f \in entry /\ f.account = a /\ f.at \in Nat /\ e.at \in Nat
  BY <1>1, <1>3, EntryTypes DEF EntriesOf
<1>5. e.at <= f.at /\ f.at <= e.at
  BY <1>1, <1>2, <1>3, <1>4 DEF Books, Timed
<1>6. CASE e.number = acct[a].last
  BY <1>1, <1>6 DEF Books, Numbered
<1>7. CASE e.number # acct[a].last
  BY <1>1, <1>3, <1>4, <1>5, <1>7 DEF Tied, EntriesOf
<1> QED
  BY <1>6, <1>7

LEMMA OnlyTiesToReport ==
  ASSUME TypeOK, Books, NEW w \in Workers,
         NEW F \in Found(wk[w].job, Examines(w))
  PROVE  F \subseteq TiedAccounts
<1>1. CASE wk[w].job = "ORPHAN_DETECTOR"
  <2>1. \A x \in Examines(w) : x \in Txns
    BY <1>1 DEF Examines, Changed, Items, Settled
  <2>2. \A x \in Txns : ~Orphaned(x)
    BY DEF Orphaned, Books, Owned
  <2>3. F = {x \in Examines(w) : Orphaned(x)}
    BY <1>1 DEF Found
  <2> QED
    BY <2>1, <2>2, <2>3
<1>2. CASE wk[w].job # "ORPHAN_DETECTOR"
  <2>1. ASSUME NEW a, NEW e \in LatestByClock(a), Anomaly(wk[w].job, a, e) PROVE Tied(a)
    BY <2>1, LatestOrTied DEF Anomaly, StalePointer, Drift
  <2>2. F \subseteq {a \in Examines(w) : \E e \in LatestByClock(a) : Anomaly(wk[w].job, a, e)}
    BY <1>2 DEF Found, Reports
  <2>3. \A a : Tied(a) => a \in Accounts
    BY EntryTypes DEF Tied, EntriesOf
  <2> QED
    BY <2>1, <2>2, <2>3 DEF TiedAccounts
<1> QED
  BY <1>1, <1>2

LEMMA QuietStep == TypeOK /\ Books /\ Quiet /\ [Next]_vars => Quiet'
<1> SUFFICES ASSUME TypeOK, Books, Quiet, [Next]_vars PROVE Quiet'
  OBVIOUS
<1>1. ASSUME UNCHANGED <<run, wk>>, entry \subseteq entry' PROVE Quiet'
  <2>1. TiedAccounts \subseteq TiedAccounts'
    BY <1>1 DEF TiedAccounts, Tied, EntriesOf
  <2> QED
    BY <1>1, <2>1 DEF Quiet
<1>2. wk \in [Workers -> Task] /\ run \in [Runs -> RunRow]
  BY DEF TypeOK
<1>3. \A w \in Workers : wk[w].found \subseteq TiedAccounts /\ wk[w] \in Task
  BY TaskType DEF Quiet
<1>4. \A r \in Runs : run[r].found \subseteq TiedAccounts /\ run[r] \in RunRow
  BY RunType DEF Quiet
<1>5. ASSUME NEW w \in Workers, Work(w) PROVE Quiet'
  <2>0. TiedAccounts' = TiedAccounts
    BY <1>5, WorkReads DEF TiedAccounts, Tied, EntriesOf
  <2>1. ASSUME wk'[w].found \subseteq TiedAccounts, \A v \in Workers : v # w => wk'[v] = wk[v],
               \A r \in Runs : run'[r].found \subseteq TiedAccounts PROVE Quiet'
    BY <1>3, <2>0, <2>1 DEF Quiet
  <2>2. CASE \/ \E j \in Jobs : StartJob(w, j)
             \/ Scope(w) \/ ReadCompletedAt(w) \/ JobError(w) \/ Crash(w)
    <3>1. run' = run /\ \A v \in Workers : v # w => wk'[v] = wk[v]
      BY <1>2, <2>2 DEF StartJob, Scope, ReadCompletedAt, JobError, Crash
    <3>2. ASSUME NEW j \in Jobs, StartJob(w, j) PROVE wk'[w].found \subseteq TiedAccounts
      BY <1>2, <3>2 DEF StartJob, Idle
    <3>3. Scope(w) \/ ReadCompletedAt(w) \/ JobError(w) \/ Crash(w) => wk'[w].found \subseteq TiedAccounts
      <4>1. Scope(w) => wk'[w].found \subseteq TiedAccounts
        BY <1>2, <1>3 DEF Scope, Task
      <4>2. ReadCompletedAt(w) => wk'[w].found \subseteq TiedAccounts
        BY <1>2, <1>3 DEF ReadCompletedAt, Task
      <4>3. JobError(w) => wk'[w].found \subseteq TiedAccounts
        BY <1>2, <1>3 DEF JobError, Task
      <4>4. Crash(w) => wk'[w].found \subseteq TiedAccounts
        BY <1>2 DEF Crash, Idle
      <4> QED
        BY <4>1, <4>2, <4>3, <4>4
    <3> QED
      BY <1>4, <2>1, <2>2, <3>1, <3>2, <3>3
  <2>3. ASSUME NEW r \in Runs, FreezeWindow(w, r) PROVE Quiet'
    <3>1. wk'[w].found \subseteq TiedAccounts /\ \A v \in Workers : v # w => wk'[v] = wk[v]
      BY <1>2, <1>3, <2>3 DEF FreezeWindow, Task
    <3>2. \A q \in Runs : run'[q].found \subseteq TiedAccounts
      BY <1>2, <1>4, <2>3 DEF FreezeWindow, NoRun
    <3> QED
      BY <2>1, <3>1, <3>2
  <2>4. CASE Check(w)
    <3>1. PICK F \in Found(wk[w].job, Examines(w)) :
            wk' = [wk EXCEPT ![w] = [@ EXCEPT !.pc = "closing", !.scope = Examines(w),
                                              !.found = F]]
      BY <2>4 DEF Check
    <3>2. F \subseteq TiedAccounts /\ run' = run
      BY <2>4, OnlyTiesToReport DEF Check
    <3>3. wk'[w].found = F /\ \A v \in Workers : v # w => wk'[v] = wk[v]
      BY <1>2, <1>3, <3>1 DEF Task
    <3> QED
      BY <1>4, <2>1, <3>2, <3>3
  <2>5. CASE CompleteRun(w) \/ CompleteAckLost(w)
    <3>1. wk'[w].found \subseteq TiedAccounts /\ \A v \in Workers : v # w => wk'[v] = wk[v]
      BY <1>2, <1>3, <2>5 DEF CompleteRun, CompleteAckLost, Idle, Task
    <3>2. CompletedRow(w).found \subseteq TiedAccounts
      BY <1>3 DEF CompletedRow
    <3>3. run' = [run EXCEPT ![wk[w].run] = CompletedRow(w)]
      BY <2>5 DEF CompleteRun, CompleteAckLost
    <3>4. \A q \in Runs : run'[q].found \subseteq TiedAccounts
      BY <1>2, <1>4, <3>2, <3>3
    <3> QED
      BY <2>1, <3>1, <3>4
  <2>6. CASE FailRun(w)
    <3>1. wk'[w].found \subseteq TiedAccounts /\ \A v \in Workers : v # w => wk'[v] = wk[v]
      BY <1>2, <1>3, <2>6 DEF FailRun, Idle
    <3>2. \A q \in Runs : run'[q].found \subseteq TiedAccounts
      BY <1>2, <1>4, <2>6 DEF FailRun, RunRow
    <3> QED
      BY <2>1, <3>1, <3>2
  <2> QED
    BY <1>5, <2>2, <2>3, <2>4, <2>5, <2>6 DEF Work
<1>6. ASSUME NEW x \in Txns, Post(x) PROVE UNCHANGED <<run, wk>> /\ entry \subseteq entry'
  BY <1>6 DEF Post, Begin, WriteEntry, Mark, Commit, Fail, FailCommit
<1>7. Tick \/ Quiescent \/ UNCHANGED vars => UNCHANGED <<run, wk, entry>>
  BY DEF Tick, Quiescent, vars
<1> QED
  BY <1>1, <1>5, <1>6, <1>7 DEF Next

LEMMA QuietInit == Init => Quiet
BY DEF Init, Quiet, NoRun, Idle

LEMMA QuietBooks == Spec => [](TypeOK /\ Books /\ Quiet)
<1>1. Init => Books /\ Quiet
  BY BooksInit, QuietInit
<1>2. IInv /\ IInv' /\ Books /\ Quiet /\ [Next]_vars => Books' /\ Quiet'
  BY BooksStep, QuietStep DEF IInv
<1>3. IInv => TypeOK
  BY DEF IInv
<1> QED
  BY <1>1, <1>2, <1>3, Invariant, PTL DEF Spec

\* The entry posted last has the latest createdAt of its account, however many
\* executors write entries at once: they take the times under the row locks.  The
\* queries of the jobs can thus miss it only among entries of one millisecond.
THEOREM LastHasLatestTime == Spec => []LastPostedIsLatest
<1>1. ASSUME TypeOK, Books PROVE LastPostedIsLatest
  <2> SUFFICES ASSUME NEW a \in Accounts, acct[a].last # 0
               PROVE  \E e \in LatestByClock(a) : e.number = acct[a].last
    BY DEF LastPostedIsLatest
  <2>1. PICK e \in EntriesOf(a) : e.number = acct[a].last
    BY <1>1 DEF Books, Numbered
  <2>2. ASSUME NEW f \in EntriesOf(a) PROVE f.at <= e.at
    <3>1. f \in entry /\ e \in entry /\ f.account = a /\ e.account = a
      BY <2>1, <2>2 DEF EntriesOf
    <3>2. f.number <= e.number
      BY <1>1, <2>1, <3>1 DEF Books, Numbered
    <3> QED
      BY <1>1, <3>1, <3>2 DEF Books, Timed
  <2> QED
    BY <2>1, <2>2 DEF LatestByClock
<1> QED
  BY <1>1, QuietBooks, PTL

\* None of the three jobs reports anything but accounts with a tie, of a ledger that
\* only payments write, wherever its queries fall between their steps and whatever
\* else fails or is retried.
THEOREM OnlyTiesAlarm == Spec => []OnlyTiesAreReported
<1>1. Quiet => OnlyTiesAreReported
  BY DEF Quiet, OnlyTiesAreReported, TiedAccounts
<1> QED
  BY <1>1, QuietBooks, PTL
=============================================================================
