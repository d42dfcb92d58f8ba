-------------------------- MODULE SimulationProofs --------------------------
(***************************************************************************)
(* Proofs about SimulationRunner, for any number of runs, starts, requests *)
(* of the page and faults.                                                 *)
(***************************************************************************)
EXTENDS SimulationRunner, SequenceTheorems, TLAPS

-----------------------------------------------------------------------------
(* Types.                                                                  *)

USE BoundsOK, UnsetIsNothing DEF Live, Final

Status == Live \cup Final \cup {Unset, "empty", "corrupt"}

PollRow == [at : {"sent", "reading", "answered", "lost"}, run : Runs \cup {Unset},
            status : Status]

PageRow == [open : BOOLEAN, run : {Unset} \cup [id : Runs, status : Live],
            starting : Runs \cup {Unset}, checkingActive : BOOLEAN, error : BOOLEAN]

\* An answer that a run is going on says which.
Polls ==
    /\ page \in PageRow
    /\ polls \in Seq(PollRow)
    /\ \A i \in DOMAIN polls :
         polls[i].at = "reading" \/ polls[i].status \in Live => polls[i].run \in Runs

Place == {"idle", "summary", "reading", "opening", "writing", "result", "closing", "done", "gone"}
FinaliserRow == [at : Place, verdict : Final]
LogRow == [open : BOOLEAN, output : BOOLEAN]

\* The types of the variables of the server.
Server ==
    /\ active \in Runs \cup {Unset}
    /\ file \in [Runs -> Status]
    /\ result \in [Runs -> BOOLEAN]
    /\ starter \in [Runs -> {"idle", "sent", "checked", "writing", "done", "refused"}]
    /\ executor \in [Runs -> {"idle", "reading", "opening", "logging", "failing", "listening", "gone"}]
    /\ k6 \in [Runs -> {"none", "running", "missing", "succeeded", "failed", "killed"}]
    /\ spawned \in [Runs -> {"idle", "reading", "read", "writing", "done"}]
    /\ finaliser \in [Runs -> FinaliserRow]
    /\ log \in [Runs -> LogRow]

Bounds ==
    /\ Len(polls) <= MaxPolls /\ faults \in 0..MaxFaults
    /\ hurried \subseteq Runs /\ cut \subseteq Runs

Types == Server /\ Polls /\ Bounds

LEMMA TypesSuffice == Types => TypeOK
<1> SUFFICES ASSUME Types PROVE TypeOK
  OBVIOUS
<1>1. page.run = Unset \/ (page.run.id \in Runs /\ page.run.status \in Live)
  BY DEF Types, Polls, PageRow
<1>2. page.starting \in Runs \cup {Unset}
  BY DEF Types, Polls, PageRow
<1> QED
  BY <1>1, <1>2 DEF TypeOK, Types, Server, Bounds, Status, FinaliserRow, Place, LogRow

LEMMA Removed ==
  ASSUME NEW S, NEW s \in Seq(S), NEW i \in DOMAIN s
  PROVE  /\ RemoveAt(s, i) \in Seq(S)
         /\ Len(RemoveAt(s, i)) <= Len(s)
         /\ \A k \in DOMAIN RemoveAt(s, i) : \E l \in DOMAIN s : RemoveAt(s, i)[k] = s[l]
<1> DEFINE front == SubSeq(s, 1, i - 1)
           back == SubSeq(s, i + 1, Len(s))
<1>1. Len(s) \in Nat /\ i \in 1..Len(s)
  OBVIOUS
<1>2. /\ front \in Seq(S) /\ Len(front) = i - 1
      /\ \A k \in 1..(i - 1) : front[k] = s[k]
  BY <1>1
<1>3. /\ back \in Seq(S) /\ Len(back) = Len(s) - i
      /\ \A k \in 1..(Len(s) - i) : back[k] = s[i + k]
  BY <1>1
<1>4. RemoveAt(s, i) = front \o back
  BY DEF RemoveAt
<1> HIDE DEF front, back
<1>5. /\ front \o back \in Seq(S)
      /\ Len(front \o back) = Len(front) + Len(back)
      /\ \A k \in 1..(Len(front) + Len(back)) :
           (front \o back)[k] = IF k <= Len(front) THEN front[k] ELSE back[k - Len(front)]
  BY <1>2, <1>3, ConcatProperties
<1>6. ASSUME NEW k \in DOMAIN (front \o back) PROVE \E l \in DOMAIN s : (front \o back)[k] = s[l]
  <2>1. k \in 1..((i - 1) + (Len(s) - i)) /\ k \in Int
    BY <1>1, <1>2, <1>3, <1>5
  <2>2. CASE k <= i - 1
    <3>1. (front \o back)[k] = s[k] /\ k \in 1..Len(s)
      BY <1>1, <1>2, <1>3, <1>5, <2>1, <2>2
    <3> QED
      BY <3>1
  <2>3. CASE k > i - 1
    <3>1. (front \o back)[k] = back[k - (i - 1)] /\ k - (i - 1) \in 1..(Len(s) - i)
      <4>1. k \in 1..(Len(front) + Len(back)) /\ ~(k <= Len(front))
        BY <1>1, <1>2, <1>3, <2>1, <2>3
      <4>2. (front \o back)[k] = back[k - Len(front)]
        BY <1>5, <4>1
      <4> QED
        <5>1. k - (i - 1) \in 1..(Len(s) - i)
          BY <1>1, <2>1, <2>3
        <5> QED
          BY <1>2, <4>2, <5>1
    <3>2. (front \o back)[k] = s[i + (k - (i - 1))] /\ i + (k - (i - 1)) \in 1..Len(s)
      BY <1>1, <1>3, <3>1
    <3> QED
      BY <3>2
  <2> QED
    BY <1>1, <2>1, <2>2, <2>3
<1>7. Len(front \o back) <= Len(s)
  BY <1>1, <1>2, <1>3, <1>5
<1> QED
  BY <1>4, <1>5, <1>6, <1>7

LEMMA TypesInit == Init => Types
<1> SUFFICES ASSUME Init PROVE Types
  OBVIOUS
<1>1. Server
  BY DEF Init, Server, Status, FinaliserRow, Place, LogRow
<1>2. PICK open \in BOOLEAN :
        /\ page = [open |-> open, run |-> Unset, starting |-> Unset, checkingActive |-> open,
                   error |-> FALSE]
        /\ polls = IF open THEN <<NewPoll>> ELSE <<>>
  BY DEF Init
<1>3. NewPoll \in PollRow /\ NewPoll.at # "reading" /\ NewPoll.status \notin Live
  BY DEF NewPoll, PollRow, Status
<1>4. page \in PageRow
  BY <1>2 DEF PageRow
<1>5. /\ polls \in Seq(PollRow) /\ Len(polls) <= 1
      /\ \A i \in DOMAIN polls : polls[i] = NewPoll
  BY <1>2, <1>3
<1>6. Polls
  BY <1>3, <1>4, <1>5 DEF Polls
<1>7. Bounds
  BY <1>5 DEF Init, Bounds
<1> QED
  BY <1>1, <1>6, <1>7 DEF Types

LEMMA DiesTypes == Types /\ Dies => Server'
<1> SUFFICES ASSUME Types, Dies PROVE Server'
  OBVIOUS
<1>1. active' \in Runs \cup {Unset} /\ file' \in [Runs -> Status] /\ result' \in [Runs -> BOOLEAN]
  BY DEF Types, Server, Dies
<1>2. starter' \in [Runs -> {"idle", "sent", "checked", "writing", "done", "refused"}]
  BY DEF Types, Server, Dies
<1>3. executor' \in [Runs -> {"idle", "reading", "opening", "logging", "failing", "listening", "gone"}]
  BY DEF Types, Server, Dies
<1>4. k6' \in [Runs -> {"none", "running", "missing", "succeeded", "failed", "killed"}]
  BY DEF Types, Server, Dies
<1>5. spawned' \in [Runs -> {"idle", "reading", "read", "writing", "done"}]
  BY DEF Types, Server, Dies
<1>6. finaliser' \in [Runs -> FinaliserRow]
  BY DEF Types, Server, Dies, FinaliserRow, Place
<1>7. log' \in [Runs -> LogRow]
  BY DEF Types, Server, Dies, LogRow
<1> QED
  BY <1>1, <1>2, <1>3, <1>4, <1>5, <1>6, <1>7 DEF Server

\* The requests that were being answered end with the process.
LEMMA DiesPolls ==
  ASSUME Types,
         polls' = [i \in DOMAIN polls |-> IF polls[i].at = "reading"
                                          THEN [polls[i] EXCEPT !.at = "lost"] ELSE polls[i]],
         page' = page
  PROVE  Polls' /\ Len(polls') = Len(polls)
<1>1. /\ polls \in Seq(PollRow) /\ page \in PageRow
      /\ \A i \in DOMAIN polls :
           polls[i].at = "reading" \/ polls[i].status \in Live => polls[i].run \in Runs
  BY DEF Types, Polls
<1>2. DOMAIN polls' = DOMAIN polls
  OBVIOUS
<1>3. ASSUME NEW i \in DOMAIN polls
      PROVE  /\ polls'[i] \in PollRow
             /\ polls'[i].at = "reading" \/ polls'[i].status \in Live => polls'[i].run \in Runs
  <2>1. polls[i] \in PollRow /\ [polls[i] EXCEPT !.at = "lost"] \in PollRow
    <3>1. polls[i] \in PollRow
      BY <1>1
    <3> QED
      BY <3>1 DEF PollRow
  <2>2. CASE polls[i].at = "reading"
    <3>1. polls'[i] = [polls[i] EXCEPT !.at = "lost"]
      BY <2>2
    <3>2. polls'[i].at = "lost" /\ polls'[i].run = polls[i].run
      BY <2>1, <3>1 DEF PollRow
    <3> QED
      BY <1>1, <2>1, <2>2, <3>1, <3>2
  <2>3. CASE polls[i].at # "reading"
    BY <1>1, <2>1, <2>3
  <2> QED
    BY <2>2, <2>3
<1>4. polls' \in Seq(PollRow) /\ Len(polls') = Len(polls)
  <2>1. polls' \in [1..Len(polls) -> PollRow] /\ Len(polls) \in Nat
    BY <1>1, <1>2, <1>3
  <2> QED
    BY <2>1
<1> QED
  BY <1>1, <1>2, <1>3, <1>4 DEF Polls

LEMMA PlaceType ==
  ASSUME Server, NEW r \in Runs
  PROVE  /\ \A at \in Place : At(r, at) => finaliser' \in [Runs -> FinaliserRow]
         /\ \A at \in Place, verdict \in Final :
              finalizeOnce(r, verdict, at) => finaliser' \in [Runs -> FinaliserRow]
<1>1. finaliser \in [Runs -> FinaliserRow] /\ finaliser[r] \in FinaliserRow
  BY DEF Server
<1>2. \A at \in Place : [finaliser[r] EXCEPT !.at = at] \in FinaliserRow
  BY <1>1 DEF FinaliserRow
<1>3. \A at \in Place, verdict \in Final : [at |-> at, verdict |-> verdict] \in FinaliserRow
  BY DEF FinaliserRow
<1> QED
  BY <1>1, <1>2, <1>3 DEF At, finalizeOnce

LEMMA LogType ==
  ASSUME Server, NEW r \in Runs, NEW b \in BOOLEAN
  PROVE  /\ [log EXCEPT ![r].open = b] \in [Runs -> LogRow]
         /\ [log EXCEPT ![r].output = b] \in [Runs -> LogRow]
<1>1. log \in [Runs -> LogRow] /\ log[r] \in LogRow
  BY DEF Server
<1>2. [log[r] EXCEPT !.open = b] \in LogRow /\ [log[r] EXCEPT !.output = b] \in LogRow
  BY <1>1 DEF LogRow
<1> QED
  BY <1>1, <1>2

LEMMA ServerStep == Types /\ [Next]_vars => Server'
<1> SUFFICES ASSUME Types, [Next]_vars PROVE Server'
  OBVIOUS
<1> USE DEF Types, Server, Status
<1>1. ASSUME UNCHANGED server PROVE Server'
  BY <1>1 DEF server
<1>2. ASSUME NEW r \in Runs, startSimulation(r) \/ queueOpens(r) \/ activate(r)
                             \/ startFails(r) \/ OtherStarts(r) \/ handleStartSimulation(r)
      PROVE  Server'
  <2>1. CASE startSimulation(r)
    BY <2>1 DEF startSimulation
  <2>2. CASE queueOpens(r)
    BY <2>2 DEF queueOpens
  <2>3. CASE activate(r)
    BY <2>3 DEF activate
  <2>4. CASE startFails(r)
    BY <2>4 DEF startFails
  <2>5. CASE OtherStarts(r)
    BY <2>5 DEF OtherStarts
  <2>6. CASE handleStartSimulation(r)
    BY <2>6 DEF handleStartSimulation
  <2> QED
    BY <1>2, <2>1, <2>2, <2>3, <2>4, <2>5, <2>6
<1>3. ASSUME NEW r \in Runs, readsQueued(r) \/ spawn(r) \/ executionFails(r)
                             \/ catchError(r) \/ catchFails(r)
      PROVE  Server'
  <2>1. CASE readsQueued(r)
    BY <2>1 DEF readsQueued, Place
  <2>2. CASE spawn(r)
    <3>1. finaliser' \in [Runs -> FinaliserRow]
      BY <2>2, PlaceType DEF spawn, Place
    <3>2. log' \in [Runs -> LogRow]
      BY <2>2, LogType DEF spawn
    <3>3. /\ k6' \in [Runs -> {"none", "running", "missing", "succeeded", "failed", "killed"}]
          /\ executor' \in [Runs -> {"idle", "reading", "opening", "logging", "failing", "listening", "gone"}]
          /\ spawned' \in [Runs -> {"idle", "reading", "read", "writing", "done"}]
      BY <2>2 DEF spawn
    <3>4. UNCHANGED <<active, file, result, starter>>
      BY <2>2 DEF spawn
    <3> QED
      BY <3>1, <3>2, <3>3, <3>4
  <2>3. CASE executionFails(r)
    <3>1. log' \in [Runs -> LogRow]
      <4>1. log' = log \/ log' = [log EXCEPT ![r].open = TRUE]
        BY <2>3 DEF executionFails
      <4>2. [log EXCEPT ![r].open = TRUE] \in [Runs -> LogRow]
        BY LogType
      <4> QED
        BY <4>1, <4>2
    <3>2. /\ executor' \in [Runs -> {"idle", "reading", "opening", "logging", "failing", "listening", "gone"}]
          /\ UNCHANGED <<active, file, result, starter, k6, spawned, finaliser>>
      BY <2>3 DEF executionFails
    <3> QED
      BY <3>1, <3>2
  <2>4. CASE catchError(r)
    BY <2>4, PlaceType DEF catchError, Place
  <2>5. CASE catchFails(r)
    BY <2>5 DEF catchFails, Place
  <2> QED
    BY <1>3, <2>1, <2>2, <2>3, <2>4, <2>5
<1>4. ASSUME NEW r \in Runs, spawnReads(r) \/ spawnOpens(r) \/ spawnWrites(r)
                             \/ spawnFails(r) \/ exit(r)
      PROVE  Server'
  <2>1. CASE spawnReads(r)
    BY <2>1 DEF spawnReads, Overlay, Place
  <2>2. CASE spawnOpens(r)
    BY <2>2 DEF spawnOpens, Overlay, Place
  <2>3. CASE spawnWrites(r)
    BY <2>3 DEF spawnWrites, Overlay, Place
  <2>4. CASE spawnFails(r)
    BY <2>4 DEF spawnFails, Overlay, Place
  <2>5. CASE exit(r)
    <3>1. finaliser' \in [Runs -> FinaliserRow]
      BY <2>5, PlaceType DEF exit, Place
    <3>2. log' \in [Runs -> LogRow]
      <4>1. PICK late \in BOOLEAN : log' = [log EXCEPT ![r].output = late]
        BY <2>5 DEF exit
      <4> QED
        BY <4>1, LogType
    <3>3. k6' \in [Runs -> {"none", "running", "missing", "succeeded", "failed", "killed"}]
      BY <2>5 DEF exit
    <3>4. UNCHANGED <<active, file, result, starter, executor, spawned>>
      BY <2>5 DEF exit
    <3> QED
      BY <3>1, <3>2, <3>3, <3>4
  <2> QED
    BY <1>4, <2>1, <2>2, <2>3, <2>4, <2>5
<1>5. ASSUME NEW r \in Runs, readsSummary(r) \/ finalOpens(r) \/ finalWrites(r)
                             \/ resultWrites(r) \/ closeLogHandle(r)
      PROVE  Server'
  <2>1. CASE readsSummary(r)
    BY <2>1 DEF readsSummary, Overlay, Place, FinaliserRow
  <2>2. CASE finalOpens(r)
    BY <2>2, PlaceType DEF finalOpens, Overlay, Place, FinaliserRow
  <2>3. CASE finalWrites(r)
    BY <2>3, PlaceType DEF finalWrites, Overlay, Place, FinaliserRow
  <2>4. CASE resultWrites(r)
    BY <2>4, PlaceType DEF resultWrites, Overlay, Place, FinaliserRow
  <2>5. CASE closeLogHandle(r)
    BY <2>5, PlaceType, LogType DEF closeLogHandle, Overlay, Place, FinaliserRow
  <2> QED
    BY <1>5, <2>1, <2>2, <2>3, <2>4, <2>5
<1>6. ASSUME NEW r \in Runs, lateOutput(r) \/ readsStatus(r) \/ finaliserFails(r) PROVE Server'
  <2>1. CASE Dies
    BY <2>1, DiesTypes
  <2>2. CASE lateOutput(r) /\ ~Dies
    <3>1. /\ log' = [log EXCEPT ![r].output = FALSE]
          /\ UNCHANGED <<active, file, result, starter, executor, k6, spawned, finaliser, polls, cut>>
      BY <2>2, Zenon DEF lateOutput
    <3>2. log' \in [Runs -> LogRow]
      BY <3>1, LogType
    <3> QED
      BY <3>1, <3>2
  <2>3. CASE finaliserGivesUp(r) /\ ~Dies
    BY <2>3, PlaceType DEF finaliserGivesUp, Place
  <2>4. CASE readsStatus(r) /\ ~finaliserGivesUp(r)
    BY <2>4, PlaceType DEF readsStatus, Place
  <2> QED
    BY <1>6, <2>1, <2>2, <2>3, <2>4 DEF finaliserFails
<1>7. CASE PageStep \/ startAnswerLost \/ \E i \in DOMAIN polls : fetchFails(i)
  BY <1>1, <1>7 DEF PageStep, startAnswerLost, fetchFails, startAnswered, pollActive,
     getActiveSimulation, getSimulationRun, fetchActiveSimulation
<1>8. CASE Restart
  BY <1>8, DiesTypes DEF Restart
<1>9. CASE UNCHANGED vars
  BY <1>1, <1>9 DEF vars
<1> QED
  BY <1>2, <1>3, <1>4, <1>5, <1>6, <1>7, <1>8, <1>9 DEF Next, RunStep, RunFault
LEMMA PollsStep == Types /\ Server' /\ [Next]_vars => Polls'
<1> SUFFICES ASSUME Types, Server', [Next]_vars PROVE Polls'
  OBVIOUS
<1>1. /\ polls \in Seq(PollRow) /\ page \in PageRow
      /\ \A i \in DOMAIN polls :
           polls[i].at = "reading" \/ polls[i].status \in Live => polls[i].run \in Runs
      /\ active \in Runs \cup {Unset} /\ file \in [Runs -> Status]
  BY DEF Types, Polls, Server
<1>2. ASSUME UNCHANGED client PROVE Polls'
  BY <1>1, <1>2 DEF client, Polls
<1>3. ASSUME polls' = polls, page' \in PageRow PROVE Polls'
  BY <1>1, <1>3 DEF Polls
<1>4. ASSUME NEW i \in DOMAIN polls, NEW row \in PollRow, polls' = [polls EXCEPT ![i] = row],
             row.at = "reading" \/ row.status \in Live => row.run \in Runs, page' = page
      PROVE  Polls'
  <2>1. polls' \in Seq(PollRow) /\ DOMAIN polls' = DOMAIN polls
    BY <1>1, <1>4
  <2>2. \A k \in DOMAIN polls : polls'[k] = IF k = i THEN row ELSE polls[k]
    BY <1>1, <1>4
  <2> QED
    BY <1>1, <1>4, <2>1, <2>2 DEF Polls
<1>5. ASSUME NEW i \in DOMAIN polls, polls' = RemoveAt(polls, i), page' \in PageRow PROVE Polls'
  BY <1>1, <1>5, Removed DEF Polls
<1>6. /\ page.run = Unset \/ page.run \in [id : Runs, status : Live]
      /\ page.starting \in Runs \cup {Unset}
  BY <1>1 DEF PageRow
<1>7. ASSUME NEW r \in Runs, RunStep(r) \/ exit(r) \/ RunFault(r) \/ OtherStarts(r) PROVE Polls'
  <2>1. CASE UNCHANGED client
    BY <1>2, <2>1
  <2>2. CASE Dies /\ page' = page
    <3>1. polls' = [i \in DOMAIN polls |-> IF polls[i].at = "reading"
                                           THEN [polls[i] EXCEPT !.at = "lost"] ELSE polls[i]]
      BY <2>2 DEF Dies
    <3> QED
      BY <2>2, <3>1, DiesPolls
  <2>3. UNCHANGED client \/ (Dies /\ page' = page)
    BY <1>7 DEF RunStep, RunFault, startSimulation, queueOpens, activate, startFails, OtherStarts,
       readsQueued, spawn, executionFails, catchError, catchFails, spawnReads, spawnOpens,
       spawnWrites, spawnFails, exit, lateOutput, readsSummary, readsStatus, finalOpens,
       finalWrites, resultWrites, closeLogHandle, finaliserFails, finaliserGivesUp, client
  <2> QED
    BY <2>1, <2>2, <2>3
<1>8. ASSUME NEW r \in Runs, handleStartSimulation(r) PROVE Polls'
  <2>1. page' \in PageRow /\ polls' = polls
    BY <1>1, <1>8 DEF handleStartSimulation, PageRow
  <2> QED
    BY <1>3, <2>1
<1>9. CASE startAnswered
  <2>1. page.starting \in Runs /\ polls' = polls
    BY <1>6, <1>9 DEF startAnswered
  <2>2. [id |-> page.starting, status |-> "QUEUED"] \in [id : Runs, status : Live]
    BY <2>1
  <2>3. page' \in PageRow
    BY <1>1, <1>9, <2>1, <2>2 DEF startAnswered, PageRow
  <2> QED
    BY <1>3, <2>1, <2>3
<1>10. CASE startAnswerLost
  <2>1. page' \in PageRow /\ polls' = polls
    BY <1>1, <1>10 DEF startAnswerLost, PageRow
  <2> QED
    BY <1>3, <2>1
<1>11. CASE pollActive
  <2>1. polls' = Append(polls, NewPoll) /\ page' = page
    BY <1>11 DEF pollActive
  <2>2. NewPoll \in PollRow /\ NewPoll.at # "reading" /\ NewPoll.status \notin Live
    BY DEF NewPoll, PollRow, Status
  <2>3. /\ polls' \in Seq(PollRow)
        /\ \A i \in DOMAIN polls' :
             \/ i \in DOMAIN polls /\ polls'[i] = polls[i]
             \/ polls'[i] = NewPoll
    BY <1>1, <2>1, <2>2
  <2> QED
    BY <1>1, <2>1, <2>2, <2>3 DEF Polls
<1>12. ASSUME NEW i \in DOMAIN polls, getActiveSimulation(i) PROVE Polls'
  <2>1. polls[i] \in PollRow /\ polls[i].at = "sent" /\ page' = page
    BY <1>1, <1>12 DEF getActiveSimulation
  <2>2. CASE active = Unset
    <3>1. polls' = [polls EXCEPT ![i] = [polls[i] EXCEPT !.at = "answered"]]
      BY <1>12, <2>2 DEF getActiveSimulation
    <3>2. /\ [polls[i] EXCEPT !.at = "answered"] \in PollRow
          /\ [polls[i] EXCEPT !.at = "answered"].at = "answered"
          /\ [polls[i] EXCEPT !.at = "answered"].status = polls[i].status
          /\ [polls[i] EXCEPT !.at = "answered"].run = polls[i].run
      BY <2>1 DEF PollRow
    <3> QED
      BY <1>1, <1>4, <2>1, <3>1, <3>2
  <2>3. CASE active # Unset
    <3>1. polls' = [polls EXCEPT ![i] = [polls[i] EXCEPT !.at = "reading", !.run = active]]
      BY <1>12, <2>3 DEF getActiveSimulation
    <3>2. /\ [polls[i] EXCEPT !.at = "reading", !.run = active] \in PollRow
          /\ [polls[i] EXCEPT !.at = "reading", !.run = active].run = active
      BY <1>1, <2>1 DEF PollRow
    <3> QED
      BY <1>1, <1>4, <2>1, <2>3, <3>1, <3>2
  <2> QED
    BY <2>2, <2>3
<1>13. ASSUME NEW i \in DOMAIN polls, getSimulationRun(i) PROVE Polls'
  <2>1. polls[i].run \in Runs /\ page' = page
    BY <1>1, <1>13 DEF getSimulationRun
  <2>2. polls' = [polls EXCEPT ![i] = [at |-> "answered", run |-> polls[i].run,
                                       status |-> file[polls[i].run]]]
    BY <1>13 DEF getSimulationRun
  <2>3. [at |-> "answered", run |-> polls[i].run, status |-> file[polls[i].run]] \in PollRow
    BY <1>1, <2>1 DEF PollRow
  <2> QED
    BY <1>4, <2>1, <2>2, <2>3
<1>14. ASSUME NEW i \in DOMAIN polls, fetchActiveSimulation(i) PROVE Polls'
  <2>1. polls' = RemoveAt(polls, i)
    BY <1>14 DEF fetchActiveSimulation
  <2>2. polls[i].status \in Live =>
          [id |-> polls[i].run, status |-> polls[i].status] \in [id : Runs, status : Live]
    BY <1>1
  <2>3. page' \in PageRow
    BY <1>1, <1>14, <2>2 DEF fetchActiveSimulation, PageRow
  <2> QED
    BY <1>5, <2>1, <2>3
<1>15. ASSUME NEW i \in DOMAIN polls, fetchFails(i) PROVE Polls'
  <2>1. polls' = RemoveAt(polls, i) /\ page' \in PageRow
    BY <1>1, <1>15 DEF fetchFails, PageRow
  <2> QED
    BY <1>5, <2>1
<1>16. CASE Restart
  <2>1. /\ polls' = [i \in DOMAIN polls |-> IF polls[i].at = "reading"
                                            THEN [polls[i] EXCEPT !.at = "lost"] ELSE polls[i]]
        /\ page' = page
    BY <1>16 DEF Restart, Dies
  <2> QED
    BY <2>1, DiesPolls
<1>17. CASE UNCHANGED vars
  BY <1>2, <1>17 DEF vars, client
<1> QED
  BY <1>7, <1>8, <1>9, <1>10, <1>11, <1>12, <1>13, <1>14, <1>15, <1>16, <1>17 DEF Next, PageStep
LEMMA SameLength ==
  ASSUME NEW m \in Nat, NEW n \in Nat, 1..m = 1..n
  PROVE  m = n
<1>1. m # 0 => m \in 1..n
  OBVIOUS
<1>2. n # 0 => n \in 1..m
  OBVIOUS
<1> QED
  BY <1>1, <1>2

LEMMA BoundsStep == Types /\ Polls' /\ [Next]_vars => Bounds'
<1> SUFFICES ASSUME Types, Polls', [Next]_vars PROVE Bounds'
  OBVIOUS
<1>1. /\ polls \in Seq(PollRow) /\ Len(polls) <= MaxPolls /\ Len(polls) \in Nat
      /\ faults \in 0..MaxFaults /\ hurried \subseteq Runs /\ cut \subseteq Runs
  BY DEF Types, Polls, Bounds
<1>2. Interrupted \subseteq Runs /\ \A r \in Runs : HitWith(r) \subseteq Runs
  BY DEF Interrupted, HitWith
<1>3. Len(polls') <= MaxPolls
  <2>1. CASE polls' = polls
    BY <1>1, <2>1
  <2>2. CASE Dies
    <3>1. polls' = [i \in DOMAIN polls |-> IF polls[i].at = "reading"
                                           THEN [polls[i] EXCEPT !.at = "lost"] ELSE polls[i]]
      BY <2>2 DEF Dies
    <3>2. DOMAIN polls' = DOMAIN polls
      BY <3>1
    <3>3. polls' \in Seq(PollRow)
      BY DEF Polls
    <3>4. DOMAIN polls' = 1..Len(polls') /\ DOMAIN polls = 1..Len(polls) /\ Len(polls') \in Nat
      BY <1>1, <3>3
    <3> QED
      BY <1>1, <3>2, <3>4, SameLength
  <2>3. ASSUME NEW i \in DOMAIN polls, polls' = RemoveAt(polls, i) PROVE Len(polls') <= MaxPolls
    <3>1. Len(polls') <= Len(polls) /\ Len(polls') \in Nat
      BY <1>1, <2>3, Removed DEF Polls
    <3> QED
      BY <1>1, <3>1
  <2>4. CASE pollActive
    BY <1>1, <2>4 DEF pollActive
  <2>5. ASSUME NEW i \in DOMAIN polls, getActiveSimulation(i) \/ getSimulationRun(i)
        PROVE  Len(polls') <= MaxPolls
    <3>1. DOMAIN polls' = DOMAIN polls
      BY <2>5 DEF getActiveSimulation, getSimulationRun
    <3>2. DOMAIN polls' = 1..Len(polls') /\ DOMAIN polls = 1..Len(polls) /\ Len(polls') \in Nat
      BY <1>1 DEF Polls
    <3> QED
      BY <1>1, <3>1, <3>2, SameLength
  <2>6. ASSUME NEW r \in Runs, RunStep(r) \/ exit(r) \/ RunFault(r) \/ OtherStarts(r)
                               \/ handleStartSimulation(r)
        PROVE  polls' = polls \/ Dies
    BY <2>6 DEF RunStep, RunFault, startSimulation, queueOpens, activate, startFails, OtherStarts,
       readsQueued, spawn, executionFails, catchError, catchFails, spawnReads, spawnOpens,
       spawnWrites, spawnFails, exit, lateOutput, readsSummary, readsStatus, finalOpens,
       finalWrites, resultWrites, closeLogHandle, finaliserFails, finaliserGivesUp, client,
       handleStartSimulation
  <2>7. CASE startAnswered \/ startAnswerLost \/ Restart \/ UNCHANGED vars
    BY <2>1, <2>2, <2>7 DEF startAnswered, startAnswerLost, Restart, vars, client
  <2>8. ASSUME NEW i \in DOMAIN polls, fetchActiveSimulation(i) \/ fetchFails(i)
        PROVE  Len(polls') <= MaxPolls
    BY <2>3, <2>8 DEF fetchActiveSimulation, fetchFails
  <2> QED
    BY <2>1, <2>2, <2>4, <2>5, <2>6, <2>7, <2>8 DEF Next, PageStep
<1>4. /\ \/ faults' = faults
         \/ faults < MaxFaults /\ faults' = faults + 1
      /\ hurried' = hurried \/ \E r \in Runs : hurried' = hurried \cup {r}
      /\ cut' = cut \/ cut' = cut \cup Interrupted
         \/ \E r \in Runs : cut' = cut \cup {r} \/ cut' = cut \cup HitWith(r)
  <2>1. ASSUME NEW r \in Runs, RunStep(r) \/ OtherStarts(r) \/ handleStartSimulation(r)
        PROVE  /\ UNCHANGED <<faults, hurried>>
               /\ cut' = cut \/ cut' = cut \cup Interrupted \/ cut' = cut \cup HitWith(r)
    BY <2>1 DEF RunStep, startSimulation, queueOpens, activate, OtherStarts, readsQueued, spawn,
       catchError, spawnReads, spawnOpens, spawnWrites, lateOutput, readsSummary, readsStatus,
       finalOpens, finalWrites, resultWrites, closeLogHandle, handleStartSimulation, NoFault,
       history
  <2>2. ASSUME NEW r \in Runs, exit(r)
        PROVE  /\ UNCHANGED <<faults, cut>>
               /\ hurried' = hurried \/ hurried' = hurried \cup {r}
    BY <2>2 DEF exit
  <2>3. ASSUME NEW r \in Runs, RunFault(r)
        PROVE  /\ faults < MaxFaults /\ faults' = faults + 1 /\ UNCHANGED hurried
               /\ cut' = cut \cup {r} \/ cut' = cut \cup HitWith(r)
    BY <2>3 DEF RunFault, startFails, executionFails, catchFails, spawnFails, finaliserFails, Fault
  <2>4. CASE PageStep \/ startAnswerLost \/ \E i \in DOMAIN polls : fetchFails(i)
    BY <2>4 DEF PageStep, startAnswered, pollActive, getActiveSimulation, getSimulationRun,
       fetchActiveSimulation, startAnswerLost, fetchFails, NoFault, history
  <2>5. CASE Restart
    BY <2>5 DEF Restart
  <2>6. CASE UNCHANGED vars
    BY <2>6 DEF vars, history
  <2> QED
    BY <2>1, <2>2, <2>3, <2>4, <2>5, <2>6 DEF Next
<1>5. faults' \in 0..MaxFaults
  BY <1>1, <1>4
<1>6. hurried' \subseteq Runs /\ cut' \subseteq Runs
  BY <1>1, <1>2, <1>4
<1> QED
  BY <1>3, <1>5, <1>6 DEF Bounds

LEMMA TypesStep == Types /\ [Next]_vars => Types'
BY ServerStep, PollsStep, BoundsStep DEF Types

LEMMA TypesHold == Spec => []Types
BY TypesInit, TypesStep, PTL DEF Spec

\* Every variable keeps its type: the answers of the page name a run, and no more
\* requests are in flight, and no more faults happen, than the bounds allow.
THEOREM TypeCorrect == Spec => []TypeOK
BY TypesHold, TypesSuffice, PTL

-----------------------------------------------------------------------------
(* The invariants.                                                         *)

Early == {"idle", "reading", "opening", "logging", "failing"}
Busy == {"summary", "reading", "opening", "writing", "result"}

\* The pieces of a run follow each other.
Phase(r) ==
    /\ starter[r] # "done" => executor[r] = "idle"
    /\ executor[r] \in Early =>
         k6[r] = "none" /\ finaliser[r].at = "idle" /\ spawned[r] = "idle"
    /\ finaliser[r].at # "idle" => k6[r] # "running"

\* While a run has k6, or is on the way to it or back, it is the active one; while
\* one is started, none is.
Slot(r) ==
    /\ starter[r] \in {"checked", "writing"} => active = Unset
    /\ executor[r] \in Early \ {"idle"} => active = r
    /\ k6[r] = "running" => active = r
    /\ finaliser[r].at \in Busy => active = r

OneStart ==
    \A r, s \in Runs : starter[r] \in {"checked", "writing"} /\ starter[s] \in {"checked", "writing"}
                       => r = s

Phases == \A r \in Runs : Phase(r)
Slots == (\A r \in Runs : Slot(r)) /\ OneStart

\* What the file of a run holds that no fault has hit and whose k6 did not end
\* before the spawn event was handled.
Told(r) ==
    r \notin hurried \cup cut =>
        /\ executor[r] \notin {"logging", "failing"}
        /\ executor[r] = "gone" => finaliser[r].at = "done"
        /\ executor[r] \in {"reading", "opening"} => file[r] = "QUEUED"
        /\ spawned[r] \in {"reading", "read"} => k6[r] = "running" /\ file[r] = "QUEUED"
        /\ spawned[r] = "writing" => k6[r] = "running" /\ file[r] = "empty"
        /\ spawned[r] = "done" /\ k6[r] = "running" => file[r] = "RUNNING"
        /\ finaliser[r].at # "gone"
        /\ finaliser[r].at \in {"summary", "reading", "opening"} => file[r] \in Live
        /\ finaliser[r].at = "writing" => file[r] = "empty"
        /\ finaliser[r].at \in {"result", "closing", "done"} => file[r] = finaliser[r].verdict
        /\ finaliser[r].at \in {"summary", "result"} => finaliser[r].verdict = "COMPLETED"
        /\ result[r] <=> finaliser[r].at \in {"closing", "done"} /\ finaliser[r].verdict = "COMPLETED"
        /\ finaliser[r].at # "idle" /\ finaliser[r].verdict = "COMPLETED" => k6[r] = "succeeded"

AllTold == \A r \in Runs : Told(r)

-----------------------------------------------------------------------------
(* What a step does to a run.                                              *)

Same(s) ==
    /\ starter'[s] = starter[s] /\ executor'[s] = executor[s] /\ k6'[s] = k6[s]
    /\ spawned'[s] = spawned[s] /\ finaliser'[s] = finaliser[s]
    /\ file'[s] = file[s] /\ result'[s] = result[s]

\* The steps of a run that do not end the process.
GivesUp(r) ==
    /\ (readsStatus(r) /\ ~Readable(r)) \/ finaliserFails(r)
    /\ finaliser[r].verdict = "FAILED"
Step(r) ==
    \/ startSimulation(r) \/ queueOpens(r) \/ activate(r) \/ startFails(r)
    \/ OtherStarts(r) \/ handleStartSimulation(r)
    \/ readsQueued(r) \/ spawn(r) \/ executionFails(r) \/ catchError(r) \/ catchFails(r)
    \/ spawnReads(r) \/ spawnOpens(r) \/ spawnWrites(r) \/ spawnFails(r) \/ exit(r)
    \/ readsSummary(r) \/ (readsStatus(r) /\ Readable(r)) \/ finalOpens(r) \/ finalWrites(r)
    \/ resultWrites(r) \/ closeLogHandle(r) \/ GivesUp(r)
End == Dies /\ cut \cup Interrupted \subseteq cut' /\ UNCHANGED hurried

LEMMA AtEffect ==
  ASSUME Server, NEW r \in Runs, NEW at, At(r, at)
  PROVE  /\ finaliser'[r].at = at /\ finaliser'[r].verdict = finaliser[r].verdict
         /\ \A s \in Runs : s # r => finaliser'[s] = finaliser[s]
<1>1. finaliser \in [Runs -> FinaliserRow] /\ finaliser[r] \in FinaliserRow
  BY DEF Server
<1>2. finaliser'[r] = [finaliser[r] EXCEPT !.at = at]
  BY <1>1 DEF At
<1>3. \A s \in Runs : s # r => finaliser'[s] = finaliser[s]
  BY <1>1 DEF At
<1> QED
  BY <1>1, <1>2, <1>3 DEF FinaliserRow

LEMMA OnceEffect ==
  ASSUME Server, NEW r \in Runs, NEW verdict, NEW at, finalizeOnce(r, verdict, at)
  PROVE  /\ finaliser[r].at = "idle" =>
              finaliser'[r].at = at /\ finaliser'[r].verdict = verdict
         /\ finaliser[r].at # "idle" => finaliser'[r] = finaliser[r]
         /\ \A s \in Runs : s # r => finaliser'[s] = finaliser[s]
BY DEF Server, finalizeOnce

LEMMA StepIsLocal ==
  ASSUME Types, NEW r \in Runs, Step(r)
  PROVE  /\ \A s \in Runs : s # r => Same(s)
         /\ hurried \subseteq hurried' /\ cut \subseteq cut'
<1> USE DEF Types, Server, Same, NoFault, history, Fault
<1>1. CASE startSimulation(r)
  BY <1>1 DEF startSimulation
<1>2. CASE queueOpens(r)
  BY <1>2 DEF queueOpens
<1>3. CASE activate(r)
  BY <1>3 DEF activate
<1>4. CASE startFails(r)
  BY <1>4 DEF startFails
<1>5. CASE OtherStarts(r)
  BY <1>5 DEF OtherStarts
<1>6. CASE handleStartSimulation(r)
  BY <1>6 DEF handleStartSimulation
<1>7. CASE readsQueued(r)
  BY <1>7 DEF readsQueued
<1>8. CASE spawn(r)
  BY <1>8, OnceEffect DEF spawn
<1>9. CASE executionFails(r)
  BY <1>9 DEF executionFails
<1>10. CASE catchError(r)
  BY <1>10, OnceEffect DEF catchError
<1>11. CASE catchFails(r)
  BY <1>11 DEF catchFails
<1>12. CASE spawnReads(r)
  BY <1>12 DEF spawnReads
<1>13. CASE spawnOpens(r)
  BY <1>13 DEF spawnOpens
<1>14. CASE spawnWrites(r)
  BY <1>14 DEF spawnWrites
<1>15. CASE spawnFails(r)
  BY <1>15 DEF spawnFails
<1>16. CASE exit(r)
  BY <1>16, OnceEffect DEF exit
<1>17. CASE readsSummary(r)
  BY <1>17 DEF readsSummary
<1>18. CASE finalOpens(r)
  BY <1>18, AtEffect DEF finalOpens
<1>19. CASE finalWrites(r)
  BY <1>19, AtEffect DEF finalWrites
<1>20. CASE resultWrites(r)
  BY <1>20, AtEffect DEF resultWrites
<1>21. CASE closeLogHandle(r)
  BY <1>21, AtEffect DEF closeLogHandle
<1>22. CASE readsStatus(r) /\ Readable(r)
  BY <1>22, AtEffect DEF readsStatus
<1>23. CASE GivesUp(r)
  BY <1>23, AtEffect DEF GivesUp, readsStatus, finaliserFails, finaliserGivesUp
<1> QED
  BY <1>1, <1>2, <1>3, <1>4, <1>5, <1>6, <1>7, <1>8, <1>9, <1>10, <1>11, <1>12, <1>13,
     <1>14, <1>15, <1>16, <1>17, <1>18, <1>19, <1>20, <1>21, <1>22, <1>23 DEF Step

\* The order of the pieces of a run, whatever else goes on.
LEMMA PhaseStep ==
  ASSUME Types, NEW r \in Runs, Phase(r), Step(r)
  PROVE  Phase(r)'
<1> USE DEF Types, Server, Phase, Early
<1>1. CASE startSimulation(r)
  BY <1>1 DEF startSimulation
<1>2. CASE queueOpens(r)
  BY <1>2 DEF queueOpens
<1>3. CASE activate(r)
  BY <1>3 DEF activate
<1>4. CASE startFails(r)
  BY <1>4 DEF startFails
<1>5. CASE OtherStarts(r)
  BY <1>5 DEF OtherStarts, MayStart
<1>6. CASE handleStartSimulation(r)
  BY <1>6 DEF handleStartSimulation, MayStart
<1>7. CASE readsQueued(r)
  BY <1>7 DEF readsQueued
<1>8. CASE spawn(r)
  BY <1>8, OnceEffect DEF spawn
<1>9. CASE executionFails(r)
  BY <1>9 DEF executionFails
<1>10. CASE catchError(r)
  BY <1>10, OnceEffect DEF catchError
<1>11. CASE catchFails(r)
  BY <1>11 DEF catchFails
<1>12. CASE spawnReads(r)
  BY <1>12 DEF spawnReads
<1>13. CASE spawnOpens(r)
  BY <1>13 DEF spawnOpens
<1>14. CASE spawnWrites(r)
  BY <1>14 DEF spawnWrites
<1>15. CASE spawnFails(r)
  BY <1>15 DEF spawnFails
<1>16. CASE exit(r)
  BY <1>16, OnceEffect DEF exit
<1>17. CASE readsSummary(r)
  BY <1>17 DEF readsSummary
<1>18. CASE finalOpens(r)
  BY <1>18, AtEffect DEF finalOpens
<1>19. CASE finalWrites(r)
  BY <1>19, AtEffect DEF finalWrites
<1>20. CASE resultWrites(r)
  BY <1>20, AtEffect DEF resultWrites
<1>21. CASE closeLogHandle(r)
  BY <1>21, AtEffect DEF closeLogHandle
<1>22. CASE readsStatus(r) /\ Readable(r)
  BY <1>22, AtEffect DEF readsStatus
<1>23. CASE GivesUp(r)
  BY <1>23, AtEffect DEF GivesUp, readsStatus, finaliserFails, finaliserGivesUp
<1> QED
  BY <1>1, <1>2, <1>3, <1>4, <1>5, <1>6, <1>7, <1>8, <1>9, <1>10, <1>11, <1>12, <1>13,
     <1>14, <1>15, <1>16, <1>17, <1>18, <1>19, <1>20, <1>21, <1>22, <1>23 DEF Step

LEMMA ToldStep ==
  ASSUME Types, NEW r \in Runs, Phase(r), Told(r), Step(r)
  PROVE  Told(r)'
<1> USE DEF Types, Server, Phase, Told, Early, NoFault, history, Fault, Status
<1>1. CASE startSimulation(r)
  BY <1>1 DEF startSimulation
<1>2. CASE queueOpens(r)
  BY <1>2 DEF queueOpens
<1>3. CASE activate(r)
  BY <1>3 DEF activate
<1>4. CASE startFails(r)
  BY <1>4 DEF startFails
<1>5. CASE OtherStarts(r)
  BY <1>5 DEF OtherStarts
<1>6. CASE handleStartSimulation(r)
  BY <1>6 DEF handleStartSimulation
<1>7. CASE readsQueued(r)
  BY <1>7 DEF readsQueued, Readable, Overlay
<1>8. CASE spawn(r)
  BY <1>8, OnceEffect DEF spawn
<1>9. CASE executionFails(r)
  BY <1>9 DEF executionFails
<1>10. CASE catchError(r)
  BY <1>10, OnceEffect DEF catchError
<1>11. CASE catchFails(r)
  BY <1>11 DEF catchFails
<1>12. CASE spawnReads(r)
  BY <1>12 DEF spawnReads, Readable, Overlay
<1>13. CASE spawnOpens(r)
  BY <1>13 DEF spawnOpens
<1>14. CASE spawnWrites(r)
  BY <1>14 DEF spawnWrites, Readable, Overlay
<1>15. CASE spawnFails(r)
  BY <1>15 DEF spawnFails
<1>16. CASE exit(r)
  <2>1. PICK end \in {"succeeded", "failed"} :
          /\ k6' = [k6 EXCEPT ![r] = end]
          /\ finalizeOnce(r, IF end = "succeeded" THEN "COMPLETED" ELSE "FAILED",
                          IF end = "succeeded" THEN "summary" ELSE "reading")
    BY <1>16 DEF exit
  <2>2. /\ k6[r] = "running" /\ finaliser[r].at = "idle"
        /\ UNCHANGED <<file, result, starter, executor, spawned, cut>>
        /\ hurried' = IF spawned[r] = "done" THEN hurried ELSE hurried \cup {r}
    BY <1>16 DEF exit
  <2>3. /\ k6'[r] = end
        /\ finaliser'[r].verdict = IF end = "succeeded" THEN "COMPLETED" ELSE "FAILED"
        /\ finaliser'[r].at = IF end = "succeeded" THEN "summary" ELSE "reading"
    BY <2>1, <2>2, OnceEffect
  <2>4. CASE r \in hurried' \cup cut'
    BY <2>4
  <2>5. CASE r \notin hurried' \cup cut'
    <3>1. spawned[r] = "done" /\ r \notin hurried \cup cut
      BY <2>2, <2>5
    <3> QED
      BY <2>2, <2>3, <3>1
  <2> QED
    BY <2>4, <2>5
<1>17. CASE readsSummary(r)
  BY <1>17 DEF readsSummary
<1>18. CASE finalOpens(r)
  BY <1>18, AtEffect DEF finalOpens
<1>19. CASE finalWrites(r)
  BY <1>19, AtEffect DEF finalWrites, Readable, Overlay
<1>20. CASE resultWrites(r)
  BY <1>20, AtEffect DEF resultWrites
<1>21. CASE closeLogHandle(r)
  BY <1>21, AtEffect DEF closeLogHandle
<1>22. CASE readsStatus(r) /\ Readable(r)
  BY <1>22, AtEffect DEF readsStatus, Readable
<1>23. CASE GivesUp(r)
  BY <1>23, AtEffect DEF GivesUp, readsStatus, finaliserFails, finaliserGivesUp, HitWith
<1> QED
  BY <1>1, <1>2, <1>3, <1>4, <1>5, <1>6, <1>7, <1>8, <1>9, <1>10, <1>11, <1>12, <1>13,
     <1>14, <1>15, <1>16, <1>17, <1>18, <1>19, <1>20, <1>21, <1>22, <1>23 DEF Step

LEMMA OthersStay ==
  ASSUME NEW s \in Runs, Same(s), hurried \subseteq hurried', cut \subseteq cut'
  PROVE  (Phase(s) => Phase(s)') /\ (Told(s) => Told(s)')
BY DEF Same, Phase, Told

\* After the end of the process all that goes on is what was done before.
LEMMA EndEffect ==
  ASSUME Types, Dies, NEW s \in Runs
  PROVE  /\ active' = Unset /\ file'[s] = file[s] /\ result'[s] = result[s]
         /\ starter'[s] = IF starter[s] \in {"idle", "done"} THEN starter[s] ELSE "refused"
         /\ executor'[s] = IF executor[s] = "idle" THEN "idle" ELSE "gone"
         /\ k6'[s] = IF k6[s] = "running" THEN "killed" ELSE k6[s]
         /\ spawned'[s] = IF spawned[s] = "idle" THEN "idle" ELSE "done"
         /\ finaliser[s].at \in {"idle", "done"} => finaliser'[s] = finaliser[s]
         /\ finaliser[s].at \notin {"idle", "done"} =>
              finaliser'[s].at = "gone" /\ finaliser'[s].verdict = finaliser[s].verdict
<1> USE DEF Types, Server, Dies
<1>1. /\ active' = Unset /\ file'[s] = file[s] /\ result'[s] = result[s]
      /\ starter'[s] = IF starter[s] \in {"idle", "done"} THEN starter[s] ELSE "refused"
      /\ executor'[s] = IF executor[s] = "idle" THEN "idle" ELSE "gone"
      /\ k6'[s] = IF k6[s] = "running" THEN "killed" ELSE k6[s]
      /\ spawned'[s] = IF spawned[s] = "idle" THEN "idle" ELSE "done"
  OBVIOUS
<1>2. finaliser'[s] = IF finaliser[s].at \in {"idle", "done"} THEN finaliser[s]
                      ELSE [finaliser[s] EXCEPT !.at = "gone"]
  OBVIOUS
<1>3. finaliser[s] \in FinaliserRow
  OBVIOUS
<1> QED
  BY <1>1, <1>2, <1>3 DEF FinaliserRow

LEMMA EndStep ==
  ASSUME Types, End, NEW s \in Runs, Phase(s), Told(s)
  PROVE  Phase(s)' /\ Told(s)' /\ Slot(s)' /\ starter'[s] \notin {"checked", "writing"}
<1>1. Dies /\ cut \cup Interrupted \subseteq cut' /\ hurried' = hurried
  BY DEF End
<1>2. Phase(s)'
  BY <1>1, EndEffect DEF Phase, Early
<1>3. Slot(s)' /\ starter'[s] \notin {"checked", "writing"}
  BY <1>1, EndEffect DEF Slot, Early, Busy
<1>4. Told(s)'
  <2>1. CASE s \in Interrupted
    BY <1>1, <2>1 DEF Told
  <2>2. CASE s \notin Interrupted /\ finaliser[s].at = "done"
    BY <1>1, <2>2, EndEffect DEF Told, Phase
  <2>3. CASE starter[s] \in {"idle", "refused"}
    BY <1>1, <2>3, EndEffect DEF Told, Phase, Early
  <2> QED
    BY <2>1, <2>2, <2>3 DEF Interrupted
<1> QED
  BY <1>2, <1>3, <1>4

\* A run frees the slot, which is its own.
LEMMA Released ==
  ASSUME Types, Slots, Phases, NEW r \in Runs, active = r, active' = Unset, starter' = starter,
         \A s \in Runs : s # r => Same(s), executor'[r] \notin Early \ {"idle"},
         k6'[r] # "running", finaliser'[r].at \notin Busy
  PROVE  Slots'
<1>1. active # Unset
  BY UnsetIsNothing
<1>2. ASSUME NEW s \in Runs PROVE Slot(s)'
  <2>1. CASE s = r
    BY <2>1 DEF Slot
  <2>2. CASE s # r
    BY <1>1, <2>2 DEF Slots, Slot, Same
  <2> QED
    BY <2>1, <2>2
<1>3. OneStart'
  BY DEF Slots, OneStart
<1> QED
  BY <1>2, <1>3 DEF Slots

LEMMA SlotsStep ==
  ASSUME ~Overlapping, Types, Phases, Slots, NEW r \in Runs, Step(r)
  PROVE  Slots'
<1>1. \A s \in Runs : s # r => Same(s)
  BY StepIsLocal
<1>2. Phase(r) /\ Slot(r) /\ OneStart
  BY DEF Phases, Slots
<1>3. ASSUME active' = active, Slot(r)',
             starter'[r] \in {"checked", "writing"} =>
               \/ starter[r] \in {"checked", "writing"}
               \/ \A s \in Runs \ {r} : starter[s] \notin {"checked", "writing"}
      PROVE  Slots'
  <2>1. ASSUME NEW s \in Runs PROVE Slot(s)'
    BY <1>1, <1>3 DEF Slots, Slot, Same
  <2>2. OneStart'
    BY <1>1, <1>2, <1>3 DEF OneStart, Same
  <2> QED
    BY <2>1, <2>2 DEF Slots
<1>4. CASE activate(r)
  <2>1. active = Unset /\ active' = r /\ starter[r] = "writing" /\ starter'[r] = "done"
    BY <1>2, <1>4 DEF activate, Slot, Types, Server
  <2>2. ASSUME NEW s \in Runs, s # r PROVE Slot(s)'
    <3>1. Slot(s) /\ Same(s) /\ starter[s] \notin {"checked", "writing"} /\ active # s
      BY <1>1, <1>2, <2>1, <2>2 DEF Slots, OneStart
    <3> QED
      BY <2>1, <3>1 DEF Slot, Same
  <2>3. Slot(r)'
    BY <2>1 DEF Slot
  <2>4. OneStart'
    BY <1>1, <1>2, <2>1 DEF OneStart, Same
  <2> QED
    BY <2>2, <2>3, <2>4 DEF Slots
<1>5. CASE catchFails(r)
  <2>1. active = r /\ active' = Unset /\ starter' = starter /\ executor'[r] = "gone"
        /\ k6'[r] # "running" /\ finaliser'[r].at \notin Busy
    BY <1>2, <1>5 DEF catchFails, Slot, Phase, Early, Busy, Types, Server
  <2> QED
    BY <1>1, <2>1, Released DEF Early
<1>6. CASE resultWrites(r) \/ GivesUp(r) \/ (finalWrites(r) /\ finaliser[r].verdict = "FAILED")
  <2>1. finaliser[r].at \in Busy /\ active' = Unset /\ At(r, "closing")
        /\ UNCHANGED <<starter, executor, k6>>
    BY <1>6 DEF resultWrites, GivesUp, finalWrites, readsStatus, finaliserFails, finaliserGivesUp,
       Busy
  <2>2. active = r /\ k6[r] # "running" /\ executor[r] \notin Early \ {"idle"}
    BY <1>2, <2>1 DEF Slot, Phase, Early, Busy
  <2>3. finaliser'[r].at = "closing"
    BY <2>1, AtEffect DEF Types
  <2> QED
    BY <1>1, <2>1, <2>2, <2>3, Released DEF Busy
<1>7. CASE finalWrites(r) /\ finaliser[r].verdict # "FAILED"
  <2>1. finaliser[r].verdict = "COMPLETED"
    BY <1>7 DEF Types, Server, FinaliserRow
  <2>2. finaliser[r].at = "writing" /\ At(r, "result")
        /\ UNCHANGED <<active, starter, executor, k6>>
    BY <1>7, <2>1 DEF finalWrites
  <2>3. finaliser'[r].at = "result"
    BY <2>2, AtEffect DEF Types
  <2> QED
    BY <1>2, <1>3, <2>2, <2>3 DEF Slot, Busy
<1>8. ASSUME startSimulation(r) \/ queueOpens(r) \/ startFails(r) \/ OtherStarts(r)
             \/ handleStartSimulation(r)
      PROVE  Slots'
  <2>1. UNCHANGED <<active, executor, k6, finaliser>>
    BY <1>8 DEF startSimulation, queueOpens, startFails, OtherStarts, handleStartSimulation
  <2>2. starter'[r] \in {"checked", "writing"} =>
          /\ active = Unset
          /\ \/ starter[r] \in {"checked", "writing"}
             \/ \A s \in Runs \ {r} : starter[s] \notin {"checked", "writing"}
    BY <1>2, <1>8 DEF startSimulation, queueOpens, startFails, OtherStarts, handleStartSimulation,
       Alone, Slot, Types, Server
  <2> QED
    BY <1>2, <1>3, <2>1, <2>2 DEF Slot
<1>9. ASSUME UNCHANGED <<active, starter>>, Slot(r)' PROVE Slots'
  BY <1>3, <1>9
<1>10. CASE \/ readsQueued(r) \/ spawn(r) \/ executionFails(r) \/ catchError(r)
            \/ spawnReads(r) \/ spawnOpens(r) \/ spawnWrites(r) \/ spawnFails(r) \/ exit(r)
            \/ readsSummary(r) \/ (readsStatus(r) /\ Readable(r)) \/ finalOpens(r)
            \/ closeLogHandle(r)
  <2> USE <1>2, <1>9 DEF Slot, Phase, Early, Busy, Types, Server
  <2>1. CASE readsQueued(r)
    BY <2>1 DEF readsQueued
  <2>2. CASE spawn(r)
    BY <2>2, OnceEffect DEF spawn
  <2>3. CASE executionFails(r)
    BY <2>3 DEF executionFails
  <2>4. CASE catchError(r)
    BY <2>4, OnceEffect DEF catchError
  <2>5. CASE spawnReads(r)
    BY <2>5 DEF spawnReads
  <2>6. CASE spawnOpens(r)
    BY <2>6 DEF spawnOpens
  <2>7. CASE spawnWrites(r)
    BY <2>7 DEF spawnWrites
  <2>8. CASE spawnFails(r)
    BY <2>8 DEF spawnFails
  <2>9. CASE exit(r)
    BY <2>9, OnceEffect DEF exit
  <2>10. CASE readsSummary(r)
    BY <2>10 DEF readsSummary
  <2>11. CASE finalOpens(r)
    BY <2>11, AtEffect DEF finalOpens
  <2>12. CASE closeLogHandle(r)
    BY <2>12, AtEffect DEF closeLogHandle
  <2>13. CASE readsStatus(r) /\ Readable(r)
    BY <2>13, AtEffect DEF readsStatus
  <2> QED
    BY <1>10, <2>1, <2>2, <2>3, <2>4, <2>5, <2>6, <2>7, <2>8, <2>9, <2>10, <2>11, <2>12, <2>13
<1> QED
  BY <1>4, <1>5, <1>6, <1>7, <1>8, <1>10 DEF Step

-----------------------------------------------------------------------------
(* The theorems.                                                           *)

\* No run does anything.
Still ==
    /\ active' = active /\ \A s \in Runs : Same(s)
    /\ hurried \subseteq hurried' /\ cut \subseteq cut'

LEMMA StepKinds ==
  ASSUME Types, [Next]_vars
  PROVE  (\E r \in Runs : Step(r)) \/ End \/ Still
<1>1. ASSUME NEW r \in Runs, finaliserGivesUp(r), cut' = cut \cup HitWith(r), UNCHANGED hurried,
             finaliser[r].verdict # "FAILED"
      PROVE  End
  BY <1>1 DEF finaliserGivesUp, HitWith, End
<1>2. ASSUME NEW r \in Runs, readsStatus(r) \/ finaliserFails(r) PROVE Step(r) \/ End
  <2>1. CASE readsStatus(r) /\ Readable(r)
    BY <2>1 DEF Step
  <2>2. CASE readsStatus(r) /\ ~Readable(r)
    BY <1>1, <2>2 DEF Step, GivesUp, readsStatus
  <2>3. CASE finaliserFails(r)
    BY <1>1, <2>3 DEF Step, GivesUp, finaliserFails
  <2> QED
    BY <1>2, <2>1, <2>2, <2>3
<1>3. ASSUME NEW r \in Runs, lateOutput(r) PROVE End \/ Still
  <2>1. \/ Dies /\ cut' = cut \cup Interrupted
        \/ UNCHANGED <<active, file, result, starter, executor, k6, spawned, finaliser, cut>>
    BY <1>3, Zenon DEF lateOutput
  <2>2. UNCHANGED hurried
    BY <1>3 DEF lateOutput
  <2> QED
    BY <2>1, <2>2 DEF End, Still, Same
<1>4. ASSUME UNCHANGED server, UNCHANGED <<hurried, cut>> PROVE Still
  BY <1>4 DEF server, Still, Same
<1>5. CASE PageStep \/ startAnswerLost \/ \E i \in DOMAIN polls : fetchFails(i)
  BY <1>4, <1>5 DEF PageStep, startAnswered, pollActive, getActiveSimulation, getSimulationRun,
     fetchActiveSimulation, startAnswerLost, fetchFails, NoFault, history
<1>6. CASE UNCHANGED vars
  BY <1>4, <1>6 DEF vars, history
<1>7. CASE Restart
  BY <1>7 DEF Restart, End
<1>8. ASSUME NEW r \in Runs, RunStep(r) \/ exit(r) \/ RunFault(r) \/ OtherStarts(r)
                             \/ handleStartSimulation(r)
      PROVE  (\E q \in Runs : Step(q)) \/ End \/ Still
  <2>1. CASE lateOutput(r)
    BY <1>3, <2>1
  <2>2. CASE readsStatus(r) \/ finaliserFails(r)
    BY <1>2, <2>2
  <2>3. CASE ~lateOutput(r) /\ ~readsStatus(r) /\ ~finaliserFails(r)
    BY <1>8, <2>3 DEF RunStep, RunFault, Step
  <2> QED
    BY <2>1, <2>2, <2>3
<1> QED
  BY <1>5, <1>6, <1>7, <1>8 DEF Next

LEMMA RunsStep == Types /\ Phases /\ AllTold /\ [Next]_vars => Phases' /\ AllTold'
<1> SUFFICES ASSUME Types, Phases, AllTold, [Next]_vars, NEW s \in Runs PROVE Phase(s)' /\ Told(s)'
  BY DEF Phases, AllTold
<1>1. Phase(s) /\ Told(s)
  BY DEF Phases, AllTold
<1>2. ASSUME NEW r \in Runs, Step(r) PROVE Phase(s)' /\ Told(s)'
  <2>1. CASE s = r
    BY <1>1, <1>2, <2>1, PhaseStep, ToldStep
  <2>2. CASE s # r
    BY <1>1, <1>2, <2>2, StepIsLocal, OthersStay
  <2> QED
    BY <2>1, <2>2
<1>3. CASE End
  BY <1>1, <1>3, EndStep
<1>4. CASE Still
  BY <1>1, <1>4, OthersStay DEF Still
<1> QED
  BY <1>2, <1>3, <1>4, StepKinds

LEMMA SlotsNext ==
  ~Overlapping /\ Types /\ Phases /\ AllTold /\ Slots /\ [Next]_vars => Slots'
<1> SUFFICES ASSUME ~Overlapping, Types, Phases, AllTold, Slots, [Next]_vars PROVE Slots'
  OBVIOUS
<1>1. CASE \E r \in Runs : Step(r)
  BY <1>1, SlotsStep
<1>2. CASE End
  BY <1>2, EndStep DEF Phases, AllTold, Slots, OneStart
<1>3. CASE Still
  BY <1>3 DEF Still, Same, Slots, Slot, OneStart
<1> QED
  BY <1>1, <1>2, <1>3, StepKinds

LEMMA RunsInit == Init => Phases /\ AllTold /\ Slots
BY DEF Init, Phases, Phase, AllTold, Told, Slots, Slot, OneStart, Early, Busy

LEMMA RunsHold == Spec => [](Types /\ Phases /\ AllTold)
BY TypesHold, RunsInit, RunsStep, PTL DEF Spec

LEMMA SlotsHold == ~Overlapping => (Spec => []Slots)
<1> SUFFICES ASSUME ~Overlapping PROVE Spec => []Slots
  OBVIOUS
<1>1. Init => Slots
  BY RunsInit
<1>2. Types /\ Phases /\ AllTold /\ Slots /\ [Next]_vars => Slots'
  BY SlotsNext
<1> QED
  BY <1>1, <1>2, RunsHold, PTL DEF Spec

\* When no two starts overlap, k6 runs for the active simulation only, through every
\* failure of a file operation, every end of the process, and whatever the four
\* pieces of a run are doing (startSimulation, executeSimulation, the handlers of
\* the events, the finalisers).
THEOREM OnlyTheActiveRuns == ~Overlapping => (Spec => []K6RunsForTheActive)
<1> SUFFICES ASSUME ~Overlapping PROVE Spec => []K6RunsForTheActive
  OBVIOUS
<1>1. Slots => K6RunsForTheActive
  BY DEF Slots, Slot, K6RunsForTheActive
<1> QED
  BY <1>1, SlotsHold, PTL

\* When no two starts overlap, one simulation runs at a time, as the page says.
THEOREM OneAtATime == ~Overlapping => (Spec => []OneSimulationAtATime)
<1> SUFFICES ASSUME ~Overlapping PROVE Spec => []OneSimulationAtATime
  OBVIOUS
<1>1. K6RunsForTheActive => OneSimulationAtATime
  BY DEF K6RunsForTheActive, OneSimulationAtATime
<1> QED
  BY <1>1, OnlyTheActiveRuns, PTL

\* A run that is over has the status in its file that its k6 has earned, and a result
\* if it has completed, unless a fault has hit it or k6 ended before the spawn event
\* was handled: two handlers may write the file, each through an empty one. Overlapping
\* starts do not matter here.
THEOREM HistoryIsTrue == Spec => []HistoryTellsTheEnd
<1>1. Types /\ AllTold => HistoryTellsTheEnd
  BY DEF AllTold, Told, HistoryTellsTheEnd, Types, Server, FinaliserRow
<1> QED
  BY <1>1, RunsHold, PTL
=============================================================================
