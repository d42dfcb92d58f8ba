--------------------------- MODULE SimulationRunner ---------------------------
(***************************************************************************)
(* The runner of load tests (simulation.service.ts) and the page that      *)
(* starts and watches them (Simulation.tsx).  The server keeps in memory   *)
(* which simulation is active, and in a file per run its status.  A run    *)
(* goes through a request that starts it, an executor that spawns k6, a    *)
(* handler of the spawn event and a finaliser, which take turns at every   *)
(* await.  A file is truncated when it is opened for writing and filled by *)
(* a later step, and reads may fall in between.  Nothing handles a promise *)
(* that is rejected in an event handler: it ends the process, with k6, and *)
(* the container starts a new one.                                         *)
(***************************************************************************)
EXTENDS Naturals, Sequences, FiniteSets, SequencesExt

CONSTANTS
    Runs,        \* the runs that may be started
    MaxStarts,   \* bound: MaxStarts[b] runs are started, where b: the page is open
    MaxPolls,    \* bound: requests of the page in flight
    MaxFaults,   \* bound: file operations and requests that fail, ends of the process
    Overlapping, \* whether a start may be checked while another is not yet assigned
    Unset

VARIABLES
    active,      \* activeSimulationId
    file,        \* file[r]: the status in the file of r, "empty" while it is written
    result,      \* result[r]: the result file of r is there
    starter,     \* starter[r]: where the request that starts r is
    executor,    \* executor[r]: where executeSimulation is
    k6,          \* k6[r]: the child process
    spawned,     \* spawned[r]: where the handler of the spawn event is
    finaliser,   \* finaliser[r]: where the finaliser is, with its verdict
    log,         \* log[r]: the log file, and whether k6 has output for it
    page,        \* what the page shows
    polls,       \* the requests of the page for the active run, in flight
    faults,      \* how many faults there have been
    hurried,     \* history: the runs whose k6 ended before the spawn event was handled
    cut          \* history: the runs that a fault has hit

server == <<active, file, result, starter, executor, k6, spawned, finaliser, log>>
client == <<page, polls>>
history == <<faults, hurried, cut>>
vars == <<server, client, history>>

Live == {"QUEUED", "RUNNING"}
Final == {"COMPLETED", "FAILED"}

ASSUME BoundsOK == MaxPolls \in Nat \ {0} /\ MaxFaults \in Nat
ASSUME UnsetIsNothing == Unset \notin Runs \cup Live \cup Final

Readable(r) == file[r] \in Live \cup Final

\* What a file holds when one writer fills it after another has: the rest of a
\* longer status remains, and the file is no longer JSON.
Overlay(old, new) == IF old = "empty" \/ new \in Final THEN new ELSE "corrupt"

Fault(r) == /\ faults < MaxFaults
            /\ faults' = faults + 1
            /\ cut' = cut \cup {r}
            /\ UNCHANGED hurried
NoFault == UNCHANGED history

\* The process ends: the memory and the processes go, the files stay.
Dies == /\ active' = Unset
        /\ starter' = [r \in Runs |-> IF starter[r] \in {"idle", "done"} THEN starter[r] ELSE "refused"]
        /\ executor' = [r \in Runs |-> IF executor[r] = "idle" THEN "idle" ELSE "gone"]
        /\ k6' = [r \in Runs |-> IF k6[r] = "running" THEN "killed" ELSE k6[r]]
        /\ spawned' = [r \in Runs |-> IF spawned[r] = "idle" THEN "idle" ELSE "done"]
        /\ finaliser' = [r \in Runs |-> IF finaliser[r].at \in {"idle", "done"} THEN finaliser[r]
                                        ELSE [finaliser[r] EXCEPT !.at = "gone"]]
        /\ log' = [r \in Runs |-> [open |-> FALSE, output |-> FALSE]]
        /\ polls' = [i \in DOMAIN polls |-> IF polls[i].at = "reading"
                                             THEN [polls[i] EXCEPT !.at = "lost"] ELSE polls[i]]
        /\ UNCHANGED <<file, result>>
Interrupted == {r \in Runs : starter[r] \notin {"idle", "refused"} /\ finaliser[r].at # "done"}

-----------------------------------------------------------------------------
(* startSimulation.                                                        *)

Alone(r) == Overlapping \/ \A s \in Runs \ {r} : starter[s] \notin {"checked", "writing"}

\* The request arrives; the one check that no simulation is active.
startSimulation_Unchecked(r) ==         \* mutant: the check is left out
    /\ starter[r] = "sent" /\ Alone(r)
    /\ starter' = [starter EXCEPT ![r] = "checked"]
    /\ UNCHANGED <<active, file, result, executor, k6, spawned, finaliser, log, client>> /\ NoFault
startSimulation(r) ==
    /\ starter[r] = "sent" /\ Alone(r)
    /\ starter' = [starter EXCEPT ![r] = IF active = Unset THEN "checked" ELSE "refused"]
    /\ UNCHANGED <<active, file, result, executor, k6, spawned, finaliser, log, client>> /\ NoFault

\* The folder exists, and the status file is opened ...
queueOpens(r) ==
    /\ starter[r] = "checked"
    /\ starter' = [starter EXCEPT ![r] = "writing"]
    /\ file' = [file EXCEPT ![r] = "empty"]
    /\ UNCHANGED <<active, result, executor, k6, spawned, finaliser, log, client>> /\ NoFault
\* ... filled, and the simulation becomes the active one; its execution begins, and
\* the request is answered.
activate(r) ==
    /\ starter[r] = "writing"
    /\ starter' = [starter EXCEPT ![r] = "done"]
    /\ file' = [file EXCEPT ![r] = "QUEUED"]
    /\ active' = r
    /\ executor' = [executor EXCEPT ![r] = "reading"]
    /\ UNCHANGED <<result, k6, spawned, finaliser, log, client>> /\ NoFault
startFails(r) ==
    /\ starter[r] \in {"checked", "writing"}
    /\ starter' = [starter EXCEPT ![r] = "refused"]
    /\ UNCHANGED <<active, file, result, executor, k6, spawned, finaliser, log, client>> /\ Fault(r)

-----------------------------------------------------------------------------
(* executeSimulation.                                                      *)

\* finalizeOnce: only the first verdict counts.
finalizeOnce(r, verdict, at) ==
    finaliser' = [finaliser EXCEPT ![r] = IF @.at = "idle" THEN [at |-> at, verdict |-> verdict] ELSE @]

readsQueued(r) ==
    /\ executor[r] = "reading"
    /\ executor' = [executor EXCEPT ![r] = IF Readable(r) THEN "opening" ELSE "failing"]
    /\ UNCHANGED <<active, file, result, starter, k6, spawned, finaliser, log, client>> /\ NoFault

\* The script is there and the log is open: k6 is spawned, which succeeds or not.
spawn(r) ==
    /\ executor[r] = "opening"
    /\ executor' = [executor EXCEPT ![r] = "listening"]
    /\ log' = [log EXCEPT ![r].open = TRUE]
    /\ \/ /\ k6' = [k6 EXCEPT ![r] = "running"]
          /\ spawned' = [spawned EXCEPT ![r] = "reading"]
          /\ UNCHANGED finaliser
       \/ /\ k6' = [k6 EXCEPT ![r] = "missing"]          \* the error event
          /\ finalizeOnce(r, "FAILED", "reading")
          /\ UNCHANGED spawned
    /\ UNCHANGED <<active, file, result, starter, client>> /\ NoFault
executionFails(r) ==
    /\ executor[r] \in {"reading", "opening"}
    /\ \/ executor' = [executor EXCEPT ![r] = "failing"] /\ UNCHANGED log
       \/ /\ executor[r] = "opening"                     \* spawn throws: the log is open
          /\ executor' = [executor EXCEPT ![r] = "logging"]
          /\ log' = [log EXCEPT ![r].open = TRUE]
    /\ UNCHANGED <<active, file, result, starter, k6, spawned, finaliser, client>> /\ Fault(r)

\* The catch block writes the error to the log, if it is open, and finalises.
catchError(r) ==
    /\ executor[r] \in {"logging", "failing"}
    /\ executor' = [executor EXCEPT ![r] = "listening"]
    /\ finalizeOnce(r, "FAILED", "reading")
    /\ UNCHANGED <<active, file, result, starter, k6, spawned, log, client>> /\ NoFault
\* If even that fails, startSimulation's own handler frees the slot.
catchFails(r) ==
    /\ executor[r] = "logging"
    /\ executor' = [executor EXCEPT ![r] = "gone"]
    /\ active' = Unset
    /\ UNCHANGED <<file, result, starter, k6, spawned, finaliser, log, client>> /\ Fault(r)

\* The handler of the spawn event: read, change, write.
spawnReads(r) ==
    /\ spawned[r] = "reading"
    /\ spawned' = [spawned EXCEPT ![r] = IF Readable(r) THEN "read" ELSE "done"]
    /\ UNCHANGED <<active, file, result, starter, executor, k6, finaliser, log, client>> /\ NoFault
spawnOpens(r) ==
    /\ spawned[r] = "read"
    /\ spawned' = [spawned EXCEPT ![r] = "writing"]
    /\ file' = [file EXCEPT ![r] = "empty"]
    /\ UNCHANGED <<active, result, starter, executor, k6, finaliser, log, client>> /\ NoFault
spawnWrites(r) ==
    /\ spawned[r] = "writing"
    /\ spawned' = [spawned EXCEPT ![r] = "done"]
    /\ file' = [file EXCEPT ![r] = Overlay(@, "RUNNING")]
    /\ UNCHANGED <<active, result, starter, executor, k6, finaliser, log, client>> /\ NoFault
spawnFails(r) ==
    /\ spawned[r] \in {"reading", "read", "writing"}
    /\ spawned' = [spawned EXCEPT ![r] = "done"]
    /\ UNCHANGED <<active, file, result, starter, executor, k6, finaliser, log, client>> /\ Fault(r)

exit_IgnoresCode(r) ==                  \* mutant: the exit code is not looked at
    /\ k6[r] = "running"
    /\ \E end \in {"succeeded", "failed"} : k6' = [k6 EXCEPT ![r] = end]
    /\ finalizeOnce(r, "COMPLETED", "summary")
    /\ hurried' = IF spawned[r] = "done" THEN hurried ELSE hurried \cup {r}
    /\ UNCHANGED <<active, file, result, starter, executor, spawned, log, client, faults, cut>>
\* k6 exits, with code 0 or not; its last output may still be in the pipes.
exit(r) ==
    /\ k6[r] = "running"
    /\ \E end \in {"succeeded", "failed"} :
         /\ k6' = [k6 EXCEPT ![r] = end]
         /\ finalizeOnce(r, IF end = "succeeded" THEN "COMPLETED" ELSE "FAILED",
                         IF end = "succeeded" THEN "summary" ELSE "reading")
    /\ \E late \in BOOLEAN : log' = [log EXCEPT ![r].output = late]
    /\ hurried' = IF spawned[r] = "done" THEN hurried ELSE hurried \cup {r}
    /\ UNCHANGED <<active, file, result, starter, executor, spawned, client, faults, cut>>

\* Output is written to the log; when the log is closed, the promise is rejected.
lateOutput(r) ==
    /\ log[r].output
    /\ IF log[r].open
       THEN /\ log' = [log EXCEPT ![r].output = FALSE]
            /\ UNCHANGED <<active, file, result, starter, executor, k6, spawned, finaliser, polls, cut>>
       ELSE Dies /\ cut' = cut \cup Interrupted
    /\ UNCHANGED <<page, faults, hurried>>

-----------------------------------------------------------------------------
(* finalizeSimulation and finalizeFailedSimulation.                        *)

At(r, at) == finaliser' = [finaliser EXCEPT ![r].at = at]

\* The summary of k6 is read; without one the run has failed.
readsSummary(r) ==
    /\ finaliser[r].at = "summary"
    /\ \E verdict \in Final :
         finaliser' = [finaliser EXCEPT ![r] = [at |-> "reading", verdict |-> verdict]]
    /\ UNCHANGED <<active, file, result, starter, executor, k6, spawned, log, client>> /\ NoFault

\* An error is swallowed when the verdict is FAILED, and ends the process otherwise.
finaliserGivesUp_KeepsSlot(r) ==        \* mutant: the slot is freed on success only
    IF finaliser[r].verdict = "FAILED"
    THEN /\ At(r, "closing")
         /\ UNCHANGED <<active, file, result, starter, executor, k6, spawned, log, polls>>
    ELSE Dies
finaliserGivesUp(r) ==
    IF finaliser[r].verdict = "FAILED"
    THEN /\ active' = Unset
         /\ At(r, "closing")
         /\ UNCHANGED <<file, result, starter, executor, k6, spawned, log, polls>>
    ELSE Dies

HitWith(r) == IF finaliser[r].verdict = "FAILED" THEN {r} ELSE Interrupted

readsStatus(r) ==
    /\ finaliser[r].at = "reading"
    /\ IF Readable(r)
       THEN /\ At(r, "opening")
            /\ UNCHANGED <<active, file, result, starter, executor, k6, spawned, log, polls, cut>>
       ELSE finaliserGivesUp(r) /\ cut' = cut \cup HitWith(r)
    /\ UNCHANGED <<page, faults, hurried>>
finalOpens(r) ==
    /\ finaliser[r].at = "opening"
    /\ At(r, "writing")
    /\ file' = [file EXCEPT ![r] = "empty"]
    /\ UNCHANGED <<active, result, starter, executor, k6, spawned, log, client>> /\ NoFault
finalWrites(r) ==
    /\ finaliser[r].at = "writing"
    /\ file' = [file EXCEPT ![r] = Overlay(@, finaliser[r].verdict)]
    /\ IF finaliser[r].verdict = "COMPLETED"
       THEN At(r, "result") /\ UNCHANGED active
       ELSE At(r, "closing") /\ active' = Unset
    /\ UNCHANGED <<result, starter, executor, k6, spawned, log, client>> /\ NoFault
\* The result is written only after the status, and frees the slot.
resultWrites(r) ==
    /\ finaliser[r].at = "result"
    /\ result' = [result EXCEPT ![r] = TRUE]
    /\ active' = Unset
    /\ At(r, "closing")
    /\ UNCHANGED <<file, starter, executor, k6, spawned, log, client>> /\ NoFault
finaliserFails(r) ==
    /\ finaliser[r].at \in {"reading", "opening", "writing", "result"}
    /\ finaliserGivesUp(r)
    /\ faults < MaxFaults /\ faults' = faults + 1
    /\ cut' = cut \cup HitWith(r)
    /\ UNCHANGED <<page, hurried>>
closeLogHandle(r) ==
    /\ finaliser[r].at = "closing"
    /\ At(r, "done")
    /\ log' = [log EXCEPT ![r].open = FALSE]
    /\ UNCHANGED <<active, file, result, starter, executor, k6, spawned, client>> /\ NoFault

\* The process is ended from outside.
Restart == /\ faults < MaxFaults /\ faults' = faults + 1
           /\ Dies /\ cut' = cut \cup Interrupted
           /\ UNCHANGED <<page, hurried>>

-----------------------------------------------------------------------------
(* The page Simulation.tsx, and other administrators.                      *)

Watching == page.run # Unset /\ page.run.status \in Live
NewPoll == [at |-> "sent", run |-> Unset, status |-> Unset]

MayStart(r) == starter[r] = "idle"
               /\ Cardinality({s \in Runs : starter[s] # "idle"}) < MaxStarts[page.open]

\* Another administrator's page starts a run.
OtherStarts(r) ==
    /\ MayStart(r)
    /\ starter' = [starter EXCEPT ![r] = "sent"]
    /\ UNCHANGED <<active, file, result, executor, k6, spawned, finaliser, log, client>> /\ NoFault

\* The button is disabled while a run is shown, a start or the first answer awaited.
handleStartSimulation(r) ==
    /\ page.run = Unset /\ page.starting = Unset /\ ~page.checkingActive
    /\ page.open /\ MayStart(r)
    /\ starter' = [starter EXCEPT ![r] = "sent"]
    /\ page' = [page EXCEPT !.starting = r, !.error = FALSE]
    /\ UNCHANGED <<active, file, result, executor, k6, spawned, finaliser, log, polls>> /\ NoFault
startAnswered ==
    /\ page.starting # Unset /\ starter[page.starting] \in {"done", "refused"}
    /\ page' = IF starter[page.starting] = "done"
               THEN [page EXCEPT !.starting = Unset,
                                 !.run = [id |-> page.starting, status |-> "QUEUED"]]
               ELSE [page EXCEPT !.starting = Unset, !.error = TRUE]
    /\ UNCHANGED <<server, polls>> /\ NoFault
startAnswerLost ==
    /\ page.starting # Unset
    /\ page' = [page EXCEPT !.starting = Unset, !.error = TRUE]
    /\ UNCHANGED <<server, polls>> /\ faults < MaxFaults /\ faults' = faults + 1
    /\ UNCHANGED <<hurried, cut>>

\* The interval runs while the page shows a run that has not ended.
pollActive_Running ==                   \* mutant: a queued run is not polled
    /\ Watching /\ page.run.status = "RUNNING" /\ Len(polls) < MaxPolls
    /\ polls' = Append(polls, NewPoll)
    /\ UNCHANGED <<server, page>> /\ NoFault
pollActive ==
    /\ Watching /\ Len(polls) < MaxPolls
    /\ polls' = Append(polls, NewPoll)
    /\ UNCHANGED <<server, page>> /\ NoFault

\* getActiveSimulationController reads the memory, then the file: no run is active
\* if it cannot be read, or its status is final.
getActiveSimulation(i) ==
    /\ polls[i].at = "sent"
    /\ polls' = [polls EXCEPT ![i] = IF active = Unset THEN [@ EXCEPT !.at = "answered"]
                                     ELSE [@ EXCEPT !.at = "reading", !.run = active]]
    /\ UNCHANGED <<server, page>> /\ NoFault
getSimulationRun(i) ==
    /\ polls[i].at = "reading"
    /\ polls' = [polls EXCEPT ![i] = [at |-> "answered", run |-> polls[i].run,
                                      status |-> file[polls[i].run]]]
    /\ UNCHANGED <<server, page>> /\ NoFault
fetchActiveSimulation_Any(i) ==         \* mutant: the run is shown, active or not
    /\ polls[i].at = "answered"
    /\ page' = [page EXCEPT !.checkingActive = FALSE,
                            !.run = IF polls[i].run = Unset THEN Unset
                                    ELSE [id |-> polls[i].run, status |-> polls[i].status]]
    /\ polls' = RemoveAt(polls, i)
    /\ UNCHANGED server /\ NoFault
fetchActiveSimulation(i) ==
    /\ polls[i].at = "answered"
    /\ page' = [page EXCEPT !.checkingActive = FALSE,
                            !.run = IF polls[i].status \in Live
                                    THEN [id |-> polls[i].run, status |-> polls[i].status]
                                    ELSE Unset]
    /\ polls' = RemoveAt(polls, i)
    /\ UNCHANGED server /\ NoFault
fetchFails(i) ==
    /\ page' = [page EXCEPT !.checkingActive = FALSE]
    /\ polls' = RemoveAt(polls, i)
    /\ IF polls[i].at = "lost" THEN UNCHANGED faults
       ELSE faults < MaxFaults /\ faults' = faults + 1
    /\ UNCHANGED <<server, hurried, cut>>

-----------------------------------------------------------------------------
Init ==
    /\ active = Unset
    /\ file = [r \in Runs |-> Unset] /\ result = [r \in Runs |-> FALSE]
    /\ starter = [r \in Runs |-> "idle"] /\ executor = [r \in Runs |-> "idle"]
    /\ k6 = [r \in Runs |-> "none"] /\ spawned = [r \in Runs |-> "idle"]
    /\ finaliser = [r \in Runs |-> [at |-> "idle", verdict |-> "FAILED"]]
    /\ log = [r \in Runs |-> [open |-> FALSE, output |-> FALSE]]
    /\ \E open \in BOOLEAN :
         /\ page = [open |-> open, run |-> Unset, starting |-> Unset, checkingActive |-> open,
                    error |-> FALSE]
         /\ polls = IF open THEN <<NewPoll>> ELSE <<>>
    /\ faults = 0 /\ hurried = {} /\ cut = {}

\* What goes on by itself once a run was asked for.
RunStep(r) ==
    \/ startSimulation(r) \/ queueOpens(r) \/ activate(r)
    \/ readsQueued(r) \/ spawn(r) \/ catchError(r)
    \/ spawnReads(r) \/ spawnOpens(r) \/ spawnWrites(r)
    \/ lateOutput(r)
    \/ readsSummary(r) \/ readsStatus(r) \/ finalOpens(r) \/ finalWrites(r) \/ resultWrites(r)
    \/ closeLogHandle(r)
RunFault(r) == startFails(r) \/ executionFails(r) \/ catchFails(r) \/ spawnFails(r) \/ finaliserFails(r)
PageStep == \/ startAnswered \/ pollActive
            \/ \E i \in DOMAIN polls :
                 getActiveSimulation(i) \/ getSimulationRun(i) \/ fetchActiveSimulation(i)

Next ==
    \/ \E r \in Runs : RunStep(r) \/ exit(r) \/ RunFault(r) \/ OtherStarts(r)
                       \/ handleStartSimulation(r)
    \/ PageStep \/ startAnswerLost \/ \E i \in DOMAIN polls : fetchFails(i)
    \/ Restart

Spec == Init /\ [][Next]_vars

\* Each pending file operation and event gets its turn, k6 runs for a bounded time,
\* and the timer of the page goes off.
Poll(i) == i \in DOMAIN polls /\ (   getActiveSimulation(i) \/ getSimulationRun(i) \/ fetchActiveSimulation(i)
                                 \/ (polls[i].at = "lost" /\ fetchFails(i)))
Fairness ==
    /\ \A r \in Runs :
         /\ WF_vars(startSimulation(r) \/ queueOpens(r) \/ activate(r))
         /\ WF_vars(readsQueued(r) \/ spawn(r) \/ catchError(r))
         /\ WF_vars(spawnReads(r) \/ spawnOpens(r) \/ spawnWrites(r))
         /\ WF_vars(exit(r))
         /\ WF_vars(readsSummary(r) \/ readsStatus(r) \/ finalOpens(r) \/ finalWrites(r)
                    \/ resultWrites(r) \/ closeLogHandle(r))
    /\ WF_vars(startAnswered) /\ WF_vars(pollActive)
    /\ \A i \in 1..MaxPolls : WF_vars(Poll(i))
FairSpec == Spec /\ Fairness

-----------------------------------------------------------------------------
(* Properties.                                                             *)

TypeOK ==
    /\ active \in Runs \cup {Unset}
    /\ file \in [Runs -> Live \cup Final \cup {Unset, "empty", "corrupt"}]
    /\ result \in [Runs -> BOOLEAN]
    /\ starter \in [Runs -> {"idle", "sent", "checked", "writing", "done", "refused"}]
    /\ executor \in [Runs -> {"idle", "reading", "opening", "logging", "failing", "listening", "gone"}]
    /\ k6 \in [Runs -> {"none", "running", "missing", "succeeded", "failed", "killed"}]
    /\ spawned \in [Runs -> {"idle", "reading", "read", "writing", "done"}]
    /\ finaliser \in [Runs -> [at : {"idle", "summary", "reading", "opening", "writing", "result",
                                     "closing", "done", "gone"}, verdict : Final]]
    /\ log \in [Runs -> [open : BOOLEAN, output : BOOLEAN]]
    /\ page.run = Unset \/ (page.run.id \in Runs /\ page.run.status \in Live)
    /\ page.starting \in Runs \cup {Unset}
    /\ Len(polls) <= MaxPolls
    /\ faults \in 0..MaxFaults
    /\ hurried \subseteq Runs /\ cut \subseteq Runs

\* What the page says while a simulation runs: "You cannot start another simulation
\* while this one is running."
OneSimulationAtATime == \A r, s \in Runs : k6[r] = "running" /\ k6[s] = "running" => r = s

\* It is true when the requests of two starts do not overlap: k6 then runs for the
\* active simulation only, through every failure and restart.
K6RunsForTheActive == \A r \in Runs : k6[r] = "running" => active = r

\* When a run is over, its file has the status that its k6 has earned, and the result
\* of a completed run is there: unless a fault hit the run, or k6 ended before the
\* spawn event was handled.
HistoryTellsTheEnd ==
    \A r \in Runs :
        finaliser[r].at = "done" /\ r \notin hurried \cup cut =>
            /\ file[r] = finaliser[r].verdict
            /\ file[r] = "COMPLETED" <=> result[r]
            /\ file[r] = "COMPLETED" => k6[r] = "succeeded"

\* Whatever fails, a simulation does not stay the active one for ever, which would
\* refuse every start to come.
SlotIsReleased == \A r \in Runs : (active = r) ~> (active # r)

\* A page that shows a run as going on learns that it is over.
PageLearnsTheEnd == \A r \in Runs : (Watching /\ page.run.id = r) ~> ~(Watching /\ page.run.id = r)
=============================================================================
