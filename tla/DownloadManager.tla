--------------------------- MODULE DownloadManager ---------------------------
(***************************************************************************)
(* The life of every download of the application: DownloadManager          *)
(* (core/downloads/manager.py) with the engine's table of tasks            *)
(* (MagnetoCore in engine/downloader/engine.py) and the pause switch       *)
(* (PauseController).                                                      *)
(*                                                                         *)
(* A download is a row of the database, whose status the user interface    *)
(* shows, and, while it is at work, an asyncio task, here a job.  A job    *)
(* waits for a permit of a semaphore, runs the engine, and records the     *)
(* result in the row.  The status column and the engine's state are two    *)
(* copies of one fact, kept together by events and by the manager's own    *)
(* writes.  What the engine does inside one download is DownloadTask; here *)
(* it is the sequence of states that it reports.                           *)
(***************************************************************************)
EXTENDS PauseController, Sequences, FiniteSets

CONSTANTS
    Downloads,    \* the downloads there may be
    NoJob,        \* no task
    Limits,       \* values of downloads.simultaneous the user may choose
    MaxSems,      \* bound on the semaphores created in one process
    EngineRaises, \* whether DownloadTask.run may raise
    Restarts      \* the ways the process may end: "quit", "crash"

Jobs == Downloads \X {1, 2}
Sems == 1 .. MaxSems
Of(j) == j[1]

ASSUME ManagerAssumption == /\ NoJob \notin Jobs
                            /\ Limits \subseteq Nat \ {0} /\ Limits # {}
                            /\ MaxSems \in Nat \ {0}
                            /\ EngineRaises \in BOOLEAN
                            /\ Restarts \subseteq {"quit", "crash"}

VARIABLES
    row,      \* status column of each download, "new" before it is added
    jobs,     \* the tasks, see JobState
    table,    \* _tasks: the task of each download
    core,     \* MagnetoCore._tasks: the task whose engine runs
    limit,    \* downloads.simultaneous
    sem,      \* the index of the current semaphore
    size,     \* what each semaphore was created with
    free,     \* its permits
    waiters,  \* of each, the jobs in line for a permit, in the order they came
    switched, \* _paused_by_switch
    redo      \* restart(): "no", "waits" for the old task, or "ready"

semVars  == <<limit, sem, size, free, waiters>>
userVars == <<switched, redo>>
vars == <<row, jobs, table, core, semVars, userVars, pauseVars>>

Active == {"connecting", "downloading", "verifying"}
Parked == {"paused", "queued", "scheduled"}
Ended  == {"completed", "failed", "stopped", "verification_failed"}
Known  == Active \union Parked \union Ended
Status == Known \union {"new", "removed"}

(* phase is where the task is, state what its engine reports, running and  *)
(* cancel are the engine's events, sem the semaphore whose permit it has   *)
(* or waits for.                                                           *)
Engine   == {"probe", "pool", "assemble", "verify", "ends"}
Phases   == {"free", "created", "waits", "granted", "over"} \union Engine
JobState == [phase : Phases,
             state : {"queued"} \union (Known \ {"scheduled"}),
             running : BOOLEAN, cancel : BOOLEAN, sem : Sems]
Idle == [phase |-> "free", state |-> "queued", running |-> TRUE,
         cancel |-> FALSE, sem |-> 1]

(* The engine looks at its events only until the transfer is over.         *)
Listens(j) == j.phase \in {"probe", "pool"}
Deaf(j, phase, state) == [Idle EXCEPT !.phase = phase, !.state = state,
                                      !.sem = j.sem]

Processing == {j \in Jobs : jobs[j].phase \in Engine}

(* A write to the row of a download, if there still is one.                *)
Write(d, s) == IF row[d] \in Known THEN [row EXCEPT ![d] = s] ELSE row

(* What a new process has in memory.                                       *)
NoJobs     == [j \in Jobs |-> Idle]
NoTasks    == [d \in Downloads |-> NoJob]
NoRestarts == [d \in Downloads |-> "no"]
NewSems    == [g \in Sems |-> limit]
NobodyIn   == [g \in Sems |-> <<>>]

Init == /\ row = [d \in Downloads |-> "new"]
        /\ jobs = NoJobs /\ table = NoTasks /\ core = NoTasks
        /\ limit \in Limits
        /\ sem = 1 /\ size = NewSems /\ free = NewSems /\ waiters = NobodyIn
        /\ switched = {} /\ redo = NoRestarts
        /\ PauseInit

----------------------------------------------------------------------------
(* Starting a task.                                                        *)

(* start refuses a download that is at work, or complete.                  *)
NoTaskCheck(d) == row[d] \in (Parked \union Ended) \ {"completed"}
Startable(d)   == NoTaskCheck(d) /\ table[d] = NoJob

NewJob(d) == CHOOSE j \in Jobs : Of(j) = d /\ jobs[j].phase = "free"

(* start and resume, for the downloads of a set: those whose engine runs   *)
(* are released, for the others a task is created if start allows it.  The *)
(* row of a new task becomes scheduled, unless it was parked or a sidecar  *)
(* of an earlier run is found.                                             *)
Released(j) ==
    IF Listens(j)
    THEN [j EXCEPT !.running = TRUE,
                   !.state = IF @ = "paused" THEN "downloading" ELSE @]
    ELSE j

Launch(new, held, sidecars) ==
    /\ jobs' = [j \in Jobs |->
                  IF Of(j) \in new /\ j = NewJob(Of(j))
                  THEN [Idle EXCEPT !.phase = "created"]
                  ELSE IF Of(j) \in held /\ j = core[Of(j)]
                  THEN Released(jobs[j]) ELSE jobs[j]]
    /\ table' = [d \in Downloads |-> IF d \in new THEN NewJob(d) ELSE table[d]]
    /\ row' = [d \in Downloads |->
                 IF d \in held /\ row[d] \in Known THEN "downloading"
                 ELSE IF d \in new /\ row[d] \in Ended /\ d \notin sidecars
                 THEN "scheduled" ELSE row[d]]

ResumeAll(ds) ==
    LET held == {d \in ds : core[d] # NoJob}
        new  == {d \in ds \ held : Startable(d)}
    IN  \E sidecars \in SUBSET new : Launch(new, held, sidecars)

(* add and start.                                                          *)
Add(d) ==
    /\ row[d] = "new"
    /\ row' = [row EXCEPT ![d] = "queued"]
    /\ UNCHANGED <<jobs, table, core, semVars, userVars, pauseVars>>

Start(d) ==
    /\ Startable(d)
    /\ \E sidecars \in SUBSET {d} : Launch({d}, {}, sidecars)
    /\ UNCHANGED <<core, semVars, switched, redo, pauseVars>>

Resume(d) ==
    /\ row[d] \in Known
    /\ ResumeAll({d})
    /\ UNCHANGED <<core, semVars, switched, redo, pauseVars>>

----------------------------------------------------------------------------
(* Pausing and stopping.                                                   *)

(* DownloadTask.pause has an effect while the engine connects or downloads.*)
Held(j) == IF Listens(j) /\ j.state # "paused"
           THEN [j EXCEPT !.running = FALSE, !.state = "paused"] ELSE j

PauseAll(ds) ==
    /\ jobs' = [j \in Jobs |-> IF Of(j) \in ds /\ j = core[Of(j)]
                               THEN Held(jobs[j]) ELSE jobs[j]]
    /\ row' = [d \in Downloads |-> IF d \in ds /\ row[d] \in Known
                                   THEN "paused" ELSE row[d]]

Pause(d) ==
    /\ row[d] \in Known
    /\ PauseAll({d})
    /\ UNCHANGED <<table, core, semVars, userVars, pauseVars>>

(* MagnetoCore.cancel: nothing happens to a task that waits for a permit.  *)
Stopping(d) ==
    jobs' = [j \in Jobs |-> IF j = core[d] /\ Listens(jobs[j])
                            THEN [jobs[j] EXCEPT !.cancel = TRUE,
                                                 !.running = TRUE]
                            ELSE jobs[j]]

Cancel(d) ==
    /\ row[d] \in Known
    /\ Stopping(d)
    /\ UNCHANGED <<row, table, core, semVars, userVars, pauseVars>>

(* The part files go and the row with them; the task finds out by itself.  *)
Remove(d) ==
    /\ row[d] \in Known
    /\ Stopping(d)
    /\ row' = [row EXCEPT ![d] = "removed"]
    /\ UNCHANGED <<table, core, semVars, userVars, pauseVars>>

(* restart: the row is reset and the download started afresh, at once or,  *)
(* when it has a task, after that one was stopped and has ended.           *)
Again(d) ==
    IF row[d] \in Known /\ table[d] = NoJob
    THEN /\ jobs' = [jobs EXCEPT ![NewJob(d)].phase = "created"]
         /\ table' = [table EXCEPT ![d] = NewJob(d)]
         /\ row' = [row EXCEPT ![d] = "queued"]
    ELSE /\ row' = Write(d, "queued")
         /\ UNCHANGED <<jobs, table>>

Restart(d) ==
    /\ row[d] \in Known /\ redo[d] = "no"
    /\ IF table[d] = NoJob
       THEN Again(d) /\ UNCHANGED redo
       ELSE /\ Stopping(d)
            /\ redo' = [redo EXCEPT ![d] = "waits"]
            /\ UNCHANGED <<row, table>>
    /\ UNCHANGED <<core, semVars, switched, pauseVars>>

RestartEnds(d) ==
    /\ redo[d] = "ready"
    /\ redo' = [redo EXCEPT ![d] = "no"]
    /\ Again(d)
    /\ UNCHANGED <<core, semVars, switched, pauseVars>>

----------------------------------------------------------------------------
(* A task, from its first step to its last.                                *)

(* With a permit in hand the engine is submitted and reports "connecting". *)
Entered(j, g) == [jobs EXCEPT ![j] = [Idle EXCEPT !.phase = "probe",
                                                  !.state = "connecting",
                                                  !.sem = g]]
Submitted(j) == /\ core' = [core EXCEPT ![Of(j)] = j]
                /\ row' = Write(Of(j), "connecting")

(* The task takes a permit of the semaphore there is when it first runs,   *)
(* or waits for one in line.                                               *)
FirstStep(j) ==
    /\ jobs[j].phase = "created"
    /\ IF free[sem] > 0
       THEN /\ free' = [free EXCEPT ![sem] = @ - 1]
            /\ jobs' = Entered(j, sem)
            /\ Submitted(j)
            /\ UNCHANGED waiters
       ELSE /\ waiters' = [waiters EXCEPT ![sem] = Append(@, j)]
            /\ jobs' = [jobs EXCEPT ![j].phase = "waits", ![j].sem = sem]
            /\ UNCHANGED <<row, core, free>>
    /\ UNCHANGED <<table, limit, sem, size, userVars, pauseVars>>

Enter(j) ==
    /\ jobs[j].phase = "granted"
    /\ jobs' = Entered(j, jobs[j].sem)
    /\ Submitted(j)
    /\ UNCHANGED <<table, semVars, userVars, pauseVars>>

(* A task lets its permit go: to the first in line for that semaphore, or  *)
(* back to it.                                                             *)
Nobody(g) == {}
Heir(g)   == IF waiters[g] = <<>> THEN {} ELSE {Head(waiters[g])}

GivenTwice(g, heir) == free[g] + 1
Permits(g, heir)    == IF heir = {} THEN free[g] + 1 ELSE free[g]

Leaves(j) ==
    LET g == jobs[j].sem
        heir == Heir(g)
    IN  /\ free' = [free EXCEPT ![g] = Permits(g, heir)]
        /\ waiters' = [waiters EXCEPT ![g] = IF heir = {} THEN @ ELSE Tail(@)]
        /\ jobs' = [k \in Jobs |->
                      IF k = j THEN [jobs[k] EXCEPT !.phase = "over"]
                      ELSE IF k \in heir
                      THEN [jobs[k] EXCEPT !.phase = "granted"] ELSE jobs[k]]
        /\ core' = [core EXCEPT ![Of(j)] = NoJob]
        /\ UNCHANGED <<table, limit, sem, size, pauseVars>>

(* The engine waits for the network or a thread; a restart that is ready   *)
(* to go on is run before.                                                 *)
Engaged(j, phases) == jobs[j].phase \in phases /\ redo[Of(j)] # "ready"

Goes(j, job) ==
    /\ jobs' = [jobs EXCEPT ![j] = job]
    /\ UNCHANGED <<table, core, semVars, userVars, pauseVars>>

(* The probe succeeds: a pause that came meanwhile is reported again.      *)
AlwaysDownloading(running) == "downloading"
Settled(running) == IF running THEN "downloading" ELSE "paused"

Probed(j) ==
    /\ Engaged(j, {"probe"})
    /\ Goes(j, [jobs[j] EXCEPT !.phase = "pool",
                               !.state = Settled(jobs[j].running)])
    /\ row' = Write(Of(j), Settled(jobs[j].running))

Transferred(j) ==
    /\ Engaged(j, {"pool"})
    /\ Goes(j, Deaf(jobs[j], "assemble", "downloading"))
    /\ UNCHANGED row

(* A server that turns out to ignore ranges is asked once more for the     *)
(* whole file, probed again if its size is unknown.                        *)
FallsBack(j) ==
    /\ Engaged(j, {"pool"})
    /\ Goes(j, [jobs[j] EXCEPT !.phase = "probe", !.state = "connecting"])
    /\ row' = Write(Of(j), "connecting")

Aborts(j) ==
    /\ Engaged(j, {"pool"}) /\ jobs[j].cancel
    /\ Goes(j, Deaf(jobs[j], "ends", "stopped"))
    /\ UNCHANGED row

Fails(j) ==
    /\ Engaged(j, Engine \ {"ends"})
    /\ Goes(j, Deaf(jobs[j], "ends", "failed"))
    /\ UNCHANGED row

Assembled(j) ==
    /\ Engaged(j, {"assemble"})
    /\ \/ Goes(j, Deaf(jobs[j], "ends", "completed")) /\ UNCHANGED row
       \/ /\ Goes(j, Deaf(jobs[j], "verify", "verifying"))
          /\ row' = Write(Of(j), "verifying")

Verified(j) ==
    /\ Engaged(j, {"verify"})
    /\ \E s \in {"completed", "verification_failed"} :
          Goes(j, Deaf(jobs[j], "ends", s))
    /\ UNCHANGED row

(* _finalize records what the engine returned.                             *)
IgnoresStop(d, state) == IF state = "stopped" THEN row ELSE Write(d, state)
Recorded(d, state)    == Write(d, state)

Finalize(j) ==
    /\ Engaged(j, {"ends"})
    /\ row' = Recorded(Of(j), jobs[j].state)
    /\ Leaves(j)
    /\ UNCHANGED userVars

(* An exception leaves DownloadTask.run, which catches none of what the    *)
(* run after a fallback raises: the row stays as it is.                    *)
Raises(j) ==
    /\ EngineRaises /\ Engaged(j, Engine \ {"ends"})
    /\ Leaves(j)
    /\ UNCHANGED <<row, userVars>>

(* The done callback; a restart that waited for the task is woken.         *)
Forget(j) ==
    /\ jobs[j].phase = "over"
    /\ jobs' = [jobs EXCEPT ![j] = Idle]
    /\ table' = [table EXCEPT ![Of(j)] = NoJob]
    /\ redo' = [redo EXCEPT ![Of(j)] = IF @ = "waits" THEN "ready" ELSE @]
    /\ UNCHANGED <<row, core, semVars, switched, pauseVars>>

EngineNext(j) ==
    \/ FirstStep(j) \/ Enter(j) \/ Probed(j) \/ Transferred(j)
    \/ FallsBack(j) \/ Aborts(j) \/ Fails(j) \/ Assembled(j) \/ Verified(j)
    \/ Finalize(j) \/ Raises(j) \/ Forget(j)

----------------------------------------------------------------------------
(* The pause switch; every change of it is an event the manager handles.   *)

PausedByEvent ==
    LET ds == {d \in Downloads : row[d] \in Active \union (Parked \ {"paused"})}
    IN  /\ switched' = switched \union ds
        /\ PauseAll(ds)
        /\ UNCHANGED <<table, core, semVars, redo>>
ResumedByEvent ==
    /\ switched' = {}
    /\ ResumeAll(switched)
    /\ UNCHANGED <<core, semVars, redo>>

PauseSwitch ==
    \/ SwitchOn /\ PausedByEvent
    \/ SwitchOff /\ ResumedByEvent
    \/ Tick /\ ResumedByEvent
    \/ \E h \in Hours : /\ SetHours(h)
                        /\ IF enabled THEN PausedByEvent ELSE ResumedByEvent

(* Any saved change of the settings: the semaphore is replaced unless its  *)
(* free permits happen to be as many as the limit.                         *)
SettingsSaved ==
    /\ limit' \in Limits
    /\ \/ free[sem] = limit' /\ UNCHANGED <<sem, size, free>>
       \/ /\ free[sem] # limit' /\ sem < MaxSems
          /\ sem' = sem + 1
          /\ size' = [size EXCEPT ![sem + 1] = limit']
          /\ free' = [free EXCEPT ![sem + 1] = limit']
    /\ UNCHANGED <<row, jobs, table, core, waiters, userVars, pauseVars>>

(* The process is started again: nothing looks at the rows it finds.       *)
NewProcess ==
    /\ jobs' = NoJobs /\ table' = NoTasks /\ core' = NoTasks
    /\ sem' = 1 /\ size' = NewSems /\ free' = NewSems /\ waiters' = NobodyIn
    /\ switched' = {} /\ redo' = NoRestarts
    /\ UNCHANGED <<limit, pauseVars>>

(* shutdown cancels the tasks, and those whose engine runs record it.      *)
ShutDown(d) == IF core[d] # NoJob /\ row[d] \in Known
               THEN "stopped" ELSE row[d]

Quit  == /\ "quit" \in Restarts
         /\ row' = [d \in Downloads |-> ShutDown(d)]
         /\ NewProcess
Crash == /\ "crash" \in Restarts
         /\ UNCHANGED row
         /\ NewProcess

----------------------------------------------------------------------------
Next ==
    \/ \E d \in Downloads : \/ Add(d) \/ Start(d) \/ Resume(d) \/ Pause(d)
                            \/ Cancel(d) \/ Remove(d) \/ Restart(d)
                            \/ RestartEnds(d)
    \/ \E j \in Jobs : EngineNext(j)
    \/ PauseSwitch \/ SettingsSaved \/ Quit \/ Crash

Spec == Init /\ [][Next]_vars

----------------------------------------------------------------------------
ManagerTypeOK ==
    /\ row \in [Downloads -> Status]
    /\ jobs \in [Jobs -> JobState]
    /\ table \in [Downloads -> Jobs \union {NoJob}]
    /\ core \in [Downloads -> Jobs \union {NoJob}]
    /\ limit \in Limits /\ sem \in Sems
    /\ size \in [Sems -> Nat]
    /\ free \in [Sems -> Nat] /\ \A g \in Sems : free[g] <= size[g]
    /\ waiters \in [Sems -> Seq(Jobs)]
    /\ switched \subseteq Downloads
    /\ redo \in [Downloads -> {"no", "waits", "ready"}]
    /\ PauseTypeOK

(* However start, resume, restart, the pause switch and the end of a task  *)
(* interleave, a download never has two tasks: no two engines write one    *)
(* file.                                                                   *)
OneTask ==
    \A j, k \in Jobs :
        Of(j) = Of(k) /\ jobs[j].phase # "free" /\ jobs[k].phase # "free"
        => j = k

(* The status the user sees tells whether the transfer is held: a pause or *)
(* a resume that lands while the resource is probed, while a restart is    *)
(* under way or as the switch flips never leaves them at odds.             *)
StatusTruthful ==
    \A j \in Processing :
        /\ jobs[j].phase = "pool" /\ ~jobs[j].cancel
        /\ core[Of(j)] = j /\ row[Of(j)] # "removed"
        => row[Of(j)] = Settled(jobs[j].running)

(* A row whose status says that it is at work keeps its task, but for what *)
(* a crash or an exception of the engine leaves behind: start refuses such *)
(* a row, so any other way to lose a task would leave it stuck.            *)
Stuck(d)  == row[d] \in Active /\ table[d] = NoJob
Raised(d) == /\ table[d] # NoJob /\ jobs[table[d]].phase = "over"
             /\ jobs[table[d]].state \notin Ended
NeverStuck ==
    [][\A d \in Downloads : Stuck(d)' => Stuck(d) \/ Raised(d) \/ Crash]_vars

(* Permits are neither lost nor given twice when downloads fail, raise,    *)
(* are removed or restarted, or when the semaphore is replaced: those of   *)
(* each semaphore are free or in the hand of a task, so that it lets no    *)
(* more downloads run than it was created for, and none is free while a    *)
(* task waits in line for it.                                              *)
Holders(g) == {j \in Jobs : /\ jobs[j].phase \in {"granted"} \union Engine
                            /\ jobs[j].sem = g}
PermitsConserved ==
    \A g \in Sems : /\ free[g] + Cardinality(Holders(g)) = size[g]
                    /\ waiters[g] # <<>> => free[g] = 0

=============================================================================
