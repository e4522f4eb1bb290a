----------------------- MODULE DownloadManager_proofs -----------------------
(***************************************************************************)
(* Theorems about DownloadManager, for any set of downloads, any limits    *)
(* and any number of semaphores.                                           *)
(***************************************************************************)
EXTENDS DownloadManager, FiniteSetTheorems, TLAPS

(* The table of tasks and the tasks tell the same: a task is in the table  *)
(* from its creation to its done callback, and only rows that were added   *)
(* have one.                                                               *)
TableTells ==
    /\ \A d \in Downloads : table[d] # NoJob => Of(table[d]) = d
    /\ \A j \in Jobs : jobs[j].phase # "free" <=> table[Of(j)] = j
    /\ \A d \in Downloads : table[d] # NoJob => row[d] # "new"

(* The table of the engine holds the tasks whose engine runs.              *)
CoreTells ==
    /\ \A d \in Downloads : core[d] # NoJob => /\ Of(core[d]) = d
                                               /\ jobs[core[d]].phase \in Engine
    /\ \A j \in Processing : core[Of(j)] = j

(* Every line holds jobs that wait for that semaphore, each once, and the  *)
(* semaphores to come have no line.                                        *)
LinesTell ==
    /\ \A g \in Sems : \A i \in 1 .. Len(waiters[g]) :
          jobs[waiters[g][i]].phase = "waits" /\ jobs[waiters[g][i]].sem = g
    /\ \A g \in Sems : \A i, k \in 1 .. Len(waiters[g]) :
          waiters[g][i] = waiters[g][k] => i = k
    /\ \A g \in Sems : g > sem => waiters[g] = <<>>
    /\ \A j \in Jobs : jobs[j].sem <= sem

(* The permits of a semaphore that are out can be counted.                 *)
PermitsTell == PermitsConserved /\ \A g \in Sems : IsFiniteSet(Holders(g))

(* What the engine reports agrees with its event, unless it was cancelled. *)
HeldTells ==
    /\ \A j \in Jobs : jobs[j].phase = "probe" /\ ~jobs[j].cancel
                       => (jobs[j].state = "paused" => ~jobs[j].running)
    /\ \A j \in Jobs : jobs[j].phase = "pool" /\ ~jobs[j].cancel
                       => jobs[j].state = Settled(jobs[j].running)

(* While a restart is ready to go on no task gets beyond its probe.        *)
RedoTells ==
    \A j \in Jobs : redo[Of(j)] = "ready" /\ jobs[j].phase # "free"
                    => jobs[j].phase \in {"created", "waits", "granted", "probe"}

(* A task that has not begun, or has recorded its result, does not leave   *)
(* its row at work; an engine that has ended reports a final state, and no *)
(* other engine does.                                                      *)
RowTells ==
    /\ \A j \in Jobs : \/ jobs[j].phase \in {"created", "waits", "granted"}
                       \/ jobs[j].phase = "over" /\ jobs[j].state \in Ended
                       => row[Of(j)] \notin Active
    /\ \A j \in Jobs : jobs[j].phase = "ends" => jobs[j].state \in Ended
    /\ \A j \in Jobs : jobs[j].phase \in Engine \ {"ends"}
                       => jobs[j].state \notin Ended

TablesInv == ManagerTypeOK /\ TableTells /\ CoreTells
PermitInv == LinesTell /\ PermitsTell
StatusInv == HeldTells /\ RedoTells /\ RowTells /\ StatusTruthful
IInv == TablesInv /\ PermitInv /\ StatusInv

----------------------------------------------------------------------------
(* What the helpers do to a job.                                           *)

(* A resume changes the event and the report of an engine that listens.    *)
LEMMA ReleasedJob ==
  ASSUME NEW j \in JobState
  PROVE  /\ Released(j) \in JobState
         /\ Released(j).phase = j.phase
         /\ Released(j).sem = j.sem
         /\ Released(j).cancel = j.cancel
         /\ j.phase \notin {"probe", "pool"} => Released(j) = j
         /\ j.phase \in {"probe", "pool"} =>
               /\ Released(j).running
               /\ Released(j).state = IF j.state = "paused" THEN "downloading"
                                      ELSE j.state
  <1>1. CASE Listens(j)
    BY <1>1 DEF Released, Listens, JobState, Known, Active, Parked, Ended
  <1>2. CASE ~Listens(j)
    BY <1>2 DEF Released, Listens
  <1> QED BY <1>1, <1>2

(* A pause does too.                                                       *)
LEMMA HeldJob ==
  ASSUME NEW j \in JobState
  PROVE  /\ Held(j) \in JobState
         /\ Held(j).phase = j.phase
         /\ Held(j).sem = j.sem
         /\ Held(j).cancel = j.cancel
         /\ Held(j) = j \/ ( /\ j.phase \in {"probe", "pool"}
                             /\ Held(j).state = "paused" /\ ~Held(j).running )
         /\ j.phase \in {"probe", "pool"} => Held(j).state = "paused"
  <1>1. CASE Listens(j) /\ j.state # "paused"
    BY <1>1 DEF Held, Listens, JobState, Known, Active, Parked, Ended
  <1>2. CASE ~(Listens(j) /\ j.state # "paused")
    BY <1>2 DEF Held, Listens
  <1> QED BY <1>1, <1>2

(* A cancellation only touches the events.                                 *)
LEMMA StoppedJob ==
  ASSUME NEW j \in JobState, NEW k,
         k = [j EXCEPT !.cancel = TRUE, !.running = TRUE]
  PROVE  /\ k \in JobState
         /\ k.phase = j.phase /\ k.sem = j.sem
         /\ k.state = j.state /\ k.cancel
  BY DEF JobState

(* An engine that goes on to a phase in which it hears nothing.            *)
LEMMA DeafJob ==
  ASSUME NEW j \in JobState, NEW p \in Phases, NEW s \in Known \ {"scheduled"}
  PROVE  /\ Deaf(j, p, s) \in JobState
         /\ Deaf(j, p, s).phase = p
         /\ Deaf(j, p, s).sem = j.sem
         /\ Deaf(j, p, s).state = s
  BY DEF Deaf, Idle, JobState

(* A job that is not there.                                                *)
LEMMA IdleJob == /\ Idle \in JobState
                 /\ Idle.phase = "free" /\ Idle.sem = 1
                 /\ [Idle EXCEPT !.phase = "created"] \in JobState
                 /\ [Idle EXCEPT !.phase = "created"].phase = "created"
                 /\ [Idle EXCEPT !.phase = "created"].sem = 1
  <1>1. 1 \in Sems
    BY ManagerAssumption DEF Sems
  <1>2. Idle \in JobState
    BY <1>1 DEF Idle, JobState, Phases
  <1>3. [Idle EXCEPT !.phase = "created"] \in JobState
    BY <1>1 DEF Idle, JobState, Phases
  <1> QED BY <1>2, <1>3 DEF Idle

(* A download without a task has a free job to become one.                 *)
LEMMA NewJobFree ==
  ASSUME TableTells, NEW d \in Downloads, table[d] = NoJob
  PROVE  /\ NewJob(d) \in Jobs /\ Of(NewJob(d)) = d
         /\ jobs[NewJob(d)].phase = "free"
  <1>1. <<d, 1>> \in Jobs /\ Of(<<d, 1>>) = d
    BY DEF Jobs, Of
  <1>2. jobs[<<d, 1>>].phase = "free"
    BY <1>1, ManagerAssumption DEF TableTells
  <1> QED BY <1>1, <1>2 DEF NewJob

(* A write changes only the row of its download, and only one that is      *)
(* there.                                                                  *)
LEMMA WriteRow ==
  ASSUME row \in [Downloads -> Status], NEW d \in Downloads, NEW s \in Known
  PROVE  /\ Write(d, s) \in [Downloads -> Status]
         /\ \A e \in Downloads \ {d} : Write(d, s)[e] = row[e]
         /\ Write(d, s)[d] = IF row[d] \in Known THEN s ELSE row[d]
  BY DEF Write, Status

----------------------------------------------------------------------------
(* Permits.                                                                *)

Hands == {"granted"} \union Engine

(* No action but a task's first step and its end moves permits: a job      *)
(* keeps its phase, or goes from one phase of its engine to another, or is *)
(* created or forgotten.                                                   *)
SamePlace(j) ==
    \/ /\ jobs'[j].sem = jobs[j].sem
       /\ \/ jobs'[j].phase = jobs[j].phase
          \/ jobs[j].phase \in Hands /\ jobs'[j].phase \in Hands
    \/ /\ jobs[j].phase \in {"free", "over"}
       /\ jobs'[j].phase \in {"free", "created"}
       /\ jobs'[j].sem <= sem

(* Permits and lines stay as they are while jobs keep their places.        *)
LEMMA PlacesKeepPermits ==
  ASSUME ManagerTypeOK, PermitInv, UNCHANGED <<sem, size, free, waiters>>,
         \A j \in Jobs : SamePlace(j)
  PROVE  PermitInv'
  <1>1. \A g \in Sems : Holders(g)' = Holders(g)
    BY DEF SamePlace, Holders, Hands, Engine
  <1>2. PermitsTell'
    BY <1>1 DEF PermitInv, PermitsTell, PermitsConserved
  <1>3. ASSUME NEW g \in Sems, NEW i \in 1 .. Len(waiters[g])
        PROVE  jobs'[waiters[g][i]].phase = "waits" /\ jobs'[waiters[g][i]].sem = g
    <2>1. waiters[g][i] \in Jobs
      BY DEF ManagerTypeOK
    <2>2. jobs[waiters[g][i]].phase = "waits" /\ jobs[waiters[g][i]].sem = g
      BY DEF PermitInv, LinesTell
    <2> QED BY <2>1, <2>2 DEF SamePlace, Hands, Engine
  <1>4. \A j \in Jobs : jobs'[j].sem <= sem
    BY DEF SamePlace, PermitInv, LinesTell
  <1>5. LinesTell'
    BY <1>3, <1>4 DEF PermitInv, LinesTell
  <1> QED BY <1>2, <1>5 DEF PermitInv

----------------------------------------------------------------------------
(* Tasks that are created and engines that are released: start, resume,    *)
(* restart, and the switch when it goes off.                               *)
(* Downloads new get a created job in the table, downloads held have their *)
(* engine released, and the rows say so.                                   *)
Starts(new, held) ==
    /\ \A d \in new : table[d] = NoJob
    /\ \A d \in held : core[d] # NoJob
    /\ jobs' \in [Jobs -> JobState]
    /\ \A j \in Jobs :
          \/ /\ Of(j) \in new /\ j = NewJob(Of(j))
             /\ jobs'[j].phase = "created" /\ jobs'[j].sem <= sem
          \/ /\ Of(j) \in held /\ j = core[Of(j)]
             /\ jobs'[j] = Released(jobs[j])
          \/ /\ ~(Of(j) \in new /\ j = NewJob(Of(j)))
             /\ ~(Of(j) \in held /\ j = core[Of(j)])
             /\ jobs'[j] = jobs[j]
    /\ table' = [d \in Downloads |-> IF d \in new THEN NewJob(d) ELSE table[d]]
    /\ row' \in [Downloads -> Status]
    /\ \A d \in new : row'[d] \notin Active \union {"new"}
    /\ \A d \in held : row'[d] = IF row[d] \in Known THEN "downloading" ELSE row[d]
    /\ \A d \in Downloads \ (new \union held) : row'[d] = row[d]
    /\ UNCHANGED <<core, semVars>>
    /\ switched' \subseteq Downloads /\ PauseTypeOK'
    /\ redo' \in [Downloads -> {"no", "waits", "ready"}]
    /\ \A d \in Downloads : redo'[d] = "ready" => redo[d] = "ready"

LEMMA StartsKeep ==
  ASSUME IInv, NEW new \in SUBSET Downloads, NEW held \in SUBSET Downloads,
         Starts(new, held)
  PROVE  IInv'
  <1> USE DEF IInv, Starts
  <1>1. ManagerTypeOK /\ TableTells /\ CoreTells
    BY DEF TablesInv
  <1>2. \A j \in Jobs : jobs[j] \in JobState /\ Of(j) \in Downloads
    BY <1>1 DEF ManagerTypeOK, Jobs, Of
  <1>3. \A d \in new : /\ NewJob(d) \in Jobs /\ Of(NewJob(d)) = d
                       /\ jobs[NewJob(d)].phase = "free"
    BY <1>1, NewJobFree
  <1>4. \A j \in Jobs : Of(j) \in new => jobs[j].phase = "free"
    BY <1>1, <1>2, ManagerAssumption DEF TableTells
  <1>5. \A j \in Jobs : \/ /\ Of(j) \in new /\ j = NewJob(Of(j))
                           /\ jobs[j].phase = "free"
                           /\ jobs'[j].phase = "created" /\ jobs'[j].sem <= sem
                        \/ /\ ~(Of(j) \in new /\ j = NewJob(Of(j)))
                           /\ jobs'[j].phase = jobs[j].phase
                           /\ jobs'[j].sem = jobs[j].sem
                           /\ jobs'[j].cancel = jobs[j].cancel
    <2> SUFFICES ASSUME NEW j \in Jobs,
                        Of(j) \in held, j = core[Of(j)],
                        jobs'[j] = Released(jobs[j])
                 PROVE  /\ ~(Of(j) \in new)
                        /\ jobs'[j].phase = jobs[j].phase
                        /\ jobs'[j].sem = jobs[j].sem
                        /\ jobs'[j].cancel = jobs[j].cancel
      BY <1>3
    <2>1. jobs[j].phase \in Engine
      BY <1>1, <1>2, ManagerAssumption DEF CoreTells
    <2> QED BY <1>2, <1>4, <2>1, ReleasedJob DEF Engine
  <1>6. ManagerTypeOK'
    BY <1>1, <1>3 DEF ManagerTypeOK, semVars
  <1>7. TableTells'
    <2>1. ASSUME NEW d \in Downloads, table'[d] # NoJob
          PROVE  Of(table'[d]) = d /\ row'[d] # "new"
      BY <1>1, <1>3, <2>1 DEF TableTells, Active, ManagerTypeOK, Known
    <2>2. ASSUME NEW j \in Jobs
          PROVE  jobs'[j].phase # "free" <=> table'[Of(j)] = j
      <3>1. CASE Of(j) \in new
        BY <1>2, <1>3, <1>4, <1>5, <3>1
      <3>2. CASE Of(j) \notin new
        BY <1>1, <1>2, <1>5, <3>2 DEF TableTells
      <3> QED BY <3>1, <3>2
    <2> QED BY <2>1, <2>2 DEF TableTells
  <1>8. CoreTells'
    <2>1. ASSUME NEW d \in Downloads, core[d] # NoJob
          PROVE  Of(core[d]) = d /\ jobs'[core[d]].phase \in Engine
      <3>1. core[d] \in Jobs /\ Of(core[d]) = d /\ jobs[core[d]].phase \in Engine
        BY <1>1, <2>1 DEF CoreTells, ManagerTypeOK
      <3> QED BY <1>5, <3>1 DEF Engine
    <2>2. Processing' = Processing
      BY <1>5 DEF Processing, Engine
    <2> QED BY <1>1, <2>1, <2>2 DEF CoreTells
  <1>9. PermitInv'
    <2>1. \A j \in Jobs : SamePlace(j)
      BY <1>5 DEF SamePlace
    <2> QED BY <1>1, <2>1, PlacesKeepPermits DEF semVars
  <1>10. \A j \in Jobs : jobs'[j].phase \in Engine =>
            \/ jobs'[j] = jobs[j] /\ ~(Of(j) \in held)
            \/ jobs'[j] = Released(jobs[j]) /\ Of(j) \in held
    BY <1>1, <1>2, <1>5 DEF CoreTells, Processing, Engine
  <1>11. HeldTells'
    BY <1>2, <1>10, ReleasedJob DEF StatusInv, HeldTells, Settled, Engine
  <1>12. RedoTells'
    BY <1>2, <1>5 DEF StatusInv, RedoTells
  <1>13. RowTells'
    <2>1. ASSUME NEW j \in Jobs
          PROVE  /\ \/ jobs'[j].phase \in {"created", "waits", "granted"}
                    \/ jobs'[j].phase = "over" /\ jobs'[j].state \in Ended
                    => row'[Of(j)] \notin Active
      <3>1. CASE Of(j) \in new
        BY <1>2, <3>1
      <3>2. CASE Of(j) \in held
        <4>1. /\ core[Of(j)] \in Jobs /\ Of(core[Of(j)]) = Of(j)
              /\ jobs[core[Of(j)]].phase \in Engine
          BY <1>1, <1>2, <3>2 DEF CoreTells, ManagerTypeOK
        <4>2. table[Of(j)] = core[Of(j)]
          BY <1>1, <4>1 DEF TableTells, Engine
        <4>3. jobs[j].phase = "free" \/ jobs[j].phase \in Engine
          BY <1>1, <4>1, <4>2 DEF TableTells
        <4> QED BY <1>3, <1>5, <4>1, <4>3 DEF Engine
      <3>3. CASE Of(j) \notin new \union held
        BY <1>2, <1>5, <3>3 DEF StatusInv, RowTells
      <3> QED BY <3>1, <3>2, <3>3
    <2>2. ASSUME NEW j \in Jobs
          PROVE  /\ jobs'[j].phase = "ends" => jobs'[j].state \in Ended
                 /\ jobs'[j].phase \in Engine \ {"ends"}
                       => jobs'[j].state \notin Ended
      BY <1>2, <1>10, ReleasedJob DEF StatusInv, RowTells, Engine, Ended
    <2> QED BY <2>1, <2>2 DEF RowTells
  <1>14. StatusTruthful'
    <2> SUFFICES ASSUME NEW j \in Jobs, jobs'[j].phase = "pool",
                        ~jobs'[j].cancel, row'[Of(j)] # "removed"
                 PROVE  row'[Of(j)] = Settled(jobs'[j].running)
      BY DEF StatusTruthful, Processing
    <2>1. jobs[j].phase = "pool" /\ ~jobs[j].cancel /\ Of(j) \notin new
          /\ core[Of(j)] = j /\ j \in Processing /\ Of(j) \in Downloads
      BY <1>1, <1>2, <1>4, <1>5 DEF CoreTells, Processing, Engine
    <2>2. CASE Of(j) \in held
      <3>1. jobs'[j] = Released(jobs[j]) /\ jobs'[j].running
        BY <1>2, <1>10, <2>1, <2>2, ReleasedJob DEF Engine
      <3>2. row[Of(j)] \in Known
        BY <1>1, <2>1, <2>2 DEF ManagerTypeOK, Status, TableTells
      <3> QED BY <2>1, <2>2, <3>1, <3>2 DEF Settled
    <2>3. CASE Of(j) \notin held
      BY <1>10, <2>1, <2>3 DEF StatusInv, StatusTruthful, Engine
    <2> QED BY <2>2, <2>3
  <1> QED BY <1>6, <1>7, <1>8, <1>9, <1>11, <1>12, <1>13, <1>14
          DEF TablesInv, StatusInv

----------------------------------------------------------------------------
(* Jobs that keep their phases: what an event does to an engine, a write   *)
(* to a row, a change of the settings.                                     *)

(* The tables, the lines and the permits do not notice.                    *)
LEMMA PhasesKeepTables ==
  ASSUME IInv, jobs' \in [Jobs -> JobState],
         \A j \in Jobs : /\ jobs'[j].phase = jobs[j].phase
                         /\ jobs'[j].sem = jobs[j].sem,
         UNCHANGED <<table, core, semVars>>,
         row' \in [Downloads -> Status],
         \A d \in Downloads : row'[d] = "new" => row[d] = "new",
         switched' \subseteq Downloads,
         redo' \in [Downloads -> {"no", "waits", "ready"}],
         PauseTypeOK'
  PROVE  TablesInv' /\ PermitInv'
  <1>1. ManagerTypeOK /\ TableTells /\ CoreTells /\ PermitInv
    BY DEF IInv, TablesInv
  <1>2. ManagerTypeOK'
    BY <1>1 DEF ManagerTypeOK, semVars
  <1>3. TableTells'
    BY <1>1 DEF TableTells
  <1>4. CoreTells'
    <2>1. \A d \in Downloads : core[d] # NoJob => core[d] \in Jobs
      BY <1>1 DEF ManagerTypeOK
    <2>2. Processing' = Processing
      BY DEF Processing
    <2> QED BY <1>1, <2>1, <2>2 DEF CoreTells
  <1>5. PermitInv'
    <2>1. \A j \in Jobs : SamePlace(j)
      BY DEF SamePlace
    <2> QED BY <1>1, <2>1, PlacesKeepPermits DEF semVars
  <1> QED BY <1>2, <1>3, <1>4, <1>5 DEF TablesInv

(* Pause, and the switch when it goes on.                                  *)
LEMMA HoldsKeep ==
  ASSUME IInv, NEW ds \in SUBSET Downloads, PauseAll(ds),
         UNCHANGED <<table, core, semVars, redo>>,
         switched' \subseteq Downloads, PauseTypeOK'
  PROVE  IInv'
  <1>1. ManagerTypeOK /\ CoreTells
    BY DEF IInv, TablesInv
  <1>2. \A j \in Jobs : jobs[j] \in JobState /\ Of(j) \in Downloads
    BY <1>1 DEF ManagerTypeOK, Jobs, Of
  <1>3. \A j \in Jobs : jobs'[j] = IF Of(j) \in ds /\ j = core[Of(j)]
                                   THEN Held(jobs[j]) ELSE jobs[j]
    BY DEF PauseAll
  <1>4. \A j \in Jobs : /\ jobs'[j].phase = jobs[j].phase
                        /\ jobs'[j].sem = jobs[j].sem
                        /\ jobs'[j].cancel = jobs[j].cancel
                        /\ \/ jobs'[j] = jobs[j]
                           \/ /\ jobs[j].phase \in {"probe", "pool"}
                              /\ jobs'[j].state = "paused" /\ ~jobs'[j].running
    BY <1>2, <1>3, HeldJob
  <1>5. TablesInv' /\ PermitInv'
    <2>1. jobs' \in [Jobs -> JobState]
      BY <1>2, HeldJob DEF PauseAll
    <2>2. row' \in [Downloads -> Status]
      BY <1>1 DEF PauseAll, ManagerTypeOK, Status, Known, Parked
    <2>3. \A d \in Downloads : row'[d] = "new" => row[d] = "new"
      BY DEF PauseAll
    <2> QED BY <1>1, <1>4, <2>1, <2>2, <2>3, PhasesKeepTables DEF ManagerTypeOK
  <1>6. \A d \in Downloads : row'[d] = row[d] \/ row'[d] = "paused"
    BY DEF PauseAll
  <1>7. HeldTells'
    BY <1>2, <1>4 DEF IInv, StatusInv, HeldTells, Settled
  <1>8. RedoTells'
    BY <1>2, <1>4 DEF IInv, StatusInv, RedoTells
  <1>9. RowTells'
    BY <1>2, <1>4, <1>6 DEF IInv, StatusInv, RowTells, Active, Ended, Engine
  <1>10. StatusTruthful'
    <2> SUFFICES ASSUME NEW j \in Jobs, jobs'[j].phase = "pool",
                        ~jobs'[j].cancel, row'[Of(j)] # "removed"
                 PROVE  row'[Of(j)] = Settled(jobs'[j].running)
      BY DEF StatusTruthful, Processing
    <2>1. /\ jobs[j].phase = "pool" /\ ~jobs[j].cancel /\ core[Of(j)] = j
          /\ j \in Processing /\ Of(j) \in Downloads
      BY <1>1, <1>2, <1>4 DEF CoreTells, Processing, Engine
    <2>2. row[Of(j)] \in Known
      <3>1. table[Of(j)] = j
        BY <2>1 DEF IInv, TablesInv, TableTells
      <3>2. row[Of(j)] # "new"
        BY <2>1, <3>1, ManagerAssumption DEF IInv, TablesInv, TableTells
      <3>3. row[Of(j)] # "removed"
        BY <2>1 DEF PauseAll, Known, Active, Parked, Ended
      <3> QED BY <1>1, <2>1, <3>2, <3>3 DEF ManagerTypeOK, Status
    <2>3. CASE Of(j) \in ds
      <3>1. row'[Of(j)] = "paused"
        BY <2>1, <2>2, <2>3 DEF PauseAll
      <3>2. jobs'[j].state = "paused"
        BY <1>2, <1>3, <2>1, <2>3, HeldJob
      <3>3. jobs'[j].state = Settled(jobs'[j].running)
        BY <1>4, <1>7, <2>1 DEF HeldTells
      <3> QED BY <3>1, <3>2, <3>3
    <2>4. CASE Of(j) \notin ds
      <3>1. row'[Of(j)] = row[Of(j)] /\ jobs'[j] = jobs[j]
        BY <1>3, <2>1, <2>4 DEF PauseAll
      <3> QED BY <2>1, <3>1 DEF IInv, StatusInv, StatusTruthful
    <2> QED BY <2>3, <2>4
  <1> QED BY <1>5, <1>7, <1>8, <1>9, <1>10 DEF IInv, StatusInv

(* Cancel, remove, and a restart that stops a task: the row stays, or is   *)
(* removed.                                                                *)
LEMMA StoppingKeeps ==
  ASSUME IInv, NEW d \in Downloads, Stopping(d),
         row' = row \/ row' = [row EXCEPT ![d] = "removed"],
         UNCHANGED <<table, core, semVars, switched, pauseVars>>,
         redo' \in [Downloads -> {"no", "waits", "ready"}],
         \A e \in Downloads : redo'[e] = "ready" => redo[e] = "ready"
  PROVE  IInv'
  <1>1. ManagerTypeOK /\ CoreTells
    BY DEF IInv, TablesInv
  <1>2. \A j \in Jobs : jobs[j] \in JobState /\ Of(j) \in Downloads
    BY <1>1 DEF ManagerTypeOK, Jobs, Of
  <1>3. \A j \in Jobs : \/ jobs'[j] = jobs[j]
                        \/ jobs'[j] = [jobs[j] EXCEPT !.cancel = TRUE,
                                                      !.running = TRUE]
    BY DEF Stopping
  <1>4. \A j \in Jobs : /\ jobs'[j] \in JobState
                        /\ jobs'[j].phase = jobs[j].phase
                        /\ jobs'[j].sem = jobs[j].sem
                        /\ jobs'[j].state = jobs[j].state
                        /\ jobs'[j] = jobs[j] \/ jobs'[j].cancel
    <2> TAKE j \in Jobs
    <2>1. jobs[j] \in JobState
      BY <1>2
    <2>2. CASE jobs'[j] = jobs[j]
      BY <2>1, <2>2
    <2>3. CASE jobs'[j] = [jobs[j] EXCEPT !.cancel = TRUE, !.running = TRUE]
      BY <2>1, <2>3, StoppedJob
    <2> QED BY <1>3, <2>2, <2>3
  <1>5. TablesInv' /\ PermitInv'
    <2>1. jobs' \in [Jobs -> JobState]
      BY <1>4 DEF Stopping
    <2>2. /\ row' \in [Downloads -> Status]
          /\ \A e \in Downloads : row'[e] = "new" => row[e] = "new"
      BY <1>1 DEF ManagerTypeOK, Status
    <2>3. PauseTypeOK'
      BY <1>1 DEF ManagerTypeOK, PauseTypeOK, pauseVars
    <2> QED BY <1>1, <1>4, <2>1, <2>2, <2>3, PhasesKeepTables DEF ManagerTypeOK
  <1>6. \A e \in Downloads : row'[e] = row[e] \/ row'[e] = "removed"
    BY <1>1 DEF ManagerTypeOK
  <1>7. HeldTells'
    BY <1>4 DEF IInv, StatusInv, HeldTells
  <1>8. RedoTells'
    BY <1>2, <1>4 DEF IInv, StatusInv, RedoTells
  <1>9. RowTells'
    BY <1>2, <1>4, <1>6 DEF IInv, StatusInv, RowTells, Active
  <1>10. StatusTruthful'
    BY <1>2, <1>4, <1>6 DEF IInv, StatusInv, StatusTruthful, Processing
  <1> QED BY <1>5, <1>7, <1>8, <1>9, <1>10 DEF IInv, StatusInv

----------------------------------------------------------------------------
(* A task that waits for its permit, and enters the engine with it.        *)

(* Among the holders of the other semaphores nothing changes.              *)
LEMMA TakenPermit ==
  ASSUME ManagerTypeOK, PermitInv, NEW j \in Jobs,
         jobs[j].phase = "created", free[sem] > 0,
         free' = [free EXCEPT ![sem] = @ - 1], jobs' = Entered(j, sem),
         UNCHANGED <<waiters, sem, size>>
  PROVE  /\ PermitsTell'
         /\ free' \in [Sems -> Nat]
         /\ \A g \in Sems : free'[g] <= size'[g]
  <1>1. jobs'[j].phase = "probe" /\ jobs'[j].sem = sem
    BY DEF Entered, ManagerTypeOK, Idle
  <1>2. \A k \in Jobs \ {j} : jobs'[k] = jobs[k]
    BY DEF Entered, ManagerTypeOK
  <1>3. Holders(sem)' = Holders(sem) \union {j} /\ j \notin Holders(sem)
    BY <1>1, <1>2 DEF Holders, Engine
  <1>4. \A g \in Sems \ {sem} : Holders(g)' = Holders(g)
    BY <1>1, <1>2 DEF Holders, Engine
  <1>5. sem \in Sems /\ IsFiniteSet(Holders(sem))
    BY DEF ManagerTypeOK, PermitInv, PermitsTell
  <1>6. /\ IsFiniteSet(Holders(sem)')
        /\ Cardinality(Holders(sem)') = Cardinality(Holders(sem)) + 1
    BY <1>3, <1>5, FS_AddElement
  <1>7. Cardinality(Holders(sem)) \in Nat
    BY <1>5, FS_CardinalityType
  <1>8. free' \in [Sems -> Nat] /\ \A g \in Sems : free'[g] <= size'[g]
    BY DEF ManagerTypeOK
  <1>9. \A g \in Sems : /\ free'[g] + Cardinality(Holders(g)') = size[g]
                        /\ IsFiniteSet(Holders(g)')
    BY <1>4, <1>5, <1>6, <1>7 DEF ManagerTypeOK, PermitInv, PermitsTell, PermitsConserved
  <1>10. \A g \in Sems : waiters[g] # <<>> => free'[g] = 0
    BY DEF ManagerTypeOK, PermitInv, PermitsTell, PermitsConserved
  <1> QED BY <1>8, <1>9, <1>10 DEF PermitsTell, PermitsConserved

(* A task that enters its engine, holding a permit.                        *)
LEMMA EntersKeep ==
  ASSUME IInv, NEW j \in Jobs, NEW g \in Sems, g <= sem,
         jobs[j].phase \in {"created", "granted"},
         jobs' = Entered(j, g), Submitted(j), PermitsTell',
         free' \in [Sems -> Nat], \A h \in Sems : free'[h] <= size[h],
         UNCHANGED <<table, limit, sem, size, waiters, userVars, pauseVars>>
  PROVE  IInv'
  <1>1. ManagerTypeOK /\ TableTells /\ CoreTells /\ LinesTell
    BY DEF IInv, TablesInv, PermitInv
  <1>2. Of(j) \in Downloads /\ j # NoJob
    BY ManagerAssumption DEF Jobs, Of
  <1> DEFINE new == [Idle EXCEPT !.phase = "probe", !.state = "connecting", !.sem = g]
  <1>3. new \in JobState /\ new.phase = "probe" /\ new.sem = g /\ new.state = "connecting"
    BY DEF Idle, JobState, Phases, Engine, Known, Active
  <1>4. jobs'[j] = new /\ \A k \in Jobs \ {j} : jobs'[k] = jobs[k]
    BY <1>1 DEF Entered, ManagerTypeOK
  <1>5. jobs' \in [Jobs -> JobState]
    BY <1>1, <1>3 DEF Entered, ManagerTypeOK
  <1> HIDE DEF new
  <1>6. /\ row' \in [Downloads -> Status]
        /\ \A e \in Downloads \ {Of(j)} : row'[e] = row[e]
        /\ row'[Of(j)] = IF row[Of(j)] \in Known THEN "connecting" ELSE row[Of(j)]
    BY <1>1, <1>2, WriteRow DEF Submitted, ManagerTypeOK, Known, Active
  <1>7. /\ core'[Of(j)] = j /\ \A e \in Downloads \ {Of(j)} : core'[e] = core[e]
        /\ core' \in [Downloads -> Jobs \union {NoJob}]
    BY <1>1, <1>2 DEF Submitted, ManagerTypeOK
  <1>8. table[Of(j)] = j
    BY <1>1 DEF TableTells
  <1>9. \A k \in Jobs : Of(k) = Of(j) /\ jobs[k].phase # "free" => k = j
    BY <1>1, <1>8 DEF TableTells
  <1>10. ManagerTypeOK'
    BY <1>1, <1>5, <1>6, <1>7 DEF ManagerTypeOK, userVars, pauseVars, PauseTypeOK
  <1>11. TableTells'
    BY <1>1, <1>2, <1>3, <1>4, <1>6 DEF TableTells, Known, Active
  <1>12. CoreTells'
    <2>1. ASSUME NEW d \in Downloads, core'[d] # NoJob
          PROVE  Of(core'[d]) = d /\ jobs'[core'[d]].phase \in Engine
      <3>1. CASE d = Of(j)
        BY <1>3, <1>4, <1>7, <3>1 DEF Engine
      <3>2. CASE d # Of(j)
        <4>1. core'[d] = core[d] /\ core[d] \in Jobs /\ core[d] # j
          BY <1>1, <1>7, <2>1, <3>2 DEF ManagerTypeOK, CoreTells
        <4> QED BY <1>1, <1>4, <2>1, <4>1 DEF CoreTells
      <3> QED BY <3>1, <3>2
    <2>2. ASSUME NEW k \in Jobs, jobs'[k].phase \in Engine
          PROVE  core'[Of(k)] = k
      <3>1. CASE k = j
        BY <1>7, <3>1
      <3>2. CASE k # j
        <4>1. jobs[k].phase \in Engine /\ Of(k) # Of(j) /\ Of(k) \in Downloads
          BY <1>4, <1>9, <2>2, <3>2 DEF Engine, Jobs, Of
        <4> QED BY <1>1, <1>7, <4>1 DEF CoreTells, Processing
      <3> QED BY <3>1, <3>2
    <2> QED BY <2>1, <2>2 DEF CoreTells, Processing
  <1>13. LinesTell'
    <2>1. ASSUME NEW h \in Sems, NEW i \in 1 .. Len(waiters[h])
          PROVE  jobs'[waiters[h][i]] = jobs[waiters[h][i]]
      <3>1. waiters[h][i] \in Jobs /\ waiters[h][i] # j
        BY <1>1 DEF ManagerTypeOK, LinesTell
      <3> QED BY <1>4, <3>1
    <2>2. \A k \in Jobs : jobs'[k].sem <= sem
      BY <1>1, <1>3, <1>4 DEF LinesTell
    <2> QED BY <1>1, <2>1, <2>2 DEF LinesTell
  <1>14. HeldTells'
    BY <1>3, <1>4 DEF IInv, StatusInv, HeldTells
  <1>15. RedoTells'
    BY <1>3, <1>4 DEF IInv, StatusInv, RedoTells, userVars
  <1>16. RowTells'
    <2> SUFFICES ASSUME NEW k \in Jobs
        PROVE  /\ \/ jobs'[k].phase \in {"created", "waits", "granted"}
                  \/ jobs'[k].phase = "over" /\ jobs'[k].state \in Ended
                  => row'[Of(k)] \notin Active
               /\ jobs'[k].phase = "ends" => jobs'[k].state \in Ended
               /\ jobs'[k].phase \in Engine \ {"ends"} => jobs'[k].state \notin Ended
      BY DEF RowTells
    <2>1. CASE k = j
      BY <1>3, <1>4, <2>1 DEF Ended
    <2>2. CASE k # j
      <3>1. jobs[k].phase = "free" \/ row'[Of(k)] = row[Of(k)]
        BY <1>6, <1>9, <2>2 DEF Jobs, Of
      <3> QED BY <1>4, <2>2, <3>1 DEF IInv, StatusInv, RowTells, Engine
    <2> QED BY <2>1, <2>2
  <1>17. StatusTruthful'
    <2> SUFFICES ASSUME NEW k \in Jobs, jobs'[k].phase = "pool",
                        ~jobs'[k].cancel, row'[Of(k)] # "removed"
                 PROVE  row'[Of(k)] = Settled(jobs'[k].running)
      BY DEF StatusTruthful, Processing
    <2>1. k # j /\ jobs'[k] = jobs[k]
      BY <1>3, <1>4
    <2>2. k \in Processing /\ core[Of(k)] = k /\ row'[Of(k)] = row[Of(k)]
      BY <1>1, <1>6, <1>9, <2>1 DEF Processing, Engine, CoreTells, Jobs, Of
    <2> QED BY <2>1, <2>2 DEF IInv, StatusInv, StatusTruthful
  <1> QED BY <1>10, <1>11, <1>12, <1>13, <1>14, <1>15, <1>16, <1>17
          DEF IInv, TablesInv, PermitInv, StatusInv

(* The first step of a task.                                               *)
LEMMA FirstStepKeeps ==
  ASSUME IInv, NEW j \in Jobs, FirstStep(j)
  PROVE  IInv'
  <1>1. ManagerTypeOK /\ TableTells /\ CoreTells /\ PermitInv /\ jobs[j].phase = "created"
    BY DEF IInv, TablesInv, FirstStep
  <1>2. CASE free[sem] > 0
    <2>1. PermitsTell' /\ free' \in [Sems -> Nat] /\ \A g \in Sems : free'[g] <= size'[g]
      BY <1>1, <1>2, TakenPermit DEF FirstStep
    <2>2. /\ free' = [free EXCEPT ![sem] = @ - 1] /\ jobs' = Entered(j, sem)
          /\ Submitted(j)
          /\ UNCHANGED <<table, limit, sem, size, waiters, userVars, pauseVars>>
      BY <1>2 DEF FirstStep
    <2>3. sem \in Sems /\ sem <= sem
      BY <1>1 DEF ManagerTypeOK, Sems
    <2>4. \A h \in Sems : free'[h] <= size[h]
      BY <2>1, <2>2
    <2> QED BY <1>1, <2>1, <2>2, <2>3, <2>4, EntersKeep
  <1>3. CASE ~(free[sem] > 0)
    <2>1. /\ waiters' = [waiters EXCEPT ![sem] = Append(@, j)]
          /\ jobs' = [jobs EXCEPT ![j].phase = "waits", ![j].sem = sem]
          /\ UNCHANGED <<row, core, free, table, limit, sem, size, userVars, pauseVars>>
      BY <1>3 DEF FirstStep
    <2>9. free[sem] = 0
      BY <1>1, <1>3 DEF ManagerTypeOK
    <2>2. /\ jobs' \in [Jobs -> JobState]
          /\ jobs'[j].phase = "waits" /\ jobs'[j].sem = sem
          /\ \A k \in Jobs \ {j} : jobs'[k] = jobs[k]
      <3> DEFINE r == [jobs[j] EXCEPT !.phase = "waits", !.sem = sem]
      <3>1. jobs \in [Jobs -> JobState] /\ jobs[j] \in JobState /\ sem \in Sems
        BY <1>1 DEF ManagerTypeOK
      <3>2. r \in JobState /\ r.phase = "waits" /\ r.sem = sem
        BY <3>1 DEF JobState, Phases
      <3>3. jobs' = [jobs EXCEPT ![j] = r]
        BY <2>1
      <3> HIDE DEF r
      <3> QED BY <3>1, <3>2, <3>3
    <2>3. ManagerTypeOK'
      <3>1. waiters' \in [Sems -> Seq(Jobs)]
        BY <1>1, <2>1 DEF ManagerTypeOK
      <3>2. PauseTypeOK'
        BY <1>1, <2>1 DEF ManagerTypeOK, pauseVars, PauseTypeOK
      <3> QED BY <1>1, <2>1, <2>2, <3>1, <3>2 DEF ManagerTypeOK, userVars
    <2>4. TableTells'
      BY <1>1, <2>1, <2>2 DEF TableTells
    <2>5. CoreTells'
      <3>1. Processing' = Processing
        BY <1>1, <2>2 DEF Processing, Engine
      <3>2. \A d \in Downloads : core[d] # NoJob => core[d] \in Jobs /\ core[d] # j
        BY <1>1 DEF ManagerTypeOK, CoreTells, Engine
      <3> QED BY <1>1, <2>1, <2>2, <3>1, <3>2 DEF CoreTells
    <2>6. PermitsTell'
      <3>1. \A g \in Sems : Holders(g)' = Holders(g)
        BY <1>1, <2>2 DEF Holders, Engine
      <3>2. \A g \in Sems : waiters'[g] # <<>> => free[g] = 0
        BY <1>1, <2>1, <2>9 DEF ManagerTypeOK, PermitInv, PermitsTell, PermitsConserved
      <3> QED BY <1>1, <2>1, <3>1, <3>2 DEF PermitInv, PermitsTell, PermitsConserved
    <2>7. LinesTell'
      <3>1. \A g \in Sems \ {sem} : waiters'[g] = waiters[g]
        BY <1>1, <2>1 DEF ManagerTypeOK
      <3>2. /\ waiters[sem] \in Seq(Jobs) /\ sem \in Sems
            /\ waiters'[sem] = Append(waiters[sem], j)
        BY <1>1, <2>1 DEF ManagerTypeOK
      <3>3. /\ Len(waiters'[sem]) = Len(waiters[sem]) + 1
            /\ waiters'[sem][Len(waiters[sem]) + 1] = j
            /\ \A i \in 1 .. Len(waiters[sem]) : waiters'[sem][i] = waiters[sem][i]
        BY <3>2
      <3>4. \A g \in Sems : \A i \in 1 .. Len(waiters[g]) :
               waiters[g][i] \in Jobs /\ waiters[g][i] # j
        BY <1>1 DEF ManagerTypeOK, PermitInv, LinesTell
      <3>5. ASSUME NEW g \in Sems, NEW i \in 1 .. Len(waiters'[g])
            PROVE  jobs'[waiters'[g][i]].phase = "waits"
                   /\ jobs'[waiters'[g][i]].sem = g
        <4>1. CASE g # sem \/ i \in 1 .. Len(waiters[sem])
          <5>1. i \in 1 .. Len(waiters[g]) /\ waiters'[g][i] = waiters[g][i]
            BY <3>1, <3>3, <4>1
          <5> QED BY <1>1, <2>2, <3>4, <5>1 DEF PermitInv, LinesTell
        <4>2. CASE g = sem /\ i \notin 1 .. Len(waiters[sem])
          <5>1. i = Len(waiters[sem]) + 1
            BY <3>2, <3>3, <4>2
          <5> QED BY <2>2, <3>3, <4>2, <5>1
        <4> QED BY <4>1, <4>2
      <3>6. ASSUME NEW g \in Sems, NEW i \in 1 .. Len(waiters'[g]),
                   NEW k \in 1 .. Len(waiters'[g]), waiters'[g][i] = waiters'[g][k]
            PROVE  i = k
        <4>1. CASE g # sem
          BY <1>1, <3>1, <3>6, <4>1 DEF PermitInv, LinesTell
        <4>2. CASE g = sem
          <5>1. \A n \in 1 .. Len(waiters'[sem]) :
                   n \in 1 .. Len(waiters[sem]) \/ n = Len(waiters[sem]) + 1
            BY <3>2, <3>3
          <5>2. CASE i \in 1 .. Len(waiters[sem]) /\ k \in 1 .. Len(waiters[sem])
            <6>1. waiters[sem][i] = waiters[sem][k]
              BY <3>3, <3>6, <4>2, <5>2
            <6> QED BY <1>1, <3>2, <5>2, <6>1 DEF PermitInv, LinesTell
          <5>3. CASE i \notin 1 .. Len(waiters[sem]) \/ k \notin 1 .. Len(waiters[sem])
            <6>1. waiters'[sem][i] = j \/ waiters'[sem][k] = j
              BY <3>3, <4>2, <5>1, <5>3
            <6>2. waiters'[sem][i] = j /\ waiters'[sem][k] = j
              BY <3>6, <4>2, <6>1
            <6>3. i \notin 1 .. Len(waiters[sem]) /\ k \notin 1 .. Len(waiters[sem])
              BY <3>2, <3>3, <3>4, <6>2
            <6> QED BY <4>2, <5>1, <6>3
          <5> QED BY <5>2, <5>3
        <4> QED BY <4>1, <4>2
      <3>7. \A g \in Sems : g > sem' => waiters'[g] = <<>>
        BY <1>1, <2>1, <3>1, <3>2 DEF PermitInv, LinesTell, Sems
      <3>8. \A k \in Jobs : jobs'[k].sem <= sem'
        BY <1>1, <2>1, <2>2, <3>2 DEF PermitInv, LinesTell, Sems
      <3> QED BY <3>5, <3>6, <3>7, <3>8 DEF LinesTell
    <2>8. HeldTells' /\ RedoTells' /\ RowTells' /\ StatusTruthful'
      <3>1. HeldTells' /\ RedoTells'
        BY <2>1, <2>2 DEF IInv, StatusInv, HeldTells, RedoTells, userVars
      <3>2. RowTells'
        BY <1>1, <2>1, <2>2 DEF IInv, StatusInv, RowTells, Engine
      <3>3. StatusTruthful'
        BY <2>1, <2>2 DEF IInv, StatusInv, StatusTruthful, Processing
      <3> QED BY <3>1, <3>2, <3>3
    <2> QED BY <2>3, <2>4, <2>5, <2>6, <2>7, <2>8 DEF IInv, TablesInv, PermitInv, StatusInv
  <1> QED BY <1>2, <1>3

(* A task that was given a permit enters its engine.                       *)
LEMMA EnterKeeps ==
  ASSUME IInv, NEW j \in Jobs, Enter(j)
  PROVE  IInv'
  <1>1. ManagerTypeOK /\ PermitInv
    BY DEF IInv, TablesInv
  <1>2. jobs[j].sem \in Sems /\ jobs[j].sem <= sem
    BY <1>1 DEF ManagerTypeOK, JobState, PermitInv, LinesTell
  <1>3. \A k \in Jobs : SamePlace(k)
    BY <1>1 DEF Enter, Entered, SamePlace, Idle, ManagerTypeOK, Hands, Engine
  <1>4. PermitsTell'
    BY <1>1, <1>3, PlacesKeepPermits DEF Enter, semVars, PermitInv
  <1> QED BY <1>1, <1>2, <1>4, EntersKeep DEF Enter, semVars, ManagerTypeOK

----------------------------------------------------------------------------
(* An engine that goes on, from one phase to another.                      *)

LEMMA GoesKeep ==
  ASSUME IInv, NEW j \in Jobs, jobs[j].phase \in Engine, redo[Of(j)] # "ready",
         NEW job \in JobState, job.phase \in Engine, job.sem = jobs[j].sem,
         Goes(j, job), NEW s \in Known, row' = row \/ row' = Write(Of(j), s),
         job.phase = "ends" <=> job.state \in Ended,
         job.phase = "probe" /\ ~job.cancel => (job.state = "paused" => ~job.running),
         job.phase = "pool" => /\ job.state = Settled(job.running)
                               /\ row' = Write(Of(j), Settled(job.running))
  PROVE  IInv'
  <1>1. ManagerTypeOK /\ TableTells /\ CoreTells /\ PermitInv
    BY DEF IInv, TablesInv
  <1>2. Of(j) \in Downloads /\ j # NoJob
    BY ManagerAssumption DEF Jobs, Of
  <1>3. /\ jobs' \in [Jobs -> JobState] /\ jobs'[j] = job
        /\ \A k \in Jobs \ {j} : jobs'[k] = jobs[k]
        /\ UNCHANGED <<table, core, semVars, userVars, pauseVars>>
    BY <1>1 DEF Goes, ManagerTypeOK
  <1>4. /\ row' \in [Downloads -> Status]
        /\ \A e \in Downloads \ {Of(j)} : row'[e] = row[e]
        /\ row'[Of(j)] = "new" => row[Of(j)] = "new"
        /\ row[Of(j)] \notin Known => row'[Of(j)] = row[Of(j)]
    BY <1>1, <1>2, WriteRow DEF ManagerTypeOK, Known, Active, Parked, Ended
  <1>5. \A k \in Jobs : Of(k) = Of(j) /\ jobs[k].phase # "free" => k = j
    BY <1>1 DEF TableTells, Engine
  <1>6. ManagerTypeOK'
    BY <1>1, <1>3, <1>4 DEF ManagerTypeOK, semVars, userVars, pauseVars, PauseTypeOK
  <1>7. TableTells'
    BY <1>1, <1>3, <1>4 DEF TableTells, Engine
  <1>8. CoreTells'
    <2>1. Processing' = Processing
      BY <1>3 DEF Processing
    <2>2. \A d \in Downloads : core[d] # NoJob => core[d] \in Jobs
      BY <1>1 DEF ManagerTypeOK
    <2> QED BY <1>1, <1>3, <2>1, <2>2 DEF CoreTells
  <1>9. PermitInv'
    <2>1. \A k \in Jobs : SamePlace(k)
      BY <1>3 DEF SamePlace, Hands
    <2> QED BY <1>1, <1>3, <2>1, PlacesKeepPermits DEF semVars
  <1>10. HeldTells'
    BY <1>3 DEF IInv, StatusInv, HeldTells
  <1>11. RedoTells'
    BY <1>3, <1>5 DEF IInv, StatusInv, RedoTells, userVars
  <1>12. RowTells'
    <2> SUFFICES ASSUME NEW k \in Jobs
        PROVE  /\ \/ jobs'[k].phase \in {"created", "waits", "granted"}
                  \/ jobs'[k].phase = "over" /\ jobs'[k].state \in Ended
                  => row'[Of(k)] \notin Active
               /\ jobs'[k].phase = "ends" => jobs'[k].state \in Ended
               /\ jobs'[k].phase \in Engine \ {"ends"} => jobs'[k].state \notin Ended
      BY DEF RowTells
    <2>1. CASE k = j
      BY <1>3, <2>1 DEF Engine
    <2>2. CASE k # j
      <3>1. jobs[k].phase = "free" \/ row'[Of(k)] = row[Of(k)]
        BY <1>4, <1>5, <2>2 DEF Jobs, Of
      <3> QED BY <1>3, <2>2, <3>1 DEF IInv, StatusInv, RowTells, Engine
    <2> QED BY <2>1, <2>2
  <1>13. StatusTruthful'
    <2> SUFFICES ASSUME NEW k \in Jobs, jobs'[k].phase = "pool",
                        ~jobs'[k].cancel, row'[Of(k)] # "removed"
                 PROVE  row'[Of(k)] = Settled(jobs'[k].running)
      BY DEF StatusTruthful, Processing
    <2>1. CASE k = j
      <3>1. row' = Write(Of(j), Settled(job.running)) /\ jobs'[k] = job
        BY <1>3, <2>1
      <3>2. table[Of(j)] = j
        BY <1>1 DEF TableTells, Engine
      <3>3. row[Of(j)] \in Known
        BY <1>1, <1>2, <1>4, <2>1, <3>2 DEF TableTells, ManagerTypeOK, Status
      <3>4. Settled(job.running) \in Known
        BY DEF Settled, Known, Active, Parked
      <3> QED BY <1>1, <1>2, <2>1, <3>1, <3>3, <3>4, WriteRow DEF ManagerTypeOK
    <2>2. CASE k # j
      <3>1. jobs'[k] = jobs[k] /\ k \in Processing /\ core[Of(k)] = k
        BY <1>1, <1>3, <2>2 DEF CoreTells, Processing, Engine
      <3>2. row'[Of(k)] = row[Of(k)]
        BY <1>4, <1>5, <2>2, <3>1 DEF Processing, Engine, Jobs, Of
      <3> QED BY <3>1, <3>2 DEF IInv, StatusInv, StatusTruthful
    <2> QED BY <2>1, <2>2
  <1> QED BY <1>6, <1>7, <1>8, <1>9, <1>10, <1>11, <1>12, <1>13
          DEF IInv, TablesInv, StatusInv

(* Each of the steps of an engine.                                         *)
EngineGoes(j) ==
    \/ Probed(j) \/ Transferred(j) \/ FallsBack(j) \/ Aborts(j)
    \/ Fails(j) \/ Assembled(j) \/ Verified(j)

LEMMA EngineGoesKeeps ==
  ASSUME IInv, NEW j \in Jobs, EngineGoes(j)
  PROVE  IInv'
  <1>1. jobs[j] \in JobState /\ Of(j) \in Downloads
    BY DEF IInv, TablesInv, ManagerTypeOK, Jobs, Of
  <1>2. CASE Probed(j)
    <2> DEFINE s == Settled(jobs[j].running)
               job == [jobs[j] EXCEPT !.phase = "pool", !.state = s]
    <2>1. s \in {"downloading", "paused"}
      BY DEF Settled
    <2>2. /\ job \in JobState /\ job.phase = "pool" /\ job.sem = jobs[j].sem
          /\ job.state = Settled(job.running)
      BY <1>1, <2>1 DEF JobState, Phases, Engine, Known, Active, Parked
    <2>3. s \in Known /\ s \notin Ended
      BY <2>1 DEF Known, Active, Parked, Ended
    <2>4. job.state = s /\ s = Settled(job.running)
      BY <1>1, <2>1 DEF JobState
    <2>5. /\ jobs[j].phase \in Engine /\ redo[Of(j)] # "ready"
          /\ Goes(j, job) /\ row' = Write(Of(j), s)
      BY <1>2 DEF Probed, Engaged, Engine
    <2> HIDE DEF job, s
    <2>6. job.phase \in Engine
      BY <2>2 DEF Engine
    <2>7. row' = Write(Of(j), Settled(job.running))
      BY <2>4, <2>5
    <2> QED BY <2>2, <2>3, <2>4, <2>5, <2>6, <2>7, GoesKeep
  <1>3. CASE FallsBack(j)
    <2> DEFINE job == [jobs[j] EXCEPT !.phase = "probe", !.state = "connecting"]
    <2>1. /\ job \in JobState /\ job.phase = "probe" /\ job.sem = jobs[j].sem
          /\ job.state = "connecting"
      BY <1>1 DEF JobState, Phases, Engine, Known, Active
    <2>2. "connecting" \in Known /\ "connecting" \notin Ended /\ "probe" \in Engine
      BY DEF Known, Active, Ended, Engine
    <2>3. /\ jobs[j].phase \in Engine /\ redo[Of(j)] # "ready"
          /\ Goes(j, job) /\ row' = Write(Of(j), "connecting")
      BY <1>3 DEF FallsBack, Engaged, Engine
    <2> HIDE DEF job
    <2> QED BY <2>1, <2>2, <2>3, GoesKeep
  <1>4. CASE Transferred(j) \/ Aborts(j) \/ Fails(j) \/ Assembled(j) \/ Verified(j)
    <2>1. /\ jobs[j].phase \in Engine /\ redo[Of(j)] # "ready"
          /\ row' = row \/ row' = Write(Of(j), "verifying")
      BY <1>4 DEF Transferred, Aborts, Fails, Assembled, Verified, Engaged, Engine
    <2>2. PICK p \in {"assemble", "verify", "ends"}, s \in Known \ {"scheduled"} :
             /\ Goes(j, Deaf(jobs[j], p, s))
             /\ p = "ends" <=> s \in Ended
      <3>1. CASE Transferred(j)
        BY <3>1 DEF Transferred, Known, Active, Parked, Ended
      <3>2. CASE Aborts(j)
        BY <3>2 DEF Aborts, Known, Active, Parked, Ended
      <3>3. CASE Fails(j)
        BY <3>3 DEF Fails, Known, Active, Parked, Ended
      <3>4. CASE Assembled(j)
        BY <3>4 DEF Assembled, Known, Active, Parked, Ended
      <3>5. CASE Verified(j)
        BY <3>5 DEF Verified, Known, Active, Parked, Ended
      <3> QED BY <1>4, <3>1, <3>2, <3>3, <3>4, <3>5
    <2> DEFINE job == Deaf(jobs[j], p, s)
    <2>3. p \in Engine /\ p \in Phases /\ "verifying" \in Known
      BY DEF Engine, Phases, Known, Active
    <2>4. /\ job \in JobState /\ job.phase = p /\ job.sem = jobs[j].sem
          /\ job.state = s
      BY <1>1, <2>3, DeafJob
    <2>5. Goes(j, job)
      BY <2>2
    <2> HIDE DEF job
    <2> QED BY <2>1, <2>2, <2>3, <2>4, <2>5, GoesKeep
  <1> QED BY <1>2, <1>3, <1>4 DEF EngineGoes

----------------------------------------------------------------------------
(* A task whose engine has ended lets its permit go.                       *)

(* The jobs afterwards: the one that leaves is over, the first in line for *)
(* its semaphore has the permit, the others are as they were.              *)
LEMMA LeavesJobs ==
  ASSUME ManagerTypeOK, PermitInv, NEW j \in Jobs, jobs[j].phase \in Engine, Leaves(j)
  PROVE  LET g == jobs[j].sem IN
         /\ g \in Sems
         /\ jobs' \in [Jobs -> JobState]
         /\ jobs'[j].phase = "over" /\ jobs'[j].state = jobs[j].state
         /\ jobs'[j].sem = g
         /\ \A k \in Heir(g) : /\ k \in Jobs \ {j}
                               /\ jobs[k].phase = "waits" /\ jobs[k].sem = g
                               /\ jobs'[k].phase = "granted" /\ jobs'[k].sem = g
         /\ \A k \in Jobs \ ({j} \union Heir(g)) : jobs'[k] = jobs[k]
  <1> DEFINE g == jobs[j].sem
  <1>1. g \in Sems /\ jobs[j] \in JobState
    BY DEF ManagerTypeOK, JobState
  <1>2. \A k \in Heir(g) : k \in Jobs \ {j} /\ jobs[k].phase = "waits" /\ jobs[k].sem = g
    <2> SUFFICES ASSUME waiters[g] # <<>>
                 PROVE  LET k == Head(waiters[g])
                        IN k \in Jobs \ {j} /\ jobs[k].phase = "waits" /\ jobs[k].sem = g
      BY DEF Heir
    <2>1. waiters[g] \in Seq(Jobs)
      BY <1>1 DEF ManagerTypeOK
    <2>2. 1 \in 1 .. Len(waiters[g]) /\ Head(waiters[g]) = waiters[g][1]
          /\ waiters[g][1] \in Jobs
      BY <2>1
    <2>3. jobs[waiters[g][1]].phase = "waits" /\ jobs[waiters[g][1]].sem = g
      BY <1>1, <2>2 DEF PermitInv, LinesTell
    <2> QED BY <2>2, <2>3 DEF Engine
  <1>3. \A k \in Jobs : jobs'[k] = IF k = j THEN [jobs[k] EXCEPT !.phase = "over"]
                                   ELSE IF k \in Heir(g)
                                   THEN [jobs[k] EXCEPT !.phase = "granted"]
                                   ELSE jobs[k]
    BY DEF Leaves
  <1>4. ASSUME NEW k \in Jobs, NEW p \in {"over", "granted"}
        PROVE  /\ [jobs[k] EXCEPT !.phase = p] \in JobState
               /\ [jobs[k] EXCEPT !.phase = p].phase = p
               /\ [jobs[k] EXCEPT !.phase = p].sem = jobs[k].sem
               /\ [jobs[k] EXCEPT !.phase = p].state = jobs[k].state
    <2>1. jobs[k] \in JobState /\ p \in Phases
      BY DEF ManagerTypeOK, Phases
    <2> QED BY <2>1 DEF JobState
  <1>5. jobs' \in [Jobs -> JobState]
    <2>1. \A k \in Jobs : jobs'[k] \in JobState
      BY <1>3, <1>4 DEF ManagerTypeOK
    <2> QED BY <2>1 DEF Leaves
  <1>6. jobs'[j].phase = "over" /\ jobs'[j].state = jobs[j].state /\ jobs'[j].sem = g
    BY <1>3, <1>4
  <1>7. \A k \in Heir(g) : jobs'[k].phase = "granted" /\ jobs'[k].sem = g
    <2> SUFFICES ASSUME NEW k \in Heir(g)
                 PROVE  jobs'[k].phase = "granted" /\ jobs'[k].sem = g
      OBVIOUS
    <2>1. k \in Jobs /\ jobs'[k] = [jobs[k] EXCEPT !.phase = "granted"]
      BY <1>2, <1>3
    <2> QED BY <1>2, <1>4, <2>1
  <1> QED BY <1>1, <1>2, <1>3, <1>5, <1>6, <1>7

(* The permit goes to one job, or back, and the line moves up by one.      *)
LEMMA LeavesPermits ==
  ASSUME ManagerTypeOK, PermitInv, NEW j \in Jobs, jobs[j].phase \in Engine, Leaves(j)
  PROVE  /\ PermitInv'
         /\ free' \in [Sems -> Nat] /\ \A h \in Sems : free'[h] <= size[h]
         /\ waiters' \in [Sems -> Seq(Jobs)]
  <1>0. PICK g \in Sems : g = jobs[j].sem
    BY LeavesJobs
  <1>1. /\ g \in Sems
        /\ jobs'[j].phase = "over" /\ jobs'[j].sem = g
        /\ \A k \in Heir(g) : /\ k \in Jobs \ {j}
                              /\ jobs[k].phase = "waits" /\ jobs[k].sem = g
                              /\ jobs'[k].phase = "granted" /\ jobs'[k].sem = g
        /\ \A k \in Jobs \ ({j} \union Heir(g)) : jobs'[k] = jobs[k]
    BY <1>0, LeavesJobs
  <1>2. /\ free' = [free EXCEPT ![g] = Permits(g, Heir(g))]
        /\ waiters' = [waiters EXCEPT ![g] = IF Heir(g) = {} THEN @ ELSE Tail(@)]
        /\ UNCHANGED <<sem, size>>
    BY <1>0 DEF Leaves
  <1>3. \A h \in Sems \ {g} : Holders(h)' = Holders(h)
    BY <1>0, <1>1 DEF Holders
  <1>4. Holders(g)' = (Holders(g) \ {j}) \union Heir(g)
    BY <1>0, <1>1 DEF Holders, Engine
  <1>5. j \in Holders(g) /\ Heir(g) \cap Holders(g) = {}
    BY <1>0, <1>1 DEF Holders, Engine
  <1>6. IsFiniteSet(Holders(g)) /\ free[g] + Cardinality(Holders(g)) = size[g]
    BY <1>1 DEF PermitInv, PermitsTell, PermitsConserved
  <1>7. /\ IsFiniteSet(Holders(g) \ {j}) /\ Cardinality(Holders(g)) \in Nat
        /\ Cardinality(Holders(g) \ {j}) \in Nat
        /\ Cardinality(Holders(g) \ {j}) = Cardinality(Holders(g)) - 1
    BY <1>5, <1>6, FS_RemoveElement, FS_CardinalityType
  <1>8. free[g] \in Nat /\ size[g] \in Nat /\ waiters[g] \in Seq(Jobs)
    BY <1>1 DEF ManagerTypeOK
  <1>9. /\ free'[g] = Permits(g, Heir(g))
        /\ \A h \in Sems \ {g} : free'[h] = free[h] /\ waiters'[h] = waiters[h]
        /\ waiters'[g] = IF Heir(g) = {} THEN waiters[g] ELSE Tail(waiters[g])
    BY <1>1, <1>2 DEF ManagerTypeOK
  <1>10. CASE waiters[g] = <<>>
    <2>1. Heir(g) = {} /\ free'[g] = free[g] + 1
      BY <1>9, <1>10 DEF Heir, Permits
    <2>2. /\ IsFiniteSet(Holders(g)')
          /\ free'[g] \in Nat /\ free'[g] + Cardinality(Holders(g)') = size[g]
          /\ free'[g] <= size[g]
      <3>1. IsFiniteSet(Holders(g)') /\ Cardinality(Holders(g)') = Cardinality(Holders(g)) - 1
        <4>1. Holders(g)' = Holders(g) \ {j}
          BY <1>4, <2>1
        <4> QED BY <1>7, <4>1
      <3>2. Cardinality(Holders(g)') \in Nat
        BY <3>1, FS_CardinalityType
      <3> QED BY <1>6, <1>7, <1>8, <2>1, <3>1, <3>2
    <2>3. waiters' = waiters
      BY <1>1, <1>2, <2>1 DEF ManagerTypeOK
    <2>4. free' \in [Sems -> Nat] /\ \A h \in Sems : free'[h] <= size[h]
      BY <1>1, <1>2, <1>8, <1>9, <2>2 DEF ManagerTypeOK
    <2>5. PermitsTell'
      <3> SUFFICES ASSUME NEW n \in Sems
                   PROVE  /\ free'[n] + Cardinality(Holders(n)') = size[n]
                          /\ waiters[n] # <<>> => free'[n] = 0
                          /\ IsFiniteSet(Holders(n)')
        BY <1>2, <2>3 DEF PermitsTell, PermitsConserved
      <3>1. CASE n = g
        BY <1>10, <2>2, <3>1
      <3>2. CASE n # g
        BY <1>3, <1>9, <3>2 DEF PermitInv, PermitsTell, PermitsConserved
      <3> QED BY <3>1, <3>2
    <2>6. LinesTell'
      <3>1. ASSUME NEW h \in Sems, NEW i \in 1 .. Len(waiters[h])
            PROVE  jobs'[waiters[h][i]].phase = "waits" /\ jobs'[waiters[h][i]].sem = h
        <4>1. /\ waiters[h][i] \in Jobs /\ jobs[waiters[h][i]].phase = "waits"
              /\ jobs[waiters[h][i]].sem = h
          BY DEF ManagerTypeOK, PermitInv, LinesTell
        <4> QED BY <1>1, <2>1, <4>1 DEF Engine
      <3>2. \A k \in Jobs : jobs'[k].sem <= sem
        <4>1. \A k \in Jobs : jobs'[k].sem = jobs[k].sem
          BY <1>0, <1>1, <2>1
        <4> QED BY <4>1 DEF PermitInv, LinesTell
      <3> QED BY <1>2, <2>3, <3>1, <3>2 DEF PermitInv, LinesTell
    <2> QED BY <2>3, <2>4, <2>5, <2>6 DEF PermitInv, ManagerTypeOK
  <1>11. CASE waiters[g] # <<>>
    <2> DEFINE h == Head(waiters[g])
    <2>1. Heir(g) = {h} /\ free'[g] = free[g] /\ waiters'[g] = Tail(waiters[g])
      BY <1>9, <1>11 DEF Heir, Permits
    <2>2. /\ free[g] = 0 /\ h \notin Holders(g) \ {j}
      BY <1>1, <1>5, <1>11, <2>1 DEF PermitInv, PermitsTell, PermitsConserved
    <2>3. /\ IsFiniteSet(Holders(g)')
          /\ Cardinality(Holders(g)') = Cardinality(Holders(g) \ {j}) + 1
      <3>1. Holders(g)' = (Holders(g) \ {j}) \union {h}
        BY <1>4, <2>1
      <3> HIDE DEF h
      <3>2. /\ IsFiniteSet((Holders(g) \ {j}) \union {h})
            /\ Cardinality((Holders(g) \ {j}) \union {h}) = Cardinality(Holders(g) \ {j}) + 1
        BY <1>7, <2>2, FS_AddElement
      <3> QED BY <3>1, <3>2
    <2>4. free' = free
      <3>1. free' = [free EXCEPT ![g] = free[g]]
        BY <1>2, <1>9, <2>1
      <3> QED BY <3>1 DEF ManagerTypeOK
    <2>5. free'[g] + Cardinality(Holders(g)') = size[g]
      BY <1>6, <1>7, <1>8, <2>1, <2>3
    <2>6. waiters' \in [Sems -> Seq(Jobs)]
      BY <1>1, <1>2, <1>8, <1>11, <2>1 DEF ManagerTypeOK
    <2>7. PermitsTell'
      BY <1>1, <1>2, <1>3, <1>9, <2>2, <2>3, <2>4, <2>5
         DEF PermitInv, PermitsTell, PermitsConserved
    <2>8. LinesTell'
      <3>1. /\ Len(Tail(waiters[g])) = Len(waiters[g]) - 1
            /\ Len(waiters[g]) \in Nat /\ Len(waiters[g]) >= 1 /\ h = waiters[g][1]
            /\ \A i \in 1 .. Len(waiters[g]) - 1 :
                  Tail(waiters[g])[i] = waiters[g][i + 1]
        BY <1>8, <1>11
      <3>2. \A n \in Sems : \A i \in 1 .. Len(waiters'[n]) :
               \E k \in 1 .. Len(waiters[n]) :
                  /\ waiters'[n][i] = waiters[n][k]
                  /\ k = IF n = g THEN i + 1 ELSE i
        <4> SUFFICES ASSUME NEW n \in Sems, NEW i \in 1 .. Len(waiters'[n])
                     PROVE  LET k == IF n = g THEN i + 1 ELSE i
                            IN  /\ k \in 1 .. Len(waiters[n])
                                /\ waiters'[n][i] = waiters[n][k]
          OBVIOUS
        <4>1. CASE n = g
          <5>1. i \in 1 .. Len(waiters[g]) - 1
            BY <2>1, <3>1, <4>1
          <5>2. i + 1 \in 1 .. Len(waiters[g]) /\ waiters'[g][i] = waiters[g][i + 1]
            BY <2>1, <3>1, <5>1
          <5> QED BY <4>1, <5>2
        <4>2. CASE n # g
          BY <1>9, <4>2
        <4> QED BY <4>1, <4>2
      <3>3. ASSUME NEW n \in Sems, NEW i \in 1 .. Len(waiters'[n])
            PROVE  jobs'[waiters'[n][i]].phase = "waits"
                   /\ jobs'[waiters'[n][i]].sem = n
        <4>1. PICK k \in 1 .. Len(waiters[n]) :
                  /\ waiters'[n][i] = waiters[n][k]
                  /\ k = IF n = g THEN i + 1 ELSE i
          BY <3>2
        <4>2. /\ waiters[n][k] \in Jobs /\ jobs[waiters[n][k]].phase = "waits"
              /\ jobs[waiters[n][k]].sem = n
          BY DEF ManagerTypeOK, PermitInv, LinesTell
        <4>3. waiters[n][k] # h
          <5>1. CASE n = g
            <6>1. k # 1 /\ 1 \in 1 .. Len(waiters[g])
              BY <3>1, <4>1, <5>1
            <6> QED BY <3>1, <5>1, <6>1, <1>1 DEF PermitInv, LinesTell
          <5>2. CASE n # g
            BY <1>1, <2>1, <4>2, <5>2
          <5> QED BY <5>1, <5>2
        <4>4. jobs'[waiters[n][k]] = jobs[waiters[n][k]]
          BY <1>1, <2>1, <4>2, <4>3 DEF Engine
        <4> QED BY <4>1, <4>2, <4>4
      <3>4. ASSUME NEW n \in Sems, NEW i1 \in 1 .. Len(waiters'[n]),
                   NEW i2 \in 1 .. Len(waiters'[n]), waiters'[n][i1] = waiters'[n][i2]
            PROVE  i1 = i2
        <4>1. PICK k1 \in 1 .. Len(waiters[n]) :
                  /\ waiters'[n][i1] = waiters[n][k1]
                  /\ k1 = IF n = g THEN i1 + 1 ELSE i1
          BY <3>2
        <4>2. PICK k2 \in 1 .. Len(waiters[n]) :
                  /\ waiters'[n][i2] = waiters[n][k2]
                  /\ k2 = IF n = g THEN i2 + 1 ELSE i2
          BY <3>2
        <4>3. k1 = k2
          <5>1. waiters[n][k1] = waiters[n][k2]
            BY <3>4, <4>1, <4>2
          <5> QED BY <5>1 DEF PermitInv, LinesTell
        <4> QED BY <4>1, <4>2, <4>3
      <3>5. \A n \in Sems : n > sem' => waiters'[n] = <<>>
        BY <1>2, <1>9, <1>11 DEF PermitInv, LinesTell
      <3>6. \A k \in Jobs : jobs'[k].sem <= sem'
        <4>1. \A k \in Jobs : jobs'[k].sem = jobs[k].sem
          BY <1>0, <1>1
        <4> QED BY <1>2, <4>1 DEF PermitInv, LinesTell
      <3> QED BY <3>3, <3>4, <3>5, <3>6 DEF LinesTell
    <2>9. free' \in [Sems -> Nat] /\ \A n \in Sems : free'[n] <= size[n]
      BY <2>4 DEF ManagerTypeOK
    <2> QED BY <2>6, <2>7, <2>8, <2>9 DEF PermitInv
  <1> QED BY <1>10, <1>11

(* What the engine returned is in the row before the permit goes, unless   *)
(* it raised.                                                              *)
LEMMA LeavesKeep ==
  ASSUME IInv, NEW j \in Jobs, jobs[j].phase \in Engine, redo[Of(j)] # "ready",
         Leaves(j), UNCHANGED userVars,
         \/ jobs[j].phase = "ends" /\ row' = Write(Of(j), jobs[j].state)
         \/ jobs[j].phase # "ends" /\ row' = row
  PROVE  IInv'
  <1>1. ManagerTypeOK /\ TableTells /\ CoreTells /\ PermitInv /\ RowTells
    BY DEF IInv, TablesInv, StatusInv
  <1>2. Of(j) \in Downloads /\ j # NoJob /\ jobs[j] \in JobState
    BY <1>1, ManagerAssumption DEF Jobs, Of, ManagerTypeOK
  <1>3. PICK g \in Sems :
           /\ g = jobs[j].sem
           /\ jobs' \in [Jobs -> JobState]
           /\ jobs'[j].phase = "over" /\ jobs'[j].state = jobs[j].state
           /\ \A k \in Heir(g) : /\ k \in Jobs \ {j} /\ jobs[k].phase = "waits"
                                 /\ jobs'[k].phase = "granted"
           /\ \A k \in Jobs \ ({j} \union Heir(g)) : jobs'[k] = jobs[k]
    BY <1>1, LeavesJobs
  <1>4. /\ PermitInv'
        /\ free' \in [Sems -> Nat] /\ \A h \in Sems : free'[h] <= size[h]
        /\ waiters' \in [Sems -> Seq(Jobs)]
    BY <1>1, LeavesPermits
  <1>5. jobs[j].phase = "ends" => jobs[j].state \in Known
    BY <1>1 DEF RowTells, Known
  <1>6. /\ row' \in [Downloads -> Status]
        /\ \A e \in Downloads \ {Of(j)} : row'[e] = row[e]
        /\ row'[Of(j)] = "new" => row[Of(j)] = "new"
        /\ jobs[j].phase = "ends" => row'[Of(j)] \in Ended \union {"new", "removed"}
    <2>1. CASE jobs[j].phase = "ends"
      BY <1>1, <1>2, <1>5, <2>1, WriteRow
         DEF ManagerTypeOK, Known, Active, Parked, Ended, RowTells, Status
    <2>2. CASE jobs[j].phase # "ends"
      BY <1>1, <2>2 DEF ManagerTypeOK
    <2> QED BY <2>1, <2>2
  <1>7. /\ core'[Of(j)] = NoJob /\ \A e \in Downloads \ {Of(j)} : core'[e] = core[e]
        /\ core' \in [Downloads -> Jobs \union {NoJob}]
        /\ UNCHANGED <<table, limit, sem, size, pauseVars, switched, redo>>
    BY <1>1, <1>2 DEF Leaves, ManagerTypeOK, userVars
  <1>8. \A k \in Jobs : Of(k) = Of(j) /\ jobs[k].phase # "free" => k = j
    BY <1>1 DEF TableTells, Engine
  <1>9. \A k \in Jobs : \/ k = j /\ jobs'[k].phase = "over"
                        \/ /\ k # j /\ jobs[k].phase = "waits"
                           /\ jobs'[k].phase = "granted" /\ Of(k) # Of(j)
                        \/ k # j /\ jobs'[k] = jobs[k]
    BY <1>3, <1>8
  <1>10. ManagerTypeOK'
    BY <1>1, <1>3, <1>4, <1>6, <1>7 DEF ManagerTypeOK, pauseVars, PauseTypeOK
  <1>11. TableTells'
    <2>1. \A k \in Jobs : jobs'[k].phase = "free" <=> jobs[k].phase = "free"
      BY <1>9 DEF Engine
    <2>2. \A d \in Downloads : row'[d] = "new" => row[d] = "new"
      BY <1>6
    <2> QED BY <1>1, <1>7, <2>1, <2>2 DEF TableTells
  <1>12. CoreTells'
    <2>1. ASSUME NEW d \in Downloads, core'[d] # NoJob
          PROVE  Of(core'[d]) = d /\ jobs'[core'[d]].phase \in Engine
      <3>1. d # Of(j) /\ core'[d] = core[d] /\ core[d] \in Jobs
        BY <1>1, <1>7, <2>1 DEF ManagerTypeOK
      <3>2. Of(core[d]) = d /\ jobs[core[d]].phase \in Engine /\ core[d] # j
        BY <1>1, <2>1, <3>1 DEF CoreTells
      <3> QED BY <1>9, <3>1, <3>2 DEF Engine
    <2>2. ASSUME NEW k \in Jobs, jobs'[k].phase \in Engine
          PROVE  core'[Of(k)] = k
      <3>1. k # j /\ jobs[k].phase \in Engine /\ Of(k) # Of(j) /\ Of(k) \in Downloads
        BY <1>8, <1>9, <2>2 DEF Engine, Jobs, Of
      <3> QED BY <1>1, <1>7, <3>1 DEF CoreTells, Processing
    <2> QED BY <2>1, <2>2 DEF CoreTells, Processing
  <1>13. HeldTells'
    BY <1>9 DEF IInv, StatusInv, HeldTells
  <1>14. RedoTells'
    BY <1>2, <1>7, <1>9 DEF IInv, StatusInv, RedoTells
  <1>15. RowTells'
    <2> SUFFICES ASSUME NEW k \in Jobs
        PROVE  /\ \/ jobs'[k].phase \in {"created", "waits", "granted"}
                  \/ jobs'[k].phase = "over" /\ jobs'[k].state \in Ended
                  => row'[Of(k)] \notin Active
               /\ jobs'[k].phase = "ends" => jobs'[k].state \in Ended
               /\ jobs'[k].phase \in Engine \ {"ends"} => jobs'[k].state \notin Ended
      BY DEF RowTells
    <2>1. CASE k = j
      <3>1. jobs'[k].phase = "over" /\ jobs'[k].state = jobs[j].state
        BY <1>3, <2>1
      <3>2. jobs[j].state \in Ended => jobs[j].phase = "ends"
        BY <1>1 DEF RowTells
      <3>3. jobs[j].phase = "ends" => row'[Of(k)] \notin Active
        BY <1>6, <2>1 DEF Ended, Active
      <3> QED BY <3>1, <3>2, <3>3 DEF Engine
    <2>2. CASE k # j /\ jobs[k].phase = "waits" /\ jobs'[k].phase = "granted"
                /\ Of(k) # Of(j)
      <3>1. row'[Of(k)] = row[Of(k)] /\ row[Of(k)] \notin Active
        BY <1>1, <1>6, <2>2 DEF RowTells, Jobs, Of
      <3> QED BY <2>2, <3>1 DEF Engine
    <2>3. CASE k # j /\ jobs'[k] = jobs[k]
      <3>1. jobs[k].phase = "free" \/ row'[Of(k)] = row[Of(k)]
        BY <1>6, <1>8, <2>3 DEF Jobs, Of
      <3> QED BY <1>1, <2>3, <3>1 DEF RowTells, Engine
    <2> QED BY <1>9, <2>1, <2>2, <2>3
  <1>16. StatusTruthful'
    <2> SUFFICES ASSUME NEW k \in Jobs, jobs'[k].phase = "pool",
                        ~jobs'[k].cancel, row'[Of(k)] # "removed"
                 PROVE  row'[Of(k)] = Settled(jobs'[k].running)
      BY DEF StatusTruthful, Processing
    <2>1. k # j /\ jobs'[k] = jobs[k] /\ k \in Processing
      BY <1>9 DEF Processing, Engine
    <2>2. row'[Of(k)] = row[Of(k)] /\ core[Of(k)] = k
      BY <1>1, <1>6, <1>8, <2>1 DEF CoreTells, Processing, Engine, Jobs, Of
    <2> QED BY <2>1, <2>2 DEF IInv, StatusInv, StatusTruthful
  <1> QED BY <1>4, <1>10, <1>11, <1>12, <1>13, <1>14, <1>15, <1>16
          DEF IInv, TablesInv, StatusInv

(* The done callback of a task.                                            *)
LEMMA ForgetKeeps ==
  ASSUME IInv, NEW j \in Jobs, Forget(j)
  PROVE  IInv'
  <1>1. ManagerTypeOK /\ TableTells /\ CoreTells /\ PermitInv
    BY DEF IInv, TablesInv
  <1>2. Of(j) \in Downloads /\ j # NoJob /\ jobs[j].phase = "over"
    BY ManagerAssumption DEF Jobs, Of, Forget
  <1>3. /\ jobs' \in [Jobs -> JobState]
        /\ jobs'[j].phase = "free" /\ jobs'[j].sem = 1
        /\ \A k \in Jobs \ {j} : jobs'[k] = jobs[k]
    BY <1>1, IdleJob DEF Forget, ManagerTypeOK
  <1>4. table[Of(j)] = j /\ \A k \in Jobs \ {j} : Of(k) = Of(j) => jobs[k].phase = "free"
    BY <1>1, <1>2 DEF TableTells
  <1>5. /\ table'[Of(j)] = NoJob /\ \A d \in Downloads \ {Of(j)} : table'[d] = table[d]
        /\ table' \in [Downloads -> Jobs \union {NoJob}]
        /\ UNCHANGED <<row, core, semVars, switched, pauseVars>>
        /\ redo' \in [Downloads -> {"no", "waits", "ready"}]
        /\ \A d \in Downloads \ {Of(j)} : redo'[d] = redo[d]
    BY <1>1, <1>2 DEF Forget, ManagerTypeOK
  <1>6. ManagerTypeOK'
    BY <1>1, <1>3, <1>5 DEF ManagerTypeOK, semVars, pauseVars, PauseTypeOK
  <1>7. TableTells'
    <2>1. \A d \in Downloads : table'[d] # NoJob => Of(table'[d]) = d /\ row'[d] # "new"
      BY <1>1, <1>5 DEF TableTells
    <2>2. ASSUME NEW k \in Jobs
          PROVE  jobs'[k].phase # "free" <=> table'[Of(k)] = k
      <3>1. CASE Of(k) = Of(j)
        BY <1>2, <1>3, <1>4, <1>5, <3>1, ManagerAssumption
      <3>2. CASE Of(k) # Of(j)
        BY <1>1, <1>3, <1>5, <3>2 DEF TableTells, Jobs, Of
      <3> QED BY <3>1, <3>2
    <2> QED BY <2>1, <2>2 DEF TableTells
  <1>8. CoreTells'
    <2>1. Processing' = Processing
      BY <1>2, <1>3 DEF Processing, Engine
    <2>2. \A d \in Downloads : core[d] # NoJob => core[d] \in Jobs /\ core[d] # j
      BY <1>1, <1>2 DEF ManagerTypeOK, CoreTells, Engine
    <2> QED BY <1>1, <1>3, <1>5, <2>1, <2>2 DEF CoreTells
  <1>9. PermitInv'
    <2>1. 1 <= sem
      BY <1>1 DEF ManagerTypeOK, Sems
    <2>2. \A k \in Jobs : SamePlace(k)
      BY <1>2, <1>3, <2>1 DEF SamePlace
    <2> QED BY <1>1, <1>5, <2>2, PlacesKeepPermits DEF semVars
  <1>10. HeldTells'
    BY <1>3 DEF IInv, StatusInv, HeldTells
  <1>11. RedoTells'
    <2> SUFFICES ASSUME NEW k \in Jobs, redo'[Of(k)] = "ready", jobs'[k].phase # "free"
                 PROVE  jobs'[k].phase \in {"created", "waits", "granted", "probe"}
      BY DEF RedoTells
    <2>1. k # j /\ jobs'[k] = jobs[k] /\ Of(k) # Of(j) /\ Of(k) \in Downloads
      BY <1>3, <1>4 DEF Jobs, Of
    <2> QED BY <1>5, <2>1 DEF IInv, StatusInv, RedoTells
  <1>12. RowTells'
    BY <1>3, <1>5 DEF IInv, StatusInv, RowTells, Engine
  <1>13. StatusTruthful'
    BY <1>3, <1>5 DEF IInv, StatusInv, StatusTruthful, Processing
  <1> QED BY <1>6, <1>7, <1>8, <1>9, <1>10, <1>11, <1>12, <1>13
          DEF IInv, TablesInv, StatusInv

----------------------------------------------------------------------------
(* What is left: adding a row, a restart that finds another task, saved    *)
(* settings, and the end of the process.                                   *)

LEMMA AddKeeps ==
  ASSUME IInv, NEW d \in Downloads, Add(d)
  PROVE  IInv'
  <1>1. ManagerTypeOK /\ TableTells /\ row[d] = "new"
    BY DEF IInv, TablesInv, Add
  <1>2. /\ UNCHANGED <<jobs, table, core, semVars, userVars, pauseVars>>
        /\ row' \in [Downloads -> Status] /\ row'[d] = "queued"
        /\ \A e \in Downloads \ {d} : row'[e] = row[e]
    BY <1>1 DEF Add, ManagerTypeOK, Status, Known, Parked
  <1>3. \A j \in Jobs : jobs[j].phase # "free" => Of(j) # d /\ Of(j) \in Downloads
    BY <1>1, ManagerAssumption DEF TableTells, Jobs, Of
  <1>4. TablesInv' /\ PermitInv'
    <2>1. /\ jobs' \in [Jobs -> JobState] /\ PauseTypeOK' /\ switched' \subseteq Downloads
          /\ redo' \in [Downloads -> {"no", "waits", "ready"}]
      BY <1>1, <1>2 DEF ManagerTypeOK, pauseVars, PauseTypeOK, userVars
    <2>2. \A e \in Downloads : row'[e] = "new" => row[e] = "new"
      BY <1>2
    <2> QED BY <1>2, <2>1, <2>2, PhasesKeepTables
  <1>5. HeldTells' /\ RedoTells'
    BY <1>2 DEF IInv, StatusInv, HeldTells, RedoTells, userVars
  <1>6. RowTells'
    BY <1>2, <1>3 DEF IInv, StatusInv, RowTells
  <1>7. StatusTruthful'
    BY <1>2, <1>3 DEF IInv, StatusInv, StatusTruthful, Processing, Engine
  <1> QED BY <1>4, <1>5, <1>6, <1>7 DEF IInv, StatusInv

(* Restart of a download without a task, from the button or once the old   *)
(* task is gone.                                                           *)
LEMMA AgainKeeps ==
  ASSUME IInv, NEW d \in Downloads, Again(d), row[d] \in Known, table[d] = NoJob,
         UNCHANGED <<core, semVars, switched, pauseVars>>,
         redo' \in [Downloads -> {"no", "waits", "ready"}],
         \A e \in Downloads : redo'[e] = "ready" => redo[e] = "ready"
  PROVE  IInv'
  <1>1. ManagerTypeOK /\ TableTells /\ PermitInv
    BY DEF IInv, TablesInv
  <1> DEFINE n == NewJob(d)
  <1>2. n \in Jobs /\ Of(n) = d
    BY <1>1, NewJobFree
  <1>3. /\ jobs' = [jobs EXCEPT ![n].phase = "created"]
        /\ table' = [table EXCEPT ![d] = n] /\ row' = [row EXCEPT ![d] = "queued"]
    BY DEF Again
  <1> HIDE DEF n
  <1>4. /\ jobs' \in [Jobs -> JobState]
        /\ jobs'[n].phase = "created" /\ jobs'[n].sem = jobs[n].sem
        /\ \A j \in Jobs \ {n} : jobs'[j] = jobs[j]
    <2> DEFINE r == [jobs[n] EXCEPT !.phase = "created"]
    <2>1. jobs \in [Jobs -> JobState] /\ jobs[n] \in JobState
      BY <1>1, <1>2 DEF ManagerTypeOK
    <2>2. r \in JobState /\ r.phase = "created" /\ r.sem = jobs[n].sem
      BY <2>1 DEF JobState, Phases
    <2>3. jobs' = [jobs EXCEPT ![n] = r]
      BY <1>3
    <2> HIDE DEF r
    <2> QED BY <1>2, <2>1, <2>2, <2>3
  <1>5. \A j \in Jobs : \/ j = n /\ jobs'[j].phase = "created" /\ jobs'[j].sem <= sem
                        \/ j # n /\ jobs'[j] = jobs[j]
    BY <1>1, <1>2, <1>4 DEF PermitInv, LinesTell
  <1>6. \A j \in Jobs :
           \/ /\ Of(j) \in {d} /\ j = NewJob(Of(j))
              /\ jobs'[j].phase = "created" /\ jobs'[j].sem <= sem
           \/ /\ Of(j) \in {} /\ j = core[Of(j)]
              /\ jobs'[j] = Released(jobs[j])
           \/ /\ ~(Of(j) \in {d} /\ j = NewJob(Of(j)))
              /\ ~(Of(j) \in {} /\ j = core[Of(j)])
              /\ jobs'[j] = jobs[j]
    BY <1>2, <1>5 DEF n
  <1>7. table' = [e \in Downloads |-> IF e \in {d} THEN NewJob(e) ELSE table[e]]
    BY <1>1, <1>3 DEF n, ManagerTypeOK
  <1>8. /\ row' \in [Downloads -> Status]
        /\ row'[d] \notin Active \union {"new"}
        /\ \A e \in Downloads \ {d} : row'[e] = row[e]
    BY <1>1, <1>3 DEF ManagerTypeOK, Status, Known, Parked, Active
  <1>9. switched' \subseteq Downloads /\ PauseTypeOK'
    BY <1>1 DEF ManagerTypeOK, PauseTypeOK, pauseVars
  <1>10. {d} \in SUBSET Downloads /\ {} \in SUBSET Downloads
    OBVIOUS
  <1>11. /\ \A e \in {d} : table[e] = NoJob /\ row'[e] \notin Active \union {"new"}
         /\ \A e \in Downloads \ ({d} \union {}) : row'[e] = row[e]
    BY <1>8
  <1> DEFINE new == {d}
             held == {}
  <1>12. new \in SUBSET Downloads /\ held \in SUBSET Downloads
    BY <1>10
  <1>13. /\ \A e \in new : table[e] = NoJob
         /\ \A e \in new : row'[e] \notin Active \union {"new"}
         /\ \A e \in held : core[e] # NoJob
         /\ \A e \in held : row'[e] = IF row[e] \in Known THEN "downloading" ELSE row[e]
         /\ \A e \in Downloads \ (new \union held) : row'[e] = row[e]
    BY <1>11
  <1>14. \A j \in Jobs :
            \/ /\ Of(j) \in new /\ j = NewJob(Of(j))
               /\ jobs'[j].phase = "created" /\ jobs'[j].sem <= sem
            \/ /\ Of(j) \in held /\ j = core[Of(j)]
               /\ jobs'[j] = Released(jobs[j])
            \/ /\ ~(Of(j) \in new /\ j = NewJob(Of(j)))
               /\ ~(Of(j) \in held /\ j = core[Of(j)])
               /\ jobs'[j] = jobs[j]
    BY <1>6
  <1>15. table' = [e \in Downloads |-> IF e \in new THEN NewJob(e) ELSE table[e]]
    BY <1>7
  <1> HIDE DEF new, held
  <1>16. jobs' \in [Jobs -> JobState] /\ row' \in [Downloads -> Status]
    BY <1>4, <1>8
  <1>17. Starts(new, held)
    BY ONLY <1>9, <1>13, <1>14, <1>15, <1>16, UNCHANGED <<core, semVars>>,
            redo' \in [Downloads -> {"no", "waits", "ready"}],
            \A e \in Downloads : redo'[e] = "ready" => redo[e] = "ready"
       DEF Starts
  <1> QED BY <1>12, <1>17, StartsKeep

(* A restart that is ready to go on, and finds that start was faster or    *)
(* the row gone.                                                           *)
LEMMA OvertakenKeeps ==
  ASSUME IInv, NEW d \in Downloads, row' = Write(d, "queued"), redo[d] = "ready",
         UNCHANGED <<jobs, table, core, semVars, switched, pauseVars>>,
         redo' = [redo EXCEPT ![d] = "no"]
  PROVE  IInv'
  <1>1. ManagerTypeOK /\ TableTells
    BY DEF IInv, TablesInv
  <1>2. /\ row' \in [Downloads -> Status]
        /\ \A e \in Downloads \ {d} : row'[e] = row[e]
        /\ row'[d] \in {row[d], "queued"}
    BY <1>1, WriteRow DEF ManagerTypeOK, Known, Parked
  <1>3. /\ redo' \in [Downloads -> {"no", "waits", "ready"}]
        /\ \A e \in Downloads : redo'[e] = "ready" => redo[e] = "ready"
    BY <1>1 DEF ManagerTypeOK
  <1>4. TablesInv' /\ PermitInv'
    <2>1. jobs' \in [Jobs -> JobState] /\ PauseTypeOK' /\ switched' \subseteq Downloads
      BY <1>1 DEF ManagerTypeOK, pauseVars, PauseTypeOK
    <2>2. \A e \in Downloads : row'[e] = "new" => row[e] = "new"
      BY <1>2
    <2> QED BY <1>2, <1>3, <2>1, <2>2, PhasesKeepTables
  <1>5. HeldTells' /\ RedoTells'
    BY <1>3 DEF IInv, StatusInv, HeldTells, RedoTells, Jobs, Of
  <1>6. RowTells'
    <2>1. \A e \in Downloads : row'[e] \in Active => row[e] \in Active
      BY <1>2 DEF Active
    <2> QED BY <2>1 DEF IInv, StatusInv, RowTells, Jobs, Of
  <1>7. StatusTruthful'
    <2>1. \A j \in Jobs : jobs[j].phase = "pool" => Of(j) # d /\ Of(j) \in Downloads
      BY DEF IInv, StatusInv, RedoTells, Jobs, Of
    <2> QED BY <1>2, <2>1 DEF IInv, StatusInv, StatusTruthful, Processing
  <1> QED BY <1>4, <1>5, <1>6, <1>7 DEF IInv, StatusInv

(* A semaphore that is replaced keeps its line and its holders; nobody     *)
(* waits for the new one.                                                  *)
LEMMA SettingsKeep ==
  ASSUME IInv, SettingsSaved
  PROVE  IInv'
  <1>1. ManagerTypeOK /\ TableTells /\ CoreTells /\ PermitInv
    BY DEF IInv, TablesInv
  <1>2. UNCHANGED <<row, jobs, table, core, waiters, userVars, pauseVars>> /\ limit' \in Limits
    BY DEF SettingsSaved
  <1>3. StatusInv'
    BY <1>2 DEF IInv, StatusInv, HeldTells, RedoTells, RowTells, StatusTruthful,
                Processing, userVars
  <1>4. TableTells' /\ CoreTells'
    BY <1>1, <1>2 DEF TableTells, CoreTells, Processing
  <1>5. limit' \in Nat
    BY <1>2, ManagerAssumption
  <1>6. CASE UNCHANGED <<sem, size, free>>
    <2>1. ManagerTypeOK'
      BY <1>1, <1>2, <1>6 DEF ManagerTypeOK, userVars, pauseVars, PauseTypeOK
    <2>2. \A j \in Jobs : SamePlace(j)
      BY <1>2 DEF SamePlace
    <2>3. PermitInv'
      BY <1>1, <1>2, <1>6, <2>2, PlacesKeepPermits
    <2> QED BY <1>3, <1>4, <2>1, <2>3 DEF IInv, TablesInv
  <1>7. CASE /\ sem < MaxSems /\ sem' = sem + 1
             /\ size' = [size EXCEPT ![sem + 1] = limit']
             /\ free' = [free EXCEPT ![sem + 1] = limit']
    <2>1. sem \in Sems /\ sem + 1 \in Sems /\ sem' \in Sems
      BY <1>1, <1>7, ManagerAssumption DEF ManagerTypeOK, Sems
    <2>2. /\ size' \in [Sems -> Nat] /\ free' \in [Sems -> Nat]
          /\ size'[sem + 1] = limit' /\ free'[sem + 1] = limit'
          /\ \A g \in Sems \ {sem + 1} : size'[g] = size[g] /\ free'[g] = free[g]
      BY <1>1, <1>5, <1>7, <2>1 DEF ManagerTypeOK
    <2>3. ManagerTypeOK'
      <3>1. ASSUME NEW g \in Sems
            PROVE  free'[g] <= size'[g]
        <4>1. CASE g = sem + 1
          BY <1>5, <2>2, <4>1
        <4>2. CASE g # sem + 1
          BY <1>1, <2>2, <4>2 DEF ManagerTypeOK
        <4> QED BY <4>1, <4>2
      <3> QED BY <1>1, <1>2, <2>1, <2>2, <3>1
              DEF ManagerTypeOK, userVars, pauseVars, PauseTypeOK
    <2>4. \A g \in Sems : Holders(g)' = Holders(g)
      BY <1>2 DEF Holders
    <2>5. Holders(sem + 1) = {} /\ waiters[sem + 1] = <<>>
      <3>1. sem + 1 > sem
        BY <2>1 DEF Sems
      <3>2. \A j \in Jobs : jobs[j].sem # sem + 1
        BY <1>1, <2>1 DEF PermitInv, LinesTell, ManagerTypeOK, JobState, Sems
      <3> QED BY <1>1, <2>1, <3>1, <3>2 DEF PermitInv, LinesTell, Holders
    <2>6. PermitsTell'
      <3> SUFFICES ASSUME NEW g \in Sems
                   PROVE  /\ free'[g] + Cardinality(Holders(g)) = size'[g]
                          /\ waiters[g] # <<>> => free'[g] = 0
                          /\ IsFiniteSet(Holders(g))
        BY <1>2, <2>4 DEF PermitsTell, PermitsConserved
      <3>1. CASE g = sem + 1
        <4>1. Cardinality(Holders(g)) = 0 /\ IsFiniteSet(Holders(g))
          BY <2>5, <3>1, FS_EmptySet
        <4> QED BY <1>5, <2>2, <2>5, <3>1, <4>1
      <3>2. CASE g # sem + 1
        BY <1>1, <2>2, <3>2 DEF PermitInv, PermitsTell, PermitsConserved
      <3> QED BY <3>1, <3>2
    <2>7. LinesTell'
      <3>1. \A g \in Sems : g > sem' => g > sem
        BY <1>7, <2>1 DEF Sems
      <3>2. \A j \in Jobs : jobs[j].sem <= sem'
        BY <1>1, <1>7, <2>1 DEF PermitInv, LinesTell, ManagerTypeOK, JobState, Sems
      <3> QED BY <1>1, <1>2, <3>1, <3>2 DEF PermitInv, LinesTell
    <2> QED BY <1>3, <1>4, <2>3, <2>6, <2>7 DEF IInv, TablesInv, PermitInv
  <1> QED BY <1>6, <1>7 DEF SettingsSaved

(* A process that starts has no jobs and all its permits.                  *)
Fresh ==
    /\ jobs = NoJobs /\ table = NoTasks /\ core = NoTasks
    /\ sem = 1 /\ size = NewSems /\ free = NewSems /\ waiters = NobodyIn
    /\ switched = {} /\ redo = NoRestarts

LEMMA FreshInv ==
  ASSUME Fresh, row \in [Downloads -> Status], limit \in Limits, PauseTypeOK
  PROVE  IInv
  <1>1. limit \in Nat /\ 1 \in Sems
    BY ManagerAssumption DEF Sems
  <1>2. \A j \in Jobs : jobs[j] = Idle /\ jobs[j].phase = "free" /\ jobs[j].sem = 1
    BY IdleJob DEF Fresh, NoJobs
  <1>3. ManagerTypeOK
    <2>1. jobs \in [Jobs -> JobState]
      BY IdleJob DEF Fresh, NoJobs
    <2>2. table \in [Downloads -> Jobs \union {NoJob}] /\ core \in [Downloads -> Jobs \union {NoJob}]
      BY DEF Fresh, NoTasks
    <2>3. /\ size \in [Sems -> Nat] /\ free \in [Sems -> Nat]
          /\ \A g \in Sems : free[g] <= size[g]
      BY <1>1 DEF Fresh, NewSems
    <2>4. waiters \in [Sems -> Seq(Jobs)]
      BY DEF Fresh, NobodyIn
    <2>5. switched \subseteq Downloads /\ redo \in [Downloads -> {"no", "waits", "ready"}]
      BY DEF Fresh, NoRestarts
    <2> QED BY <1>1, <2>1, <2>2, <2>3, <2>4, <2>5 DEF ManagerTypeOK, Fresh
  <1>4. \A d \in Downloads : table[d] = NoJob /\ core[d] = NoJob
    BY DEF Fresh, NoTasks
  <1>5. TableTells
    BY <1>2, <1>4, ManagerAssumption DEF TableTells, Jobs, Of
  <1>6. CoreTells
    BY <1>2, <1>4 DEF CoreTells, Processing, Engine
  <1>7. \A g \in Sems : waiters[g] = <<>> /\ free[g] = size[g] /\ size[g] \in Nat
    BY <1>1 DEF Fresh, NobodyIn, NewSems
  <1>8. \A g \in Sems : Holders(g) = {}
    BY <1>2 DEF Holders, Engine
  <1>9. PermitsTell
    <2>1. ASSUME NEW g \in Sems
          PROVE  /\ free[g] + Cardinality(Holders(g)) = size[g]
                 /\ waiters[g] = <<>> /\ IsFiniteSet(Holders(g))
      <3>1. Cardinality(Holders(g)) = 0 /\ IsFiniteSet(Holders(g))
        BY <1>8, FS_EmptySet
      <3> QED BY <1>7, <3>1
    <2> QED BY <2>1 DEF PermitsTell, PermitsConserved
  <1>10. LinesTell
    BY <1>2, <1>7 DEF LinesTell, Fresh
  <1>11. StatusInv
    BY <1>2 DEF StatusInv, HeldTells, RedoTells, RowTells, StatusTruthful, Processing, Engine
  <1> QED BY <1>3, <1>5, <1>6, <1>9, <1>10, <1>11 DEF IInv, TablesInv, PermitInv

LEMMA NewProcessKeeps ==
  ASSUME IInv, Quit \/ Crash
  PROVE  IInv'
  <1>1. ManagerTypeOK
    BY DEF IInv, TablesInv
  <1>2. row' \in [Downloads -> Status]
    BY <1>1 DEF ManagerTypeOK, Quit, Crash, ShutDown, Status, Known, Ended
  <1>3. UNCHANGED <<limit, pauseVars>> /\ NewProcess
    BY DEF Quit, Crash, NewProcess
  <1>4. Fresh'
    BY <1>3 DEF Fresh, NewProcess, NoJobs, NoTasks, NewSems, NobodyIn, NoRestarts
  <1>5. limit' \in Limits /\ PauseTypeOK'
    BY <1>1, <1>3 DEF ManagerTypeOK, PauseTypeOK, pauseVars
  <1>6. (Fresh /\ row \in [Downloads -> Status] /\ limit \in Limits /\ PauseTypeOK => IInv)'
    BY FreshInv, PTL
  <1> QED BY <1>2, <1>4, <1>5, <1>6

----------------------------------------------------------------------------
(* What the user, the switch and the process do.                           *)

(* Start, resume, and the switch when it goes off.                         *)
LEMMA LaunchKeeps ==
  ASSUME IInv, NEW new \in SUBSET Downloads, NEW held \in SUBSET Downloads,
         NEW sidecars, Launch(new, held, sidecars),
         new \cap held = {},
         \A d \in new : Startable(d),
         \A d \in held : core[d] # NoJob,
         UNCHANGED <<core, semVars, redo>>,
         switched' \subseteq Downloads, PauseTypeOK'
  PROVE  IInv'
  <1>1. ManagerTypeOK /\ TableTells /\ PermitInv
    BY DEF IInv, TablesInv
  <1>2. \A j \in Jobs : jobs[j] \in JobState /\ Of(j) \in Downloads
    BY <1>1 DEF ManagerTypeOK, Jobs, Of
  <1>3. /\ \A d \in new : table[d] = NoJob
        /\ \A d \in new : row[d] \in (Parked \union Ended) \ {"completed"}
    BY DEF Startable, NoTaskCheck
  <1>4. \A j \in Jobs :
            jobs'[j] = IF Of(j) \in new /\ j = NewJob(Of(j))
                       THEN [Idle EXCEPT !.phase = "created"]
                       ELSE IF Of(j) \in held /\ j = core[Of(j)]
                       THEN Released(jobs[j]) ELSE jobs[j]
    BY DEF Launch
  <1>5. jobs' \in [Jobs -> JobState]
    <2>1. \A j \in Jobs : jobs'[j] \in JobState
      BY <1>2, <1>4, IdleJob, ReleasedJob
    <2> QED BY <2>1 DEF Launch
  <1>6. 1 <= sem
    BY <1>1 DEF ManagerTypeOK, Sems
  <1>7. ASSUME NEW j \in Jobs
        PROVE
            \/ /\ Of(j) \in new /\ j = NewJob(Of(j))
               /\ jobs'[j].phase = "created" /\ jobs'[j].sem <= sem
            \/ /\ Of(j) \in held /\ j = core[Of(j)]
               /\ jobs'[j] = Released(jobs[j])
            \/ /\ ~(Of(j) \in new /\ j = NewJob(Of(j)))
               /\ ~(Of(j) \in held /\ j = core[Of(j)])
               /\ jobs'[j] = jobs[j]
    BY <1>4, <1>6, IdleJob
  <1>8. /\ table' = [d \in Downloads |-> IF d \in new THEN NewJob(d) ELSE table[d]]
        /\ row' = [d \in Downloads |->
                     IF d \in held /\ row[d] \in Known THEN "downloading"
                     ELSE IF d \in new /\ row[d] \in Ended /\ d \notin sidecars
                     THEN "scheduled" ELSE row[d]]
    BY DEF Launch
  <1>9. row' \in [Downloads -> Status]
    BY <1>1, <1>8 DEF ManagerTypeOK, Status, Known, Active, Parked
  <1>10. \A d \in new : row'[d] \notin Active \union {"new"}
    BY <1>3, <1>8 DEF Active, Parked, Ended
  <1>11. /\ \A d \in held : row'[d] = IF row[d] \in Known THEN "downloading"
                                      ELSE row[d]
         /\ \A d \in Downloads \ (new \union held) : row'[d] = row[d]
    BY <1>8
  <1>12. redo' \in [Downloads -> {"no", "waits", "ready"}]
         /\ \A d \in Downloads : redo'[d] = "ready" => redo[d] = "ready"
    BY <1>1 DEF ManagerTypeOK
  <1>13. UNCHANGED <<core, semVars>>
    OBVIOUS
  <1>14. Starts(new, held)
    BY ONLY \A d \in held : core[d] # NoJob, switched' \subseteq Downloads, PauseTypeOK',
            <1>3, <1>5, <1>7, <1>8, <1>9, <1>10, <1>11, <1>12, <1>13 DEF Starts
  <1> QED BY <1>14, StartsKeep

LEMMA ResumeAllKeeps ==
  ASSUME IInv, NEW ds \in SUBSET Downloads, ResumeAll(ds),
         UNCHANGED <<core, semVars, redo>>,
         switched' \subseteq Downloads, PauseTypeOK'
  PROVE  IInv'
  <1>1. PICK held \in SUBSET Downloads : held = {d \in ds : core[d] # NoJob}
    OBVIOUS
  <1>2. PICK new \in SUBSET Downloads : new = {d \in ds \ held : Startable(d)}
    OBVIOUS
  <1>3. PICK sidecars \in SUBSET new : Launch(new, held, sidecars)
    BY <1>1, <1>2 DEF ResumeAll
  <1> QED BY <1>1, <1>2, <1>3, LaunchKeeps

LEMMA UserKeeps ==
  ASSUME IInv, NEW d \in Downloads,
         \/ Add(d) \/ Start(d) \/ Resume(d) \/ Pause(d)
         \/ Cancel(d) \/ Remove(d) \/ Restart(d) \/ RestartEnds(d)
  PROVE  IInv'
  <1>1. ManagerTypeOK
    BY DEF IInv, TablesInv
  <1>2. /\ switched \subseteq Downloads
        /\ redo \in [Downloads -> {"no", "waits", "ready"}]
        /\ UNCHANGED pauseVars => PauseTypeOK'
    BY <1>1 DEF ManagerTypeOK, PauseTypeOK, pauseVars
  <1>3. CASE Add(d)
    BY <1>3, AddKeeps
  <1>4. CASE Start(d)
    <2>1. PICK sidecars : Launch({d}, {}, sidecars)
      BY <1>4 DEF Start
    <2>2. CoreTells /\ TableTells /\ table[d] = NoJob
      BY <1>4 DEF IInv, TablesInv, Start, Startable
    <2>3. UNCHANGED <<core, semVars, redo>> /\ switched' \subseteq Downloads /\ PauseTypeOK'
      BY <1>2, <1>4 DEF Start
    <2>4. \A e \in {d} : Startable(e)
      BY <1>4 DEF Start
    <2> QED BY <2>1, <2>3, <2>4, LaunchKeeps
  <1>5. CASE Resume(d)
    <2>1. UNCHANGED <<core, semVars, redo>> /\ switched' \subseteq Downloads /\ PauseTypeOK'
      BY <1>2, <1>5 DEF Resume
    <2>2. ResumeAll({d}) /\ {d} \in SUBSET Downloads
      BY <1>5 DEF Resume
    <2> QED BY <2>1, <2>2, ResumeAllKeeps
  <1>6. CASE Pause(d)
    <2>1. UNCHANGED <<table, core, semVars, redo>> /\ switched' \subseteq Downloads /\ PauseTypeOK'
      BY <1>2, <1>6 DEF Pause, userVars
    <2>2. PauseAll({d}) /\ {d} \in SUBSET Downloads
      BY <1>6 DEF Pause
    <2> QED BY <2>1, <2>2, HoldsKeep
  <1>7. CASE Cancel(d)
    <2>1. /\ Stopping(d) /\ row' = row
          /\ UNCHANGED <<table, core, semVars, switched, pauseVars, redo>>
      BY <1>7 DEF Cancel, userVars
    <2> QED BY <1>2, <2>1, StoppingKeeps
  <1>8. CASE Remove(d)
    <2>1. /\ Stopping(d) /\ row' = [row EXCEPT ![d] = "removed"]
          /\ UNCHANGED <<table, core, semVars, switched, pauseVars, redo>>
      BY <1>8 DEF Remove, userVars
    <2> QED BY <1>2, <2>1, StoppingKeeps
  <1>9. CASE Restart(d)
    <2>1. row[d] \in Known /\ UNCHANGED <<core, semVars, switched, pauseVars>>
      BY <1>9 DEF Restart
    <2>2. CASE table[d] = NoJob
      <3>1. Again(d) /\ UNCHANGED redo
        BY <1>9, <2>2 DEF Restart
      <3> QED BY <1>2, <2>1, <2>2, <3>1, AgainKeeps
    <2>3. CASE table[d] # NoJob
      <3>1. /\ Stopping(d) /\ UNCHANGED <<row, table>>
            /\ redo' = [redo EXCEPT ![d] = "waits"]
        BY <1>9, <2>3 DEF Restart
      <3>2. /\ redo' \in [Downloads -> {"no", "waits", "ready"}]
            /\ \A e \in Downloads : redo'[e] = "ready" => redo[e] = "ready"
        BY <1>2, <3>1
      <3> QED BY <2>1, <3>1, <3>2, StoppingKeeps
    <2> QED BY <2>2, <2>3
  <1>10. CASE RestartEnds(d)
    <2>1. /\ redo[d] = "ready" /\ redo' = [redo EXCEPT ![d] = "no"] /\ Again(d)
          /\ UNCHANGED <<core, semVars, switched, pauseVars>>
      BY <1>10 DEF RestartEnds
    <2>2. /\ redo' \in [Downloads -> {"no", "waits", "ready"}]
          /\ \A e \in Downloads : redo'[e] = "ready" => redo[e] = "ready"
      BY <1>2, <2>1
    <2>3. CASE row[d] \in Known /\ table[d] = NoJob
      BY <2>1, <2>2, <2>3, AgainKeeps
    <2>4. CASE ~(row[d] \in Known /\ table[d] = NoJob)
      <3>1. row' = Write(d, "queued") /\ UNCHANGED <<jobs, table>>
        BY <2>1, <2>4 DEF Again
      <3> QED BY <2>1, <3>1, OvertakenKeeps
    <2> QED BY <2>3, <2>4
  <1> QED BY <1>3, <1>4, <1>5, <1>6, <1>7, <1>8, <1>9, <1>10

LEMMA EngineKeeps ==
  ASSUME IInv, NEW j \in Jobs, EngineNext(j)
  PROVE  IInv'
  <1>1. CASE FirstStep(j)
    BY <1>1, FirstStepKeeps
  <1>2. CASE Enter(j)
    BY <1>2, EnterKeeps
  <1>3. CASE EngineGoes(j)
    BY <1>3, EngineGoesKeeps
  <1>4. CASE Finalize(j) \/ Raises(j)
    <2>1. /\ jobs[j].phase \in Engine /\ redo[Of(j)] # "ready" /\ Leaves(j)
          /\ UNCHANGED userVars
          /\ \/ jobs[j].phase = "ends" /\ row' = Write(Of(j), jobs[j].state)
             \/ jobs[j].phase # "ends" /\ row' = row
      BY <1>4 DEF Finalize, Raises, Engaged, Recorded, Engine
    <2> QED BY <2>1, LeavesKeep
  <1>5. CASE Forget(j)
    BY <1>5, ForgetKeeps
  <1> QED BY <1>1, <1>2, <1>3, <1>4, <1>5 DEF EngineNext, EngineGoes

LEMMA SwitchKeeps ==
  ASSUME IInv, PauseSwitch
  PROVE  IInv'
  <1>1. ManagerTypeOK
    BY DEF IInv, TablesInv
  <1>2. PauseTypeOK'
    <2>1. /\ enabled' \in BOOLEAN /\ hours' \in Hours
      BY <1>1 DEF ManagerTypeOK, PauseTypeOK, PauseSwitch, SwitchOn, SwitchOff,
                  Tick, SetHours
    <2>2. timer' \in BOOLEAN
      <3>1. CASE SwitchOn
        <4>1. hours \in Nat
          BY <1>1, HoursAssumption DEF ManagerTypeOK, PauseTypeOK
        <4>2. timer' = (hours > 0)
          BY <3>1 DEF SwitchOn
        <4>3. CASE hours > 0
          BY <4>2, <4>3
        <4>4. CASE ~(hours > 0)
          BY <4>1, <4>2, <4>4
        <4> QED BY <4>3, <4>4
      <3>2. CASE SwitchOff
        BY <3>2 DEF SwitchOff
      <3>3. ASSUME NEW h \in Hours, SetHours(h)
            PROVE  timer' \in BOOLEAN
        <4>1. timer' = (enabled /\ (timer \/ h > 0))
          BY <3>3 DEF SetHours
        <4> QED BY <4>1, Zenon
      <3>4. SwitchOn \/ SwitchOff \/ \E h \in Hours : SetHours(h)
        BY DEF PauseSwitch, Tick
      <3> QED BY <3>1, <3>2, <3>3, <3>4
    <2> QED BY <2>1, <2>2 DEF PauseTypeOK
  <1>3. CASE PausedByEvent
    <2>1. PICK ds \in SUBSET Downloads :
             /\ switched' = switched \union ds /\ PauseAll(ds)
             /\ UNCHANGED <<table, core, semVars, redo>>
      BY <1>3 DEF PausedByEvent
    <2>2. switched' \subseteq Downloads
      BY <1>1, <2>1 DEF ManagerTypeOK
    <2> QED BY <1>2, <2>1, <2>2, HoldsKeep
  <1>4. CASE ResumedByEvent
    <2>1. ResumeAll(switched) /\ switched \in SUBSET Downloads
      BY <1>1, <1>4 DEF ManagerTypeOK, ResumedByEvent
    <2>2. UNCHANGED <<core, semVars, redo>> /\ switched' \subseteq Downloads
      BY <1>4 DEF ResumedByEvent
    <2> QED BY <1>2, <2>1, <2>2, ResumeAllKeeps
  <1> QED BY <1>3, <1>4 DEF PauseSwitch

(* A step that changes nothing.                                            *)
LEMMA StutterKeeps ==
  ASSUME IInv, UNCHANGED vars
  PROVE  IInv'
  <1>1. ManagerTypeOK
    BY DEF IInv, TablesInv
  <1>2. UNCHANGED <<row, jobs, table, core, semVars, switched, redo, enabled, hours, timer>>
    BY DEF vars, userVars, pauseVars
  <1>3. TablesInv' /\ PermitInv'
    <2>1. /\ jobs' \in [Jobs -> JobState]
          /\ \A j \in Jobs : jobs'[j].phase = jobs[j].phase /\ jobs'[j].sem = jobs[j].sem
          /\ row' \in [Downloads -> Status]
          /\ \A d \in Downloads : row'[d] = "new" => row[d] = "new"
          /\ switched' \subseteq Downloads
          /\ redo' \in [Downloads -> {"no", "waits", "ready"}]
      BY <1>1, <1>2 DEF ManagerTypeOK
    <2>2. PauseTypeOK'
      BY <1>1, <1>2 DEF ManagerTypeOK, PauseTypeOK
    <2>3. UNCHANGED <<table, core, semVars>>
      BY <1>2
    <2> QED BY <2>1, <2>2, <2>3, PhasesKeepTables
  <1>4. StatusInv'
    BY <1>2 DEF IInv, StatusInv, HeldTells, RedoTells, RowTells, StatusTruthful, Processing
  <1> QED BY <1>3, <1>4 DEF IInv

LEMMA InitInv == Init => IInv
  <1> SUFFICES ASSUME Init PROVE IInv
    OBVIOUS
  <1>1. Fresh
    BY DEF Init, Fresh
  <1>2. row \in [Downloads -> Status] /\ limit \in Limits /\ PauseTypeOK
    BY HoursAssumption DEF Init, Status, PauseInit, PauseTypeOK
  <1> QED BY <1>1, <1>2, FreshInv

LEMMA NextKeeps == IInv /\ [Next]_vars => IInv'
  <1> SUFFICES ASSUME IInv, [Next]_vars PROVE IInv'
    OBVIOUS
  <1>1. ASSUME NEW d \in Downloads,
               \/ Add(d) \/ Start(d) \/ Resume(d) \/ Pause(d)
               \/ Cancel(d) \/ Remove(d) \/ Restart(d) \/ RestartEnds(d)
        PROVE  IInv'
    BY <1>1, UserKeeps
  <1>2. ASSUME NEW j \in Jobs, EngineNext(j)
        PROVE  IInv'
    BY <1>2, EngineKeeps
  <1>3. CASE PauseSwitch
    BY <1>3, SwitchKeeps
  <1>4. CASE SettingsSaved
    BY <1>4, SettingsKeep
  <1>5. CASE Quit \/ Crash
    BY <1>5, NewProcessKeeps
  <1>6. CASE UNCHANGED vars
    BY <1>6, StutterKeeps
  <1> QED BY <1>1, <1>2, <1>3, <1>4, <1>5, <1>6 DEF Next

----------------------------------------------------------------------------
(* A row that says it is at work has a task.                               *)

(* What a step may leave of a row and its task.                            *)
Loses(d) == Stuck(d)' => Stuck(d) \/ Raised(d)

LEMMA NextNeverStuck ==
  ASSUME IInv, Next, ~Crash, NEW d \in Downloads
  PROVE  Loses(d)
  <1>1. ManagerTypeOK /\ TableTells /\ CoreTells /\ RowTells
    BY DEF IInv, TablesInv, StatusInv
  <1>2. \A j \in Jobs : Of(j) \in Downloads /\ j # NoJob
    BY ManagerAssumption DEF Jobs, Of
  <1>3. \A j \in Jobs : jobs[j].phase # "free" => table[Of(j)] = j
    BY <1>1 DEF TableTells
  <1>4. ASSUME NEW e \in Downloads, NEW s,
               row' = row \/ row' = Write(e, s), s \notin Active \/ table[e] # NoJob,
               UNCHANGED table
        PROVE  Loses(d)
    BY <1>1, <1>4 DEF Loses, Stuck, ManagerTypeOK, Write
  <1>5. ASSUME NEW ds \in SUBSET Downloads, ResumeAll(ds)
        PROVE  Loses(d)
    <2>1. PICK held \in SUBSET Downloads : held = {e \in ds : core[e] # NoJob}
      OBVIOUS
    <2>2. PICK new \in SUBSET Downloads : new = {e \in ds \ held : Startable(e)}
      OBVIOUS
    <2>3. PICK sidecars \in SUBSET new : Launch(new, held, sidecars)
      BY <1>5, <2>1, <2>2 DEF ResumeAll
    <2>4. d \in held => table[d] # NoJob
      <3>1. d \in held => /\ core[d] \in Jobs /\ Of(core[d]) = d
                          /\ jobs[core[d]].phase # "free"
        <4> SUFFICES ASSUME d \in held
                     PROVE  core[d] \in Jobs /\ Of(core[d]) = d /\ jobs[core[d]].phase # "free"
          OBVIOUS
        <4>1. core[d] # NoJob
          BY <2>1
        <4> QED BY <1>1, <4>1 DEF CoreTells, ManagerTypeOK, Engine
      <3> QED BY <1>2, <1>3, <3>1
    <2>5. d \in new => NewJob(d) \in Jobs
      BY <1>1, <2>2, NewJobFree DEF Startable
    <2>6. /\ table'[d] = IF d \in new THEN NewJob(d) ELSE table[d]
          /\ row'[d] = IF d \in held /\ row[d] \in Known THEN "downloading"
                       ELSE IF d \in new /\ row[d] \in Ended /\ d \notin sidecars
                       THEN "scheduled" ELSE row[d]
      BY <2>3 DEF Launch
    <2> QED BY <1>2, <2>4, <2>5, <2>6 DEF Loses, Stuck
  <1>6. ASSUME NEW ds \in SUBSET Downloads, PauseAll(ds), UNCHANGED table
        PROVE  Loses(d)
    <2>1. row'[d] = row[d] \/ row'[d] = "paused"
      BY <1>6 DEF PauseAll
    <2> QED BY <1>6, <2>1 DEF Loses, Stuck, Active
  <1>7. ASSUME NEW e \in Downloads, Again(e)
        PROVE  Loses(d)
    <2>1. CASE row[e] \in Known /\ table[e] = NoJob
      <3>1. NewJob(e) \in Jobs
        BY <1>1, <2>1, NewJobFree
      <3>2. \/ table'[d] # NoJob
            \/ table'[d] = table[d] /\ row'[d] = row[d]
        BY <1>1, <1>2, <1>7, <2>1, <3>1 DEF Again, ManagerTypeOK
      <3> QED BY <3>2 DEF Loses, Stuck
    <2>2. CASE ~(row[e] \in Known /\ table[e] = NoJob)
      <3>1. row' = Write(e, "queued") /\ UNCHANGED table
        BY <1>7, <2>2 DEF Again
      <3> QED BY <1>4, <3>1 DEF Active
    <2> QED BY <2>1, <2>2
  <1>8. ASSUME NEW e \in Downloads,
               \/ Add(e) \/ Start(e) \/ Resume(e) \/ Pause(e)
               \/ Cancel(e) \/ Remove(e) \/ Restart(e) \/ RestartEnds(e)
        PROVE  Loses(d)
    <2>1. CASE Add(e)
      <3>1. UNCHANGED table /\ (row'[d] = row[d] \/ row'[d] = "queued")
        BY <1>1, <2>1 DEF Add, ManagerTypeOK
      <3> QED BY <3>1 DEF Loses, Stuck, Active
    <2>2. CASE Start(e)
      <3>1. PICK sidecars \in SUBSET {e} : Launch({e}, {}, sidecars)
        BY <2>2 DEF Start
      <3>2. NewJob(e) \in Jobs
        BY <1>1, <2>2, NewJobFree DEF Start, Startable
      <3>3. /\ table'[d] = IF d \in {e} THEN NewJob(d) ELSE table[d]
            /\ d # e => row'[d] = row[d]
        BY <3>1 DEF Launch
      <3> QED BY <1>2, <3>2, <3>3 DEF Loses, Stuck
    <2>3. CASE Resume(e)
      <3>1. ResumeAll({e}) /\ {e} \in SUBSET Downloads
        BY <2>3 DEF Resume
      <3> QED BY <1>5, <3>1
    <2>4. CASE Pause(e)
      <3>1. PauseAll({e}) /\ {e} \in SUBSET Downloads /\ UNCHANGED table
        BY <2>4 DEF Pause
      <3> QED BY <1>6, <3>1
    <2>5. CASE Cancel(e) \/ Remove(e)
      <3>1. UNCHANGED table /\ (row'[d] = row[d] \/ row'[d] = "removed")
        BY <1>1, <2>5 DEF Cancel, Remove, ManagerTypeOK
      <3> QED BY <3>1 DEF Loses, Stuck, Active
    <2>6. CASE Restart(e) \/ RestartEnds(e)
      <3>1. Again(e) \/ UNCHANGED <<row, table>>
        BY <2>6 DEF Restart, RestartEnds
      <3> QED BY <1>7, <3>1 DEF Loses, Stuck
    <2> QED BY <1>8, <2>1, <2>2, <2>3, <2>4, <2>5, <2>6
  <1>9. ASSUME NEW j \in Jobs, EngineNext(j)
        PROVE  Loses(d)
    <2>1. CASE FirstStep(j) \/ Enter(j) \/ EngineGoes(j) \/ Finalize(j) \/ Raises(j)
      <3>1. table[Of(j)] = j /\ UNCHANGED table
        BY <1>3, <2>1
           DEF FirstStep, Enter, EngineGoes, Finalize, Raises, Probed, Transferred,
               FallsBack, Aborts, Fails, Assembled, Verified, Goes, Leaves,
               Engaged, Engine
      <3>2. row' = row \/ \E s : row' = Write(Of(j), s)
        BY <2>1 DEF FirstStep, Submitted, Enter, EngineGoes, Finalize, Recorded, Raises,
                    Probed, Transferred, FallsBack, Aborts, Fails, Assembled, Verified
      <3> QED BY <1>2, <1>4, <3>1, <3>2
    <2>2. CASE Forget(j)
      <3>1. jobs[j].phase = "over" /\ UNCHANGED row /\ table[Of(j)] = j
        BY <1>3, <2>2 DEF Forget
      <3>2. table'[d] = IF d = Of(j) THEN NoJob ELSE table[d]
        BY <1>1, <2>2 DEF Forget, ManagerTypeOK
      <3>3. CASE d = Of(j)
        BY <1>1, <1>2, <3>1, <3>3 DEF RowTells, Loses, Stuck, Raised
      <3>4. CASE d # Of(j)
        BY <3>1, <3>2, <3>4 DEF Loses, Stuck
      <3> QED BY <3>3, <3>4
    <2> QED BY <1>9, <2>1, <2>2 DEF EngineNext, EngineGoes
  <1>10. CASE PauseSwitch
    <2>1. CASE PausedByEvent
      BY <1>6, <2>1 DEF PausedByEvent
    <2>2. CASE ResumedByEvent
      <3>1. ResumeAll(switched) /\ switched \in SUBSET Downloads
        BY <1>1, <2>2 DEF ResumedByEvent, ManagerTypeOK
      <3> QED BY <1>5, <3>1
    <2> QED BY <1>10, <2>1, <2>2 DEF PauseSwitch
  <1>11. CASE SettingsSaved
    BY <1>11 DEF SettingsSaved, Loses, Stuck
  <1>12. CASE Quit
    <2> SUFFICES ASSUME row'[d] \in Active, table[d] # NoJob
                 PROVE  Raised(d)
      BY <1>12 DEF Loses, Stuck, Quit, ShutDown, Active
    <2>1. row'[d] = ShutDown(d)
      BY <1>12 DEF Quit
    <2>2. row[d] \in Active /\ core[d] = NoJob
      BY <2>1 DEF ShutDown, Active, Known
    <2>3. PICK j \in Jobs : table[d] = j /\ Of(j) = d /\ jobs[j].phase # "free"
      BY <1>1 DEF TableTells, ManagerTypeOK
    <2>4. jobs[j].phase \notin Engine
      BY <1>1, <1>2, <2>2, <2>3 DEF CoreTells, Processing
    <2>5. jobs[j].phase \in Phases
      BY <1>1, <2>3 DEF ManagerTypeOK, JobState
    <2>6. jobs[j].phase = "over" /\ jobs[j].state \notin Ended
      BY <1>1, <2>2, <2>3, <2>4, <2>5 DEF RowTells, Phases
    <2> QED BY <1>2, <2>3, <2>6 DEF Raised
  <1> QED BY <1>8, <1>9, <1>10, <1>11, <1>12 DEF Next

----------------------------------------------------------------------------
(* The theorems.                                                           *)

(* The invariant holds in every behaviour of the manager.                  *)
THEOREM ManagerInvariant == Spec => []IInv
  <1>1. Init => IInv
    BY InitInv
  <1>2. IInv /\ [Next]_vars => IInv'
    BY NextKeeps
  <1> QED BY <1>1, <1>2, PTL DEF Spec

(* Rows, tasks, tables and permits keep their types: a row never takes a   *)
(* status the engine does not report, and no semaphore of the manager has  *)
(* more permits free than it was created with.                             *)
THEOREM ManagerType == Spec => []ManagerTypeOK
  <1>1. IInv => ManagerTypeOK
    BY DEF IInv, TablesInv
  <1> QED BY <1>1, ManagerInvariant, PTL

(* However start, resume, restart, the switch and the end of a task        *)
(* interleave, a download never has two tasks: the manager's table is the  *)
(* lock, and it is held from create_task to the done callback.             *)
THEOREM OneTaskAlways == Spec => []OneTask
  <1>1. IInv => OneTask
    BY DEF IInv, TablesInv, TableTells, OneTask
  <1> QED BY <1>1, ManagerInvariant, PTL

(* Whatever the downloads do, and however often the settings replace the   *)
(* semaphore, each semaphore's permits are free or in the hand of a task,  *)
(* and none is free while a task waits in its line.                        *)
THEOREM PermitsNeverLost == Spec => []PermitsConserved
  <1>1. IInv => PermitsConserved
    BY DEF IInv, PermitInv, PermitsTell
  <1> QED BY <1>1, ManagerInvariant, PTL

(* The status the user sees of a transfer tells whether it is held, even   *)
(* when the pause landed in the probe or a restart was under way.          *)
THEOREM StatusAlwaysTruthful == Spec => []StatusTruthful
  <1>1. IInv => StatusTruthful
    BY DEF IInv, StatusInv
  <1> QED BY <1>1, ManagerInvariant, PTL

(* No step loses the task of a row that says it is at work, but a crash    *)
(* and the end of a task whose engine raised: everything else leaves such  *)
(* a row its task, or a status from which start accepts it.                *)
THEOREM NeverStuckAlways == Spec => NeverStuck
  <1>1. IInv /\ [Next]_vars
        => [\A d \in Downloads : Stuck(d)' => Stuck(d) \/ Raised(d) \/ Crash]_vars
    BY NextNeverStuck DEF Loses
  <1> QED BY <1>1, ManagerInvariant, PTL DEF Spec, NeverStuck

=============================================================================
