---------------------------- MODULE TorrentQueue ----------------------------
(***************************************************************************)
(* Torrents: the queue that admits them (TorrentQueue in                   *)
(* core/torrent_queue.py), the branch of DownloadManager that runs them    *)
(* and the handler that watches one of them (torrent/handler.py).          *)
(*                                                                         *)
(* The queue keeps nothing of its own: it counts the slots in use from the *)
(* rows of the database, the table of tasks and the handlers, whenever it  *)
(* is asked.  The tasks share the semaphore of all downloads, of which the *)
(* queue knows nothing.  A pause leaves the task and its handler parked.   *)
(***************************************************************************)
EXTENDS Naturals, Sequences, FiniteSets

CONSTANTS
    NumTorrents, \* the torrents there may be, by id, in the order of creation
    Priorities,  \* values of the priority column
    Slots,       \* values of torrent.max_active_downloads, the transfers at once
    Places,      \* values of torrent.max_active_torrents, the queue's places
    Permits,     \* permits of the semaphore of downloads.simultaneous
    Restarts     \* whether the process may end and start again

ASSUME TorrentAssumption ==
    /\ NumTorrents \in Nat /\ Permits \in Nat \ {0}
    /\ Slots \subseteq Nat \ {0} /\ Places \subseteq Nat \ {0}
    /\ Priorities \subseteq Nat /\ 0 \in Priorities
    /\ Restarts \in BOOLEAN

Torrents == 1 .. NumTorrents

VARIABLES
    row,     \* status column, "new" before the torrent is added
    seeding, \* torrent_seeding column
    prio,    \* priority column
    limits,  \* the two settings, [slots, places]
    task,    \* the task of each torrent, see TaskState
    free,    \* permits nobody has
    line,    \* the torrents whose tasks wait for a permit, first come first
    redo     \* restart(): "no", "waits" for the task to end, or "ready"

vars == <<row, seeding, prio, limits, task, free, line, redo>>

Transfer == {"connecting", "downloading"}
Waiting  == {"queued", "scheduled", "paused"}
Ended    == {"completed", "failed", "stopped"}
Known    == Transfer \union Waiting \union Ended

(* A task has a handler from "adding", when the torrent is handed to the   *)
(* library, to the end of "polling"; paused and cancel are the handler's   *)
(* events.                                                                 *)
Handled   == {"adding", "polling"}
TaskState == [phase : {"none", "created", "waits", "granted", "over"}
                        \union Handled,
              paused : BOOLEAN, cancel : BOOLEAN]
In(phase) == [phase |-> phase, paused |-> FALSE, cancel |-> FALSE]

Limits == [slots : Slots, places : Places]

HasTask(t, d)    == t[d].phase # "none"
HasHandler(t, d) == t[d].phase \in Handled
Parked(t, d)     == HasHandler(t, d) /\ t[d].paused

Init == /\ row = [d \in Torrents |-> "new"]
        /\ seeding = [d \in Torrents |-> FALSE]
        /\ prio = [d \in Torrents |-> 0]
        /\ limits \in Limits
        /\ task = [d \in Torrents |-> In("none")]
        /\ free = Permits /\ line = <<>>
        /\ redo = [d \in Torrents |-> "no"]

----------------------------------------------------------------------------
(* The queue.  Its operators take the rows and the tasks they look at,     *)
(* which the caller may have changed in the same step.                     *)

(* Higher priority first, then the older, which has the smaller id.        *)
Before(p, d, e) == p[d] > p[e] \/ (p[d] = p[e] /\ d < e)

Unfinished(r) == {d \in Torrents : /\ r[d] \in Transfer \union Waiting
                                   /\ ~seeding[d]}

(* The rows that want a slot: at work, or starting up.  A parked handler   *)
(* has none, not even while it waits in the queue again.                   *)
TakesSlotParked(r, t, d) ==
    /\ ~seeding[d]
    /\ \/ r[d] \in Transfer
       \/ r[d] \in {"queued", "scheduled"} /\ HasTask(t, d)
TakesSlot(r, t, d) ==
    /\ ~seeding[d]
    /\ \/ r[d] \in Transfer
       \/ r[d] \in {"queued", "scheduled"} /\ HasTask(t, d) /\ ~Parked(t, d)

CountTransfers(r, t) == Cardinality({d \in Torrents : TakesSlot(r, t, d)})
SlotsFull(r, t) == CountTransfers(r, t) >= limits.slots

(* reconcile: the first of the unfinished are admitted.        *)
Reconcile(r, p, l) ==
    LET admitted == {d \in Unfinished(r) :
                       Cardinality({e \in Unfinished(r) : Before(p, e, d)})
                         < l.places}
    IN  [d \in Torrents |->
           IF d \in admitted /\ r[d] = "scheduled" THEN "queued"
           ELSE IF d \in Unfinished(r) \ admitted /\ r[d] = "queued"
           THEN "scheduled" ELSE r[d]]

(* start(queue_advance=True) of a queued row: a parked handler goes on,    *)
(* and a task is created where there is none.                              *)
Startable(t, d) == HasHandler(t, d) \/ ~HasTask(t, d)

(* What the start of the torrents of a set makes of the tasks and rows.    *)
Tasks(t, ds) == [d \in Torrents |->
    IF d \notin ds THEN t[d]
    ELSE IF HasHandler(t, d) THEN [t[d] EXCEPT !.paused = FALSE]
    ELSE In("created")]
Rows(r, t, ds) == [d \in Torrents |->
    IF d \notin ds THEN r[d]
    ELSE IF HasHandler(t, d) THEN "downloading"
    ELSE IF r[d] \in Waiting THEN r[d] ELSE "scheduled"]

(* advance starts the first of the queued, in their order, while there are *)
(* slots left.                                                             *)
SlotLeft(n, l) == n < l.slots

Ask(r, t, p, l) ==
    LET rec    == Reconcile(r, p, l)
        queued == {d \in Unfinished(rec) : /\ rec[d] = "queued"
                                           /\ Startable(t, d)}
        ahead(d) == Cardinality({e \in queued : Before(p, e, d)})
        go     == {d \in queued :
                     SlotLeft(CountTransfers(rec, t) + ahead(d), l)}
    IN  /\ row' = Rows(rec, t, go)
        /\ task' = Tasks(t, go)
JustRecorded(r, t) == row' = r /\ task' = t
Advance(r, t) == Ask(r, t, prio, limits)

----------------------------------------------------------------------------
(* What the user does.                                                     *)

Goes(d) == /\ row' = Rows(row, task, {d})
           /\ task' = Tasks(task, {d})
Stays   == UNCHANGED <<row, task>>

(* start: a parked torrent goes on whatever the slots, another one takes   *)
(* its turn if there is a slot.                                            *)
ManualStart(r, d) ==
    IF HasHandler(task, d) /\ r[d] \in Waiting
    THEN row' = Rows(r, task, {d}) /\ task' = Tasks(task, {d})
    ELSE IF \/ r[d] \in Transfer \union {"completed", "scheduled"}
            \/ HasTask(task, d) \/ SlotsFull(r, task)
    THEN row' = r /\ UNCHANGED task
    ELSE row' = Rows(r, task, {d}) /\ task' = Tasks(task, {d})

(* A torrent is added, and the queue asked or the torrent started.         *)
Add(d) ==
    /\ row[d] = "new"
    /\ LET r == [row EXCEPT ![d] = "queued"]
       IN  Advance(r, task) \/ ManualStart(r, d)
    /\ UNCHANGED <<seeding, prio, limits, free, line, redo>>

Start(d) ==
    /\ row[d] \in Known
    /\ ManualStart(row, d)
    /\ UNCHANGED <<seeding, prio, limits, free, line, redo>>

Pause(d) ==
    /\ row[d] \in Known
    /\ LET r == [row EXCEPT ![d] = "paused"]
       IN  IF HasHandler(task, d)
           THEN Advance(r, [task EXCEPT ![d].paused = TRUE])
           ELSE row' = r /\ UNCHANGED task
    /\ UNCHANGED <<seeding, prio, limits, free, line, redo>>

(* TorrentQueue.resume.                                                    *)
Resume(d) ==
    /\ row[d] = "paused"
    /\ IF SlotsFull(row, task)
       THEN Advance([row EXCEPT ![d] = "queued"], task)
       ELSE IF Startable(task, d) THEN Goes(d) ELSE Stays
    /\ UNCHANGED <<seeding, prio, limits, free, line, redo>>

(* start refuses the row that start_seeding has just set downloading,      *)
(* unless the handler is still there and the row parked.                   *)
StartSeeding(d) ==
    /\ row[d] = "completed"
    /\ row' = [row EXCEPT ![d] = "downloading"]
    /\ seeding' = [seeding EXCEPT ![d] = TRUE]
    /\ UNCHANGED <<prio, limits, task, free, line, redo>>

(* Only a handler hears of it.                                             *)
Stopping(d) == IF HasHandler(task, d)
               THEN [task EXCEPT ![d].cancel = TRUE] ELSE task

Cancel(d) ==
    /\ row[d] \in Known
    /\ task' = Stopping(d)
    /\ UNCHANGED <<row, seeding, prio, limits, free, line, redo>>

Remove(d) ==
    /\ row[d] \in Known
    /\ Advance([row EXCEPT ![d] = "removed"], Stopping(d))
    /\ UNCHANGED <<seeding, prio, limits, free, line, redo>>

SetPriority(d, n) ==
    /\ row[d] \in Known /\ n # prio[d]
    /\ prio' = [prio EXCEPT ![d] = n]
    /\ Ask(row, task, prio', limits)
    /\ UNCHANGED <<seeding, limits, free, line, redo>>

(* restart waits for the task, and puts the row back in the queue.         *)
Again(d) ==
    IF row[d] \in Known THEN ManualStart([row EXCEPT ![d] = "queued"], d)
                        ELSE Stays

Restart(d) ==
    /\ row[d] \in Known /\ redo[d] = "no"
    /\ IF HasTask(task, d)
       THEN /\ task' = Stopping(d)
            /\ redo' = [redo EXCEPT ![d] = "waits"]
            /\ UNCHANGED row
       ELSE Again(d) /\ UNCHANGED redo
    /\ UNCHANGED <<seeding, prio, limits, free, line>>

RestartEnds(d) ==
    /\ redo[d] = "ready"
    /\ Again(d)
    /\ redo' = [redo EXCEPT ![d] = "no"]
    /\ UNCHANGED <<seeding, prio, limits, free, line>>

(* The settings are saved and the queue asked.  What becomes of the        *)
(* semaphore is in DownloadManager: here no permit is in use.              *)
SettingsSaved ==
    /\ free = Permits
    /\ limits' \in Limits
    /\ Ask(row, task, prio, limits')
    /\ UNCHANGED <<seeding, prio, free, line, redo>>

User(d) ==
    \/ Add(d) \/ Start(d) \/ Pause(d) \/ Resume(d) \/ StartSeeding(d)
    \/ Cancel(d) \/ Remove(d) \/ Restart(d)
    \/ \E n \in Priorities : SetPriority(d, n)

----------------------------------------------------------------------------
(* A task, from its first step to its last.                                *)

(* The task waits in line for a permit when there is none.                 *)
LinesUp(d) ==
    /\ task[d].phase = "created" /\ free = 0
    /\ line' = Append(line, d)
    /\ task' = [task EXCEPT ![d].phase = "waits"]
    /\ UNCHANGED <<row, seeding, prio, limits, free, redo>>

MayRun(d) == \/ task[d].phase = "created" /\ free > 0
             \/ task[d].phase = "granted"
HoldsAnyway(d) == task[d].phase # "none"
Holds(d) == task[d].phase \in {"granted"} \union Handled

(* A permit goes to the first in line.                                     *)
Heir == IF line = <<>> THEN {} ELSE {Head(line)}
HandsOn(d) == /\ free' = IF line = <<>> /\ Holds(d) THEN free + 1 ELSE free
              /\ line' = IF line = <<>> THEN line ELSE Tail(line)
Left(d) == [e \in Torrents |-> IF e = d THEN In("over")
                               ELSE IF e \in Heir
                               THEN [task[e] EXCEPT !.phase = "granted"]
                               ELSE task[e]]

(* _finalize_torrent and _fail_torrent: the result is recorded and the     *)
(* queue asked, unless the row is gone.                                    *)
Finish(d, result) ==
    /\ IF row[d] \in Known
       THEN Advance([row EXCEPT ![d] = result], Left(d))
       ELSE task' = Left(d) /\ UNCHANGED row
    /\ HandsOn(d)
    /\ UNCHANGED <<prio, limits, redo>>

(* With a permit the torrent's file is fetched and its handler made.       *)
Enter(d) ==
    /\ MayRun(d) /\ row[d] \in Known
    /\ row' = [row EXCEPT ![d] = "connecting"]
    /\ task' = [task EXCEPT ![d].phase = "adding"]
    /\ free' = IF Holds(d) THEN free ELSE free - 1
    /\ UNCHANGED <<seeding, prio, limits, line, redo>>
FailsEarly(d) ==
    /\ MayRun(d)
    /\ Finish(d, "failed")
    /\ UNCHANGED seeding

(* The library has the torrent, and its metadata or no patience left.      *)
Added(d) ==
    /\ task[d].phase = "adding"
    /\ row' = IF row[d] \in Known THEN [row EXCEPT ![d] = "downloading"]
                                  ELSE row
    /\ task' = [task EXCEPT ![d].phase = "polling"]
    /\ UNCHANGED <<seeding, prio, limits, free, line, redo>>
AddFails(d) ==
    /\ task[d].phase = "adding"
    /\ Finish(d, "failed")
    /\ UNCHANGED seeding

(* _poll_until_done: a parked handler only looks for a cancel.             *)
Stops(d) ==
    /\ task[d].phase = "polling" /\ task[d].cancel
    /\ Finish(d, "stopped")
    /\ UNCHANGED seeding
Ends(d) ==
    /\ task[d].phase = "polling" /\ ~task[d].paused /\ ~task[d].cancel
    /\ \/ Finish(d, "failed") /\ UNCHANGED seeding
       \/ /\ Finish(d, "completed")
          /\ \E b \in BOOLEAN :
                seeding' = IF row[d] \in Known
                           THEN [seeding EXCEPT ![d] = b] ELSE seeding

Forget(d) ==
    /\ task[d].phase = "over"
    /\ task' = [task EXCEPT ![d] = In("none")]
    /\ redo' = [redo EXCEPT ![d] = IF @ = "waits" THEN "ready" ELSE @]
    /\ UNCHANGED <<row, seeding, prio, limits, free, line>>

(* A restart that is ready to go on was woken before the task of another   *)
(* start, and runs first.                                                  *)
TaskStep(d) ==
    \/ /\ redo[d] # "ready"
       /\ \/ LinesUp(d) \/ Enter(d) \/ FailsEarly(d) \/ Added(d)
          \/ AddFails(d) \/ Stops(d) \/ Ends(d) \/ Forget(d)
    \/ RestartEnds(d)

(* The process ends, by the user's will or not: nothing is recorded of the *)
(* torrents at work, and the next process does not look at the rows.       *)
NewProcess ==
    /\ Restarts
    /\ task' = [d \in Torrents |-> In("none")]
    /\ free' = Permits /\ line' = <<>>
    /\ redo' = [d \in Torrents |-> "no"]
    /\ UNCHANGED <<row, seeding, prio, limits>>

Next == \/ \E d \in Torrents : User(d) \/ TaskStep(d)
        \/ SettingsSaved \/ NewProcess

Spec == Init /\ [][Next]_vars

(* The event loop runs every task that can, the library adds a torrent,    *)
(* and a transfer that is let go on ends some day.                         *)
FairSpec == Spec /\ \A d \in Torrents : WF_vars(TaskStep(d))

----------------------------------------------------------------------------
TorrentTypeOK ==
    /\ row \in [Torrents -> Known \union {"new", "removed"}]
    /\ seeding \in [Torrents -> BOOLEAN]
    /\ prio \in [Torrents -> Priorities]
    /\ limits \in Limits
    /\ task \in [Torrents -> TaskState]
    /\ free \in 0 .. Permits
    /\ line \in Seq(Torrents)
    /\ redo \in [Torrents -> {"no", "waits", "ready"}]

(* A slot that is let go, by an end, a failure, a pause or a removal, goes *)
(* to a queued torrent at once.  No step leaves a torrent in the queue     *)
(* beside an idle slot but the start of the process, the pause of a        *)
(* torrent that has no handler yet, and the forgetting of a task that had  *)
(* ended when its torrent was put back in the queue.                       *)
Idle == \E d \in Torrents : /\ row[d] = "queued" /\ ~HasTask(task, d)
                            /\ ~seeding[d] /\ ~SlotsFull(row, task)
EarlyPause == \E d \in Torrents : /\ row[d] # "paused" /\ row'[d] = "paused"
                                  /\ ~HasHandler(task, d)
LateRequeue == \E d \in Torrents :
    row[d] \in {"queued", "scheduled"} /\ Forget(d)
NoIdleSlot == [][Idle' => Idle \/ NewProcess \/ EarlyPause \/ LateRequeue]_vars

(* The docstring of resume: a torrent resumed while the slots are taken    *)
(* "goes back to the waiting queue and starts automatically as soon as     *)
(* capacity frees up".                                                     *)
Requeued(d)  == row[d] = "queued" /\ Parked(task, d)
RequeuedStarts == \A d \in Torrents : Requeued(d) ~> ~Requeued(d)

=============================================================================
