--------------------------- MODULE StreamDownload ---------------------------
(***************************************************************************)
(* Downloads of streams: the branch of DownloadManager                     *)
(* (core/downloads/manager.py) that hands an embedded or streaming URL to  *)
(* yt-dlp, or to the HLS engine that fetches through the browser.          *)
(*                                                                         *)
(* A task holds a permit and takes one stage after the other, each awaited *)
(* while a thread works; the user's wish to stop reaches it through an     *)
(* event that exists only while the task has its permit.  yt-dlp reads it  *)
(* between two blocks, the HLS engine between two segments, and the other  *)
(* stages never.  A download that is resumed while it still stops gets a   *)
(* loop that starts it again once it has.                                  *)
(***************************************************************************)
EXTENDS Naturals, Sequences, FiniteSets

CONSTANTS
    Streams,  \* the streams there may be
    Nobody,   \* none of them
    Limits,   \* values of downloads.simultaneous, read when a process starts
    MaxLoops, \* bound on the loops that wait to start one download again
    Restarts  \* whether the process may end and start again

ASSUME StreamAssumption ==
    /\ IsFiniteSet(Streams) /\ Nobody \notin Streams
    /\ Limits \subseteq Nat \ {0} /\ MaxLoops \in Nat
    /\ Restarts \in BOOLEAN

VARIABLES
    row,   \* status column, "queued" standing for "scheduled" too
    disk,  \* what the row's path has: "no", "part" or "whole" file
    task,  \* see TaskState
    loops, \* how many loops wait to start the download again
    redo,  \* restart(): "no", "waits" for the task to end, or "ready"
    free,  \* permits nobody has
    line   \* the downloads whose tasks wait for a permit

vars == <<row, disk, task, loops, redo, free, line>>

Waiting == {"queued", "paused"}
Ended   == {"completed", "failed", "stopped"}
Known   == {"connecting"} \union Waiting \union Ended

(* The stages of a task with a permit: the page is searched, the HLS       *)
(* engine tried, the stream resolved and fetched by yt-dlp, and the HLS    *)
(* engine tried again after yt-dlp failed.                                 *)
Browser == {"browser", "again"}
Stages  == {"sniff", "resolve", "fetch"} \union Browser

(* stop is the event, role what the download is to the HLS engine, of the  *)
(* one it waits for, told what it heard, out the output it reserved.       *)
Outputs   == 1 .. Cardinality(Streams)
Answers   == {"path", "none", "cancelled", "raised"}
TaskState == [phase : {"none", "created", "waits", "granted", "over"}
                        \union Stages,
              stop : BOOLEAN, role : {"none", "owner", "waiter", "told"},
              of : Streams \union {Nobody}, told : Answers,
              out : {0} \union Outputs]
In(phase) == [phase |-> phase, stop |-> FALSE, role |-> "none",
              of |-> Nobody, told |-> "none", out |-> 0]

HasTask(d)    == task[d].phase # "none"
Registered(d) == task[d].phase \in Stages

Init == /\ row = [d \in Streams |-> "queued"]
        /\ disk = [d \in Streams |-> "no"]
        /\ task = [d \in Streams |-> In("none")]
        /\ loops = [d \in Streams |-> 0]
        /\ redo = [d \in Streams |-> "no"]
        /\ free \in Limits /\ line = <<>>

Exists(d)   == row[d] \in Known
Write(d, s) == IF Exists(d) THEN [row EXCEPT ![d] = s] ELSE row

(* _delete_parts; a finished file is no part.                              *)
NoParts(d) == [disk EXCEPT ![d] = IF @ = "part" THEN "no" ELSE @]

----------------------------------------------------------------------------
(* Starting, and what the user does.                                       *)

Startable(r, d) == r[d] \in (Waiting \union Ended) \ {"completed"} /\ ~HasTask(d)

StartFrom(r, d) ==
    IF Startable(r, d)
    THEN /\ task' = [task EXCEPT ![d] = In("created")]
         /\ row' = [r EXCEPT ![d] = IF @ \in Waiting THEN @ ELSE "queued"]
    ELSE row' = r /\ UNCHANGED task

Start(d) ==
    /\ Startable(row, d)
    /\ StartFrom(row, d)
    /\ UNCHANGED <<disk, loops, redo, free, line>>

Stopping(d) == [task EXCEPT ![d].stop = @ \/ Registered(d)]

(* Without its event a task is not told, but its row is paused all the     *)
(* same.                                                                   *)
Pause(d) ==
    /\ Exists(d)
    /\ row' = [row EXCEPT ![d] = "paused"]
    /\ task' = Stopping(d)
    /\ UNCHANGED <<disk, loops, redo, free, line>>

Resume(d) ==
    /\ Exists(d)
    /\ IF Registered(d)
       THEN /\ loops[d] < MaxLoops
            /\ loops' = [loops EXCEPT ![d] = @ + 1]
            /\ UNCHANGED <<row, task>>
       ELSE StartFrom(row, d) /\ UNCHANGED loops
    /\ UNCHANGED <<disk, redo, free, line>>

(* _retry wakes every tenth of a second until the download is neither      *)
(* registered nor in the table of tasks.                                   *)
LoopStarts(d) ==
    /\ loops[d] > 0 /\ ~HasTask(d)
    /\ loops' = [loops EXCEPT ![d] = @ - 1]
    /\ StartFrom(row, d)
    /\ UNCHANGED <<disk, redo, free, line>>

Cancel(d) ==
    /\ Exists(d)
    /\ task' = Stopping(d)
    /\ disk' \in {disk, NoParts(d)}
    /\ UNCHANGED <<row, loops, redo, free, line>>

Remove(d) ==
    /\ Exists(d)
    /\ row' = [row EXCEPT ![d] = "removed"]
    /\ task' = Stopping(d)
    /\ disk' \in {NoParts(d), [disk EXCEPT ![d] = "no"]}
    /\ UNCHANGED <<loops, redo, free, line>>

(* restart waits for the task, discards the parts and starts afresh.       *)
Afresh(d) ==
    /\ disk' = NoParts(d)
    /\ IF Exists(d) THEN StartFrom([row EXCEPT ![d] = "queued"], d)
                    ELSE UNCHANGED <<row, task>>
Restart(d) ==
    /\ Exists(d) /\ redo[d] = "no"
    /\ IF HasTask(d)
       THEN /\ task' = Stopping(d)
            /\ redo' = [redo EXCEPT ![d] = "waits"]
            /\ UNCHANGED <<row, disk>>
       ELSE Afresh(d) /\ UNCHANGED redo
    /\ UNCHANGED <<loops, free, line>>
RestartEnds(d) ==
    /\ redo[d] = "ready"
    /\ Afresh(d)
    /\ redo' = [redo EXCEPT ![d] = "no"]
    /\ UNCHANGED <<loops, free, line>>

User(d) == \/ Start(d) \/ Pause(d) \/ Resume(d) \/ Cancel(d) \/ Remove(d)
           \/ Restart(d)

----------------------------------------------------------------------------
(* A task: its permit and its end.                                         *)

LinesUp(d) ==
    /\ task[d].phase = "created" /\ free = 0
    /\ line' = Append(line, d)
    /\ task' = [task EXCEPT ![d].phase = "waits"]
    /\ UNCHANGED <<row, disk, loops, redo, free>>

MayRun(d) == \/ task[d].phase = "created" /\ free > 0
             \/ task[d].phase = "granted"
HoldsAnyway(d) == HasTask(d)
Holds(d) == task[d].phase \in {"granted"} \union Stages

Heir == IF line = <<>> THEN {} ELSE {Head(line)}
LeavesWith(d, tasks) ==
    /\ task' = [e \in Streams |->
                  IF e = d THEN In("over")
                  ELSE IF e \in Heir THEN [tasks[e] EXCEPT !.phase = "granted"]
                  ELSE tasks[e]]
    /\ free' = IF line = <<>> /\ Holds(d) THEN free + 1 ELSE free
    /\ line' = IF line = <<>> THEN line ELSE Tail(line)
Leaves(d) == LeavesWith(d, task)

Goes(d, phase) ==
    /\ task' = [task EXCEPT ![d].phase = phase, ![d].role = "none"]
    /\ UNCHANGED <<free, line>>

(* With its permit the task registers its event and looks at the row.  A   *)
(* file or part that is there already is continued by yt-dlp.  Looking for *)
(* the directory may fail before anything is written to the row.           *)
Enter(d) ==
    /\ MayRun(d)
    /\ IF ~Exists(d) THEN Leaves(d) /\ UNCHANGED row
       ELSE /\ row' = [row EXCEPT ![d] = "connecting"]
            /\ \E phase \in IF disk[d] # "no" THEN {"fetch"}
                            ELSE {"sniff", "browser", "resolve"} :
                  task' = [task EXCEPT ![d].phase = phase]
            /\ free' = IF Holds(d) THEN free ELSE free - 1
            /\ UNCHANGED line
    /\ UNCHANGED <<disk, loops, redo>>
EnterRaises(d) ==
    /\ MayRun(d) /\ Exists(d)
    /\ Leaves(d)
    /\ UNCHANGED <<row, disk, loops, redo>>

(* How a stage ends the task.                                              *)
Completes(d, tasks) ==
    /\ row' = Write(d, "completed")
    /\ disk' = [disk EXCEPT ![d] = "whole"]
    /\ LeavesWith(d, tasks)
Unwritten(d) == [row EXCEPT ![d] = @]
Parked(d)    == IF row[d] = "paused" THEN row ELSE Write(d, "stopped")
Stopped(d, tasks) ==
    /\ row' = Parked(d)
    /\ LeavesWith(d, tasks)
Fails(d, tasks) ==
    /\ row' = Write(d, "failed")
    /\ LeavesWith(d, tasks)

(* After a failure of yt-dlp the browser may be asked, once.               *)
FailsOrAgain(d) == \/ Fails(d, task)
                   \/ Goes(d, "again") /\ UNCHANGED row

----------------------------------------------------------------------------
(* The stages in which yt-dlp works.                                       *)

Sniffed(d) ==
    /\ task[d].phase = "sniff"
    /\ Goes(d, "browser") \/ Goes(d, "resolve")
    /\ UNCHANGED <<row, disk, loops, redo>>

(* resolve_stream has no event, and the row is looked at once more.        *)
Resolved(d) ==
    /\ task[d].phase = "resolve"
    /\ IF Exists(d) THEN Goes(d, "fetch") ELSE Leaves(d)
    /\ UNCHANGED <<row, disk, loops, redo>>
ResolveFails(d) ==
    /\ task[d].phase = "resolve"
    /\ FailsOrAgain(d)
    /\ UNCHANGED <<disk, loops, redo>>

(* Blocks arrive; a stop that comes after the last is not seen.            *)
Block(d) ==
    /\ task[d].phase = "fetch" /\ disk[d] = "no"
    /\ disk' = [disk EXCEPT ![d] = "part"]
    /\ UNCHANGED <<row, task, loops, redo, free, line>>
Fetched(d) ==
    /\ task[d].phase = "fetch"
    /\ Completes(d, task)
    /\ UNCHANGED <<loops, redo>>
FetchStops(d) ==
    /\ task[d].phase = "fetch" /\ task[d].stop
    /\ Stopped(d, task)
    /\ UNCHANGED <<disk, loops, redo>>
FetchFails(d) ==
    /\ task[d].phase = "fetch"
    /\ FailsOrAgain(d)
    /\ UNCHANGED <<disk, loops, redo>>

----------------------------------------------------------------------------
(* The stages in which the HLS engine works.                               *)

(* A stream that is the same, by its URL, as one that is downloaded is not *)
(* downloaded again but waited for, without an eye on the event.           *)
Join(d) ==
    /\ task[d].phase \in Browser /\ task[d].role = "none"
    /\ \/ task' = [task EXCEPT ![d].role = "owner"]
       \/ \E e \in Streams :
             /\ task[e].role = "owner"
             /\ task' = [task EXCEPT ![d].role = "waiter", ![d].of = e]
    /\ UNCHANGED <<row, disk, loops, redo, free, line>>

(* The manifest read, an output nobody else works on is reserved.          *)
Reserved   == {task[e].out : e \in Streams}
FreeOutput == CHOOSE n \in Outputs \ Reserved :
                  \A k \in Outputs \ Reserved : n <= k
Reserve(d) ==
    /\ task[d].role = "owner" /\ task[d].out = 0
    /\ task' = [task EXCEPT ![d].out = FreeOutput]
    /\ UNCHANGED <<row, disk, loops, redo, free, line>>

(* What the engine's answer makes of the task, in the first stage and in   *)
(* the second; an exception of the second leaves the task, since the one   *)
(* that called for it is still being handled.                              *)
Answered(d, answer, tasks) ==
    \/ answer = "path" /\ Completes(d, tasks)
    \/ /\ answer = "none"
       /\ IF task[d].phase = "browser"
          THEN /\ task' = [tasks EXCEPT ![d].phase = "resolve",
                                        ![d].role = "none",
                                        ![d].told = "none", ![d].out = 0]
               /\ UNCHANGED <<row, free, line>>
          ELSE Fails(d, tasks)
       /\ UNCHANGED disk
    \/ /\ answer = "cancelled" /\ task[d].phase = "browser"
       /\ Stopped(d, tasks)
       /\ disk' \in {disk, [disk EXCEPT ![d] = IF @ = "no" THEN "part" ELSE @]}
    \/ /\ answer = "raised" /\ task[d].phase = "browser"
       /\ \/ Fails(d, tasks)
          \/ /\ task' = [tasks EXCEPT ![d].phase = "again",
                                      ![d].role = "none",
                                      ![d].told = "none", ![d].out = 0]
             /\ UNCHANGED <<row, free, line>>
       /\ UNCHANGED disk
    \/ /\ answer \in {"cancelled", "raised"} /\ task[d].phase = "again"
       /\ LeavesWith(d, tasks)
       /\ UNCHANGED <<row, disk>>

(* The one that downloads ends, and all that wait for it hear how.         *)
Hears(e, answer) ==
    [task[e] EXCEPT !.role = "told", !.of = Nobody, !.told = answer]
HearsPath(d, answer) ==
    [e \in Streams |-> IF task[e].of = d /\ answer = "path"
                       THEN Hears(e, answer) ELSE task[e]]
Told(d, answer) ==
    [e \in Streams |-> IF task[e].of = d THEN Hears(e, answer) ELSE task[e]]
OwnerEnds(d, answer) ==
    /\ task[d].role = "owner"
    /\ answer = "path" => task[d].out # 0
    /\ answer = "cancelled" => task[d].stop
    /\ Answered(d, answer, Told(d, answer))
    /\ UNCHANGED <<loops, redo>>
WaiterEnds(d) ==
    /\ task[d].role = "told"
    /\ Answered(d, task[d].told, task)
    /\ UNCHANGED <<loops, redo>>

Forget(d) ==
    /\ task[d].phase = "over"
    /\ task' = [task EXCEPT ![d] = In("none")]
    /\ redo' = [redo EXCEPT ![d] = IF @ = "waits" THEN "ready" ELSE @]
    /\ UNCHANGED <<row, disk, loops, free, line>>

Stage(d) ==
    \/ Sniffed(d) \/ Resolved(d) \/ ResolveFails(d)
    \/ Block(d) \/ Fetched(d) \/ FetchStops(d) \/ FetchFails(d)
    \/ Join(d) \/ Reserve(d) \/ WaiterEnds(d)
    \/ \E answer \in Answers : OwnerEnds(d, answer)
TaskStep(d) == \/ LinesUp(d) \/ Enter(d) \/ EnterRaises(d) \/ Forget(d)
               \/ LoopStarts(d) \/ RestartEnds(d)

(* A quit cancels the tasks and records nothing of them, nor does a crash. *)
NewProcess ==
    /\ Restarts
    /\ task' = [d \in Streams |-> In("none")]
    /\ loops' = [d \in Streams |-> 0] /\ redo' = [d \in Streams |-> "no"]
    /\ free' \in Limits /\ line' = <<>>
    /\ UNCHANGED <<row, disk>>

Next == \/ \E d \in Streams : User(d) \/ TaskStep(d) \/ Stage(d)
        \/ NewProcess

Spec == Init /\ [][Next]_vars

----------------------------------------------------------------------------
StreamTypeOK ==
    /\ row \in [Streams -> Known \union {"removed"}]
    /\ disk \in [Streams -> {"no", "part", "whole"}]
    /\ task \in [Streams -> TaskState]
    /\ loops \in [Streams -> 0 .. MaxLoops]
    /\ redo \in [Streams -> {"no", "waits", "ready"}]
    /\ (\E n \in Limits : free \in 0 .. n) /\ line \in Seq(Streams)

(* A row that says "connecting" keeps its task: no end of a stage leaves   *)
(* it behind, since start would refuse it for ever, but the end of the     *)
(* process and an exception of the second attempt through the browser.     *)
Stuck(d) == row[d] = "connecting" /\ task[d].phase \in {"none", "over"}
StreamNeverStuck ==
    [][\A d \in Streams :
          Stuck(d)' => Stuck(d) \/ NewProcess \/ task[d].phase = "again"]_vars

(* Who waits for another's download waits for one that is at work, so that *)
(* it hears of its end, whichever that is: it has no timeout and does not  *)
(* look at its own event.                                                  *)
NobodyWaitsInVain ==
    \A d \in Streams :
        task[d].role = "waiter" => task[task[d].of].role = "owner"
=============================================================================
