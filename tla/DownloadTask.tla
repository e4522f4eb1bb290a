---------------------------- MODULE DownloadTask ----------------------------
(***************************************************************************)
(* One download through its life: DownloadTask (engine/downloader/         *)
(* engine.py), which probes the resource, plans or reloads the segments,   *)
(* runs a SegmentPool over them, merges the part files and verifies the    *)
(* result, and the <file>.mclip sidecar (engine/resume/mclip.py) from      *)
(* which a later task resumes after a stop, a quit or a crash.             *)
(*                                                                         *)
(* The remote file does not change while it is downloaded.                 *)
(***************************************************************************)
EXTENDS SegmentPool

CONSTANTS
    Modes,       \* the values downloads.inplace_downloads may have at first
    ModeSwitch,  \* whether the user may change it between two tasks
    Hash,        \* whether an expected hash was given
    CrashIn,     \* the stages in which the process may die
    QuitIn       \* the stages in which the application may be closed

Stages == {"analyse", "pool", "merge", "unlink", "trim", "verify"}

ASSUME TaskAssumption == /\ Modes \subseteq BOOLEAN
                         /\ ModeSwitch \in BOOLEAN
                         /\ Hash \in BOOLEAN
                         /\ CrashIn \subseteq Stages
                         /\ QuitIn \subseteq Stages

VARIABLES
    stage,     \* where DownloadTask.run is, "none" when no task runs
    state,     \* MClipState.state
    total,     \* MClipState.total_size, 0 stands for None
    want,      \* spec.in_place: write in place rather than into part files
    aside,     \* what "part" is for the other of the two ways to write
    inPlaceOk, \* _in_place_ok, cleared by the single segment fallback
    nested,    \* run is inside _restart_single_segment
    result,    \* what run returned, "escaped" when it raised instead
    side,      \* what the sidecar file holds
    final      \* the final file: absent, partial, whole or damaged

planVars == <<total, want, aside, inPlaceOk, nested>>
taskVars == <<planVars, stage, state, result, side, final>>
vars     == <<poolVars, taskVars>>

(* What MClipState.save writes; NoSide is no sidecar, or one that does not *)
(* parse.                                                                  *)
NoSide     == [state |-> "none"]
Sidecar(s) == [state |-> s, total |-> total, nseg |-> nseg, start |-> start,
               end |-> end, open |-> open, written |-> written]

Terminal == {"completed", "failed", "stopped", "verification_failed"}

TaskInit ==
    /\ nseg = 0
    /\ start = [i \in Seg |-> 0]
    /\ end = [i \in Seg |-> -1]
    /\ open = FALSE /\ inPlace = FALSE
    /\ written = [i \in Seg |-> 0]
    /\ part = [i \in Seg |-> -1]
    /\ completed = {}
    /\ server \in Servers
    /\ running = TRUE /\ cancel = FALSE
    /\ PoolReady
    /\ stage = "none" /\ state = "queued" /\ total = 0
    /\ want \in Modes /\ aside = [i \in Seg |-> 0]
    /\ inPlaceOk = TRUE /\ nested = FALSE
    /\ result = "none" /\ side = NoSide /\ final = "absent"

----------------------------------------------------------------------------
(* A task is created over the sidecar, if there is one to resume from: a   *)
(* corrupt or foreign one is ignored, so is that of a finished download.   *)
Resumable == side.state \notin {"none", "completed", "verification_failed"}

Start ==
    /\ stage = "none" /\ result # "completed"
    /\ stage' = "analyse" /\ state' = "connecting" /\ result' = "connecting"
    /\ IF Resumable
       THEN /\ total' = side.total /\ nseg' = side.nseg /\ open' = side.open
            /\ start' = side.start /\ end' = side.end
            /\ written' = side.written
       ELSE /\ total' = 0 /\ nseg' = 0 /\ open' = FALSE
            /\ UNCHANGED <<start, end>>
            /\ written' = [i \in Seg |-> 0]
    /\ want' \in IF ModeSwitch THEN BOOLEAN ELSE {want}
    /\ taken' = 0 /\ alive' = 0 /\ completed' = {}
    /\ running' = TRUE /\ cancel' = FALSE /\ UNCHANGED server
    /\ inPlaceOk' = TRUE /\ nested' = FALSE
    /\ UNCHANGED <<inPlace, part, at, splitting, endVars, aside, side, final>>

(* run's finally block: the sidecar is saved unless the download completed *)
Leaves(s, r) ==
    /\ stage' = "none" /\ state' = s /\ result' = r
    /\ side' = Sidecar(s)

(* An error of the nested run is raised inside the handler that called     *)
(* _restart_single_segment: no except clause is left to record it.         *)
Error(s) == IF nested THEN Leaves(state, "escaped") ELSE Leaves(s, s)

(* The probe fails for good, after its retries or with a permanent error.  *)
ProbeFails ==
    /\ stage = "analyse"
    /\ Error("failed")
    /\ UNCHANGED <<poolVars, planVars, final>>

(* From the plan to the pool: the ranges are planned unless the sidecar    *)
(* had some, the progress is reconciled with what is on disk, the last     *)
(* segment of the list is stretched to the size reported, and the sidecar  *)
(* is saved.                                                               *)
Stretched(n, last, size) ==
    [i \in Seg |-> IF i = n - 1 /\ last[i] < size - 1 THEN size - 1 ELSE last[i]]

TrustsSidecar(here, isOpen, first, last, done, data) == done
TrustsLonger(here, isOpen, first, last, done, data) ==
    [i \in Seg |-> Greatest(done[i], data[i])]

(* reconcile_part_sizes trusts the part files that exist, and the sidecar  *)
(* for the others; reconcile_inplace trusts the sidecar.                   *)
Reconciled(here, isOpen, first, last, done, data) ==
    [i \in Seg |->
        LET found == IF here \/ data[i] < 0 THEN done[i] ELSE data[i]
        IN  IF isOpen THEN found ELSE Least(found, last[i] - first[i] + 1)]

(* _prepare_inplace_file keeps what a final file of the right size holds.  *)
Recreated(here) == IF here THEN "partial" ELSE final
Prepared(here)  == IF here /\ final = "absent" THEN "partial" ELSE final

Planned(n, isOpen, first, last, done, size, data) ==
    LET here   == inPlaceOk' /\ want /\ size > 0
        onDisk == Reconciled(here, isOpen, first, last, done, data)
    IN  /\ nseg' = n /\ open' = isOpen /\ start' = first
        /\ end' = IF isOpen THEN last ELSE Stretched(n, last, size)
        /\ inPlace' = here
        /\ part' = data
        /\ aside' = IF here = inPlace THEN aside ELSE part
        /\ written' = [i \in Seg |-> IF i < n THEN onDisk[i] ELSE 0]
        /\ completed' = {i \in 0 .. n - 1 :
                            ~isOpen /\ onDisk[i] >= last[i] - first[i] + 1}
        /\ total' = size
        /\ taken' = 0 /\ alive' = InitialWorkers
        /\ at' = [i \in Seg |-> Rest] /\ splitting' = {}
        /\ fatal' = "none" /\ abort' = FALSE /\ outcome' = "running"
        /\ stage' = "pool"
        /\ state' = IF running' THEN "downloading" ELSE "paused"
        /\ result' = state'
        /\ side' = Sidecar(state)'
        /\ final' = Prepared(here)

Zero == [i \in Seg |-> 0]
PlanOpen(size, data) ==
    Planned(1, TRUE, Zero, [i \in Seg |-> IF i = 0 THEN Size - 1 ELSE -1],
            Zero, size, data)

(* The probe succeeds; a server without ranges gets one connection.        *)
Probe ==
    LET size == IF Sized THEN Size ELSE 0
        here == inPlaceOk /\ want /\ size > 0
        data == IF here = inPlace THEN part ELSE aside
        n == IF Ranged THEN Connections ELSE 1
    IN  /\ stage = "analyse"
        /\ UNCHANGED <<want, inPlaceOk, nested, flagVars>>
        /\ \/ /\ nseg > 0
              /\ Planned(nseg, open, start, end, written, size, data)
           \/ /\ nseg = 0 /\ size = 0
              /\ PlanOpen(size, data)
           \/ /\ nseg = 0 /\ size > 0
              /\ Planned(n, FALSE,
                         [i \in Seg |-> IF i < n THEN PlanStart(n, i) ELSE 0],
                         [i \in Seg |-> IF i < n THEN PlanEnd(n, i) ELSE -1],
                         Zero, size, IF here THEN Zero ELSE data)

(* The pool runs; the end of a segment may save the sidecar, at most once  *)
(* every persist_interval.                                                 *)
Carried(step) ==
    /\ stage = "pool"
    /\ step
    /\ UNCHANGED <<planVars, stage, state, result, final>>
    /\ \/ UNCHANGED side
       \/ completed' \ completed # {} /\ side' = Sidecar(state)'

Transfer == Carried(TransferNext)

(* RangeNotSupported: the part files are deleted and the whole file is     *)
(* fetched with one open ended request, after a new probe if the size is   *)
(* not known.                                                              *)
FallBack ==
    LET parts == IF inPlace THEN aside ELSE part
        left  == [i \in Seg |-> IF i \in Live THEN -1 ELSE parts[i]]
    IN  /\ inPlaceOk' = FALSE /\ nested' = TRUE
        /\ UNCHANGED <<want, flagVars>>
        /\ IF total > 0
           THEN PlanOpen(total, left)
           ELSE /\ stage' = "analyse" /\ state' = "connecting"
                /\ result' = "connecting"
                /\ nseg' = 1 /\ open' = TRUE
                /\ start' = Zero
                /\ end' = [i \in Seg |-> IF i = 0 THEN Size - 1 ELSE -1]
                /\ written' = Zero
                /\ part' = left
                /\ completed' = {}
                /\ UNCHANGED <<inPlace, taken, alive, at, splitting, endVars,
                               total, aside, side, final>>

PoolEnds ==
    /\ stage = "pool" /\ outcome # "running"
    /\ \/ /\ outcome = "joined"
          /\ stage' = IF inPlace THEN "trim" ELSE "merge"
          /\ UNCHANGED <<poolVars, planVars, state, result, side, final>>
       \/ outcome = "range" /\ ~nested /\ FallBack
       \/ /\ outcome = "range" /\ nested
          /\ Error("failed")
          /\ UNCHANGED <<poolVars, planVars, final>>
       \/ /\ outcome = "aborted"
          /\ Error("stopped")
          /\ UNCHANGED <<poolVars, planVars, final>>
       \/ /\ outcome = "permanent"
          /\ Error("failed")
          /\ UNCHANGED <<poolVars, planVars, final>>

----------------------------------------------------------------------------
(* The end of a download that was transferred.                             *)

(* The parts, in the order of their ranges, are the file: each is as long  *)
(* as its range and the ranges follow one another to the end of the file.  *)
PartLength(i) == IF part[i] < 0 THEN 0 ELSE part[i]
PartsWhole ==
    \A b \in 0 .. Size - 1 :
        /\ \E i \in Live : start[i] <= b /\ b < start[i] + PartLength(i)
        /\ \A i, j \in Live :
              /\ start[i] <= b /\ b < start[i] + PartLength(i)
              /\ start[j] <= b /\ b < start[j] + PartLength(j)
              => i = j
InPlaceWhole ==
    \A b \in 0 .. Size - 1 :
        \E i \in Live : start[i] <= b /\ b < start[i] + part[i]

Completes ==
    /\ stage' = "none" /\ state' = "completed" /\ result' = "completed"
    /\ side' = NoSide

(* The file is in place: verify it if a hash is expected, or finish.       *)
Assembled ==
    IF Hash
    THEN /\ stage' = "verify" /\ state' = "verifying" /\ result' = "verifying"
         /\ side' = Sidecar("verifying")
    ELSE Completes

(* _merge_parts: the parts are copied into the final file ...              *)
Merge ==
    /\ stage = "merge"
    /\ final' = IF PartsWhole THEN "whole" ELSE "damaged"
    /\ stage' = "unlink"
    /\ UNCHANGED <<poolVars, state, planVars, result, side>>

(* ... and then deleted one after the other.                               *)
Unlink ==
    LET left == {i \in Live : part[i] >= 0} IN
    /\ stage = "unlink"
    /\ \/ /\ \E i \in left :
                /\ \A j \in left : start[i] <= start[j]
                /\ part' = [part EXCEPT ![i] = -1]
          /\ UNCHANGED <<stage, state, result, side>>
       \/ left = {} /\ Assembled /\ UNCHANGED part
    /\ UNCHANGED <<nseg, start, end, open, inPlace, written, workVars,
                   flagVars, endVars, planVars, final>>

(* _finalize_inplace *)
Trim ==
    /\ stage = "trim"
    /\ final' = IF InPlaceWhole THEN "whole" ELSE "damaged"
    /\ Assembled
    /\ UNCHANGED <<poolVars, planVars>>

Verify ==
    /\ stage = "verify"
    /\ IF final = "whole"
       THEN Completes
       ELSE Leaves("verification_failed", "verification_failed")
    /\ UNCHANGED <<poolVars, planVars, final>>

----------------------------------------------------------------------------
(* What the manager calls, at any moment of the task's life.               *)

Pause ==
    /\ stage # "none" /\ state \in {"downloading", "connecting"}
    /\ ClearRunning
    /\ state' = "paused" /\ result' = "paused"
    /\ UNCHANGED <<stage, planVars, side, final>>

Resume ==
    /\ stage # "none" /\ (state = "paused" \/ ~running)
    /\ SetRunning
    /\ IF state = "paused"
       THEN state' = "downloading" /\ result' = "downloading"
       ELSE UNCHANGED <<state, result>>
    /\ UNCHANGED <<stage, planVars, side, final>>

Cancel ==
    /\ stage # "none" /\ ~cancel
    /\ SetCancel
    /\ UNCHANGED taskVars

(* The application is closed: the asyncio task is cancelled, run's finally *)
(* block saves the sidecar; a merge under way in its thread runs to its    *)
(* end.                                                                    *)
Quit ==
    /\ stage \in QuitIn
    /\ Leaves(state, result)
    /\ IF stage \in {"merge", "unlink"}
       THEN /\ part' = [i \in Seg |-> IF i \in Live THEN -1 ELSE part[i]]
            /\ final' = IF stage = "unlink" THEN final
                        ELSE IF PartsWhole THEN "whole" ELSE "damaged"
       ELSE UNCHANGED <<part, final>>
    /\ at' = [i \in Seg |-> Rest] /\ splitting' = {} /\ alive' = 0
    /\ UNCHANGED <<nseg, start, end, open, inPlace, written, taken, completed,
                   flagVars, endVars, planVars>>

(* The process dies.  A part file loses the bytes that were not flushed    *)
(* since it was opened, in place every chunk was flushed; a save under way *)
(* leaves a sidecar that does not parse.                                   *)
Buffered(i) == IF at[i].pc \in {"rest", "attempt", "request"}
               THEN part[i] ELSE Least(at[i].from, part[i])
Flushed(i) == IF inPlace \/ at[i].pc \in {"rest", "attempt", "request"}
              THEN part[i] ELSE Least(at[i].from, part[i])
Crash ==
    /\ stage \in CrashIn
    /\ stage' = "none" /\ result' = "none"
    /\ part' \in [Seg -> -1 .. Size]
    /\ \A i \in Seg : Flushed(i) <= part'[i] /\ part'[i] <= part[i]
    /\ side' \in IF stage = "pool" THEN {side, NoSide} ELSE {side}
    /\ IF stage = "merge" THEN final' \in {final, "damaged"}
       ELSE UNCHANGED final
    /\ at' = [i \in Seg |-> Rest] /\ splitting' = {} /\ alive' = 0
    /\ UNCHANGED <<nseg, start, end, open, inPlace, written, taken, completed,
                   flagVars, endVars, state, planVars>>

----------------------------------------------------------------------------
TaskNext ==
    \/ Start \/ Probe \/ ProbeFails \/ Transfer \/ PoolEnds
    \/ Merge \/ Unlink \/ Trim \/ Verify
    \/ Pause \/ Resume \/ Cancel \/ Quit \/ Crash
    \/ stage = "none" /\ result = "completed" /\ UNCHANGED vars

TaskSpec == TaskInit /\ [][TaskNext]_vars

(* The event loop and the threads run what is ready, the pool is fair as   *)
(* stated in SegmentPool, a probe is answered or times out.  Neither the   *)
(* user nor the application's end is assumed.                              *)
TaskFairness ==
    /\ WF_vars(Carried(Get)) /\ WF_vars(Carried(End))
    /\ WF_vars(Carried(alive < InitialWorkers /\ Spawn))
    /\ \A i \in Seg :
          /\ WF_vars(Carried(Attempt(i)))
          /\ WF_vars(Carried(Clamp(i)))
          /\ WF_vars(Carried(Commit(i)))
          /\ WF_vars(Carried(Respond(i)))
          /\ WF_vars(Carried(Receive(i) \/ EndOfBody(i)))
    /\ WF_vars(Probe \/ ProbeFails) /\ WF_vars(PoolEnds)
    /\ WF_vars(Merge \/ Unlink \/ Trim \/ Verify)

FairTaskSpec == TaskSpec /\ TaskFairness

----------------------------------------------------------------------------
TaskTypeOK ==
    /\ TypeOK
    /\ stage \in Stages \union {"none"}
    /\ state \in Terminal \union {"queued", "connecting", "downloading",
                                 "paused", "verifying"}
    /\ total \in {0, Size}
    /\ inPlaceOk \in BOOLEAN /\ nested \in BOOLEAN
    /\ result \in Terminal \union {"none", "connecting", "downloading",
                                  "paused", "verifying", "escaped"}
    /\ final \in {"absent", "partial", "whole", "damaged"}

(* The task keeps the promise of DownloadPromise: its reports follow one   *)
(* another as stated there, through pauses, failures, stops, quits and     *)
(* crashes, completed is final and true, a whole file is never destroyed.  *)
Promise == INSTANCE DownloadPromise WITH
    status <- IF stage = "none" /\ result \notin Terminal THEN "idle" ELSE result,
    file   <- final
KeepsPromise == Promise!Spec

(* A download that is reported completed is the remote file, byte for      *)
(* byte, after any sequence of pauses, failures, stops, quits, crashes and *)
(* resumes.                                                                *)
CompletedWhole == result = "completed" => final = "whole"

(* segment.py: "a crash can never leave the persisted progress ahead of    *)
(* the bytes actually handed to the OS": what the sidecar of an in place   *)
(* download claims is in the file, at every moment a crash may strike.     *)
SavedOnDisk ==
    Resumable /\ ~side.open =>
        \A i \in 0 .. side.nseg - 1 :
            side.written[i] <= IF inPlace THEN part[i] ELSE aside[i]

(* A resumed pool trusts no progress the disk does not hold ...            *)
ResumedOnDisk == stage = "pool" /\ ~open => ProgressOnDisk

(* A task that is cancelled returns, whatever stage it is in, and so does  *)
(* one that is not left paused: no pause that lands between two stages     *)
(* leaves the task behind with its workers blocked.                        *)
TaskReturns ==
    /\ cancel /\ stage # "none" ~> stage = "none"
    /\ <>[]running => []<>(stage = "none")
=============================================================================
