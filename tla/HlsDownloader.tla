---------------------------- MODULE HlsDownloader ----------------------------
(***************************************************************************)
(* The engine that downloads an HLS stream through the browser             *)
(* (HlsDownloader and _SegmentWorker in media/hls/downloader.py): one run  *)
(* after another of one stream, into one output.                           *)
(*                                                                         *)
(* Worker threads fetch segments and put them in a bounded queue; the      *)
(* thread of the run takes them out, holds those that come too early and   *)
(* writes the others in order to the part file.  When it leaves it records *)
(* in a sidecar which segments the part holds, and a later run appends     *)
(* behind them if the playlist still begins with the same segments.        *)
(***************************************************************************)
EXTENDS Naturals, Sequences

CONSTANTS
    NumSegments,  \* segments of the playlist
    Layouts,      \* the playlists a server may give out for the stream
    NumWorkers,   \* worker threads of a run
    Places,       \* of the results' queue: twice the workers in the code
    WorkersDie,   \* whether an exception may escape from a worker
    Crashes       \* whether the process may die

ASSUME HlsAssumption ==
    /\ NumSegments \in Nat \ {0} /\ NumWorkers \in Nat \ {0}
    /\ Places \in Nat \ {0} /\ Layouts \subseteq Nat \ {0} /\ Layouts # {}
    /\ WorkersDie \in BOOLEAN /\ Crashes \in BOOLEAN

Workers  == 1 .. NumWorkers
Segments == 1 .. NumSegments

(* What a segment's URL identifies, the query aside.                       *)
Signature(l, i) == <<l, i>>
Prefix(l, n)    == [i \in 1 .. n |-> Signature(l, i)]
Whole(l)        == Prefix(l, NumSegments)

VARIABLES
    stage,   \* where the run is, "idle" when there is none
    layout,  \* the playlist it read, or 0
    there,   \* whether the part file exists
    part,    \* the segments in it
    flushed, \* how many of them have left the buffers
    sidecar, \* the segments the sidecar names, <<>> without a usable one
    outcome, \* how the loop that writes ended
    jobs,    \* segments no worker has taken, in order
    results, \* the queue between the workers and the writer
    worker,  \* see WorkerState
    held,    \* segments that came before their turn
    done,    \* how many segments are written
    step,    \* where the loop that writes is
    cancel, abort, \* the two events
    stale    \* a crash left a sidecar that does not describe the part

disk == <<there, part, flushed, sidecar, stale>>
run  == <<layout, outcome, held, done, step>>
team == <<jobs, results, worker, abort>>
vars == <<stage, disk, run, team, cancel>>

Result == [index : Segments, kind : {"data", "error", "cancelled"}]
WorkerState ==
    [at : {"off", "get", "fetch", "put", "dead"}, has : Result]
NoResult == [index |-> 1, kind |-> "data"]
Off      == [at |-> "off", has |-> NoResult]

Describes(s, t, p) == s = <<>> \/ (t /\ s = p)

Init == /\ stage = "idle" /\ layout = 0
        /\ there = FALSE /\ part = <<>> /\ flushed = 0 /\ sidecar = <<>>
        /\ outcome = "none" /\ stale = FALSE
        /\ jobs = <<>> /\ results = <<>> /\ worker = [w \in Workers |-> Off]
        /\ held = {} /\ done = 0 /\ step = "check"
        /\ cancel = FALSE /\ abort = FALSE

----------------------------------------------------------------------------
(* Before the segments.                                                    *)

(* The workers an earlier run left behind have queues and events of their  *)
(* own, and are not followed any further.                                  *)
Begin ==
    /\ stage = "idle"
    /\ stage' = "manifest"
    /\ cancel' = FALSE /\ abort' = FALSE
    /\ jobs' = <<>> /\ results' = <<>> /\ worker' = [w \in Workers |-> Off]
    /\ UNCHANGED <<disk, run>>

Cancel ==
    /\ stage # "idle" /\ ~cancel
    /\ cancel' = TRUE
    /\ UNCHANGED <<stage, disk, run, team>>

(* A cancellation keeps the part and its sidecar, as does every failure    *)
(* before the part is named.                                               *)
Ends == /\ stage' = "idle" /\ layout' = 0 /\ outcome' = "none"
        /\ held' = {} /\ done' = 0 /\ step' = "check"
EndsKeeping == Ends /\ UNCHANGED <<disk, team, cancel>>
EndsDiscarding ==
    /\ Ends
    /\ there' = FALSE /\ part' = <<>> /\ flushed' = 0 /\ sidecar' = <<>>
    /\ stale' = FALSE
    /\ UNCHANGED <<team, cancel>>

ManifestFails ==
    /\ stage = "manifest"
    /\ EndsKeeping

(* _resume_window: the sidecar's segments begin the playlist.              *)
AnyLength(l) == sidecar # <<>>
Resumes(l)   == /\ sidecar # <<>> /\ Len(sidecar) <= NumSegments
                /\ sidecar = Prefix(l, Len(sidecar))

(* The manifest is read, the output reserved and the resume decided.       *)
Read ==
    /\ stage = "manifest"
    /\ stage' = "keys"
    /\ layout' \in Layouts
    /\ IF there /\ Resumes(layout')
       THEN done' = Len(sidecar) /\ UNCHANGED disk
       ELSE /\ done' = 0
            /\ there' = FALSE /\ part' = <<>> /\ flushed' = 0
            /\ sidecar' = IF there THEN <<>> ELSE sidecar
            /\ stale' = (stale /\ ~there)
    /\ UNCHANGED <<outcome, held, step, team, cancel>>

KeysFail ==
    /\ stage = "keys"
    /\ \/ EndsDiscarding
       \/ cancel /\ EndsKeeping

JobsPast(n) == [i \in 1 .. NumSegments - n |-> n + i + 1]
JobsFrom(n) == [i \in 1 .. NumSegments - n |-> n + i]

(* The keys and the first bytes are there: the workers start, and the part *)
(* is opened to append to it, or empty.  With no segment left there is     *)
(* nothing to open.                                                        *)
Start ==
    /\ stage = "keys"
    /\ IF done = NumSegments
       THEN stage' = "publish" /\ UNCHANGED <<disk, jobs, worker>>
       ELSE /\ stage' = "writing"
            /\ jobs' = JobsFrom(done)
            /\ worker' = [w \in Workers |->
                            IF w <= NumSegments - done
                            THEN [Off EXCEPT !.at = "get"] ELSE Off]
            /\ there' = TRUE
            /\ UNCHANGED <<part, flushed, sidecar, stale>>
    /\ UNCHANGED <<run, results, abort, cancel>>

----------------------------------------------------------------------------
(* A worker.                                                               *)

Turns(w, at) == worker' = [worker EXCEPT ![w].at = at]

Take(w) ==
    /\ worker[w].at = "get" /\ ~abort /\ jobs # <<>>
    /\ jobs' = Tail(jobs)
    /\ worker' = [worker EXCEPT ![w] =
                    [at |-> "fetch",
                     has |-> [index |-> Head(jobs), kind |-> "data"]]]
    /\ UNCHANGED <<stage, disk, run, results, abort, cancel>>

(* It leaves when the abort flag is set; the sentinels come after that.    *)
Quits(w) ==
    /\ worker[w].at = "get" /\ abort
    /\ Turns(w, "off")
    /\ UNCHANGED <<stage, disk, run, jobs, results, abort, cancel>>

Fetched(w) ==
    /\ worker[w].at = "fetch"
    /\ Turns(w, "put")
    /\ UNCHANGED <<stage, disk, run, jobs, results, abort, cancel>>

(* After its retries, or at once when the user cancels.                    *)
Silent(w, kind)  == Turns(w, "off") /\ abort' = TRUE
Reports(w, kind) ==
    /\ worker' = [worker EXCEPT ![w].at = "put", ![w].has.kind = kind]
    /\ abort' = TRUE
FetchFails(w) ==
    /\ worker[w].at = "fetch"
    /\ \/ Reports(w, "error")
       \/ cancel /\ Reports(w, "cancelled")
    /\ UNCHANGED <<stage, disk, run, jobs, results, cancel>>

(* An error of the database under the transport is caught nowhere.         *)
Dies(w) ==
    /\ WorkersDie /\ worker[w].at = "fetch"
    /\ Turns(w, "dead")
    /\ UNCHANGED <<stage, disk, run, jobs, results, abort, cancel>>

Puts(w) ==
    /\ worker[w].at = "put" /\ Len(results) < Places
    /\ results' = Append(results, worker[w].has)
    /\ Turns(w, IF worker[w].has.kind = "data" THEN "get" ELSE "off")
    /\ UNCHANGED <<stage, disk, run, jobs, abort, cancel>>

WorkerStep(w) ==
    \/ Take(w) \/ Quits(w) \/ Fetched(w) \/ FetchFails(w) \/ Dies(w) \/ Puts(w)

----------------------------------------------------------------------------
(* The loop that writes.                                                   *)

At(s) == stage = "writing" /\ step = s
Leaves(how) == stage' = "persist" /\ outcome' = how

Check ==
    /\ At("check")
    /\ IF done = NumSegments THEN Leaves("done") /\ UNCHANGED step
       ELSE IF cancel THEN Leaves("cancelled") /\ UNCHANGED step
       ELSE step' = "get" /\ UNCHANGED <<stage, outcome>>
    /\ UNCHANGED <<layout, held, done, disk, team, cancel>>

Receive ==
    /\ At("get") /\ results # <<>>
    /\ results' = Tail(results)
    /\ LET r == Head(results)
       IN  IF r.kind = "data"
           THEN /\ held' = held \union {r.index}
                /\ step' = "write"
                /\ UNCHANGED <<stage, outcome>>
           ELSE /\ Leaves(IF r.kind = "error" THEN "failed" ELSE "cancelled")
                /\ UNCHANGED <<held, step>>
    /\ UNCHANGED <<layout, done, disk, jobs, worker, abort, cancel>>

(* The next segment, and those held behind it, are written.                *)
Ready == done + 1 \in held
Write ==
    /\ At("write") /\ Ready
    /\ part' = Append(part, Signature(layout, done + 1))
    /\ held' = held \ {done + 1}
    /\ done' = done + 1
    /\ UNCHANGED <<stage, layout, outcome, step, there, flushed, sidecar,
                   stale, team, cancel>>
Flush ==
    /\ At("write") /\ ~Ready
    /\ flushed' = Len(part) /\ step' = "check"
    /\ UNCHANGED <<stage, layout, outcome, held, done, there, part, sidecar,
                   stale, team, cancel>>
WriteFails ==
    /\ At("write") /\ Ready
    /\ Leaves("failed")
    /\ UNCHANGED <<layout, held, done, step, disk, team, cancel>>

(* However the loop ends it records what it wrote; the file is closed and  *)
(* the workers told to leave, but not waited for longer than two seconds.  *)
RecordsAll == Whole(layout)
Recorded   == Prefix(layout, done)
Persist ==
    /\ stage = "persist"
    /\ stage' = "leaving"
    /\ sidecar' = Recorded
    /\ flushed' = Len(part)
    /\ stale' = (stale /\ part # Recorded)
    /\ abort' = TRUE
    /\ UNCHANGED <<run, there, part, jobs, results, worker, cancel>>

Leave ==
    /\ stage = "leaving"
    /\ IF outcome = "done"
       THEN stage' = "publish" /\ UNCHANGED <<disk, run, team, cancel>>
       ELSE IF outcome = "cancelled" THEN EndsKeeping
       ELSE EndsDiscarding

(* The part is renamed to the final file, or ffmpeg copies it there.       *)
Publish ==
    /\ stage = "publish"
    /\ stage' = "tidy"
    /\ there' \in {FALSE, TRUE}
    /\ part' = IF there' THEN part ELSE <<>>
    /\ flushed' = Len(part')
    /\ UNCHANGED <<sidecar, stale, run, team, cancel>>
PublishFails ==
    /\ stage = "publish"
    /\ EndsDiscarding

Tidy ==
    /\ stage = "tidy"
    /\ EndsDiscarding

RunStep ==
    \/ ManifestFails \/ Read \/ KeysFail \/ Start
    \/ Check \/ Receive \/ Write \/ Flush \/ WriteFails
    \/ Persist \/ Leave \/ Publish \/ PublishFails \/ Tidy

(* The process dies: a part that is being written keeps at least what was  *)
(* flushed, and a sidecar that is being written may be lost.  As a bound,  *)
(* the process does not die again before the damage of a crash is undone.  *)
Crash ==
    /\ Crashes /\ stage # "idle" /\ ~stale
    /\ Ends
    /\ \E n \in flushed .. Len(part) :
          part' = SubSeq(part, 1, n) /\ flushed' = n
    /\ sidecar' \in {sidecar} \union (IF stage = "persist" THEN {<<>>} ELSE {})
    /\ stale' = ~Describes(sidecar', there, part')
    /\ cancel' = FALSE /\ abort' = FALSE
    /\ jobs' = <<>> /\ results' = <<>> /\ worker' = [w \in Workers |-> Off]
    /\ UNCHANGED there

Next == \/ Begin \/ Cancel \/ RunStep \/ Crash
        \/ \E w \in Workers : WorkerStep(w)

Spec == Init /\ [][Next]_vars

(* Threads run, and a fetch ends by its timeout if by nothing else.        *)
FairSpec == /\ Spec
            /\ WF_vars(RunStep)
            /\ \A w \in Workers : WF_vars(WorkerStep(w))

----------------------------------------------------------------------------
HlsTypeOK ==
    /\ stage \in {"idle", "manifest", "keys", "writing", "persist", "leaving",
                  "publish", "tidy"}
    /\ layout \in Layouts \union {0}
    /\ there \in BOOLEAN /\ part \in Seq(Layouts \X Segments)
    /\ flushed \in 0 .. Len(part)
    /\ sidecar \in Seq(Layouts \X Segments)
    /\ outcome \in {"none", "done", "cancelled", "failed"}
    /\ jobs \in Seq(Segments) /\ results \in Seq(Result)
    /\ worker \in [Workers -> WorkerState]
    /\ held \subseteq Segments /\ done \in 0 .. NumSegments
    /\ step \in {"check", "get", "write"}
    /\ cancel \in BOOLEAN /\ abort \in BOOLEAN /\ stale \in BOOLEAN

(* Whatever order the workers deliver in, and however often the stream was *)
(* paused, failed and resumed under a playlist that may have changed, the  *)
(* file a run publishes is the whole stream, each segment once and in      *)
(* order; unless a crash had left a sidecar that does not describe the     *)
(* part, which the next run believes.                                      *)
FinishedWhole ==
    [][Publish => part = Whole(layout) \/ stale]_vars

(* Between two runs a sidecar names exactly the segments of the part, or   *)
(* the process died.                                                       *)
SidecarDescribes ==
    stage = "idle" => Describes(sidecar, there, part) \/ stale

(* A run comes to its end: with a bounded queue, workers that stop at the  *)
(* first failure and a writer that waits without a timeout there is always *)
(* one that goes on, unless a worker died of an exception nobody catches.  *)
RunEnds == stage # "idle" ~>
             (stage = "idle" \/ \E w \in Workers : worker[w].at = "dead")

=============================================================================
