---------------------------- MODULE SegmentPool ----------------------------
(***************************************************************************)
(* The segmented transfer of one file: SegmentPool (engine/downloader/     *)
(* pool.py) and the SegmentDownloader that each of its workers runs        *)
(* (engine/downloader/segment.py).                                         *)
(*                                                                         *)
(* The pool is one asyncio program, so a step here is the code between two *)
(* awaits.  A worker takes a segment, asks the server for the bytes that   *)
(* are missing, receives them chunk by chunk, waits while the download is  *)
(* paused, waits for the rate limiter, and writes.  Beside the workers run *)
(* the ramp, which creates workers, splits the segment that holds the tail *)
(* up (_assist) and cancels a worker that ignores a split (_kill_stalled). *)
(* Workers are interchangeable, so their number is kept and the position   *)
(* of each in its loop is kept with the segment it has in hand.            *)
(*                                                                         *)
(* A byte of the file is its offset.  A segment's data is always a run of  *)
(* bytes that begins at start[i], so part[i], its length, says what is on  *)
(* disk: the size of the part file, or the bytes written at the segment's  *)
(* offset of the shared file when the download is in place.                *)
(***************************************************************************)
EXTENDS Integers, FiniteSets

CONSTANTS
    Size,        \* bytes of the remote file
    MaxSegs,     \* bound on the segments a run may reach by splitting
    Connections, \* segments the plan asks for (spec.connections_max)
    MaxWorkers,  \* worker tasks at a time (spec.connections_max)
    RetryMax,    \* spec.retry_max
    ChunkMax,    \* bound on the bytes one chunk of a response holds
    AssistMin,   \* assist_min_remaining
    Speeds,      \* rates the assist may measure, 0 is a stalled segment
    Servers,     \* the kinds of server there may be
    Faults,      \* the errors a request may meet
    Throttled,   \* whether the rate limiter makes a worker wait
    DiskErrors   \* whether opening or writing a file may raise OSError

(* A server honours ranges, or sends the whole file whatever is asked;     *)
(* and reports the size of the file, or does not.                          *)
AllServers == {"ranges", "plain", "stream", "chunked"}

ASSUME SizeAssumption   == Size \in Nat \ {0}
ASSUME PlanAssumption   == /\ MaxSegs \in Nat \ {0}
                           /\ Connections \in 1 .. MaxSegs
                           /\ Connections <= Size
ASSUME LimitsAssumption == /\ MaxWorkers \in Nat \ {0}
                           /\ RetryMax \in Nat \ {0}
                           /\ ChunkMax \in Nat \ {0}
                           /\ AssistMin \in Nat
                           /\ Speeds \subseteq Nat
ASSUME SwitchAssumption == /\ Servers \subseteq AllServers
                           /\ Faults \subseteq {"transient", "permanent"}
                           /\ Throttled \in BOOLEAN
                           /\ DiskErrors \in BOOLEAN

VARIABLES
    nseg,      \* how many segments exist, their indexes are 0 .. nseg - 1
    start,     \* first byte of each segment
    end,       \* last byte of each segment, narrowed by a split
    open,      \* the plan is a single range without an end
    inPlace,   \* write into the final file instead of part files
    written,   \* SegmentState.written
    part,      \* length of the segment's data on disk, -1 without part file
    taken,     \* segments taken from the queue: it holds taken .. nseg - 1
    alive,     \* worker tasks that have not ended
    at,        \* where the worker of each segment is, see Stage
    completed, \* segments whose status is "completed"
    splitting, \* split segments whose worker has not ended: stop_event set
    server,    \* the kind of the server
    running,   \* the task's running event, cleared by a pause
    cancel,    \* the task's cancel event
    fatal,     \* the first error that ends the pool
    abort,     \* a worker met the cancel event
    outcome    \* how SegmentPool.run ended

segVars  == <<nseg, start, end, open, inPlace, written, part>>
workVars == <<taken, alive, at, completed, splitting>>
flagVars == <<server, running, cancel>>
endVars  == <<fatal, abort, outcome>>
poolVars == <<segVars, workVars, flagVars, endVars>>

Ranged == server \in {"ranges", "stream"}
Sized  == server \in {"ranges", "plain"}

Seg  == 0 .. MaxSegs - 1
Live == 0 .. nseg - 1

(* A segment no worker has in hand is at Rest; otherwise pc is the await   *)
(* its worker is at, tries the number of its attempt, asked the last byte  *)
(* of its current request, from the segment's progress when the response   *)
(* was opened, chunk the length of the chunk in the worker's hands.        *)
InHand(pc, tries) ==
    [pc |-> pc, tries |-> tries, asked |-> 0, from |-> 0, chunk |-> 0]
Rest  == InHand("rest", 0)
Stage == [pc : {"rest", "attempt", "request", "stream", "held", "limit"},
          tries : Nat, asked : Int, from : Nat, chunk : Nat]

Active == {i \in Seg : at[i].pc # "rest"}

Length(i)    == end[i] - start[i] + 1
Cursor(i)    == start[i] + written[i]
Remaining(i) == IF open \/ Cursor(i) > end[i] THEN 0 ELSE end[i] - Cursor(i) + 1

Least(a, b)    == IF a < b THEN a ELSE b
Greatest(a, b) == IF a < b THEN b ELSE a

----------------------------------------------------------------------------
(* plan_segments: ranges of equal length, the last one takes the rest.     *)
PlanStart(n, i) == i * (Size \div n)
PlanEndPastEOF(n, i) == IF i = n - 1 THEN Size ELSE PlanStart(n, i + 1) - 1
PlanEnd(n, i)   == IF i = n - 1 THEN Size - 1 ELSE PlanStart(n, i + 1) - 1

(* allocator.initial *)
InitialWorkers == Least(2, MaxWorkers)

(* SegmentPool.__init__ and the beginning of run: every segment is queued, *)
(* the ones an earlier run completed too.                                  *)
PoolReady ==
    /\ taken = 0
    /\ alive = InitialWorkers
    /\ at = [i \in Seg |-> Rest]
    /\ splitting = {}
    /\ fatal = "none" /\ abort = FALSE /\ outcome = "running"

(* A pool over a plan, or over the one range without an end that a server  *)
(* without sizes or ranges gets, and whatever an earlier run left on disk. *)
PoolInit ==
    /\ open \in BOOLEAN
    /\ nseg = IF open THEN 1 ELSE Connections
    /\ start = [i \in Seg |-> IF i < nseg THEN PlanStart(nseg, i) ELSE 0]
    /\ end = [i \in Seg |-> IF i < nseg THEN PlanEnd(nseg, i) ELSE -1]
    /\ inPlace \in BOOLEAN
    /\ written \in [Seg -> 0 .. Size]
    /\ \A i \in Seg : written[i] <= Length(i)
    /\ part = [i \in Seg |->
                  IF written[i] > 0 \/ inPlace THEN written[i] ELSE -1]
    /\ completed = {}
    /\ server \in Servers
    /\ running = TRUE /\ cancel = FALSE
    /\ PoolReady

----------------------------------------------------------------------------
(* How a worker leaves a segment.  In every case _download's finally block *)
(* forgets the segment, and the queue counts it as done.                   *)

Leave(i) == /\ at' = [at EXCEPT ![i] = Rest]
            /\ splitting' = splitting \ {i}

(* _download returns: the segment is recorded as completed whatever it     *)
(* holds, and the worker asks the queue for the next one.                  *)
Finish(i) == /\ Leave(i)
             /\ completed' = completed \union {i}
             /\ UNCHANGED <<alive, fatal, abort>>

(* An exception ends the worker.  SegmentAborted stops the pool.           *)
Abort(i) == /\ Leave(i)
            /\ alive' = alive - 1
            /\ abort' = TRUE
            /\ UNCHANGED <<completed, fatal>>

(* PermanentError and RangeNotSupported stop it too, the first one counts. *)
Fail(i, error) == /\ Leave(i)
                  /\ alive' = alive - 1
                  /\ fatal' = IF fatal = "none" THEN error ELSE fatal
                  /\ UNCHANGED <<completed, abort>>

(* Any other exception ends the worker and nothing else: _worker has no    *)
(* handler for it, neither event of the pool is set.                       *)
Vanish(i) == /\ Leave(i)
             /\ alive' = alive - 1
             /\ UNCHANGED <<completed, fatal, abort>>

Move(i, where) == /\ at' = [at EXCEPT ![i].pc = where]
                  /\ UNCHANGED <<alive, completed, splitting, fatal, abort>>

(* A transient error: another attempt after a delay, unless this was the   *)
(* last one allowed.                                                       *)
Retry(i) ==
    IF at[i].tries >= RetryMax
    THEN Fail(i, "permanent")
    ELSE /\ at' = [at EXCEPT ![i] = InHand("attempt", at[i].tries + 1)]
         /\ UNCHANGED <<alive, completed, splitting, fatal, abort>>

----------------------------------------------------------------------------
(* Worker steps.                                                           *)

(* A pause holds a worker until the download is cancelled.                 *)
CancelledWhenRunning == cancel /\ running
Cancelled == cancel

At(i, where) == outcome = "running" /\ at[i].pc = where

(* queue.get by an idle worker: first in first out over increasing indexes *)
Get ==
    /\ outcome = "running"
    /\ taken < nseg
    /\ Cardinality(Active) < alive
    /\ taken' = taken + 1
    /\ at' = [at EXCEPT ![taken] = InHand("attempt", 1)]
    /\ completed' = completed \ {taken}
    /\ UNCHANGED <<segVars, alive, splitting, flagVars, endVars>>

(* An attempt begins once the download is not paused: nothing is left to   *)
(* fetch, the download is cancelled, or the missing range is requested.    *)
Attempt(i) ==
    LET nothingLeft == ~open /\ Cursor(i) > end[i] IN
    /\ At(i, "attempt")
    /\ \/ running /\ nothingLeft /\ Finish(i)
       \/ Cancelled /\ ~(running /\ nothingLeft) /\ Abort(i)
       \/ /\ running /\ ~nothingLeft /\ ~cancel
          /\ at' = [at EXCEPT ![i].pc = "request", ![i].asked = end[i],
                              ![i].from = written[i]]
          /\ UNCHANGED <<alive, completed, splitting, fatal, abort>>
    /\ UNCHANGED <<segVars, taken, flagVars, outcome>>

(* The response carries the range, from its first byte to its last, or the *)
(* whole file when that is what was asked for: the file is opened, a part  *)
(* file from scratch unless the segment has bytes already.                 *)
OpenedAfresh(i) == IF inPlace THEN part[i] ELSE 0
Opened(i) == IF inPlace THEN part[i]
             ELSE IF written[i] = 0 THEN 0 ELSE Greatest(part[i], 0)

Whole(i) == open /\ Cursor(i) = 0

Body(i) ==
    /\ At(i, "request")
    /\ Ranged \/ Whole(i)
    /\ Cursor(i) <= at[i].asked
    /\ part' = [part EXCEPT ![i] = Opened(i)]
    /\ Move(i, "stream")
    /\ UNCHANGED <<nseg, start, end, open, inPlace, written, taken, flagVars,
                   outcome>>

(* The server does not honour the range: RangeNotSupported.                *)
NoRange(i) ==
    /\ At(i, "request")
    /\ ~Ranged /\ ~Whole(i)
    /\ Fail(i, "range")
    /\ UNCHANGED <<segVars, taken, flagVars, outcome>>

(* 416: the range begins past the end of the file, nothing is left.        *)
PastEnd(i) ==
    /\ At(i, "request")
    /\ Ranged /\ Cursor(i) > at[i].asked
    /\ written' = [written EXCEPT ![i] = IF open THEN 0 ELSE Length(i)]
    /\ Finish(i)
    /\ UNCHANGED <<nseg, start, end, open, inPlace, part, taken, flagVars,
                   outcome>>

(* A status or a network error, also in the middle of the body.            *)
Fault(i, error) ==
    /\ At(i, "request") \/ (At(i, "stream") /\ error = "transient")
    /\ IF error = "transient" THEN Retry(i) ELSE Fail(i, "permanent")
    /\ UNCHANGED <<segVars, taken, flagVars, outcome>>

Respond(i) == \/ Body(i) \/ NoRange(i) \/ PastEnd(i)
              \/ \E error \in Faults : Fault(i, error)

(* The next chunk of the body arrives; it is held while paused.            *)
Receive(i) ==
    /\ At(i, "stream")
    /\ \E n \in 1 .. Least(ChunkMax, at[i].asked - Cursor(i) + 1) :
          at' = [at EXCEPT ![i].pc = "held", ![i].chunk = n]
    /\ UNCHANGED <<segVars, taken, alive, completed, splitting, flagVars,
                   endVars>>

(* The body ends where the request asked it to.                            *)
EndOfBody(i) ==
    /\ At(i, "stream")
    /\ Cursor(i) > at[i].asked
    /\ Finish(i)
    /\ UNCHANGED <<segVars, taken, flagVars, outcome>>

(* n bytes are written and flushed, then counted as progress; the worker   *)
(* of a split segment stops after this chunk.                              *)
Append(i, n) ==
    /\ written' = [written EXCEPT ![i] = @ + n]
    /\ part' = [part EXCEPT ![i] = IF inPlace THEN Greatest(@, written[i] + n)
                                   ELSE @ + n]
    /\ IF i \in splitting
       THEN Finish(i)
       ELSE /\ at' = [at EXCEPT ![i].pc = "stream", ![i].chunk = 0]
            /\ UNCHANGED <<alive, completed, splitting, fatal, abort>>

RoomShort(i) == end[i] - Cursor(i)
Room(i) == end[i] - Cursor(i) + 1

(* A chunk is looked at once the download is not paused: it is clamped to  *)
(* the segment's present end, then the rate limiter is asked.              *)
Clamp(i) ==
    LET n == IF open THEN at[i].chunk ELSE Least(at[i].chunk, Room(i)) IN
    /\ At(i, "held")
    /\ \/ Cancelled /\ Abort(i) /\ UNCHANGED <<written, part>>
       \/ /\ running /\ ~cancel /\ ~open /\ Room(i) <= 0
          /\ Finish(i)
          /\ UNCHANGED <<written, part>>
       \/ /\ running /\ ~cancel /\ (open \/ Room(i) > 0)
          /\ Throttled
          /\ at' = [at EXCEPT ![i].pc = "limit", ![i].chunk = n]
          /\ UNCHANGED <<written, part, alive, completed, splitting, fatal,
                         abort>>
       \/ /\ running /\ ~cancel /\ (open \/ Room(i) > 0)
          /\ ~Throttled
          /\ Append(i, n)
    /\ UNCHANGED <<nseg, start, end, open, inPlace, taken, flagVars, outcome>>

(* The limiter lets the clamped chunk through.                             *)
Commit(i) ==
    /\ At(i, "limit")
    /\ Append(i, at[i].chunk)
    /\ UNCHANGED <<nseg, start, end, open, inPlace, taken, flagVars, outcome>>

(* open or write raises OSError (disk full, file removed or locked).       *)
DiskError(i) ==
    /\ DiskErrors
    /\ \/ At(i, "request") \/ At(i, "limit")
       \/ /\ At(i, "held") /\ running /\ ~cancel /\ ~Throttled
          /\ open \/ Cursor(i) <= end[i]
    /\ Vanish(i)
    /\ UNCHANGED <<segVars, taken, flagVars, outcome>>

WorkerNext(i) ==
    \/ Attempt(i) \/ Respond(i) \/ Receive(i) \/ EndOfBody(i)
    \/ Clamp(i) \/ Commit(i) \/ DiskError(i)

----------------------------------------------------------------------------
(* The ramp: more workers, rebalancing, and the end of the pool.           *)

(* The ramp creates a worker, for more throughput or in place of one that  *)
(* ended.                                                                  *)
NeverReplaced == InitialWorkers <= alive /\ alive < MaxWorkers
MayGrow == alive < MaxWorkers

Spawn ==
    /\ outcome = "running"
    /\ MayGrow
    /\ alive' = alive + 1
    /\ UNCHANGED <<segVars, taken, at, completed, splitting, flagVars, endVars>>

Splittable(i) == i \notin splitting /\ Remaining(i) > AssistMin

(* _assist: the lone active segment, or of the segments slower than half   *)
(* of the best one those with the largest remainder.                       *)
Candidates(speed) ==
    {i \in Active : /\ Splittable(i)
                    /\ \/ Active = {i}
                       \/ \A j \in Active : speed[j] = 0
                       \/ \E j \in Active : 2 * speed[i] < speed[j]}
Targets(speed) ==
    {i \in Candidates(speed) :
        \A j \in Candidates(speed) : Remaining(j) <= Remaining(i)}

(* _split hands over the half of the remainder, or all of a stalled one.   *)
Cut(i, speed) == IF speed[i] = 0 THEN Cursor(i)
                 ELSE Cursor(i) + (Remaining(i) \div 2)

KeepsMid(mid) == mid
Narrowed(mid) == mid - 1

Split(i, mid) ==
    /\ start' = [start EXCEPT ![nseg] = mid]
    /\ end' = [end EXCEPT ![nseg] = end[i], ![i] = Narrowed(mid)]
    /\ written' = [written EXCEPT ![nseg] = 0]
    /\ part' = [part EXCEPT ![nseg] = IF inPlace THEN 0 ELSE @]
    /\ nseg' = nseg + 1
    /\ completed' = completed \ {nseg}
    /\ splitting' = splitting \union {i}

Assist ==
    /\ outcome = "running"
    /\ running /\ ~cancel
    /\ taken = nseg
    /\ alive >= 2
    /\ nseg < MaxSegs
    /\ \E speed \in [Active -> Speeds] : \E i \in Targets(speed) :
          Split(i, Cut(i, speed))
    /\ UNCHANGED <<open, inPlace, taken, alive, at, flagVars, endVars>>

(* _kill_stalled: the worker of a split segment that has not ended by      *)
(* split_grace seconds later is cancelled.                                 *)
Kill(i) ==
    /\ outcome = "running"
    /\ i \in splitting
    /\ Vanish(i)
    /\ UNCHANGED <<segVars, taken, flagVars, outcome>>

(* SegmentPool.run returns when the queue is joined or a worker stopped    *)
(* it; every worker is cancelled.                                          *)
QueueEmpty == taken = nseg
Joined == taken = nseg /\ Active = {}

End ==
    /\ outcome = "running"
    /\ Joined \/ fatal # "none" \/ abort
    /\ outcome' = IF fatal # "none" THEN fatal
                  ELSE IF abort THEN "aborted" ELSE "joined"
    /\ alive' = 0
    /\ at' = [i \in Seg |-> Rest]
    /\ splitting' = {}
    /\ UNCHANGED <<segVars, taken, completed, flagVars, fatal, abort>>

TransferNext == \/ Get \/ Spawn \/ Assist \/ End
                \/ \E i \in Seg : WorkerNext(i) \/ Kill(i)

----------------------------------------------------------------------------
(* The events the task sets for the pool.                                  *)

ClearRunning == /\ running' = FALSE
                /\ UNCHANGED <<segVars, workVars, server, cancel, endVars>>
SetRunning   == /\ running' = TRUE
                /\ UNCHANGED <<segVars, workVars, server, cancel, endVars>>
SetCancel    == /\ cancel' = TRUE /\ running' = TRUE
                /\ UNCHANGED <<segVars, workVars, server, endVars>>

PoolNext == \/ TransferNext
            \/ outcome = "running" /\ (ClearRunning \/ SetRunning \/ SetCancel)
            \/ outcome # "running" /\ UNCHANGED poolVars

PoolSpec == PoolInit /\ [][PoolNext]_poolVars

(* The event loop runs every task that is ready and the ramp replaces      *)
(* workers that ended.  A server that answers keeps sending: there is no   *)
(* read timeout, so nothing else ends a silent response.  The user         *)
(* promises nothing.                                                       *)
Fairness ==
    /\ WF_poolVars(Get) /\ WF_poolVars(End)
    /\ WF_poolVars(alive < InitialWorkers /\ Spawn)
    /\ \A i \in Seg :
          /\ WF_poolVars(Attempt(i))
          /\ WF_poolVars(Clamp(i))
          /\ WF_poolVars(Commit(i))
          /\ WF_poolVars(Respond(i))
          /\ WF_poolVars(Receive(i) \/ EndOfBody(i))

FairPoolSpec == PoolSpec /\ Fairness

----------------------------------------------------------------------------
TypeOK ==
    /\ nseg \in 0 .. MaxSegs
    /\ start \in [Seg -> 0 .. Size]
    /\ end \in [Seg -> -1 .. Size - 1]
    /\ open \in BOOLEAN
    /\ inPlace \in BOOLEAN
    /\ written \in [Seg -> Nat]
    /\ part \in [Seg -> Nat \union {-1}]
    /\ taken \in 0 .. nseg
    /\ alive \in 0 .. MaxWorkers
    /\ at \in [Seg -> Stage]
    /\ completed \subseteq Seg
    /\ splitting \subseteq Active
    /\ server \in AllServers
    /\ running \in BOOLEAN
    /\ cancel \in BOOLEAN
    /\ fatal \in {"none", "permanent", "range"}
    /\ abort \in BOOLEAN
    /\ outcome \in {"running", "joined", "aborted", "permanent", "range"}

(* Whatever is split, and when, the segments' ranges cut the file into     *)
(* pieces that neither overlap nor leave a byte out: the bytes of two      *)
(* workers never meet and the merge finds every range.                     *)
Holds(i, b) == start[i] <= b /\ b <= end[i]
RangesTile ==
    \A b \in 0 .. Size - 1 :
        /\ \E i \in Live : Holds(i, b)
        /\ \A i, j \in Live : Holds(i, b) /\ Holds(j, b) => i = j

(* A segment that is recorded as completed and kept the end it was given   *)
(* is on disk to its last byte, after any interleaving of retries, pauses, *)
(* failed writes and resumed progress: what a split, a late chunk or a     *)
(* killed worker can damage is confined to the segments that were narrowed *)
(* and to those that nobody recorded.                                      *)
PlanEnds == {PlanEnd(Connections, i) : i \in 0 .. Connections - 1}
UnsplitWhole ==
    \A i \in completed :
        end[i] \in PlanEnds /\ start[i] <= end[i] => part[i] >= Length(i)

(* SegmentState.written is what a later run trusts: it never counts bytes  *)
(* the file does not hold, also when a failed attempt reopens the file.    *)
ProgressOnDisk ==
    \A i \in Live : written[i] > 0 => written[i] <= part[i]

(* pool.py: "Splits are byte-exact [...] so parts stay non-overlapping and *)
(* merges remain correct": a segment recorded as completed holds its range *)
(* as it stands after the splits.                                          *)
CompletedHoldsRange == \A i \in completed : written[i] >= Length(i)

(* A pool that is not left paused ends: retries are bounded, and rebalance *)
(* and lost workers never leave a queued segment without a worker.         *)
PoolTerminates == <>[]running => <>(outcome # "running")
=============================================================================
