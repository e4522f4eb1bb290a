------------------------- MODULE DownloadTask_proofs -------------------------
(***************************************************************************)
(* Theorems about DownloadTask: what holds of one download through every   *)
(* sequence of pools, stops, failures, crashes and resumes, for every file *)
(* size, number of segments, kind of server and way to write; and that it  *)
(* keeps what DownloadPromise promises.                                    *)
(***************************************************************************)
EXTENDS DownloadTask, SegmentPool_proofs

States  == Terminal \union {"queued", "connecting", "downloading", "paused",
                            "verifying"}
Results == Terminal \union {"none", "connecting", "downloading", "paused",
                            "verifying", "escaped"}
Lengths == [Seg -> Nat \union {-1}]

(* What a sidecar may hold.                                                *)
Sidecars == [state : States, total : {0, Size}, nseg : 0 .. MaxSegs,
             start : [Seg -> 0 .. Size], end : [Seg -> -1 .. Size - 1],
             open : BOOLEAN, written : [Seg -> Nat]]

StageTyped ==
    /\ stage \in Stages \union {"none"}
    /\ state \in States
    /\ result \in Results
    /\ final \in {"absent", "partial", "whole", "damaged"}
PlanTyped ==
    /\ total \in {0, Size}
    /\ want \in BOOLEAN
    /\ aside \in Lengths
    /\ inPlaceOk \in BOOLEAN
    /\ nested \in BOOLEAN
Saved == side.state # "none"
SideTyped == side = NoSide \/ side \in Sidecars

(* TaskTypeOK is not inductive.  The length of a range, to which recorded  *)
(* progress is cut, is not negative.                                       *)
Proper(n, first, last) == \A i \in 0 .. n - 1 : first[i] <= last[i] + 1
Geometry == /\ Proper(nseg, start, end)
            /\ Saved => Proper(side.nseg, side.start, side.end)

(* A server that reports no size is never asked for more than one range:   *)
(* the second probe of a fallback finds no more segments taken than there  *)
(* are.                                                                    *)
OneRange == ~Sized => /\ nseg > 0 => nseg = 1 /\ open
                      /\ Saved /\ side.nseg > 0 => side.nseg = 1 /\ side.open
Reported == stage = "pool" => total = IF Sized THEN Size ELSE 0

(* Only while its pool runs does a task have workers with a segment in     *)
(* hand.                                                                   *)
AtWork == Active # {} => stage = "pool" /\ outcome = "running"

TaskInv == /\ IInv /\ StageTyped /\ PlanTyped /\ SideTyped
           /\ Geometry /\ OneRange /\ Reported /\ AtWork

----------------------------------------------------------------------------
(* A task without workers.                                                 *)

(* With no segment in hand the pool's invariant is a matter of types.      *)
LEMMA IdleInv ==
  ASSUME DataOK', FlagsOK', at' \in [Seg -> Stage], Active' = {},
         splitting' = {}, alive' \in 0 .. MaxWorkers, completed' \subseteq Seg,
         fatal' \in {"none", "permanent", "range"}, abort' \in BOOLEAN
  PROVE  IInv'
  <1>1. Cardinality(Active') = 0
    BY FS_EmptySet
  <1>2. WorkersOK'
    BY <1>1, LimitsAssumption DEF WorkersOK
  <1>3. \A i \in Seg : SegInv(i)'
    BY DEF Active, SegInv
  <1> QED BY <1>2, <1>3 DEF IInv, TypeInv, Seg

(* Every worker is gone.                                                   *)
LEMMA AllAtRest ==
  ASSUME at' = [i \in Seg |-> Rest]
  PROVE  at' \in [Seg -> Stage] /\ Active' = {}
  <1>1. Rest \in Stage /\ Rest.pc = "rest"
    BY DEF Rest, InHand, Stage
  <1> QED BY <1>1 DEF Active

(* Outside its pool nothing is split.                                      *)
LEMMA IdleFacts ==
  ASSUME TaskInv, stage # "pool" \/ outcome # "running"
  PROVE  Active = {} /\ splitting = {} /\ at \in [Seg -> Stage]
  BY DEF TaskInv, AtWork, IInv, TypeInv, WorkersOK

(* The sidecar that is saved is well formed when the task is.              *)
LEMMA SaveTyped ==
  ASSUME IInv, PlanTyped, NEW s \in States
  PROVE  Sidecar(s) \in Sidecars /\ s # "none"
  BY DEF Sidecar, Sidecars, IInv, TypeInv, DataOK, PlanTyped, States, Terminal

(* The pool's own steps touch neither the flags nor the plan's kind, and   *)
(* leave a running pool or no worker.                                      *)
LEMMA TransferFacts ==
  ASSUME IInv, TransferNext
  PROVE  /\ UNCHANGED <<flagVars, open, inPlace>>
         /\ outcome = "running"
         /\ outcome' = "running" \/ Active' = {}
         /\ nseg' = nseg \/ (~open /\ nseg > 0)
  <1>1. CASE Get \/ Spawn
    BY <1>1 DEF Get, Spawn, segVars, endVars
  <1>2. CASE Assist
    <2>1. PICK k \in Active : ~open
      BY <1>2, AssistCuts DEF IInv
    <2>2. k < taken /\ k \in 0 .. MaxSegs - 1
      BY DEF IInv, SegInv, Active, Seg
    <2>3. taken = nseg /\ taken \in Int
      BY <1>2, PlanAssumption DEF Assist, IInv, TypeInv, DataOK
    <2>4. nseg > 0
      BY <2>2, <2>3, PlanAssumption
    <2> QED BY <1>2, <2>1, <2>4 DEF Assist, endVars
  <1>3. CASE End
    <2>1. Active' = {}
      BY <1>3, AllAtRest DEF End
    <2> QED BY <1>3, <2>1 DEF End, segVars
  <1>4. ASSUME NEW i \in Seg, WorkerNext(i)
        PROVE  UNCHANGED <<flagVars, outcome>> /\ outcome = "running"
    BY <1>4 DEF WorkerNext, Attempt, Respond, Body, NoRange, PastEnd, Fault,
       Receive, EndOfBody, Clamp, Commit, DiskError, At, endVars
  <1>5. CASE \E i \in Seg : WorkerNext(i)
    BY <1>4, <1>5, WorkerSeg DEF OwnOnly
  <1>6. CASE \E i \in Seg : Kill(i)
    BY <1>6 DEF Kill, segVars
  <1> QED BY <1>1, <1>2, <1>3, <1>5, <1>6 DEF TransferNext

(* Ranges are only ever cut, and each half is a range.                     *)
LEMMA TransferProper ==
  ASSUME IInv, TransferNext, Proper(nseg, start, end)
  PROVE  Proper(nseg, start, end)'
  <1>1. CASE UNCHANGED <<nseg, start, end>>
    BY <1>1 DEF Proper
  <1>2. CASE Assist
    <2>0. TypeInv /\ nseg \in Nat /\ nseg \in Seg /\ taken = nseg
      <3>1. TypeInv /\ nseg \in 0 .. MaxSegs /\ nseg < MaxSegs
        BY <1>2 DEF IInv, Assist, TypeInv, DataOK
      <3> QED BY <1>2, <3>1, PlanAssumption DEF Assist, Seg
    <2>1. PICK k \in Active, mid \in 0 .. Size - 1 :
             Split(k, mid) /\ ~open /\ Cursor(k) <= mid /\ mid <= end[k]
      BY <1>2, <2>0, AssistCuts
    <2>n. PICK new \in Seg : new = nseg
      BY <2>0
    <2>2. k \in Seg /\ k # new
      <3>1. k \in Seg /\ k < taken /\ k \in Nat
        BY PlanAssumption DEF Active, IInv, SegInv, Seg
      <3> QED BY <2>0, <2>n, <3>1
    <2>3. /\ start \in [Seg -> 0 .. Size] /\ end \in [Seg -> -1 .. Size - 1]
          /\ start[k] \in Int /\ end[k] \in Int /\ written[k] \in Nat
      BY <2>0, <2>2, StageChange, SizeAssumption DEF TypeInv, DataOK
    <2>4. start[k] <= mid /\ mid \in Int
      BY <2>1, <2>3, SizeAssumption DEF Cursor
    <2>5. /\ start' = [start EXCEPT ![new] = mid]
          /\ end' = [end EXCEPT ![new] = end[k], ![k] = mid - 1]
          /\ nseg' = nseg + 1
      BY <2>1, <2>n DEF Split, Narrowed
    <2>6. ASSUME NEW i \in 0 .. nseg' - 1 PROVE start'[i] <= end'[i] + 1
      <3>1. i \in Seg
        BY <2>0, <2>5, PlanAssumption DEF Seg
      <3>2. CASE i = new
        BY <2>1, <2>2, <2>3, <2>4, <2>5, <3>2
      <3>3. CASE i = k
        BY <2>2, <2>3, <2>4, <2>5, <3>3
      <3>4. CASE i # new /\ i # k
        <4>1. start'[i] = start[i] /\ end'[i] = end[i]
          BY <2>2, <2>3, <2>5, <3>1, <3>4
        <4>2. i \in 0 .. nseg - 1
          BY <2>0, <2>n, <2>5, <3>4
        <4> QED BY <4>1, <4>2 DEF Proper
      <3> QED BY <3>2, <3>3, <3>4
    <2> QED BY <2>6 DEF Proper
  <1>3. CASE \E i \in Seg : WorkerNext(i)
    BY <1>1, <1>3, WorkerSeg DEF OwnOnly
  <1>4. CASE Get \/ Spawn \/ End \/ \E i \in Seg : Kill(i)
    BY <1>1, <1>4 DEF Get, Spawn, End, Kill, segVars
  <1> QED BY <1>2, <1>3, <1>4 DEF TransferNext

----------------------------------------------------------------------------
(* The steps of the task.                                                  *)

(* planner.py: no planned range ends before it begins.                     *)
LEMMA PlanOrdered ==
  ASSUME NEW n \in Nat \ {0}, NEW i \in 0 .. n - 1
  PROVE  PlanStart(n, i) <= PlanEnd(n, i) + 1
  <1> DEFINE q == Size \div n
  <1>1. q \in Nat /\ n * q <= Size /\ n * q \in Int
    BY SizeAssumption, DivFloor
  <1>2. i * q \in Nat /\ i * q <= n * q /\ (i + 1) * q = i * q + q
    BY <1>1, ProductMonotone, ProductStep
  <1>3. PlanStart(n, i) = i * q /\ PlanStart(n, i + 1) = (i + 1) * q
    BY DEF PlanStart
  <1> HIDE DEF q
  <1> QED BY <1>1, <1>2, <1>3, SizeAssumption DEF PlanEnd

(* engine.py, _run_inner from the plan to the pool.                        *)
LEMMA PlannedInv ==
  ASSUME TaskInv,
         NEW n \in 1 .. MaxSegs, NEW isOpen \in BOOLEAN,
         NEW first \in [Seg -> 0 .. Size],
         NEW last \in [Seg -> -1 .. Size - 1],
         NEW done \in [Seg -> Nat], NEW data \in Lengths,
         NEW size, size = IF Sized THEN Size ELSE 0,
         Proper(n, first, last), ~Sized => n = 1 /\ isOpen,
         Planned(n, isOpen, first, last, done, size, data),
         UNCHANGED <<want, flagVars>>,
         inPlaceOk' \in BOOLEAN, nested' \in BOOLEAN
  PROVE  TaskInv'
  <1> DEFINE onDisk == Reconciled(inPlaceOk' /\ want /\ size > 0, isOpen,
                                  first, last, done, data)
  <1>0. /\ TypeInv /\ PlanTyped /\ StageTyped
        /\ n \in Nat /\ n - 1 \in Seg /\ 0 .. n - 1 \subseteq Seg
        /\ n \in 0 .. MaxSegs
    BY PlanAssumption DEF TaskInv, IInv, Seg
  <1>1. \A i \in Seg : first[i] \in Int /\ last[i] \in Int
                      /\ last[i] \in -1 .. Size - 1
                      /\ done[i] \in Nat /\ data[i] \in Nat \union {-1}
    BY SizeAssumption DEF Lengths
  <1>2. \A i \in 0 .. n - 1 : onDisk[i] \in Nat
    <2> SUFFICES ASSUME NEW i \in 0 .. n - 1 PROVE onDisk[i] \in Nat
      OBVIOUS
    <2>1. i \in Seg /\ last[i] - first[i] + 1 \in Nat
      BY <1>0, <1>1 DEF Proper
    <2> QED BY <1>1, <2>1 DEF Reconciled, Least
  <1>3. /\ nseg' = n /\ open' = isOpen /\ start' = first
        /\ end' = IF isOpen THEN last ELSE Stretched(n, last, size)
        /\ part' = data
        /\ written' = [i \in Seg |-> IF i < n THEN onDisk[i] ELSE 0]
        /\ total' = size /\ stage' = "pool" /\ taken' = 0
        /\ side' = Sidecar(state)'
        /\ final' = Prepared(inPlace')
        /\ inPlace' = (inPlaceOk' /\ want /\ size > 0)
    BY DEF Planned
  <1>4. Stretched(n, last, size) \in [Seg -> -1 .. Size - 1]
    BY <1>1, SizeAssumption DEF Stretched
  <1>5. written' \in [Seg -> Nat]
    <2>1. \A i \in Seg : i < n => onDisk[i] \in Nat
      BY <1>0, <1>2 DEF Seg
    <2> HIDE DEF onDisk
    <2> QED BY <1>3, <2>1
  <1> HIDE DEF onDisk
  <1>6. inPlace' \in BOOLEAN
    BY <1>3, Zenon
  <1>7. DataOK'
    BY <1>0, <1>3, <1>4, <1>5, <1>6 DEF DataOK, Lengths
  <1>8. FlagsOK'
    BY <1>0 DEF Planned, flagVars, TypeInv, FlagsOK
  <1>9. IInv'
    <2>1. /\ at' = [i \in Seg |-> Rest] /\ splitting' = {}
          /\ fatal' = "none" /\ abort' = FALSE
          /\ alive' = InitialWorkers /\ completed' \subseteq Seg
      BY <1>0 DEF Planned
    <2>2. InitialWorkers \in 0 .. MaxWorkers
      BY LimitsAssumption DEF InitialWorkers, Least
    <2> QED BY <1>7, <1>8, <2>1, <2>2, AllAtRest, IdleInv
  <1>10. StageTyped'
    <2>1. state' \in {"downloading", "paused"} /\ result' = state'
      BY DEF Planned
    <2>2. final' \in {"absent", "partial", "whole", "damaged"}
      BY <1>0, <1>3 DEF StageTyped, Prepared
    <2> QED BY <1>3, <2>1, <2>2 DEF StageTyped, Stages, States, Results
  <1>11. PlanTyped'
    <2>1. aside' \in Lengths
      BY <1>0 DEF Planned, PlanTyped, TypeInv, DataOK, Lengths
    <2>2. size \in {0, Size}
      OBVIOUS
    <2>3. Lengths' = Lengths
      BY DEF Lengths, Seg
    <2> QED BY <1>0, <1>3, <2>1, <2>2, <2>3 DEF PlanTyped
  <1>12. SideTyped' /\ Saved'
    <2>1. state' \in States
      BY <1>10 DEF StageTyped, States
    <2>2. Sidecar(state)' \in Sidecars /\ state' # "none"
      BY <1>7, <1>11, <2>1 DEF Sidecar, Sidecars, DataOK, PlanTyped, States,
         Terminal, Seg
    <2>3. Sidecar(state)'.state = state'
      BY DEF Sidecar
    <2>4. Sidecars' = Sidecars
      BY DEF Sidecars, States, Terminal, Seg
    <2> QED BY <1>3, <2>2, <2>3, <2>4 DEF SideTyped, Saved
  <1>13. Proper(nseg, start, end)'
    <2>1. ASSUME NEW i \in 0 .. n - 1 PROVE first[i] <= end'[i] + 1
      <3>1. i \in Seg /\ first[i] <= last[i] + 1
        BY <1>0 DEF Proper
      <3>2. end'[i] = last[i] \/ (end'[i] = size - 1 /\ last[i] < size - 1)
        BY <1>3, <3>1 DEF Stretched
      <3> QED BY <1>1, <3>1, <3>2, SizeAssumption
    <2> QED BY <1>3, <2>1 DEF Proper
  <1>14. /\ side'.nseg = nseg' /\ side'.start = start' /\ side'.end = end'
         /\ side'.open = open'
    BY <1>3 DEF Sidecar
  <1>15. Geometry'
    BY <1>13, <1>14 DEF Geometry, Proper
  <1>16. Sized' = Sized
    BY DEF Sized, flagVars
  <1>17. OneRange' /\ Reported'
    BY <1>3, <1>14, <1>16 DEF OneRange, Reported
  <1>18. AtWork'
    BY AllAtRest DEF Planned, AtWork
  <1> QED BY <1>9, <1>10, <1>11, <1>12, <1>15, <1>17, <1>18 DEF TaskInv

(* A fallback plans one range without an end.                              *)
LEMMA OpenInv ==
  ASSUME TaskInv, NEW data \in Lengths,
         NEW size, size = IF Sized THEN Size ELSE 0, PlanOpen(size, data),
         UNCHANGED <<want, flagVars>>,
         inPlaceOk' \in BOOLEAN, nested' \in BOOLEAN
  PROVE  TaskInv'
  <1>1. PICK last : last = [i \in Seg |-> IF i = 0 THEN Size - 1 ELSE -1]
    OBVIOUS
  <1>2. /\ last \in [Seg -> -1 .. Size - 1]
        /\ Zero \in [Seg -> 0 .. Size] /\ Zero \in [Seg -> Nat]
    BY <1>1, SizeAssumption DEF Zero
  <1>3. 1 \in 1 .. MaxSegs /\ 0 \in Seg /\ \A i \in 0 .. 1 - 1 : i = 0
    BY PlanAssumption DEF Seg
  <1>4. Proper(1, Zero, last)
    BY <1>1, <1>2, <1>3, SizeAssumption DEF Proper, Zero
  <1>5. Planned(1, TRUE, Zero, last, Zero, size, data)
    BY <1>1 DEF PlanOpen
  <1> QED BY <1>2, <1>3, <1>4, <1>5, PlannedInv

(* A new task takes what the sidecar holds (engine.py, __init__).          *)
LEMMA StartInv == ASSUME TaskInv, Start PROVE TaskInv'
  <1>0. /\ TypeInv /\ PlanTyped /\ SideTyped /\ Geometry /\ OneRange
        /\ stage = "none" /\ final' = final /\ StageTyped
    BY DEF TaskInv, IInv, Start
  <1>1. Active = {} /\ splitting = {} /\ at \in [Seg -> Stage] /\ Active' = {}
        /\ at' = at /\ splitting' = {}
    BY <1>0, IdleFacts DEF Start, Active
  <1>2. Resumable => side \in Sidecars /\ Saved
    BY <1>0 DEF Resumable, SideTyped, NoSide, Saved
  <1>3. /\ nseg' \in 0 .. MaxSegs /\ start' \in [Seg -> 0 .. Size]
        /\ end' \in [Seg -> -1 .. Size - 1] /\ open' \in BOOLEAN
        /\ written' \in [Seg -> Nat] /\ total' \in {0, Size}
    <2>1. CASE Resumable
      BY <1>2, <2>1 DEF Start, Sidecars
    <2>2. CASE ~Resumable
      <3>1. /\ nseg' = 0 /\ open' = FALSE /\ total' = 0
            /\ start' = start /\ end' = end
            /\ written' = [i \in Seg |-> 0]
        BY <2>2 DEF Start
      <3>2. start \in [Seg -> 0 .. Size] /\ end \in [Seg -> -1 .. Size - 1]
        BY <1>0 DEF TypeInv, DataOK
      <3>3. 0 \in 0 .. MaxSegs /\ [i \in Seg |-> 0] \in [Seg -> Nat]
        BY PlanAssumption
      <3> QED BY <3>1, <3>2, <3>3
    <2> QED BY <2>1, <2>2
  <1>4. DataOK' /\ FlagsOK'
    <2>1. taken' \in 0 .. nseg'
      BY <1>3, PlanAssumption DEF Start
    <2> QED BY <1>0, <1>3, <2>1 DEF Start, endVars, TypeInv, DataOK, FlagsOK
  <1>5. IInv'
    BY <1>0, <1>1, <1>4, IdleInv, LimitsAssumption
    DEF Start, endVars, TypeInv, WorkersOK
  <1>6. StageTyped' /\ PlanTyped' /\ SideTyped'
    <2>1. want' \in BOOLEAN
      BY <1>0 DEF Start, PlanTyped
    <2> QED BY <1>0, <1>3, <2>1
            DEF Start, StageTyped, PlanTyped, SideTyped, Stages, States, Results,
                Sidecars, NoSide, Terminal, Lengths, Seg
  <1>7. side' = side /\ stage' = "analyse" /\ server' = server
    BY DEF Start
  <1>8. Geometry' /\ OneRange'
    <2>1. CASE Resumable
      <3>1. /\ nseg' = side.nseg /\ open' = side.open /\ start' = side.start
            /\ end' = side.end
        BY <2>1 DEF Start
      <3> QED BY <1>0, <1>2, <1>7, <2>1, <3>1
              DEF Geometry, OneRange, Proper, Saved, Sized
    <2>2. CASE ~Resumable
      <3>1. nseg' = 0 /\ \A i \in 0 .. 0 - 1 : FALSE
        BY <2>2 DEF Start
      <3> QED BY <1>0, <1>7, <3>1 DEF Geometry, OneRange, Proper, Saved, Sized
    <2> QED BY <2>1, <2>2
  <1>9. Reported' /\ AtWork'
    BY <1>1, <1>7 DEF Reported, AtWork
  <1> QED BY <1>5, <1>6, <1>8, <1>9 DEF TaskInv

(* A step that leaves the pool's variables alone and ends the task, or     *)
(* moves it to a stage without workers, and saves what it knows.           *)
LEMMA QuietInv ==
  ASSUME TaskInv, Active = {}, UNCHANGED <<poolVars, planVars>>,
         StageTyped', stage' # "pool",
         \/ side' = side \/ side' = NoSide
         \/ \E s \in States : side' = Sidecar(s)
  PROVE  TaskInv'
  <1>1. IInv'
    BY StutterInv DEF TaskInv
  <1>2. UNCHANGED <<nseg, start, end, open, server, at>>
    BY DEF poolVars, segVars, flagVars, workVars
  <1>3. PlanTyped'
    BY DEF planVars, TaskInv, PlanTyped, Lengths, Seg
  <1>4. Active' = {}
    BY <1>2 DEF Active
  <1>5. /\ Sidecars' = Sidecars
    BY DEF Sidecars, States, Terminal, Seg
  <1>6. CASE side' = side
    BY <1>1, <1>2, <1>3, <1>4, <1>5, <1>6
    DEF TaskInv, SideTyped, NoSide, Geometry, OneRange, Reported, AtWork, Proper,
        Saved, Sized
  <1>7. CASE side' = NoSide
    <2>1. SideTyped' /\ ~Saved'
      BY <1>7 DEF SideTyped, Saved, NoSide
    <2> QED BY <1>1, <1>2, <1>3, <1>4, <2>1
            DEF TaskInv, Geometry, OneRange, Reported, AtWork, Proper, Sized
  <1>8. ASSUME NEW s \in States, side' = Sidecar(s) PROVE TaskInv'
    <2>1. side' \in Sidecars
      BY <1>8, SaveTyped DEF TaskInv
    <2>2. /\ side'.nseg = nseg /\ side'.start = start /\ side'.end = end
          /\ side'.open = open
      BY <1>8 DEF Sidecar
    <2>3. SideTyped'
      BY <1>5, <2>1 DEF SideTyped
    <2>4. Geometry' /\ OneRange'
      BY <1>2, <2>2 DEF TaskInv, Geometry, OneRange, Proper, Sized
    <2> QED BY <1>1, <1>3, <1>4, <2>3, <2>4
            DEF TaskInv, Reported, AtWork
  <1> QED BY <1>6, <1>7, <1>8

(* run's finally block keeps the types.                                    *)
LEMMA LeavesInv ==
  ASSUME TaskInv, Active = {}, UNCHANGED <<poolVars, planVars, final>>,
         NEW s \in States, NEW r \in Results, Leaves(s, r)
  PROVE  TaskInv'
  <1>1. StageTyped'
    BY DEF Leaves, TaskInv, StageTyped
  <1> QED BY <1>1, QuietInv DEF Leaves

(* So does an error, nested or not.                                        *)
LEMMA ErrorInv ==
  ASSUME TaskInv, Active = {}, UNCHANGED <<poolVars, planVars, final>>,
         NEW s \in Terminal, Error(s)
  PROVE  TaskInv'
  <1>1. state \in States /\ s \in States /\ s \in Results
        /\ "escaped" \in Results
    BY DEF TaskInv, StageTyped, States, Results
  <1> QED BY <1>1, LeavesInv DEF Error

(* The probe (engine.py, _analyze_with_retry and _run_inner).              *)
LEMMA ProbeInv == ASSUME TaskInv, Probe PROVE TaskInv'
  <1> DEFINE size == IF Sized THEN Size ELSE 0
             here == inPlaceOk /\ want /\ size > 0
             data == IF here = inPlace THEN part ELSE aside
             n == IF Ranged THEN Connections ELSE 1
  <1>0. /\ TypeInv /\ PlanTyped /\ Geometry /\ OneRange /\ stage = "analyse"
        /\ UNCHANGED <<want, inPlaceOk, nested, flagVars>>
        /\ inPlaceOk' \in BOOLEAN /\ nested' \in BOOLEAN
    BY DEF TaskInv, IInv, Probe, PlanTyped
  <1>1. data \in Lengths
    BY <1>0 DEF TypeInv, DataOK, PlanTyped, Lengths
  <1>2. size = IF Sized THEN Size ELSE 0
    OBVIOUS
  <1>3. /\ Zero \in [Seg -> Nat] /\ Zero \in [Seg -> 0 .. Size]
        /\ Zero \in Lengths
    BY SizeAssumption DEF Zero, Lengths
  <1>4. size > 0 <=> Sized
    BY SizeAssumption
  <1>5. CASE nseg > 0 /\ Planned(nseg, open, start, end, written, size, data)
    <2>1. PICK m, isOpen, first, last, done :
             /\ m = nseg /\ isOpen = open /\ first = start /\ last = end
             /\ done = written
      OBVIOUS
    <2>2. /\ m \in 1 .. MaxSegs /\ isOpen \in BOOLEAN
          /\ first \in [Seg -> 0 .. Size] /\ last \in [Seg -> -1 .. Size - 1]
          /\ done \in [Seg -> Nat] /\ Proper(m, first, last)
          /\ ~Sized => m = 1 /\ isOpen
      BY <1>0, <1>5, <2>1, PlanAssumption
      DEF TypeInv, DataOK, Geometry, OneRange
    <2>3. Planned(m, isOpen, first, last, done, size, data)
      BY <1>5, <2>1
    <2> HIDE DEF size, data
    <2> QED BY <1>0, <1>1, <1>2, <2>2, <2>3, PlannedInv
  <1>6. CASE size = 0 /\ PlanOpen(size, data)
    <2> HIDE DEF size, data
    <2> QED BY <1>0, <1>1, <1>2, <1>6, OpenInv
  <1>7. ASSUME size > 0,
               Planned(n, FALSE,
                       [i \in Seg |-> IF i < n THEN PlanStart(n, i) ELSE 0],
                       [i \in Seg |-> IF i < n THEN PlanEnd(n, i) ELSE -1],
                       Zero, size, IF here THEN Zero ELSE data)
        PROVE  TaskInv'
    <2>1. PICK first, last, found :
             /\ first = [i \in Seg |-> IF i < n THEN PlanStart(n, i) ELSE 0]
             /\ last = [i \in Seg |-> IF i < n THEN PlanEnd(n, i) ELSE -1]
             /\ found = IF here THEN Zero ELSE data
      OBVIOUS
    <2>2. n \in 1 .. MaxSegs /\ n \in Nat \ {0} /\ n <= Size
      BY PlanAssumption, SizeAssumption
    <2>3. found \in Lengths
      BY <1>1, <1>3, <2>1
    <2>4. \A i \in Seg : i < n => i \in 0 .. n - 1
      BY <2>2, PlanAssumption DEF Seg
    <2>5. /\ first \in [Seg -> 0 .. Size]
          /\ last \in [Seg -> -1 .. Size - 1]
      BY <2>1, <2>2, <2>4, PlanBounds, SizeAssumption
    <2>6. Proper(n, first, last)
      <3>1. ASSUME NEW i \in 0 .. n - 1
            PROVE  PlanStart(n, i) <= PlanEnd(n, i) + 1
        BY <2>2, <3>1, PlanOrdered
      <3>2. \A i \in 0 .. n - 1 : i \in Seg /\ i < n
        BY <2>2, PlanAssumption DEF Seg
      <3> QED BY <2>1, <3>1, <3>2 DEF Proper
    <2>7. ~Sized => n = 1 /\ FALSE
      BY <1>4, <1>7
    <2>8. Planned(n, FALSE, first, last, Zero, size, found)
      BY <1>7, <2>1
    <2> HIDE DEF size, data, n, here
    <2> QED BY <1>0, <1>2, <1>3, <2>2, <2>3, <2>5, <2>6, <2>7, <2>8, PlannedInv
  <1> HIDE DEF size, data, n
  <1> QED BY <1>5, <1>6, <1>7 DEF Probe, size, here, data, n

(* A step of the pool, and the saves its workers make (_on_segment_done).  *)
LEMMA TransferInv == ASSUME TaskInv, Transfer PROVE TaskInv'
  <1>0. /\ IInv /\ stage = "pool" /\ TransferNext
        /\ UNCHANGED <<planVars, stage, state, result, final>>
    BY DEF TaskInv, Transfer, Carried
  <1>1. IInv'
    BY <1>0, InvStep DEF PoolNext
  <1>2. /\ UNCHANGED <<flagVars, open>>
        /\ outcome' = "running" \/ Active' = {}
        /\ nseg' = nseg \/ (~open /\ nseg > 0)
    BY <1>0, TransferFacts
  <1>3. StageTyped' /\ PlanTyped'
    BY <1>0 DEF TaskInv, StageTyped, PlanTyped, planVars, Lengths, Seg
  <1>4. Proper(nseg, start, end)'
    BY <1>0, TransferProper DEF TaskInv, Geometry
  <1>5. ~Sized' => (nseg' > 0 => nseg' = 1 /\ open')
    BY <1>2 DEF TaskInv, OneRange, Sized, flagVars
  <1>6. Reported' /\ AtWork'
    BY <1>0, <1>2 DEF TaskInv, Reported, AtWork, Sized, flagVars, planVars
  <1>7. CASE side' = side
    <2>1. SideTyped' /\ Geometry'
      BY <1>4, <1>7 DEF TaskInv, SideTyped, Geometry, Saved, Proper, Sidecars,
         States, Terminal, Seg, NoSide
    <2>2. OneRange'
      BY <1>2, <1>5, <1>7 DEF TaskInv, OneRange, Saved, Sized, flagVars
    <2> QED BY <1>1, <1>3, <1>6, <2>1, <2>2 DEF TaskInv
  <1>8. CASE side' = Sidecar(state)'
    <2>1. /\ side'.nseg = nseg' /\ side'.start = start' /\ side'.end = end'
          /\ side'.open = open'
      BY <1>8 DEF Sidecar
    <2>2. Geometry' /\ OneRange'
      BY <1>4, <1>5, <2>1 DEF Geometry, OneRange, Proper
    <2>3. SideTyped'
      <3>1. DataOK' /\ state' \in States
        BY <1>1, <1>3 DEF IInv, TypeInv, StageTyped, States, Terminal
      <3>2. Sidecar(state)' \in Sidecars /\ Sidecars' = Sidecars
        BY <1>3, <3>1 DEF Sidecar, Sidecars, DataOK, PlanTyped, States, Terminal,
           Seg
      <3> QED BY <1>8, <3>2 DEF SideTyped
    <2> QED BY <1>1, <1>3, <1>6, <2>2, <2>3 DEF TaskInv
  <1> QED BY <1>7, <1>8 DEF Transfer, Carried

(* engine.py, _restart_single_segment.                                     *)
LEMMA FallBackInv ==
  ASSUME TaskInv, stage = "pool", outcome # "running", FallBack
  PROVE  TaskInv'
  <1> DEFINE parts == IF inPlace THEN aside ELSE part
             left  == [i \in Seg |-> IF i \in Live THEN -1 ELSE parts[i]]
  <1>0. /\ TypeInv /\ PlanTyped /\ StageTyped /\ Reported /\ SideTyped
        /\ inPlaceOk' = FALSE /\ nested' = TRUE /\ UNCHANGED <<want, flagVars>>
    BY DEF TaskInv, IInv, FallBack
  <1>1. parts \in Lengths
    BY <1>0 DEF TypeInv, DataOK, PlanTyped, Lengths
  <1>2. left \in Lengths
    BY <1>1 DEF Lengths
  <1>3. CASE total > 0
    <2>1. PlanOpen(total, left)
      BY <1>3 DEF FallBack
    <2>2. total = IF Sized THEN Size ELSE 0
      BY <1>0 DEF Reported
    <2>3. PICK size, data : size = total /\ data = left
      OBVIOUS
    <2>4. PlanOpen(size, data) /\ data \in Lengths
          /\ size = IF Sized THEN Size ELSE 0
      BY <1>2, <2>1, <2>2, <2>3
    <2> QED BY <1>0, <2>4, OpenInv
  <1>4. CASE ~(total > 0)
    <2> HIDE DEF parts, left
    <2>1. /\ stage' = "analyse" /\ state' = "connecting"
          /\ result' = "connecting"
          /\ nseg' = 1 /\ open' = TRUE
          /\ start' = Zero
          /\ end' = [i \in Seg |-> IF i = 0 THEN Size - 1 ELSE -1]
          /\ written' = Zero /\ part' = left /\ completed' = {}
          /\ UNCHANGED <<inPlace, taken, alive, at, splitting, endVars,
                         total, aside, side, final>>
      BY <1>4 DEF FallBack, parts, left
    <2>2. ~Sized
      BY <1>0, <1>4, SizeAssumption DEF Reported
    <2>3. nseg <= 1 /\ nseg \in Nat
      BY <1>0, <2>2, PlanAssumption DEF TaskInv, OneRange, TypeInv, DataOK
    <2>4. /\ Active = {} /\ splitting = {} /\ at \in [Seg -> Stage]
          /\ Active' = {}
      BY <2>1, IdleFacts DEF Active
    <2>5. DataOK'
      <3>1. taken' \in 0 .. nseg' /\ nseg' \in 0 .. MaxSegs
        BY <1>0, <2>1, <2>3, PlanAssumption DEF TypeInv, DataOK
      <3>2. /\ start' \in [Seg -> 0 .. Size] /\ written' \in [Seg -> Nat]
            /\ end' \in [Seg -> -1 .. Size - 1]
        BY <2>1, SizeAssumption DEF Zero
      <3> QED BY <1>0, <1>2, <2>1, <3>1, <3>2
              DEF TypeInv, DataOK, Lengths
    <2>6. FlagsOK'
      BY <1>0, <2>1 DEF endVars, flagVars, TypeInv, FlagsOK
    <2>7. IInv'
      BY <1>0, <2>1, <2>4, <2>5, <2>6, IdleInv DEF endVars, TypeInv, WorkersOK
    <2>8. StageTyped' /\ PlanTyped'
      BY <1>0, <2>1 DEF StageTyped, PlanTyped, Stages, States, Results, Lengths,
         Seg
    <2>9. SideTyped'
      BY <1>0, <2>1 DEF SideTyped, NoSide, Sidecars, States, Terminal, Seg
    <2>10. Proper(nseg, start, end)'
      <3>1. \A i \in 0 .. 1 - 1 : i = 0 /\ i \in Seg
        BY PlanAssumption DEF Seg
      <3>2. start'[0] = 0 /\ end'[0] = Size - 1
        BY <2>1, <3>1 DEF Zero
      <3> QED BY <2>1, <3>1, <3>2, SizeAssumption DEF Proper
    <2>11. Geometry' /\ OneRange' /\ Reported' /\ AtWork'
      BY <1>0, <2>1, <2>2, <2>4, <2>10
      DEF TaskInv, Geometry, OneRange, Reported, AtWork, Saved, Proper, Sized,
          flagVars
    <2> QED BY <2>7, <2>8, <2>9, <2>11 DEF TaskInv
  <1> QED BY <1>3, <1>4

(* The pool has returned (engine.py, _run_inner).                          *)
LEMMA PoolEndsInv == ASSUME TaskInv, PoolEnds PROVE TaskInv'
  <1>1. Active = {} /\ stage = "pool" /\ outcome # "running"
    BY IdleFacts DEF PoolEnds
  <1>2. ASSUME NEW s \in Terminal, Error(s),
               UNCHANGED <<poolVars, planVars, final>>
        PROVE  TaskInv'
    BY <1>1, <1>2, ErrorInv
  <1>3. "failed" \in Terminal /\ "stopped" \in Terminal
    BY DEF Terminal
  <1>4. CASE /\ stage' = IF inPlace THEN "trim" ELSE "merge"
             /\ UNCHANGED <<poolVars, planVars, state, result, side, final>>
    <2>1. StageTyped' /\ stage' # "pool"
      BY <1>4 DEF TaskInv, StageTyped, Stages
    <2> QED BY <1>1, <1>4, <2>1, QuietInv
  <1>5. CASE FallBack
    BY <1>1, <1>5, FallBackInv
  <1> QED BY <1>2, <1>3, <1>4, <1>5 DEF PoolEnds

(* The stages after the transfer (engine.py, _merge_parts, _finish).       *)
LEMMA AssembledTyped ==
  ASSUME StageTyped, final' \in {"absent", "partial", "whole", "damaged"},
         Assembled
  PROVE  /\ StageTyped' /\ stage' # "pool"
         /\ side' = NoSide \/ \E s \in States : side' = Sidecar(s)
  BY DEF Assembled, Completes, StageTyped, Stages, States, Results, Terminal

LEMMA AssembleInv ==
  ASSUME TaskInv, Merge \/ Trim \/ Verify
  PROVE  TaskInv'
  <1>1. Active = {} /\ StageTyped
    BY IdleFacts DEF Merge, Trim, Verify, TaskInv
  <1>2. CASE Merge
    <2>1. StageTyped' /\ stage' # "pool"
      BY <1>1, <1>2 DEF Merge, StageTyped, Stages
    <2> QED BY <1>1, <1>2, <2>1, QuietInv DEF Merge
  <1>3. CASE Trim
    <2>1. final' \in {"absent", "partial", "whole", "damaged"}
      BY <1>3 DEF Trim
    <2> QED BY <1>1, <1>3, <2>1, AssembledTyped, QuietInv DEF Trim
  <1>4. CASE Verify
    <2>1. CASE Completes
      <3>1. StageTyped' /\ stage' # "pool" /\ side' = NoSide
        BY <1>1, <1>4, <2>1
        DEF Verify, Completes, StageTyped, Stages, States, Results, Terminal
      <3> QED BY <1>1, <1>4, <3>1, QuietInv DEF Verify
    <2>2. CASE Leaves("verification_failed", "verification_failed")
      <3>1. "verification_failed" \in States /\ "verification_failed" \in Results
        BY DEF States, Results, Terminal
      <3> QED BY <1>1, <1>4, <2>2, <3>1, LeavesInv DEF Verify
    <2> QED BY <1>4, <2>1, <2>2 DEF Verify
  <1> QED BY <1>2, <1>3, <1>4

(* A step that changes the part files and leaves no worker.                *)
LEMMA PartsInv ==
  ASSUME TaskInv, part' \in Lengths, StageTyped', stage' # "pool",
         at' \in [Seg -> Stage], Active' = {}, splitting' = {},
         alive' \in 0 .. MaxWorkers,
         UNCHANGED <<nseg, start, end, open, inPlace, written, taken,
                     completed, flagVars, endVars, planVars>>,
         \/ side' = side \/ side' = NoSide
         \/ \E s \in States : side' = Sidecar(s)
  PROVE  TaskInv'
  <1>0. TypeInv /\ PlanTyped /\ SideTyped /\ Geometry /\ OneRange
    BY DEF TaskInv, IInv
  <1>1. DataOK' /\ FlagsOK'
    BY <1>0 DEF TypeInv, DataOK, FlagsOK, Lengths, flagVars, endVars
  <1>2. IInv'
    BY <1>0, <1>1, IdleInv DEF endVars, TypeInv, WorkersOK
  <1>3. PlanTyped'
    BY <1>0 DEF planVars, PlanTyped, Lengths, Seg
  <1>4. Sidecars' = Sidecars
    BY DEF Sidecars, States, Terminal, Seg
  <1>5. Proper(nseg, start, end)' /\ (~Sized' => (nseg' > 0 => nseg' = 1 /\ open'))
    BY <1>0 DEF Geometry, Proper, OneRange, Sized, flagVars
  <1>6. Reported' /\ AtWork'
    BY DEF Reported, AtWork
  <1>7. CASE side' = side
    <2>1. SideTyped' /\ Geometry' /\ OneRange'
      BY <1>0, <1>4, <1>7
      DEF SideTyped, NoSide, Geometry, OneRange, Proper, Saved, Sized, flagVars
    <2> QED BY <1>2, <1>3, <1>6, <2>1 DEF TaskInv
  <1>8. CASE side' = NoSide
    <2>1. SideTyped' /\ ~Saved'
      BY <1>8 DEF SideTyped, Saved, NoSide
    <2> QED BY <1>2, <1>3, <1>5, <1>6, <2>1 DEF TaskInv, Geometry, OneRange
  <1>9. ASSUME NEW s \in States, side' = Sidecar(s) PROVE TaskInv'
    <2>1. side' \in Sidecars
      BY <1>9, SaveTyped DEF TaskInv
    <2>2. /\ side'.nseg = nseg /\ side'.start = start /\ side'.end = end
          /\ side'.open = open
      BY <1>9 DEF Sidecar
    <2>3. SideTyped'
      BY <1>4, <2>1 DEF SideTyped
    <2>4. Geometry' /\ OneRange'
      BY <1>0, <1>5, <2>2 DEF Geometry, OneRange, Proper, Sized, flagVars
    <2> QED BY <1>2, <1>3, <1>6, <2>3, <2>4 DEF TaskInv
  <1> QED BY <1>7, <1>8, <1>9

(* The parts are deleted (engine.py, _merge_parts).                        *)
LEMMA UnlinkInv == ASSUME TaskInv, Unlink PROVE TaskInv'
  <1>1. /\ Active = {} /\ splitting = {} /\ at \in [Seg -> Stage]
        /\ stage = "unlink" /\ StageTyped /\ TypeInv
    BY IdleFacts DEF Unlink, TaskInv, IInv
  <1>2. /\ at' = at /\ splitting' = splitting /\ alive' = alive
        /\ UNCHANGED <<nseg, start, end, open, inPlace, written, taken,
                       completed, flagVars, endVars, planVars, final>>
    BY DEF Unlink, workVars
  <1>3. Active' = {} /\ alive' \in 0 .. MaxWorkers
    BY <1>1, <1>2 DEF Active, TypeInv, WorkersOK
  <1>4. part' \in Lengths
    BY <1>1 DEF Unlink, TypeInv, DataOK, Lengths
  <1>5. /\ StageTyped' /\ stage' # "pool"
        /\ \/ side' = side \/ side' = NoSide
           \/ \E s \in States : side' = Sidecar(s)
    <2>1. CASE UNCHANGED <<stage, state, result, side>>
      BY <1>1, <1>2, <2>1 DEF StageTyped
    <2>2. CASE Assembled
      BY <1>1, <1>2, <2>2, AssembledTyped DEF StageTyped
    <2> QED BY <2>1, <2>2 DEF Unlink
  <1> QED BY <1>1, <1>2, <1>3, <1>4, <1>5, PartsInv

(* Pause, resume and cancel (engine.py).                                   *)
LEMMA UserInv ==
  ASSUME TaskInv, Pause \/ Resume \/ Cancel
  PROVE  TaskInv'
  <1>1. ClearRunning \/ SetRunning \/ SetCancel
    BY DEF Pause, Resume, Cancel
  <1>2. IInv'
    BY <1>1, FlagsInv DEF TaskInv
  <1>3. /\ UNCHANGED <<segVars, workVars, server, endVars>>
        /\ UNCHANGED <<stage, planVars, side, final>>
    BY DEF Pause, Resume, Cancel, ClearRunning, SetRunning, SetCancel, taskVars
  <1>4. StageTyped'
    BY <1>3 DEF Pause, Resume, Cancel, taskVars, TaskInv, StageTyped, States,
       Results
  <1>5. PlanTyped' /\ SideTyped'
    BY <1>3 DEF TaskInv, PlanTyped, SideTyped, planVars, Sidecars, NoSide,
       States, Terminal, Lengths, Seg
  <1>6. Geometry' /\ OneRange' /\ Reported' /\ AtWork'
    BY <1>3 DEF TaskInv, Geometry, OneRange, Reported, AtWork, Active, Proper,
       Saved, Sized, segVars, workVars, endVars, planVars, Seg
  <1> QED BY <1>2, <1>4, <1>5, <1>6 DEF TaskInv

(* The application is closed.                                              *)
LEMMA QuitInv == ASSUME TaskInv, Quit PROVE TaskInv'
  <1>0. TypeInv /\ StageTyped /\ state \in States /\ result \in Results
    BY DEF TaskInv, IInv, StageTyped
  <1>1. /\ at' \in [Seg -> Stage] /\ Active' = {} /\ splitting' = {}
        /\ alive' \in 0 .. MaxWorkers
        /\ UNCHANGED <<nseg, start, end, open, inPlace, written, taken,
                       completed, flagVars, endVars, planVars>>
    BY AllAtRest, LimitsAssumption DEF Quit
  <1>2. part' \in Lengths
    BY <1>0 DEF Quit, TypeInv, DataOK, Lengths
  <1>3. StageTyped' /\ stage' # "pool"
    <2>1. final' \in {"absent", "partial", "whole", "damaged"}
      BY <1>0 DEF Quit, StageTyped
    <2> QED BY <1>0, <2>1 DEF Quit, Leaves, StageTyped
  <1>4. side' = Sidecar(state)
    BY DEF Quit, Leaves
  <1> QED BY <1>0, <1>1, <1>2, <1>3, <1>4, PartsInv

(* The process dies.                                                       *)
LEMMA CrashInv == ASSUME TaskInv, Crash PROVE TaskInv'
  <1>0. TypeInv /\ StageTyped
    BY DEF TaskInv, IInv
  <1>1. /\ at' \in [Seg -> Stage] /\ Active' = {} /\ splitting' = {}
        /\ alive' \in 0 .. MaxWorkers
        /\ UNCHANGED <<nseg, start, end, open, inPlace, written, taken,
                       completed, flagVars, endVars, planVars>>
    BY AllAtRest, LimitsAssumption DEF Crash
  <1>2. part' \in Lengths
    <2>1. -1 .. Size \subseteq Nat \union {-1}
      BY SizeAssumption
    <2> QED BY <2>1 DEF Crash, Lengths
  <1>3. StageTyped' /\ stage' # "pool"
    BY <1>0 DEF Crash, StageTyped, Results
  <1>4. side' = side \/ side' = NoSide
    BY DEF Crash
  <1> QED BY <1>1, <1>2, <1>3, <1>4, PartsInv

(* A task that has not begun.                                              *)
LEMMA TaskInvInit == TaskInit => TaskInv
  <1> SUFFICES ASSUME TaskInit PROVE TaskInv
    OBVIOUS
  <1>1. /\ nseg = 0 /\ start = [i \in Seg |-> 0] /\ end = [i \in Seg |-> -1]
        /\ open = FALSE /\ inPlace = FALSE /\ written = [i \in Seg |-> 0]
        /\ part = [i \in Seg |-> -1] /\ completed = {} /\ taken = 0
        /\ at = [i \in Seg |-> Rest] /\ alive = InitialWorkers
        /\ splitting = {} /\ fatal = "none" /\ abort = FALSE
    BY DEF TaskInit, PoolReady
  <1>2. InitialWorkers \in 0 .. MaxWorkers
    BY LimitsAssumption DEF InitialWorkers, Least
  <1>3. Rest \in Stage /\ Rest.pc = "rest"
    BY DEF Rest, InHand, Stage
  <1>4. Active = {} /\ Cardinality(Active) = 0 /\ at \in [Seg -> Stage]
    <2>1. Active = {} /\ at \in [Seg -> Stage]
      BY <1>1, <1>3 DEF Active
    <2> QED BY <2>1, FS_EmptySet
  <1>5. DataOK
    <2>1. /\ 0 \in 0 .. Size /\ -1 \in -1 .. Size - 1 /\ 0 \in 0 .. MaxSegs
          /\ 0 \in 0 .. 0
      BY SizeAssumption, PlanAssumption
    <2>2. start \in [Seg -> 0 .. Size] /\ end \in [Seg -> -1 .. Size - 1]
      BY <1>1, <2>1
    <2> QED BY <1>1, <2>1, <2>2 DEF DataOK
  <1>6. WorkersOK /\ FlagsOK
    <2>1. server \in AllServers /\ running = TRUE /\ cancel = FALSE
          /\ outcome = "running"
      BY SwitchAssumption DEF TaskInit, PoolReady
    <2>2. 0 <= alive
      BY <1>1, <1>2, LimitsAssumption
    <2> QED BY <1>1, <1>2, <1>4, <2>1, <2>2 DEF WorkersOK, FlagsOK
  <1>7. IInv
    <2>1. \A i \in Seg : at[i].pc = "rest"
      BY <1>1, <1>3
    <2> QED BY <1>5, <1>6, <2>1 DEF IInv, TypeInv, SegInv
  <1>8. StageTyped /\ PlanTyped /\ SideTyped
    BY TaskAssumption DEF TaskInit, StageTyped, PlanTyped, SideTyped, States,
       Results, Lengths
  <1>9. Geometry /\ OneRange /\ Reported /\ AtWork
    <2>1. ~Saved /\ stage = "none"
      BY DEF TaskInit, Saved, NoSide
    <2> QED BY <1>1, <1>4, <2>1 DEF Geometry, Proper, OneRange, Reported, AtWork
  <1> QED BY <1>7, <1>8, <1>9 DEF TaskInv

(* Every step of the task, of its pool and of its user.                    *)
LEMMA TaskStep == TaskInv /\ [TaskNext]_vars => TaskInv'
  <1> SUFFICES ASSUME TaskInv, [TaskNext]_vars PROVE TaskInv'
    OBVIOUS
  <1>1. CASE UNCHANGED vars
    <2>1. IInv'
      BY <1>1, StutterInv DEF TaskInv, vars
    <2> QED BY <1>1, <2>1
            DEF vars, poolVars, segVars, workVars, flagVars, endVars, taskVars,
                planVars, TaskInv, StageTyped, PlanTyped, SideTyped, NoSide,
                Sidecars, States, Results, Terminal, Lengths, Seg, Geometry,
                Proper, Saved, OneRange, Sized, Reported, AtWork, Active
  <1>2. CASE ProbeFails
    <2>1. Active = {} /\ "failed" \in Terminal
      BY <1>2, IdleFacts DEF ProbeFails, Terminal
    <2> QED BY <1>2, <2>1, ErrorInv DEF ProbeFails
  <1>3. CASE Start \/ Probe \/ Transfer \/ PoolEnds
    BY <1>3, StartInv, ProbeInv, TransferInv, PoolEndsInv
  <1>4. CASE Merge \/ Unlink \/ Trim \/ Verify
    BY <1>4, AssembleInv, UnlinkInv
  <1>5. CASE Pause \/ Resume \/ Cancel \/ Quit \/ Crash
    BY <1>5, UserInv, QuitInv, CrashInv
  <1> QED BY <1>1, <1>2, <1>3, <1>4, <1>5 DEF TaskNext

(* In every state of a download, over any number of pools, stops, failures,*)
(* crashes and resumes, what is saved and what is loaded is well formed,   *)
(* and workers exist only while the pool runs (engine.py and mclip.py).    *)
THEOREM TaskInvariance == TaskSpec => []TaskInv
  BY TaskInvInit, TaskStep, PTL DEF TaskSpec

(* Every variable of a task keeps its type: in particular the progress a   *)
(* resume reconciles is never negative, and a fallback never leaves more   *)
(* segments taken than there are (mclip.py, reconcile_part_sizes;          *)
(* engine.py, _restart_single_segment).                                    *)
THEOREM TaskTypeCorrect == TaskSpec => []TaskTypeOK
  <1>1. TaskInv => TaskTypeOK
    BY TypeInvImpliesTypeOK DEF TaskInv, IInv, StageTyped, PlanTyped, States,
       Results, TaskTypeOK
  <1> QED BY <1>1, TaskInvariance, PTL

----------------------------------------------------------------------------
(* What a sidecar promises is on disk.                                     *)

(* The promise is kept as long as the way to write is not switched between *)
(* two tasks, and, when there are part files, as long as the process does  *)
(* not end between their deletion and that of the sidecar.                 *)
Trustworthy ==
    /\ ~ModeSwitch
    /\ \/ Modes \subseteq {TRUE}
       \/ /\ CrashIn \intersect {"unlink", "verify"} = {}
          /\ QuitIn \intersect {"merge", "unlink", "verify"} = {}

(* Ranges with an end are written in the way that the settings say.        *)
Placed == {"pool", "merge", "unlink", "trim", "verify"}
ModeKept == /\ want \in Modes
            /\ inPlace => want
            /\ stage # "none" /\ ~inPlaceOk => open /\ nseg > 0
            /\ stage \in Placed /\ ~open => inPlace = want
            /\ stage \in {"merge", "unlink"} => ~inPlace
            /\ stage = "trim" => inPlace

(* Progress that is trusted later: in place, bytes that the file holds; in *)
(* part files, which are measured when there are any, a part file.         *)
InPlaceData(i) == IF inPlace THEN part[i] ELSE aside[i]
Backed(i, done) == IF want THEN done[i] <= InPlaceData(i)
                   ELSE done[i] > 0 => part[i] >= 0

InFile == inPlace => \A i \in Live : part[i] >= 0

SideKept ==
    Resumable /\ ~side.open /\ (want \/ stage \notin {"unlink", "verify"})
       => \A i \in 0 .. side.nseg - 1 : Backed(i, side.written)
MemoryKept ==
    /\ stage = "analyse" /\ ~open => \A i \in Live : Backed(i, written)
    /\ stage \in {"pool", "merge", "trim"} \/ (stage = "verify" /\ inPlace)
          => (~open => Progress /\ InFile)
    /\ stage = "pool" /\ Saved => side.nseg <= nseg /\ side.open = open

DiskKept == ModeKept /\ SideKept /\ MemoryKept

(* No step of the pool takes away what is in place, or a part file.        *)
LEMMA AppendData ==
  ASSUME TypeInv, NEW i \in Seg, NEW n \in Nat, Append(i, n), inPlace' = inPlace
  PROVE  /\ inPlace => part'[i] >= part[i]
         /\ part[i] >= 0 => part'[i] >= 0
  <1>1. part[i] \in Int /\ written[i] \in Nat
    BY StageChange
  <1> QED BY <1>1, AppendOwn DEF Greatest

LEMMA WorkerData ==
  ASSUME IInv, NEW i \in Seg, WorkerNext(i)
  PROVE  /\ inPlace => part'[i] >= part[i]
         /\ part[i] >= 0 => part'[i] >= 0
  <1>0. TypeInv /\ part[i] \in Int /\ part \in [Seg -> Nat \union {-1}]
        /\ inPlace' = inPlace /\ at \in [Seg -> Stage]
    BY StageChange, WorkerSeg DEF IInv, TypeInv, DataOK, WorkersOK, OwnOnly
  <1>1. CASE part' = part
    BY <1>0, <1>1
  <1>2. CASE Body(i)
    <2>1. part'[i] = Opened(i)
      BY <1>0, <1>2 DEF Body
    <2> QED BY <1>0, <2>1 DEF Opened, Greatest
  <1>3. CASE Commit(i)
    <2>1. at[i].chunk \in Nat
      BY <1>0 DEF Stage
    <2> QED BY <1>0, <1>3, <2>1, AppendData DEF Commit
  <1>4. CASE Clamp(i)
    <2> DEFINE n == IF open THEN at[i].chunk ELSE Least(at[i].chunk, Room(i))
    <2>1. CASE (open \/ Room(i) > 0) /\ Append(i, n)
      <3>1. at[i].chunk \in Nat /\ Room(i) \in Int
        BY <1>0, StageChange, SizeAssumption DEF Stage, Room, Cursor
      <3>2. n \in Nat
        BY <2>1, <3>1 DEF Least
      <3> HIDE DEF n
      <3> QED BY <1>0, <2>1, <3>2, AppendData
    <2> HIDE DEF n
    <2> QED BY <1>1, <1>4, <2>1 DEF Clamp, n
  <1>5. CASE \/ Attempt(i) \/ NoRange(i) \/ PastEnd(i) \/ Receive(i)
             \/ EndOfBody(i) \/ DiskError(i)
             \/ \E error \in Faults : Fault(i, error)
    BY <1>1, <1>5 DEF Attempt, NoRange, PastEnd, Receive, EndOfBody, DiskError,
       Fault, segVars
  <1> QED BY <1>2, <1>3, <1>4, <1>5 DEF WorkerNext, Respond

LEMMA TransferData ==
  ASSUME IInv, TransferNext, NEW j \in Live
  PROVE  /\ j \in Seg /\ nseg <= nseg'
         /\ inPlace => part'[j] >= part[j]
         /\ part[j] >= 0 => part'[j] >= 0
  <1>0. /\ j \in Seg /\ part[j] \in Int /\ nseg \in Nat /\ j # nseg
        /\ part \in [Seg -> Nat \union {-1}]
    <2>1. j \in Seg /\ nseg \in Nat
      BY PlanAssumption DEF IInv, TypeInv, DataOK, Live, Seg
    <2> QED BY <2>1, StageChange DEF IInv, TypeInv, DataOK, Live
  <1>1. CASE UNCHANGED <<part, nseg>>
    BY <1>0, <1>1
  <1>2. ASSUME NEW i \in Seg, WorkerNext(i)
        PROVE  /\ nseg' = nseg
               /\ inPlace => part'[j] >= part[j]
               /\ part[j] >= 0 => part'[j] >= 0
    <2>1. OwnOnly(i)
      BY <1>2, WorkerSeg
    <2>2. CASE i = j
      BY <1>2, <2>1, <2>2, WorkerData DEF OwnOnly
    <2>3. CASE i # j
      BY <1>0, <2>1, <2>3 DEF OwnOnly
    <2> QED BY <2>2, <2>3
  <1>3. CASE Assist
    <2>1. PICK i \in Active, mid \in 0 .. Size - 1 : Split(i, mid)
      BY <1>3, AssistCuts DEF IInv
    <2>2. nseg' = nseg + 1
      BY <2>1 DEF Split
    <2>3. part'[j] = part[j]
      BY <1>0, <2>1 DEF Split
    <2> QED BY <1>0, <2>2, <2>3
  <1>4. CASE Get \/ Spawn \/ End \/ \E i \in Seg : Kill(i)
    BY <1>1, <1>4 DEF Get, Spawn, End, Kill, segVars
  <1> QED BY <1>0, <1>2, <1>3, <1>4 DEF TransferNext

(* What a task saves while a pool's progress is on disk is backed.         *)
LEMMA ProgressBacked ==
  ASSUME TypeInv, Progress, InFile, want \in BOOLEAN, inPlace = want,
         NEW i \in Live
  PROVE  Backed(i, written)
  <1>1. i \in Seg
    BY PlanAssumption DEF TypeInv, DataOK, Live, Seg
  <1>2. /\ written[i] \in Nat /\ part[i] \in Nat \union {-1}
        /\ written[i] > 0 => written[i] <= part[i]
    BY <1>1 DEF TypeInv, DataOK, Progress, DiskInv
  <1> QED BY <1>2 DEF Backed, InPlaceData, InFile

(* A pool writes to the file that was prepared, and splits it there.       *)
LEMMA TransferInFile ==
  ASSUME IInv, TransferNext, InFile
  PROVE  InFile'
  <1>1. inPlace' = inPlace
    BY TransferFacts
  <1> SUFFICES ASSUME inPlace, NEW j \in Live' PROVE part'[j] >= 0
    BY <1>1 DEF InFile
  <1>2. CASE j \in Live
    BY <1>2, TransferData DEF InFile
  <1>3. CASE j \notin Live
    <2>1. nseg \in Nat /\ nseg \in 0 .. MaxSegs /\ TypeInv
      BY PlanAssumption DEF IInv, TypeInv, DataOK
    <2>2. CASE nseg' = nseg
      BY <1>3, <2>2 DEF Live
    <2>3. CASE Assist
      <3>1. PICK i \in Active, mid \in 0 .. Size - 1 : Split(i, mid)
        BY <2>1, <2>3, AssistCuts
      <3>2. j = nseg
        BY <1>3, <2>1, <3>1 DEF Split, Live
      <3>3. nseg \in Seg
        BY <2>1, <2>3, PlanAssumption DEF Assist, Seg
      <3> QED BY <2>1, <3>1, <3>2, <3>3 DEF Split, TypeInv, DataOK
    <2>4. CASE \E i \in Seg : WorkerNext(i)
      BY <2>2, <2>4, WorkerSeg DEF OwnOnly
    <2>5. CASE Get \/ Spawn \/ End \/ \E i \in Seg : Kill(i)
      BY <2>2, <2>5 DEF Get, Spawn, End, Kill, segVars
    <2> QED BY <2>3, <2>4, <2>5 DEF TransferNext
  <1> QED BY <1>2, <1>3

(* The plan and the reconciliation: what the pool starts from is on disk   *)
(* (engine.py, _run_inner; mclip.py, reconcile_part_sizes).                *)
LEMMA PlannedDisk ==
  ASSUME TaskInv, want \in Modes,
         NEW n \in 1 .. MaxSegs, NEW isOpen \in BOOLEAN,
         NEW first \in [Seg -> 0 .. Size],
         NEW last \in [Seg -> -1 .. Size - 1],
         NEW done \in [Seg -> Nat], NEW data \in Lengths, NEW size,
         Proper(n, first, last),
         Planned(n, isOpen, first, last, done, size, data),
         UNCHANGED <<want, flagVars>>,
         inPlaceOk' \in BOOLEAN, ~inPlaceOk' => isOpen,
         \/ isOpen
         \/ /\ size > 0
            /\ \A i \in 0 .. n - 1 : IF want THEN done[i] <= data[i]
                                    ELSE data[i] < 0 => done[i] = 0
  PROVE  DiskKept'
  <1> DEFINE onDisk == Reconciled(inPlaceOk' /\ want /\ size > 0, isOpen,
                                  first, last, done, data)
  <1>0. /\ n \in Nat \ {0} /\ want \in BOOLEAN
        /\ \A i \in 0 .. n - 1 : i \in Seg /\ i < n
    BY PlanAssumption DEF TaskInv, PlanTyped, Seg
  <1>1. /\ nseg' = n /\ open' = isOpen /\ want' = want
        /\ part' = data
        /\ written' = [i \in Seg |-> IF i < n THEN onDisk[i] ELSE 0]
        /\ stage' = "pool" /\ side' = Sidecar(state)'
        /\ inPlace' = (inPlaceOk' /\ want /\ size > 0)
        /\ Live' = 0 .. n - 1
    BY DEF Planned, Live
  <1>2. /\ side'.nseg = n /\ side'.open = isOpen /\ side'.written = written'
    BY <1>1 DEF Sidecar
  <1>3. /\ ~isOpen => inPlace' = want
        /\ inPlace' => want
    <2>1. CASE want
      <3>1. ASSUME ~isOpen PROVE inPlace' = TRUE
        <4>1. inPlaceOk' /\ want /\ size > 0
          BY <2>1, <3>1
        <4> QED BY <1>1, <4>1, Zenon
      <3>2. want = TRUE
        BY <1>0, <2>1
      <3> QED BY <2>1, <3>1, <3>2
    <2>2. CASE ~want
      <3>1. inPlace' = FALSE
        BY <1>1, <2>2, Zenon
      <3>2. want = FALSE
        BY <1>0, <2>2
      <3> QED BY <3>1, <3>2
    <2> QED BY <2>1, <2>2
  <1>4. ModeKept'
    <2>1. Modes' = Modes /\ Placed' = Placed
      BY DEF Placed
    <2> QED BY <1>0, <1>1, <1>3 DEF ModeKept
  <1>5. ASSUME ~isOpen, NEW i \in 0 .. n - 1
        PROVE  /\ written'[i] \in Nat /\ data[i] \in Nat \union {-1}
               /\ want => written'[i] <= data[i]
               /\ written'[i] > 0 => written'[i] <= data[i]
    <2>1. /\ i \in Seg /\ i < n
          /\ first[i] \in Int /\ last[i] \in Int /\ done[i] \in Nat
          /\ data[i] \in Nat \union {-1} /\ last[i] - first[i] + 1 \in Nat
      BY <1>0, SizeAssumption DEF Lengths, Proper
    <2>2. written'[i] = onDisk[i]
      BY <1>1, <2>1
    <2>3. CASE want
      <3>1. inPlaceOk' /\ want /\ size > 0
        BY <1>5, <2>3
      <3>2. onDisk[i] = Least(done[i], last[i] - first[i] + 1)
        BY <1>5, <2>1, <3>1 DEF Reconciled
      <3>3. done[i] <= data[i]
        BY <1>5, <2>3
      <3> QED BY <2>1, <2>2, <3>2, <3>3 DEF Least
    <2>4. CASE ~want
      <3>1. onDisk[i] = Least(IF data[i] < 0 THEN done[i] ELSE data[i],
                              last[i] - first[i] + 1)
        BY <1>5, <2>1, <2>4 DEF Reconciled
      <3>2. data[i] < 0 => done[i] = 0
        BY <1>5, <2>4
      <3> QED BY <2>1, <2>2, <2>4, <3>1, <3>2 DEF Least
    <2> QED BY <2>3, <2>4
  <1> HIDE DEF onDisk
  <1>6. SideKept'
    <2> SUFFICES ASSUME ~side'.open, NEW i \in 0 .. side'.nseg - 1
                 PROVE  Backed(i, side.written)'
      BY DEF SideKept
    <2>1. ~isOpen /\ i \in 0 .. n - 1 /\ inPlace' = want
      BY <1>2, <1>3
    <2>2. /\ side'.written[i] = written'[i] /\ part'[i] = data[i]
          /\ written'[i] \in Nat /\ data[i] \in Nat \union {-1}
          /\ want => written'[i] <= data[i]
          /\ written'[i] > 0 => written'[i] <= data[i]
      BY <1>1, <1>2, <1>5, <2>1
    <2>3. CASE want
      BY <1>1, <2>1, <2>2, <2>3 DEF Backed, InPlaceData
    <2>4. CASE ~want
      <3>1. side'.written[i] > 0 => part'[i] >= 0
        BY <2>2
      <3> QED BY <1>1, <2>4, <3>1 DEF Backed
    <2> QED BY <2>3, <2>4
  <1>7. MemoryKept'
    <2>1. ASSUME ~isOpen PROVE Progress' /\ InFile'
      <3>1. ASSUME NEW i \in Seg PROVE DiskInv(i)'
        <4>1. CASE i < n
          <5>1. i \in 0 .. n - 1
            BY <1>0, <4>1, PlanAssumption DEF Seg
          <5> QED BY <1>1, <1>5, <2>1, <5>1 DEF DiskInv
        <4>2. CASE ~(i < n)
          BY <1>1, <4>2 DEF DiskInv
        <4> QED BY <4>1, <4>2
      <3>2. InFile'
        <4> SUFFICES ASSUME inPlace', NEW i \in 0 .. n - 1 PROVE part'[i] >= 0
          BY <1>1 DEF InFile
        <4>1. /\ written'[i] \in Nat /\ data[i] \in Nat \union {-1}
              /\ written'[i] <= data[i]
          BY <1>3, <1>5, <2>1
        <4> QED BY <1>1, <4>1
      <3> QED BY <3>1, <3>2 DEF Progress, Seg
    <2>2. nseg' \in Int
      BY <1>0, <1>1
    <2> QED BY <1>1, <1>2, <2>1, <2>2 DEF MemoryKept
  <1> QED BY <1>4, <1>6, <1>7 DEF DiskKept

(* A single range without an end makes no promise.                         *)
LEMMA OpenDisk ==
  ASSUME TaskInv, want \in Modes, NEW data \in Lengths, NEW size,
         PlanOpen(size, data), UNCHANGED <<want, flagVars>>,
         inPlaceOk' \in BOOLEAN
  PROVE  DiskKept'
  <1>1. PICK last : last = [i \in Seg |-> IF i = 0 THEN Size - 1 ELSE -1]
    OBVIOUS
  <1>2. /\ last \in [Seg -> -1 .. Size - 1]
        /\ Zero \in [Seg -> 0 .. Size] /\ Zero \in [Seg -> Nat]
    BY <1>1, SizeAssumption DEF Zero
  <1>3. 1 \in 1 .. MaxSegs /\ 0 \in Seg /\ \A i \in 0 .. 1 - 1 : i = 0
    BY PlanAssumption DEF Seg
  <1>4. Proper(1, Zero, last)
    BY <1>1, <1>2, <1>3, SizeAssumption DEF Proper, Zero
  <1>5. Planned(1, TRUE, Zero, last, Zero, size, data)
    BY <1>1 DEF PlanOpen
  <1> QED BY <1>2, <1>3, <1>4, <1>5, PlannedDisk

(* A probe plans, or goes on from what a sidecar or a fallback left.       *)
LEMMA ProbeDisk == ASSUME TaskInv, DiskKept, Probe PROVE DiskKept'
  <1> DEFINE size == IF Sized THEN Size ELSE 0
             here == inPlaceOk /\ want /\ size > 0
             data == IF here = inPlace THEN part ELSE aside
             n == IF Ranged THEN Connections ELSE 1
  <1>0. /\ TypeInv /\ PlanTyped /\ Geometry /\ OneRange /\ stage = "analyse"
        /\ UNCHANGED <<want, inPlaceOk, nested, flagVars>>
        /\ inPlaceOk' \in BOOLEAN /\ want \in Modes
        /\ ModeKept /\ MemoryKept /\ want \in BOOLEAN /\ inPlace \in BOOLEAN
    BY DEF TaskInv, IInv, Probe, PlanTyped, DiskKept, ModeKept, TypeInv, DataOK
  <1>1. data \in Lengths
    BY <1>0 DEF TypeInv, DataOK, PlanTyped, Lengths
  <1>2. size > 0 <=> Sized
    BY SizeAssumption
  <1>3. ~inPlaceOk' => open /\ nseg > 0
    BY <1>0 DEF ModeKept
  <1>4. ASSUME ~open, Sized
        PROVE  /\ inPlaceOk' /\ here = want
               /\ want => \A i \in Seg : data[i] = InPlaceData(i)
               /\ ~want => data = part
    <2>1. inPlaceOk' /\ inPlaceOk /\ size > 0
      BY <1>0, <1>2, <1>3, <1>4
    <2>2. here = want
      BY <1>0, <2>1
    <2>3. inPlace => want
      BY <1>0 DEF ModeKept
    <2> HIDE DEF here
    <2>4. want => \A i \in Seg : data[i] = InPlaceData(i)
      <3>1. CASE want /\ inPlace
        BY <2>2, <3>1 DEF InPlaceData
      <3>2. CASE want /\ ~inPlace
        BY <2>2, <3>2 DEF InPlaceData
      <3> QED BY <3>1, <3>2
    <2>5. ~want => data = part
      BY <1>0, <2>2, <2>3
    <2> QED BY <2>1, <2>2, <2>4, <2>5
  <1>5. CASE nseg > 0 /\ Planned(nseg, open, start, end, written, size, data)
    <2>1. PICK m, isOpen, first, last, done :
             /\ m = nseg /\ isOpen = open /\ first = start /\ last = end
             /\ done = written
      OBVIOUS
    <2>2. /\ m \in 1 .. MaxSegs /\ isOpen \in BOOLEAN
          /\ first \in [Seg -> 0 .. Size] /\ last \in [Seg -> -1 .. Size - 1]
          /\ done \in [Seg -> Nat] /\ Proper(m, first, last)
      BY <1>0, <1>5, <2>1, PlanAssumption DEF TypeInv, DataOK, Geometry
    <2>3. Planned(m, isOpen, first, last, done, size, data)
      BY <1>5, <2>1
    <2>4. ASSUME ~isOpen
          PROVE  /\ size > 0
                 /\ \A i \in 0 .. m - 1 : IF want THEN done[i] <= data[i]
                                         ELSE data[i] < 0 => done[i] = 0
      <3>1. ~open /\ Sized
        BY <1>0, <1>5, <2>1, <2>4 DEF OneRange
      <3>2. \A i \in Live : Backed(i, written)
        BY <1>0, <3>1 DEF MemoryKept
      <3>3. ASSUME NEW i \in 0 .. m - 1
            PROVE  IF want THEN done[i] <= data[i]
                   ELSE data[i] < 0 => done[i] = 0
        <4>1. i \in Seg /\ i \in Live
          BY <2>1, <2>2, PlanAssumption DEF Seg, Live
        <4>2. Backed(i, written) /\ written[i] \in Nat
          BY <1>0, <3>2, <4>1 DEF TypeInv, DataOK
        <4>3. part[i] \in Int
          BY <1>0, <4>1, StageChange
        <4> HIDE DEF data, here, size
        <4> QED BY <1>4, <2>1, <3>1, <4>1, <4>2, <4>3 DEF Backed
      <3> QED BY <1>2, <3>1, <3>3
    <2>5. ~inPlaceOk' => isOpen
      BY <1>3, <2>1
    <2> HIDE DEF size, data
    <2> QED BY <1>0, <1>1, <2>2, <2>3, <2>4, <2>5, PlannedDisk
  <1>6. CASE size = 0 /\ PlanOpen(size, data)
    <2> HIDE DEF size, data
    <2> QED BY <1>0, <1>1, <1>6, OpenDisk
  <1>7. ASSUME nseg = 0, size > 0,
               Planned(n, FALSE,
                       [i \in Seg |-> IF i < n THEN PlanStart(n, i) ELSE 0],
                       [i \in Seg |-> IF i < n THEN PlanEnd(n, i) ELSE -1],
                       Zero, size, IF here THEN Zero ELSE data)
        PROVE  DiskKept'
    <2>1. PICK first, last, found :
             /\ first = [i \in Seg |-> IF i < n THEN PlanStart(n, i) ELSE 0]
             /\ last = [i \in Seg |-> IF i < n THEN PlanEnd(n, i) ELSE -1]
             /\ found = IF here THEN Zero ELSE data
      OBVIOUS
    <2>2. n \in 1 .. MaxSegs /\ n \in Nat \ {0} /\ n <= Size
      BY PlanAssumption, SizeAssumption
    <2>3. found \in Lengths /\ Zero \in [Seg -> Nat] /\ \A i \in Seg : Zero[i] = 0
      <3>1. Zero \in Lengths
        BY DEF Zero, Lengths
      <3> QED BY <1>1, <2>1, <3>1 DEF Zero
    <2>4. \A i \in Seg : i < n => i \in 0 .. n - 1
      BY <2>2, PlanAssumption DEF Seg
    <2>5. /\ first \in [Seg -> 0 .. Size]
          /\ last \in [Seg -> -1 .. Size - 1]
      BY <2>1, <2>2, <2>4, PlanBounds, SizeAssumption
    <2>6. \A i \in 0 .. n - 1 : i \in Seg /\ i < n
      BY <2>2, PlanAssumption DEF Seg
    <2>7. Proper(n, first, last)
      <3>1. ASSUME NEW i \in 0 .. n - 1
            PROVE  PlanStart(n, i) <= PlanEnd(n, i) + 1
        BY <2>2, <3>1, PlanOrdered
      <3> QED BY <2>1, <2>6, <3>1 DEF Proper
    <2>8. Planned(n, FALSE, first, last, Zero, size, found)
      BY <1>7, <2>1
    <2>9. inPlaceOk' /\ inPlaceOk
      BY <1>0, <1>3, <1>7
    <2>10. ASSUME want, NEW i \in 0 .. n - 1 PROVE Zero[i] <= found[i]
      <3>1. here /\ found = Zero
        BY <1>7, <2>1, <2>9, <2>10
      <3> QED BY <2>3, <2>6, <3>1
    <2>11. \A i \in 0 .. n - 1 : IF want THEN Zero[i] <= found[i]
                                ELSE found[i] < 0 => Zero[i] = 0
      BY <2>3, <2>6, <2>10
    <2> HIDE DEF size, data, n, here
    <2> QED BY <1>0, <1>7, <2>2, <2>3, <2>5, <2>7, <2>8, <2>9, <2>11, PlannedDisk
  <1> HIDE DEF size, data, n
  <1> QED BY <1>5, <1>6, <1>7 DEF Probe, size, here, data, n

(* What is loaded is what was saved.                                       *)
LEMMA StartDisk ==
  ASSUME TaskInv, DiskKept, ~ModeSwitch, Start
  PROVE  DiskKept'
  <1>0. /\ ModeKept /\ SideKept /\ stage = "none" /\ stage' = "analyse"
        /\ want' = want /\ inPlaceOk' = TRUE
        /\ UNCHANGED <<inPlace, part, aside, side>>
    BY DEF DiskKept, Start
  <1>1. ModeKept'
    BY <1>0 DEF ModeKept, Placed
  <1>2. SideKept'
    BY <1>0 DEF SideKept, Backed, InPlaceData, Resumable
  <1>3. MemoryKept'
    <2> SUFFICES ASSUME ~open', NEW i \in Live' PROVE Backed(i, written)'
      BY <1>0 DEF MemoryKept
    <2>1. CASE Resumable
      <3>1. nseg' = side.nseg /\ open' = side.open /\ written' = side.written
        BY <2>1 DEF Start
      <3> QED BY <1>0, <2>1, <3>1 DEF Live, SideKept, Backed, InPlaceData
    <2>2. CASE ~Resumable
      <3>1. nseg' = 0 /\ 0 .. 0 - 1 = {}
        BY <2>2 DEF Start
      <3> QED BY <3>1 DEF Live
    <2> QED BY <2>1, <2>2
  <1> QED BY <1>1, <1>2, <1>3 DEF DiskKept

(* A pool saves nothing that is not on disk, and takes nothing away.       *)
LEMMA TransferDisk == ASSUME TaskInv, DiskKept, Transfer PROVE DiskKept'
  <1>0. /\ IInv /\ PlanTyped /\ stage = "pool" /\ stage' = "pool" /\ TransferNext
        /\ UNCHANGED planVars /\ ModeKept /\ SideKept /\ MemoryKept
        /\ TypeInv
    BY DEF TaskInv, Transfer, Carried, DiskKept, IInv
  <1>1. /\ UNCHANGED <<open, inPlace, want, aside, inPlaceOk>>
        /\ nseg' = nseg \/ (~open /\ nseg > 0)
    BY <1>0, TransferFacts DEF planVars
  <1>2. IInv' /\ TypeInv'
    BY <1>0, InvStep DEF PoolNext, IInv
  <1>3. nseg <= nseg' /\ nseg \in Nat /\ nseg' \in Nat
    <2>1. nseg \in Nat /\ nseg' \in Nat
      BY <1>0, <1>2, PlanAssumption DEF TypeInv, DataOK
    <2>2. CASE nseg > 0
      <3>1. 0 \in Live
        BY <2>1, <2>2 DEF Live
      <3> QED BY <1>0, <2>1, <3>1, TransferData
    <2>3. CASE ~(nseg > 0)
      BY <1>1, <2>1, <2>3
    <2> QED BY <2>1, <2>2, <2>3
  <1>4. ModeKept'
    BY <1>0, <1>1, <1>3 DEF ModeKept, Placed
  <1>5. ~open' => Progress' /\ InFile'
    BY <1>0, <1>1, ProgressStep, TransferInFile DEF MemoryKept, PoolNext
  <1>6. CASE side' = side
    <2>1. SideKept'
      <3> SUFFICES ASSUME Resumable, ~side.open, NEW i \in 0 .. side.nseg - 1
                   PROVE  Backed(i, side.written)'
        BY <1>0, <1>6 DEF SideKept, Resumable
      <3>1. Saved /\ side \in Sidecars
        BY DEF Resumable, Saved, TaskInv, SideTyped, NoSide
      <3>2. side.nseg <= nseg /\ ~open /\ side.nseg \in 0 .. MaxSegs
        BY <1>0, <3>1 DEF MemoryKept, Sidecars
      <3>3. i \in Live
        BY <1>3, <3>2, PlanAssumption DEF Live
      <3>4. Backed(i, side.written)
        BY <1>0 DEF SideKept
      <3>5. /\ inPlace => part'[i] >= part[i]
            /\ part[i] >= 0 => part'[i] >= 0
            /\ i \in Seg
        BY <1>0, <3>3, TransferData
      <3>6. /\ side.written[i] \in Nat /\ part[i] \in Int /\ part'[i] \in Int
        BY <1>0, <1>2, <3>1, <3>5, StageChange
        DEF Sidecars, TypeInv, DataOK
      <3> QED BY <1>1, <1>6, <3>4, <3>5, <3>6 DEF Backed, InPlaceData
    <2>2. MemoryKept'
      <3>1. Saved => side.nseg \in Nat
        BY PlanAssumption DEF TaskInv, SideTyped, Saved, NoSide, Sidecars
      <3>2. Saved => side.nseg <= nseg' /\ side.open = open'
        BY <1>0, <1>1, <1>3, <3>1 DEF MemoryKept
      <3> QED BY <1>0, <1>5, <1>6, <3>2 DEF MemoryKept, Saved
    <2> QED BY <1>4, <2>1, <2>2 DEF DiskKept
  <1>7. CASE side' = Sidecar(state)'
    <2>1. /\ side'.nseg = nseg' /\ side'.written = written' /\ side'.open = open'
      BY <1>7 DEF Sidecar
    <2>2. SideKept'
      <3> SUFFICES ASSUME ~open', NEW i \in Live'
                   PROVE  Backed(i, written)'
        BY <2>1 DEF SideKept, Live, Backed, InPlaceData
      <3>1. inPlace' = want' /\ want' \in BOOLEAN
        BY <1>0, <1>1 DEF ModeKept, Placed, PlanTyped
      <3>2. i \in Seg
        <4>1. nseg' \in 0 .. MaxSegs
          BY <1>2 DEF TypeInv, DataOK
        <4>2. PICK m \in 0 .. MaxSegs : m = nseg'
          BY <4>1
        <4>3. i \in 0 .. m - 1
          BY <4>2 DEF Live
        <4> QED BY <4>3, PlanAssumption DEF Seg
      <3>3. /\ written'[i] \in Nat /\ part'[i] \in Nat \union {-1}
            /\ written'[i] > 0 => written'[i] <= part'[i]
            /\ inPlace' => part'[i] >= 0
        BY <1>2, <1>5, <3>2 DEF TypeInv, DataOK, Progress, DiskInv, InFile
      <3> QED BY <3>1, <3>3 DEF Backed, InPlaceData
    <2>3. MemoryKept'
      BY <1>0, <1>3, <1>5, <2>1 DEF MemoryKept
    <2> QED BY <1>4, <2>2, <2>3 DEF DiskKept
  <1> QED BY <1>6, <1>7 DEF Transfer, Carried

(* A task that leaves saves what it has in memory.                         *)
LEMMA LeavesDisk ==
  ASSUME TaskInv, DiskKept, NEW s, NEW r, Leaves(s, r),
         UNCHANGED <<nseg, open, inPlace, written, want, aside>>,
         stage \in {"analyse", "pool", "merge", "trim", "verify", "unlink"},
         part' = part \/ (want /\ ~inPlace),
         want \/ stage \notin {"merge", "unlink", "verify"}
            \/ s = "verification_failed"
  PROVE  DiskKept'
  <1>0. /\ ModeKept /\ MemoryKept /\ TypeInv /\ PlanTyped
        /\ stage' = "none" /\ side' = Sidecar(s)
    BY DEF DiskKept, TaskInv, IInv, Leaves
  <1>1. ModeKept'
    BY <1>0 DEF ModeKept, Placed
  <1>2. MemoryKept'
    BY <1>0 DEF MemoryKept
  <1>3. SideKept'
    <2> SUFFICES ASSUME Resumable', ~open, NEW i \in Live
                 PROVE  Backed(i, written)'
      <3>1. /\ side'.nseg = nseg /\ side'.written = written /\ side'.open = open
        BY <1>0 DEF Sidecar
      <3> QED BY <3>1 DEF SideKept, Live, Backed, InPlaceData
    <2>1. s # "verification_failed"
      BY <1>0 DEF Resumable, Sidecar
    <2>2. Backed(i, written)
      <3>1. CASE stage = "analyse"
        BY <1>0, <3>1 DEF MemoryKept
      <3>2. CASE stage # "analyse"
        <4>1. inPlace = want /\ want \in BOOLEAN
          BY <1>0, <3>2 DEF ModeKept, Placed, PlanTyped
        <4>2. CASE want
          <5>1. stage \in {"pool", "trim"} \/ (stage = "verify" /\ inPlace)
            BY <1>0, <3>2, <4>1, <4>2 DEF ModeKept
          <5>2. Progress /\ InFile
            BY <1>0, <5>1 DEF MemoryKept
          <5> QED BY <1>0, <4>1, <5>2, ProgressBacked
        <4>3. CASE ~want
          <5>1. stage \in {"pool", "trim"}
            BY <2>1, <3>2, <4>3
          <5>2. Progress /\ InFile
            BY <1>0, <5>1 DEF MemoryKept
          <5> QED BY <1>0, <4>1, <5>2, ProgressBacked
        <4> QED BY <4>2, <4>3
      <3> QED BY <3>1, <3>2
    <2>3. part' = part \/ (want /\ ~inPlace)
      OBVIOUS
    <2> QED BY <2>2, <2>3 DEF Backed, InPlaceData
  <1> QED BY <1>1, <1>2, <1>3 DEF DiskKept

(* An error is saved with the progress made.                               *)
LEMMA ErrorDisk ==
  ASSUME TaskInv, DiskKept, NEW s \in Terminal, Error(s),
         UNCHANGED <<poolVars, planVars>>, stage \in {"analyse", "pool"}
  PROVE  DiskKept'
  <1>1. UNCHANGED <<nseg, open, inPlace, written, want, aside, part>>
    BY DEF poolVars, segVars, planVars
  <1>2. Leaves(state, "escaped") \/ Leaves(s, s)
    BY DEF Error
  <1> QED BY <1>1, <1>2, LeavesDisk

(* A fallback gives up what was promised together with the parts.          *)
LEMMA FallBackDisk ==
  ASSUME TaskInv, DiskKept, stage = "pool", FallBack
  PROVE  DiskKept'
  <1> DEFINE parts == IF inPlace THEN aside ELSE part
             left  == [i \in Seg |-> IF i \in Live THEN -1 ELSE parts[i]]
  <1>0. /\ TypeInv /\ PlanTyped /\ Reported /\ SideTyped /\ OneRange
        /\ inPlaceOk' = FALSE /\ UNCHANGED <<want, flagVars>>
        /\ ModeKept /\ MemoryKept /\ want \in Modes
    BY DEF TaskInv, IInv, FallBack, DiskKept, ModeKept
  <1>1. left \in Lengths
    BY <1>0 DEF TypeInv, DataOK, PlanTyped, Lengths
  <1>2. CASE total > 0
    <2>1. PICK size, data : size = total /\ data = left
      OBVIOUS
    <2>2. PlanOpen(size, data) /\ data \in Lengths
      BY <1>1, <1>2, <2>1 DEF FallBack
    <2> QED BY <1>0, <2>2, OpenDisk
  <1>3. CASE ~(total > 0)
    <2> HIDE DEF parts, left
    <2>1. /\ stage' = "analyse" /\ nseg' = 1 /\ open' = TRUE
          /\ UNCHANGED <<inPlace, aside, side>>
      BY <1>3 DEF FallBack
    <2>2. ~Sized
      BY <1>0, <1>3, SizeAssumption DEF Reported
    <2>3. Saved /\ ~side.open => side.nseg = 0
      <3>1. Saved => side.nseg \in Nat
        BY <1>0, PlanAssumption DEF SideTyped, Saved, NoSide, Sidecars
      <3> QED BY <1>0, <2>2, <3>1 DEF OneRange
    <2>4. SideKept'
      <3>1. Resumable' => Saved
        BY <2>1 DEF Resumable, Saved
      <3>2. 0 .. 0 - 1 = {}
        OBVIOUS
      <3> QED BY <2>1, <2>3, <3>1, <3>2 DEF SideKept
    <2>5. ModeKept' /\ MemoryKept'
      BY <1>0, <2>1 DEF ModeKept, MemoryKept, Placed
    <2> QED BY <2>4, <2>5 DEF DiskKept
  <1> QED BY <1>2, <1>3

(* The pool has returned.                                                  *)
LEMMA PoolEndsDisk == ASSUME TaskInv, DiskKept, PoolEnds PROVE DiskKept'
  <1>0. stage = "pool" /\ ModeKept /\ SideKept /\ MemoryKept
        /\ inPlace \in BOOLEAN
    BY DEF PoolEnds, DiskKept, TaskInv, IInv, TypeInv, DataOK
  <1>1. ASSUME NEW s \in Terminal, Error(s), UNCHANGED <<poolVars, planVars>>
        PROVE  DiskKept'
    BY <1>0, <1>1, ErrorDisk
  <1>2. "failed" \in Terminal /\ "stopped" \in Terminal
    BY DEF Terminal
  <1>3. CASE /\ stage' = IF inPlace THEN "trim" ELSE "merge"
             /\ UNCHANGED <<poolVars, planVars, state, result, side, final>>
    <2>1. /\ UNCHANGED <<nseg, open, inPlace, written, part, want, aside, side,
                         inPlaceOk>>
          /\ stage' \in {"trim", "merge"} /\ (stage' = "trim" <=> inPlace)
      BY <1>3 DEF poolVars, segVars, planVars
    <2>2. ModeKept'
      BY <1>0, <2>1 DEF ModeKept, Placed
    <2>3. SideKept'
      BY <1>0, <2>1 DEF SideKept, Backed, InPlaceData, Resumable
    <2>4. MemoryKept'
      BY <1>0, <2>1 DEF MemoryKept, Progress, DiskInv, InFile, Live, Seg
    <2> QED BY <2>2, <2>3, <2>4 DEF DiskKept
  <1>4. CASE FallBack
    BY <1>0, <1>4, FallBackDisk
  <1> QED BY <1>1, <1>2, <1>3, <1>4 DEF PoolEnds

(* What is verified is still there; what is finished needs no sidecar.     *)
LEMMA AssembledDisk ==
  ASSUME TaskInv, DiskKept, Assembled, stage \in {"trim", "unlink"},
         UNCHANGED <<nseg, open, inPlace, written, want, aside, inPlaceOk>>,
         part' = part \/ ~inPlace
  PROVE  DiskKept'
  <1>0. ModeKept /\ SideKept /\ MemoryKept /\ TypeInv /\ PlanTyped
    BY DEF DiskKept, TaskInv, IInv
  <1>1. stage' \in {"none", "verify"}
    BY DEF Assembled, Completes
  <1>2. ModeKept'
    BY <1>0, <1>1 DEF ModeKept, Placed
  <1>3. ASSUME inPlace, ~open PROVE Progress /\ InFile /\ part' = part /\ want
    BY <1>0, <1>3 DEF ModeKept, MemoryKept
  <1>4. MemoryKept'
    <2>1. ASSUME stage' = "verify", inPlace, ~open PROVE Progress' /\ InFile'
      BY <1>3, <2>1 DEF Progress, DiskInv, InFile, Live, Seg
    <2> QED BY <1>1, <2>1 DEF MemoryKept
  <1>5. SideKept'
    <2>1. CASE side' = NoSide
      BY <2>1 DEF SideKept, Resumable, NoSide
    <2>2. CASE side' = Sidecar("verifying") /\ stage' = "verify"
      <3> SUFFICES ASSUME ~open, want, NEW i \in Live PROVE Backed(i, written)'
        <4>1. /\ side'.nseg = nseg /\ side'.written = written /\ side'.open = open
          BY <2>2 DEF Sidecar
        <4> QED BY <2>2, <4>1 DEF SideKept, Live, Backed, InPlaceData
      <3>1. inPlace = want /\ want \in BOOLEAN
        BY <1>0 DEF ModeKept, Placed, PlanTyped
      <3>2. Backed(i, written) /\ part' = part
        BY <1>0, <1>3, <3>1, ProgressBacked
      <3> QED BY <3>2 DEF Backed, InPlaceData
    <2> QED BY <2>1, <2>2 DEF Assembled, Completes
  <1> QED BY <1>2, <1>4, <1>5 DEF DiskKept

LEMMA AssembleDisk ==
  ASSUME TaskInv, DiskKept, Merge \/ Unlink \/ Trim \/ Verify
  PROVE  DiskKept'
  <1>0. ModeKept /\ SideKept /\ MemoryKept
    BY DEF DiskKept
  <1>1. CASE Merge
    <2>1. /\ UNCHANGED <<nseg, open, inPlace, written, part, want, aside, side,
                         inPlaceOk>>
          /\ stage = "merge" /\ stage' = "unlink"
      BY <1>1 DEF Merge, poolVars, segVars, planVars
    <2>2. ModeKept' /\ MemoryKept'
      BY <1>0, <2>1 DEF ModeKept, MemoryKept, Placed
    <2>3. SideKept'
      BY <1>0, <2>1 DEF SideKept, Backed, InPlaceData, Resumable
    <2> QED BY <2>2, <2>3 DEF DiskKept
  <1>2. CASE Unlink
    <2>1. /\ UNCHANGED <<nseg, open, inPlace, written, want, aside, inPlaceOk>>
          /\ stage = "unlink" /\ ~inPlace
      BY <1>0, <1>2 DEF Unlink, planVars, ModeKept
    <2>2. CASE UNCHANGED <<stage, state, result, side>>
      <3>1. ModeKept' /\ MemoryKept'
        BY <1>0, <2>1, <2>2 DEF ModeKept, MemoryKept, Placed
      <3>2. SideKept'
        BY <1>0, <2>1, <2>2 DEF SideKept, Backed, InPlaceData, Resumable
      <3> QED BY <3>1, <3>2 DEF DiskKept
    <2>3. CASE Assembled
      BY <2>1, <2>3, AssembledDisk
    <2> QED BY <1>2, <2>2, <2>3 DEF Unlink
  <1>3. CASE Trim
    <2>1. UNCHANGED <<nseg, open, inPlace, written, part, want, aside, inPlaceOk>>
      BY <1>3 DEF Trim, poolVars, segVars, planVars
    <2> QED BY <1>3, <2>1, AssembledDisk DEF Trim
  <1>4. CASE Verify
    <2>1. /\ UNCHANGED <<nseg, open, inPlace, written, part, want, aside,
                         inPlaceOk>>
          /\ stage = "verify"
      BY <1>4 DEF Verify, poolVars, segVars, planVars
    <2>2. CASE Completes
      <3>1. stage' = "none" /\ side' = NoSide
        BY <2>2 DEF Completes
      <3>2. ModeKept' /\ MemoryKept'
        BY <1>0, <2>1, <3>1 DEF ModeKept, MemoryKept, Placed
      <3>3. SideKept'
        BY <3>1 DEF SideKept, Resumable, NoSide
      <3> QED BY <3>2, <3>3 DEF DiskKept
    <2>3. CASE Leaves("verification_failed", "verification_failed")
      BY <2>1, <2>3, LeavesDisk
    <2> QED BY <1>4, <2>2, <2>3 DEF Verify
  <1> QED BY <1>1, <1>2, <1>3, <1>4

(* A process that ends, in any way it may, leaves what was promised.       *)
LEMMA EndsDisk ==
  ASSUME Trustworthy, TaskInv, DiskKept, Quit \/ Crash
  PROVE  DiskKept'
  <1>0. /\ ModeKept /\ SideKept /\ MemoryKept /\ TypeInv /\ PlanTyped
        /\ UNCHANGED <<nseg, open, inPlace, written, want, aside, inPlaceOk>>
        /\ stage' = "none"
    BY DEF DiskKept, TaskInv, IInv, Quit, Leaves, Crash, planVars
  <1>1. want \/ /\ CrashIn \intersect {"unlink", "verify"} = {}
                /\ QuitIn \intersect {"merge", "unlink", "verify"} = {}
    BY <1>0 DEF Trustworthy, ModeKept
  <1>2. CASE Quit
    <2>1. part' = part \/ (stage \in {"merge", "unlink"} /\ ~inPlace)
      BY <1>0, <1>2 DEF Quit, ModeKept
    <2>2. want \/ stage \notin {"merge", "unlink", "verify"}
      BY <1>1, <1>2 DEF Quit
    <2>3. stage \in {"analyse", "pool", "merge", "trim", "verify", "unlink"}
      BY <1>2, TaskAssumption DEF Quit, Stages
    <2> QED BY <1>0, <1>2, <2>1, <2>2, <2>3, LeavesDisk DEF Quit
  <1>3. CASE Crash
    <2>1. ModeKept' /\ MemoryKept'
      BY <1>0 DEF ModeKept, MemoryKept, Placed
    <2>2. SideKept'
      <3>1. CASE side' = NoSide
        BY <3>1 DEF SideKept, Resumable, NoSide
      <3>2. CASE side' = side
        <4> SUFFICES ASSUME Resumable, ~side.open, NEW i \in 0 .. side.nseg - 1
                     PROVE  Backed(i, side.written)'
          BY <3>2 DEF SideKept, Resumable
        <4>1. want \/ stage \notin {"unlink", "verify"}
          BY <1>1, <1>3 DEF Crash
        <4>2. Backed(i, side.written)
          BY <1>0, <4>1 DEF SideKept
        <4>3. i \in Seg /\ side.written[i] \in Nat
          <5>1. side \in Sidecars
            BY DEF Resumable, TaskInv, SideTyped, NoSide
          <5>2. side.nseg \in 0 .. MaxSegs /\ side.written \in [Seg -> Nat]
            BY <5>1 DEF Sidecars
          <5> QED BY <5>2, PlanAssumption DEF Seg
        <4>4. /\ part[i] \in Int /\ part'[i] \in Int
              /\ Flushed(i) <= part'[i] /\ part'[i] <= part[i]
              /\ at[i].from \in Nat
          <5>1. part' \in [Seg -> -1 .. Size]
            BY <1>3 DEF Crash
          <5>2. at[i] \in Stage
            BY <1>0, <4>3 DEF TypeInv, WorkersOK
          <5> QED BY <1>0, <1>3, <4>3, <5>1, <5>2, StageChange, SizeAssumption
                  DEF Crash, Stage
        <4>5. CASE want
          <5>1. inPlace => part'[i] = part[i]
            BY <4>4 DEF Flushed
          <5> QED BY <1>0, <3>2, <4>2, <4>5, <5>1 DEF Backed, InPlaceData
        <4>6. CASE ~want
          <5>1. part[i] >= 0 => part'[i] >= 0
            BY <4>4 DEF Flushed, Least
          <5> QED BY <1>0, <3>2, <4>2, <4>6, <5>1 DEF Backed
        <4> QED BY <4>5, <4>6
      <3> QED BY <1>3, <3>1, <3>2 DEF Crash
    <2> QED BY <2>1, <2>2 DEF DiskKept
  <1> QED BY <1>2, <1>3

(* Every step keeps the promise of the sidecar.                            *)
LEMMA DiskStep ==
  ASSUME Trustworthy
  PROVE  TaskInv /\ DiskKept /\ [TaskNext]_vars => DiskKept'
  <1> SUFFICES ASSUME TaskInv, DiskKept, [TaskNext]_vars PROVE DiskKept'
    OBVIOUS
  <1>1. CASE Start
    BY <1>1, StartDisk DEF Trustworthy
  <1>2. CASE Probe \/ Transfer \/ PoolEnds
    BY <1>2, ProbeDisk, TransferDisk, PoolEndsDisk
  <1>3. CASE ProbeFails
    BY <1>3, ErrorDisk DEF ProbeFails, Terminal
  <1>4. CASE Merge \/ Unlink \/ Trim \/ Verify
    BY <1>4, AssembleDisk
  <1>5. CASE Quit \/ Crash
    BY <1>5, EndsDisk
  <1>6. CASE UNCHANGED <<nseg, open, inPlace, written, part, want, aside,
                         inPlaceOk, stage, side>>
    BY <1>6 DEF DiskKept, ModeKept, SideKept, MemoryKept, Placed, Backed, Saved,
       InPlaceData, Resumable, Progress, DiskInv, InFile, Live, Seg
  <1>7. CASE Pause \/ Resume \/ Cancel \/ UNCHANGED vars
    BY <1>6, <1>7 DEF Pause, Resume, Cancel, ClearRunning, SetRunning, SetCancel,
       vars, poolVars, segVars, taskVars, planVars
  <1> QED BY <1>1, <1>2, <1>3, <1>4, <1>5, <1>7 DEF TaskNext

LEMMA DiskInit == TaskInit => DiskKept
  <1> SUFFICES ASSUME TaskInit PROVE DiskKept
    OBVIOUS
  <1>1. stage = "none" /\ side = NoSide /\ want \in Modes /\ inPlace = FALSE
    BY DEF TaskInit
  <1> QED BY <1>1 DEF DiskKept, ModeKept, SideKept, MemoryKept, Resumable,
      NoSide, Placed

(* segment.py, "a crash can never leave the persisted progress ahead of    *)
(* the bytes actually handed to the OS": when downloads are written in     *)
(* place, what the sidecar claims of each segment is in the file, in every *)
(* state of the pool and after every stop, failure, quit, crash, fallback  *)
(* and resume, with splits, killed workers and failing disks.              *)
THEOREM SavedCorrect ==
  ASSUME Modes \subseteq {TRUE}, ~ModeSwitch
  PROVE  TaskSpec => []SavedOnDisk
  <1>1. Trustworthy
    BY DEF Trustworthy
  <1>2. TaskSpec => []DiskKept
    BY <1>1, DiskInit, DiskStep, TaskInvariance, PTL DEF TaskSpec
  <1>3. TaskInv /\ DiskKept => SavedOnDisk
    <2> SUFFICES ASSUME TaskInv, DiskKept, Resumable, ~side.open,
                        NEW i \in 0 .. side.nseg - 1
                 PROVE  side.written[i] <= InPlaceData(i)
      BY DEF SavedOnDisk, InPlaceData
    <2>1. want
      BY DEF DiskKept, ModeKept
    <2> QED BY <2>1 DEF DiskKept, SideKept, Backed
  <1> QED BY <1>2, <1>3, TaskInvariance, PTL

(* mclip.py, reconcile_part_sizes and reconcile_inplace: a pool that goes  *)
(* on after any number of stops and crashes counts no byte the disk does   *)
(* not hold.  With part files this needs that the process does not end     *)
(* between the deletion of the parts and that of the sidecar; in either    *)
(* mode, that the mode is not changed between two tasks.                   *)
THEOREM ResumedCorrect ==
  ASSUME Trustworthy
  PROVE  TaskSpec => []ResumedOnDisk
  <1>1. TaskSpec => []DiskKept
    BY DiskInit, DiskStep, TaskInvariance, PTL DEF TaskSpec
  <1>2. TaskInv /\ DiskKept => ResumedOnDisk
    <2> SUFFICES ASSUME TaskInv, DiskKept, stage = "pool", ~open,
                        NEW i \in Live, written[i] > 0
                 PROVE  written[i] <= part[i]
      BY DEF ResumedOnDisk, ProgressOnDisk
    <2>1. i \in Seg
      BY PlanAssumption DEF Live, Seg, TaskInv, IInv, TypeInv, DataOK
    <2> QED BY <2>1 DEF DiskKept, MemoryKept, Progress, DiskInv
  <1> QED BY <1>1, <1>2, TaskInvariance, PTL

-----------------------------------------------------------------------------
(* The promise: a download that is reported completed is the remote file.  *)

(* What the code's own promise rests on.  A split can leave a range short  *)
(* that is recorded as completed, and an OSError ends a worker and nothing *)
(* else; both make the merged file damaged.  With AssistMin as large as    *)
(* the file nothing is split.  A process that ends between the deletion of *)
(* the parts and that of the sidecar makes the next one trust progress     *)
(* that is gone, unless nothing is ever written to part files.             *)
NoSplit    == AssistMin >= Size
NoGap      == /\ CrashIn \intersect {"unlink", "verify"} = {}
              /\ QuitIn \intersect {"merge", "unlink", "verify"} = {}
OnlyInPlace == Modes \subseteq {TRUE} /\ Servers \subseteq {"ranges"}
Sound == ~ModeSwitch /\ NoSplit /\ ~DiskErrors /\ (NoGap \/ OnlyInPlace)

(* The plan of a server is always the same one.                            *)
N == IF server = "ranges" THEN Connections ELSE 1
PlanLength(i) == PlanEnd(N, i) - PlanStart(N, i) + 1
FixedPlan(n, first, last, isOpen) ==
    n > 0 => /\ n = N
             /\ isOpen => server # "ranges"
             /\ \A i \in 0 .. N - 1 : /\ first[i] = PlanStart(N, i)
                                      /\ last[i] = PlanEnd(N, i)
PlanFixed ==
    /\ server \in Servers
    /\ FixedPlan(nseg, start, end, open)
    /\ Saved => FixedPlan(side.nseg, side.start, side.end, side.open)
    /\ stage \in Placed => nseg > 0
    /\ ~Sized => ~inPlace

(* No part file is longer than its range.                                  *)
PartFile(i) == IF inPlace THEN aside[i] ELSE part[i]
Fit == \A i \in 0 .. N - 1 : PartFile(i) <= PlanLength(i)

(* A server that honours ranges and reports no size has one part, which is *)
(* there when progress is recorded.                                        *)
StreamKept ==
    server = "stream" =>
       /\ Resumable /\ stage \notin {"unlink", "verify"} /\ side.nseg > 0
             => (side.written[0] > 0 => part[0] >= 0)
       /\ stage = "analyse" /\ nseg > 0 => (written[0] > 0 => part[0] >= 0)

(* The workers, while nothing is split and every write succeeds: a request *)
(* ends where the segment does, a chunk fits into it, the part file is as  *)
(* long as the progress, and only the end of the pool loses a segment.     *)
Receiving == {"stream", "held", "limit"}
WorkerExact(i) ==
    /\ at[i].pc \in Receiving \union {"request"} => at[i].asked = end[i]
    /\ at[i].pc \in {"held", "limit"} => at[i].chunk <= end[i] - Cursor(i) + 1
    /\ ~inPlace /\ (i >= taken \/ at[i].pc # "rest") /\ part[i] >= 0
          => written[i] = part[i]
    /\ server = "stream" /\ written[i] > 0 => part[i] >= 0
    /\ inPlace /\ at[i].pc \in Receiving => DiskInv(i)
    /\ i \in completed => at[i].pc = "rest" /\ part[i] >= PlanLength(i)
    /\ i < taken /\ at[i].pc = "rest"
          => i \in completed \/ fatal # "none" \/ abort
PoolExact ==
    stage = "pool" =>
       /\ splitting = {}
       /\ \A i \in Live : WorkerExact(i)
       /\ outcome = "joined" => taken = nseg /\ fatal = "none" /\ ~abort
       /\ "range" \in {fatal, outcome} => ~Ranged

(* What is assembled is complete, and what was assembled is the file.      *)
Complete == stage \in {"merge", "trim"} => \A i \in Live : part[i] >= PlanLength(i)
Assembly == /\ stage \in {"unlink", "verify"} => final = "whole"
            /\ result = "completed" => stage = "none" /\ final = "whole"
            /\ final = "whole" => \/ stage \in {"unlink", "verify"}
                                  \/ result = "completed" \/ OnlyInPlace

ExactInv == PlanFixed /\ Fit /\ StreamKept /\ PoolExact /\ Complete /\ Assembly

----------------------------------------------------------------------------
(* The plan.                                                               *)

(* It depends on nothing but the server.                                   *)
LEMMA SamePlan ==
  ASSUME server' = server, NEW i
  PROVE  N' = N /\ PlanLength(i)' = PlanLength(i)
  BY DEF N, PlanLength, PlanEnd, PlanStart

(* planner.py: no planned range is empty.                                  *)
LEMMA PlanNotEmpty ==
  ASSUME NEW n \in Nat \ {0}, n <= Size, NEW i \in 0 .. n - 1
  PROVE  PlanStart(n, i) <= PlanEnd(n, i)
  <1> DEFINE q == Size \div n
  <1>1. q \in Nat /\ n * q <= Size /\ Size < n * q + n /\ n * q \in Int
    BY SizeAssumption, DivFloor
  <1>2. q > 0
    <2>1. n * 0 = 0
      OBVIOUS
    <2> QED BY <1>1, <2>1, SizeAssumption
  <1>3. i * q \in Nat /\ (i + 1) * q = i * q + q /\ (i + 1) * q <= n * q
    BY <1>1, ProductMonotone, ProductStep
  <1>4. PlanStart(n, i) = i * q /\ PlanStart(n, i + 1) = (i + 1) * q
    BY DEF PlanStart
  <1> HIDE DEF q
  <1> QED BY <1>1, <1>2, <1>3, <1>4, SizeAssumption DEF PlanEnd

LEMMA PlanFacts ==
  /\ N \in Nat \ {0} /\ N <= Size /\ N \in 1 .. MaxSegs
  /\ server # "ranges" => /\ N = 1 /\ PlanStart(N, 0) = 0
                          /\ PlanEnd(N, 0) = Size - 1
  /\ \A i \in 0 .. N - 1 :
        /\ i \in Seg
        /\ PlanStart(N, i) \in 0 .. Size /\ PlanEnd(N, i) \in -1 .. Size - 1
        /\ PlanLength(i) \in Nat \ {0}
  <1>1. N \in Nat \ {0} /\ N <= Size /\ N \in 1 .. MaxSegs
    BY PlanAssumption, SizeAssumption DEF N
  <1>2. ASSUME server # "ranges"
        PROVE  N = 1 /\ PlanStart(N, 0) = 0 /\ PlanEnd(N, 0) = Size - 1
    <2>1. Size \div 1 \in Nat
      BY SizeAssumption, DivFloor
    <2> QED BY <1>2, <2>1 DEF N, PlanStart, PlanEnd
  <1>3. ASSUME NEW i \in 0 .. N - 1
        PROVE  /\ i \in Seg
               /\ PlanStart(N, i) \in 0 .. Size
               /\ PlanEnd(N, i) \in -1 .. Size - 1
               /\ PlanLength(i) \in Nat \ {0}
    <2>1. PICK n : n = N
      OBVIOUS
    <2>2. n \in Nat \ {0} /\ n <= Size /\ i \in 0 .. n - 1 /\ n <= MaxSegs
      BY <1>1, <1>3, <2>1, PlanAssumption
    <2>3. /\ PlanStart(n, i) \in 0 .. Size /\ PlanEnd(n, i) \in -1 .. Size - 1
          /\ PlanStart(n, i) <= PlanEnd(n, i)
      BY <2>2, PlanBounds, PlanNotEmpty
    <2>4. PlanEnd(n, i) - PlanStart(n, i) + 1 \in Nat \ {0}
      BY <2>3, SizeAssumption
    <2> QED BY <2>1, <2>2, <2>3, <2>4, PlanAssumption DEF PlanLength, Seg
  <1> QED BY <1>1, <1>2, <1>3

(* What the plan and the sidecar's promise say of one segment.             *)
AsPlanned(i) ==
    /\ i \in 0 .. N - 1
    /\ Length(i) = PlanLength(i)
    /\ open => server # "ranges" /\ start[i] = 0 /\ i = 0
    /\ server = "stream" => ~inPlace
    /\ ~open => DiskInv(i)

LEMMA LivePlanned ==
  ASSUME TaskInv, DiskKept, PlanFixed, stage \in {"pool", "merge", "trim"},
         NEW i \in Live
  PROVE  nseg = N /\ Live = 0 .. N - 1 /\ i \in Seg /\ AsPlanned(i)
  <1>1. nseg > 0 /\ FixedPlan(nseg, start, end, open)
    BY DEF PlanFixed, Placed
  <1>2. nseg = N /\ i \in 0 .. N - 1
    BY <1>1 DEF FixedPlan, Live
  <1>3. i \in Seg
    BY <1>2, PlanFacts
  <1>4. ~open => DiskInv(i)
    BY <1>3 DEF DiskKept, MemoryKept, Progress
  <1>5. open => server # "ranges" /\ start[i] = 0 /\ i = 0
    BY <1>1, <1>2, PlanFacts DEF FixedPlan
  <1>6. Length(i) = PlanLength(i)
    BY <1>1, <1>2 DEF FixedPlan, Length, PlanLength
  <1>7. server = "stream" => ~inPlace
    BY DEF PlanFixed, Sized
  <1> QED BY <1>2, <1>3, <1>4, <1>5, <1>6, <1>7 DEF AsPlanned, Live

----------------------------------------------------------------------------
(* The steps of a worker.                                                  *)

OwnExact(i) == WorkerExact(i) /\ (~inPlace => part[i] <= PlanLength(i))

(* A worker records its own segment, and never takes back why it stopped.  *)
Records(i) == /\ \A j \in Seg \ {i} : j \in completed' <=> j \in completed
              /\ splitting' \subseteq splitting
              /\ fatal # "none" => fatal' # "none"
              /\ fatal' = "range" => fatal = "range" \/ ~Ranged
              /\ abort => abort'

LEMMA OthersExact ==
  ASSUME NEW i \in Seg, OwnOnly(i), Records(i), server' = server,
         aside' = aside, NEW j \in Seg \ {i}, OwnExact(j)
  PROVE  OwnExact(j)'
  BY SamePlan DEF OwnOnly, Records, OwnExact, WorkerExact, Cursor, DiskInv,
     Receiving

(* A worker that stops the pool.                                           *)
LEMMA StopsExact ==
  ASSUME TypeInv, NEW i \in Seg, OwnExact(i), at[i].pc # "rest", i < taken,
         Abort(i) \/ Fail(i, "permanent") \/ (Fail(i, "range") /\ ~Ranged),
         UNCHANGED <<segVars, taken, flagVars>>
  PROVE  OwnExact(i)' /\ Records(i)
  <1>1. at'[i].pc = "rest"
    BY LeaveOwn
  <1>2. /\ completed' = completed /\ splitting' \subseteq splitting
        /\ fatal' # "none" \/ abort'
        /\ fatal # "none" => fatal' # "none"
        /\ fatal' = "range" => fatal = "range" \/ ~Ranged
        /\ abort => abort'
    BY DEF Abort, Fail, Leave
  <1>3. ~(i >= taken)
    BY PlanAssumption DEF Seg, TypeInv, DataOK
  <1> QED BY <1>1, <1>2, <1>3, SamePlan
          DEF OwnExact, WorkerExact, Records, Receiving, segVars, flagVars

(* A worker that records its segment has all of it in the file.            *)
LEMMA FinishExact ==
  ASSUME TypeInv, NEW i \in Seg, OwnExact(i), at[i].pc # "rest", i < taken,
         Finish(i), part' = part, part[i] >= PlanLength(i),
         PlanLength(i) \in Nat \ {0},
         UNCHANGED <<inPlace, taken, flagVars>>
  PROVE  OwnExact(i)' /\ Records(i)
  <1>1. at'[i].pc = "rest"
    BY LeaveOwn
  <1>2. /\ completed' = completed \union {i} /\ splitting' \subseteq splitting
        /\ UNCHANGED <<fatal, abort>>
    BY DEF Finish, Leave
  <1>3. ~(i >= taken)
    BY PlanAssumption DEF Seg, TypeInv, DataOK
  <1>4. part[i] >= 0 /\ PlanLength(i)' = PlanLength(i)
    BY StageChange, SamePlan DEF flagVars
  <1> QED BY <1>1, <1>2, <1>3, <1>4
          DEF OwnExact, WorkerExact, Records, Receiving

(* Progress past the end of the range is in the file.                      *)
LEMMA PassedExact ==
  ASSUME TypeInv, NEW i \in Seg, AsPlanned(i), OwnExact(i), at[i].pc # "rest",
         Cursor(i) > end[i],
         \/ ~open
         \/ at[i].pc \in Receiving /\ SegInv(i)
         \/ server = "stream"
  PROVE  part[i] >= PlanLength(i) /\ PlanLength(i) \in Nat \ {0}
  <1>1. /\ start[i] \in Int /\ end[i] \in Int
        /\ written[i] \in Nat /\ part[i] \in Int
    BY StageChange, SizeAssumption
  <1>2. PlanLength(i) \in Nat \ {0} /\ Length(i) = PlanLength(i)
    BY PlanFacts DEF AsPlanned
  <1>3. written[i] >= PlanLength(i) /\ written[i] > 0
    BY <1>1, <1>2 DEF Cursor, Length
  <1>4. CASE DiskInv(i)
    BY <1>1, <1>2, <1>3, <1>4 DEF DiskInv
  <1>5. CASE ~inPlace /\ part[i] >= 0
    BY <1>2, <1>3, <1>5 DEF OwnExact, WorkerExact
  <1>6. CASE ~open
    BY <1>4, <1>6 DEF AsPlanned
  <1>7. CASE at[i].pc \in Receiving /\ SegInv(i)
    BY <1>4, <1>5, <1>7 DEF OwnExact, WorkerExact, SegInv, Receiving
  <1>8. CASE server = "stream"
    BY <1>2, <1>3, <1>5, <1>8 DEF OwnExact, WorkerExact, AsPlanned
  <1> QED BY <1>6, <1>7, <1>8

(* A worker that goes on with what it has.                                 *)
LEMMA StaysExact ==
  ASSUME NEW i \in Seg, OwnExact(i), at[i].pc # "rest",
         UNCHANGED <<segVars, taken, flagVars, completed, splitting, fatal,
                     abort>>,
         at'[i].pc # "rest",
         at'[i].pc \in Receiving \union {"request"} => at'[i].asked = end[i],
         at'[i].pc \in {"held", "limit"}
            => at'[i].chunk <= end[i] - Cursor(i) + 1,
         at'[i].pc \in Receiving => at[i].pc \in Receiving
  PROVE  OwnExact(i)' /\ Records(i)
  <1>1. PlanLength(i)' = PlanLength(i)
    BY SamePlan DEF flagVars
  <1> QED BY <1>1 DEF OwnExact, WorkerExact, Records, Receiving, segVars,
             flagVars, Cursor, DiskInv

(* segment.py, _attempt: another attempt, or the pool is stopped.          *)
LEMMA RetryExact ==
  ASSUME TypeInv, NEW i \in Seg, OwnExact(i), at[i].pc # "rest", i < taken,
         Retry(i), UNCHANGED <<segVars, taken, flagVars>>
  PROVE  OwnExact(i)' /\ Records(i)
  <1>1. CASE at[i].tries >= RetryMax
    BY <1>1, StopsExact DEF Retry
  <1>2. CASE ~(at[i].tries >= RetryMax)
    <2>1. at'[i].pc = "attempt"
      BY <1>2 DEF Retry, InHand, TypeInv, WorkersOK
    <2> QED BY <1>2, <2>1, StaysExact DEF Retry, Receiving
  <1> QED BY <1>1, <1>2

(* The file is opened as the progress says.                                *)
LEMMA BodyExact ==
  ASSUME IInv, NEW i \in Seg, AsPlanned(i), OwnExact(i), Body(i)
  PROVE  OwnExact(i)' /\ Records(i)
  <1>0. TypeInv /\ SegInv(i) /\ at \in [Seg -> Stage]
        /\ part \in [Seg -> Nat \union {-1}]
    BY DEF IInv, TypeInv, DataOK, WorkersOK
  <1>1. /\ at[i].pc = "request" /\ (Ranged \/ Whole(i))
        /\ part' = [part EXCEPT ![i] = Opened(i)]
        /\ at' = [at EXCEPT ![i].pc = "stream"]
        /\ UNCHANGED <<alive, completed, splitting, fatal, abort>>
        /\ UNCHANGED <<nseg, start, end, open, inPlace, written, taken, flagVars>>
    BY DEF Body, At, Move
  <1>2. /\ at'[i].pc = "stream" /\ at'[i].asked = at[i].asked
        /\ part'[i] = Opened(i)
    BY <1>0, <1>1 DEF Stage
  <1>3. /\ start[i] \in Int /\ written[i] \in Nat /\ part[i] \in Nat \union {-1}
    BY <1>0, StageChange, SizeAssumption
  <1>4. PlanLength(i) \in Nat \ {0} /\ PlanLength(i)' = PlanLength(i)
    BY <1>1, PlanFacts, SamePlan DEF AsPlanned, flagVars
  <1>5. i \notin completed /\ at[i].asked = end[i]
    BY <1>1 DEF OwnExact, WorkerExact, Receiving
  <1>6. ASSUME ~inPlace
        PROVE  /\ part'[i] = written[i] /\ part'[i] >= 0
               /\ part'[i] <= PlanLength(i)
    <2>1. written[i] > 0 => part[i] >= 0
      <3>1. CASE Whole(i) /\ open
        BY <1>3, <3>1 DEF Whole, Cursor, AsPlanned
      <3>2. CASE ~open
        BY <1>3, <3>2 DEF AsPlanned, DiskInv
      <3>3. CASE Ranged /\ open
        BY <3>3 DEF Ranged, AsPlanned, OwnExact, WorkerExact
      <3> QED BY <1>1, <3>1, <3>2, <3>3 DEF Whole
    <2>2. part[i] >= 0 => written[i] = part[i]
      BY <1>1, <1>6 DEF OwnExact, WorkerExact
    <2>3. part'[i] = written[i]
      BY <1>2, <1>3, <1>6, <2>1, <2>2 DEF Opened, Greatest
    <2>4. part[i] <= PlanLength(i)
      BY <1>6 DEF OwnExact
    <2> QED BY <1>3, <1>4, <2>1, <2>2, <2>3, <2>4
  <1>7. ASSUME inPlace PROVE part' [i] = part[i] /\ DiskInv(i)
    <2>1. part'[i] = part[i]
      BY <1>2, <1>7 DEF Opened
    <2>2. CASE ~open
      BY <2>1, <2>2 DEF AsPlanned
    <2>3. CASE open
      <3>1. Whole(i)
        BY <1>1, <1>7, <2>3 DEF Ranged, AsPlanned
      <3> QED BY <1>3, <2>1, <2>3, <3>1 DEF Whole, Cursor, AsPlanned, DiskInv
    <2> QED BY <2>1, <2>2, <2>3
  <1>8. OwnExact(i)'
    BY <1>1, <1>2, <1>3, <1>4, <1>5, <1>6, <1>7
    DEF OwnExact, WorkerExact, Receiving, flagVars, DiskInv, AsPlanned
  <1> QED BY <1>1, <1>8 DEF Records

(* A chunk that fits is written, and flushed, and counted.                 *)
LEMMA AppendExact ==
  ASSUME IInv, NEW i \in Seg, AsPlanned(i), OwnExact(i), NEW n \in Nat,
         Append(i, n), at[i].pc \in {"held", "limit"}, splitting = {},
         n <= end[i] - Cursor(i) + 1,
         UNCHANGED <<nseg, start, end, open, inPlace, taken, flagVars>>
  PROVE  OwnExact(i)' /\ Records(i)
  <1>0. TypeInv /\ SegInv(i) /\ at \in [Seg -> Stage]
    BY DEF IInv, TypeInv, WorkersOK
  <1>1. /\ at'[i].pc = "stream" /\ at'[i].asked = at[i].asked
        /\ UNCHANGED <<completed, splitting, fatal, abort>>
    BY <1>0 DEF Append, Stage
  <1>2. /\ written'[i] = written[i] + n
        /\ part'[i] = IF inPlace THEN Greatest(part[i], written[i] + n)
                      ELSE part[i] + n
    BY <1>0, AppendOwn
  <1>3. /\ start[i] \in Int /\ end[i] \in Int
        /\ written[i] \in Nat /\ part[i] \in Nat \union {-1}
    BY <1>0, StageChange, SizeAssumption
  <1>4. /\ PlanLength(i) \in Nat \ {0} /\ PlanLength(i)' = PlanLength(i)
        /\ Length(i) = PlanLength(i)
    BY PlanFacts, SamePlan DEF AsPlanned, flagVars
  <1>5. /\ i \notin completed /\ at[i].asked = end[i]
        /\ inPlace => DiskInv(i)
    BY DEF OwnExact, WorkerExact, Receiving
  <1>6. ASSUME ~inPlace
        PROVE  /\ part'[i] = written'[i] /\ part'[i] >= 0
               /\ part'[i] <= PlanLength(i)
    <2>1. part[i] >= 0
      BY <1>0, <1>6 DEF SegInv
    <2>2. written[i] = part[i]
      BY <1>6, <2>1 DEF OwnExact, WorkerExact
    <2> QED BY <1>2, <1>3, <1>4, <1>6, <2>1, <2>2 DEF Cursor, Length
  <1>7. ASSUME inPlace PROVE written'[i] <= part'[i]
    BY <1>2, <1>3, <1>7 DEF Greatest
  <1>8. OwnExact(i)'
    BY <1>1, <1>3, <1>4, <1>5, <1>6, <1>7
    DEF OwnExact, WorkerExact, Receiving, flagVars, DiskInv, AsPlanned
  <1> QED BY <1>1, <1>8 DEF Records

(* The steps of a worker, one after the other.                             *)
LEMMA WorkerKeepsExact ==
  ASSUME IInv, ~DiskErrors, splitting = {},
         NEW i \in Seg, AsPlanned(i), OwnExact(i), WorkerNext(i)
  PROVE  OwnExact(i)' /\ Records(i)
  <1>0. TypeInv /\ SegInv(i) /\ at \in [Seg -> Stage] /\ at[i] \in Stage
    BY DEF IInv, TypeInv, WorkersOK
  <1>1. at[i].pc # "rest" /\ i < taken
    <2>1. at[i].pc # "rest"
      BY DEF WorkerNext, Attempt, Respond, Body, NoRange, PastEnd, Fault,
         Receive, EndOfBody, Clamp, Commit, DiskError, At
    <2> QED BY <1>0, <2>1 DEF SegInv
  <1>2. /\ start[i] \in Int /\ end[i] \in Int /\ written[i] \in Nat
        /\ at[i].asked \in Int /\ at[i].chunk \in Nat /\ Cursor(i) \in Int
    BY <1>0, StageChange, SizeAssumption DEF Stage, Cursor
  <1>3. at[i].pc \in Receiving \union {"request"} => at[i].asked = end[i]
    BY DEF OwnExact, WorkerExact
  <1>4. CASE Attempt(i)
    <2>1. UNCHANGED <<segVars, taken, flagVars>> /\ at[i].pc = "attempt"
      BY <1>4 DEF Attempt, At
    <2>2. CASE Abort(i)
      BY <1>0, <1>1, <2>1, <2>2, StopsExact
    <2>3. CASE ~open /\ Cursor(i) > end[i] /\ Finish(i)
      BY <1>0, <1>1, <2>1, <2>3, PassedExact, FinishExact DEF segVars
    <2>4. CASE /\ at' = [at EXCEPT ![i].pc = "request", ![i].asked = end[i],
                                   ![i].from = written[i]]
               /\ UNCHANGED <<alive, completed, splitting, fatal, abort>>
      <3>1. at'[i].asked = end[i] /\ at'[i].pc = "request"
        BY <1>0, <2>4 DEF Stage
      <3> QED BY <1>1, <2>1, <2>4, <3>1, StaysExact DEF Receiving
    <2> QED BY <1>4, <2>2, <2>3, <2>4 DEF Attempt
  <1>5. CASE Body(i)
    BY <1>5, BodyExact
  <1>6. CASE NoRange(i)
    BY <1>0, <1>1, <1>6, StopsExact DEF NoRange
  <1>7. CASE PastEnd(i)
    <2>1. open /\ server = "stream"
      <3>1. open /\ Ranged
        BY <1>7, PastEndSeg DEF PastEnd
      <3> QED BY <3>1 DEF Ranged, AsPlanned
    <2>2. Cursor(i) > end[i]
      BY <1>2, <1>3, <1>7 DEF PastEnd, At
    <2>3. part[i] >= PlanLength(i) /\ PlanLength(i) \in Nat \ {0}
      BY <1>0, <1>1, <2>1, <2>2, PassedExact
    <2> QED BY <1>0, <1>1, <1>7, <2>3, FinishExact DEF PastEnd
  <1>8. CASE \E error \in Faults : Fault(i, error)
    <2>1. UNCHANGED <<segVars, taken, flagVars>>
          /\ (Retry(i) \/ Fail(i, "permanent"))
      BY <1>8 DEF Fault
    <2> QED BY <1>0, <1>1, <2>1, RetryExact, StopsExact
  <1>9. CASE Receive(i)
    <2>1. at[i].pc = "stream"
          /\ UNCHANGED <<segVars, taken, flagVars, completed, splitting, fatal,
                         abort>>
      BY <1>9 DEF Receive, At, endVars
    <2>2. PICK n \in 1 .. Least(ChunkMax, at[i].asked - Cursor(i) + 1) :
             at' = [at EXCEPT ![i].pc = "held", ![i].chunk = n]
      BY <1>9 DEF Receive
    <2>3. /\ at'[i].pc = "held" /\ at'[i].asked = at[i].asked
          /\ at'[i].chunk = n
      BY <1>0, <2>2 DEF Stage
    <2>4. at[i].asked = end[i]
      BY <1>3, <2>1 DEF Receiving
    <2>5. n <= end[i] - Cursor(i) + 1
      BY <1>2, <2>2, <2>4, LimitsAssumption DEF Least
    <2> QED BY <1>1, <2>1, <2>3, <2>4, <2>5, StaysExact DEF Receiving
  <1>10. CASE EndOfBody(i)
    <2>1. /\ at[i].pc = "stream" /\ Finish(i) /\ part' = part
          /\ Cursor(i) > end[i] /\ UNCHANGED <<inPlace, taken, flagVars>>
      BY <1>3, <1>10 DEF EndOfBody, At, segVars, Receiving
    <2>2. part[i] >= PlanLength(i) /\ PlanLength(i) \in Nat \ {0}
      BY <1>0, <1>1, <2>1, PassedExact DEF Receiving
    <2> QED BY <1>0, <1>1, <2>1, <2>2, FinishExact
  <1>11. CASE Clamp(i)
    <2> DEFINE n == IF open THEN at[i].chunk ELSE Least(at[i].chunk, Room(i))
    <2>1. /\ at[i].pc = "held"
          /\ UNCHANGED <<nseg, start, end, open, inPlace, taken, flagVars>>
      BY <1>11 DEF Clamp, At
    <2>2. at[i].chunk <= end[i] - Cursor(i) + 1 /\ Room(i) \in Int
      BY <1>2, <2>1 DEF OwnExact, WorkerExact, Room
    <2>3. CASE Abort(i) /\ UNCHANGED <<written, part>>
      BY <1>0, <1>1, <2>1, <2>3, StopsExact DEF segVars
    <2>4. CASE Room(i) <= 0 /\ ~open /\ Finish(i) /\ part' = part
      <3>1. Cursor(i) > end[i]
        BY <1>2, <2>4 DEF Room
      <3>2. part[i] >= PlanLength(i) /\ PlanLength(i) \in Nat \ {0}
        BY <1>0, <1>1, <2>4, <3>1, PassedExact
      <3> QED BY <1>0, <1>1, <2>1, <2>4, <3>2, FinishExact
    <2>5. n <= end[i] - Cursor(i) + 1 /\ (open \/ Room(i) > 0 => n \in Nat)
      BY <1>2, <2>2 DEF Least, Room
    <2> HIDE DEF n
    <2>6. CASE /\ at' = [at EXCEPT ![i].pc = "limit", ![i].chunk = n]
               /\ UNCHANGED <<written, part, alive, completed, splitting, fatal,
                              abort>>
      <3>1. /\ at'[i].asked = at[i].asked /\ at'[i].pc = "limit"
            /\ at'[i].chunk = n
        BY <1>0, <2>6 DEF Stage
      <3> QED BY <1>1, <1>3, <2>1, <2>5, <2>6, <3>1, StaysExact
              DEF Receiving, segVars
    <2>7. CASE (open \/ Room(i) > 0) /\ Append(i, n)
      BY <2>1, <2>5, <2>7, AppendExact
    <2> QED BY <1>11, <2>3, <2>4, <2>6, <2>7 DEF Clamp, n
  <1>12. CASE Commit(i)
    <2>1. at[i].pc = "limit" /\ Append(i, at[i].chunk)
          /\ UNCHANGED <<nseg, start, end, open, inPlace, taken, flagVars>>
      BY <1>12 DEF Commit, At
    <2>2. at[i].chunk <= end[i] - Cursor(i) + 1
      BY <2>1 DEF OwnExact, WorkerExact
    <2> QED BY <1>2, <2>1, <2>2, AppendExact
  <1> QED BY <1>4, <1>5, <1>6, <1>7, <1>8, <1>9, <1>10, <1>11, <1>12
          DEF WorkerNext, Respond, DiskError

----------------------------------------------------------------------------
(* The steps of the pool.                                                  *)

(* No range is longer than the file.                                       *)
LEMMA NeverSplit == ASSUME NoSplit, TypeInv PROVE ~Assist
  <1> SUFFICES ASSUME Assist PROVE FALSE
    OBVIOUS
  <1>1. PICK i \in Seg : Remaining(i) > AssistMin
    BY DEF Assist, Targets, Candidates, Splittable, Active
  <1>2. /\ start[i] \in Nat /\ end[i] \in Int /\ end[i] <= Size - 1
        /\ written[i] \in Nat /\ Size \in Nat /\ AssistMin \in Nat
    BY StageChange, SizeAssumption, LimitsAssumption
  <1> QED BY <1>1, <1>2 DEF Remaining, Cursor, NoSplit

(* A segment that is taken from the queue is recorded no more.             *)
LEMMA GetExact ==
  ASSUME IInv, Get, NEW j \in Live, j \in Seg, OwnExact(j), aside' = aside
  PROVE  OwnExact(j)'
  <1>1. PICK k : k = taken
    OBVIOUS
  <1>2. /\ taken' = k + 1 /\ k \in Nat
        /\ at' = [at EXCEPT ![k] = InHand("attempt", 1)]
        /\ completed' = completed \ {k}
        /\ UNCHANGED <<segVars, alive, splitting, flagVars, endVars>>
        /\ at \in [Seg -> Stage] /\ taken = k
    BY <1>1, PlanAssumption DEF Get, IInv, TypeInv, DataOK, WorkersOK
  <1>3. PlanLength(j)' = PlanLength(j)
    BY <1>2, SamePlan DEF flagVars
  <1>4. j \in Int
    BY DEF Seg
  <1>5. CASE j = k
    <2>1. at'[j].pc = "attempt" /\ j \notin completed'
      BY <1>2, <1>5 DEF InHand
    <2> QED BY <1>2, <1>3, <1>5, <2>1
            DEF OwnExact, WorkerExact, Receiving, segVars, flagVars
  <1>6. CASE j # k
    <2>1. /\ at'[j] = at[j] /\ (j \in completed' <=> j \in completed)
          /\ (j < taken' <=> j < taken) /\ (j >= taken' => j >= taken)
      BY <1>2, <1>4, <1>6
    <2> QED BY <1>2, <1>3, <2>1
            DEF OwnExact, WorkerExact, Receiving, segVars, flagVars, endVars,
                Cursor, DiskInv
  <1> QED BY <1>5, <1>6

(* When the pool ends nobody holds a segment that is not recorded, unless  *)
(* the pool was stopped.                                                   *)
LEMMA EndExact ==
  ASSUME IInv, End, NEW j \in Live, j \in Seg, OwnExact(j), aside' = aside
  PROVE  OwnExact(j)'
  <1>1. /\ at' = [i \in Seg |-> Rest] /\ at'[j].pc = "rest"
        /\ UNCHANGED <<segVars, taken, completed, flagVars, fatal, abort>>
    BY DEF End, Rest, InHand
  <1>2. PlanLength(j)' = PlanLength(j)
    BY <1>1, SamePlan DEF flagVars
  <1>3. Joined => at[j].pc = "rest"
    BY DEF Joined, Active
  <1>4. Joined \/ fatal # "none" \/ abort
    BY DEF End
  <1> QED BY <1>1, <1>2, <1>3, <1>4
          DEF OwnExact, WorkerExact, Receiving, segVars, flagVars, DiskInv

LEMMA TransferKeepsExact ==
  ASSUME Sound, IInv, TransferNext, splitting = {}, aside' = aside,
         fatal = "range" => ~Ranged,
         \A j \in Live : j \in Seg /\ AsPlanned(j) /\ OwnExact(j)
  PROVE  /\ splitting' = {}
         /\ \A j \in Live : OwnExact(j)'
         /\ UNCHANGED <<nseg, start, end, open, inPlace, server>>
         /\ outcome' = "joined" => taken' = nseg /\ fatal' = "none" /\ ~abort'
         /\ "range" \in {fatal', outcome'} => ~Ranged
  <1>1. ~Assist /\ ~\E i \in Seg : Kill(i)
    BY NeverSplit DEF Sound, IInv, Kill
  <1>2. UNCHANGED flagVars /\ outcome = "running"
    BY TransferFacts
  <1>3. CASE Get
    BY <1>3, GetExact DEF Get, segVars, flagVars, endVars
  <1>4. CASE Spawn
    <2>1. UNCHANGED <<segVars, taken, at, completed, splitting, flagVars, endVars>>
      BY <1>4 DEF Spawn
    <2>2. \A j \in Live : PlanLength(j)' = PlanLength(j)
      BY <2>1, SamePlan DEF flagVars
    <2> QED BY <1>2, <2>1, <2>2
            DEF OwnExact, WorkerExact, Receiving, segVars, flagVars, endVars,
                Cursor, DiskInv
  <1>5. CASE End
    <2>1. /\ outcome' = "joined" => taken' = nseg /\ fatal' = "none" /\ ~abort'
          /\ "range" \in {fatal', outcome'} => fatal = "range"
      BY <1>5 DEF End, Joined, IInv, TypeInv, WorkersOK
    <2> QED BY <1>5, <2>1, EndExact DEF End, segVars, flagVars
  <1>6. ASSUME NEW i \in Seg, WorkerNext(i)
        PROVE  /\ splitting' = {}
               /\ \A j \in Live : OwnExact(j)'
               /\ UNCHANGED <<nseg, start, end, open, inPlace, server>>
               /\ outcome' = outcome
               /\ fatal' = "range" => ~Ranged
    <2>1. OwnOnly(i)
      BY <1>6, WorkerSeg
    <2>2. i \in Live
      <3>1. at[i].pc # "rest"
        BY <1>6 DEF WorkerNext, Attempt, Respond, Body, NoRange, PastEnd, Fault,
           Receive, EndOfBody, Clamp, Commit, DiskError, At
      <3>2. i < taken /\ taken \in 0 .. nseg /\ nseg \in Nat /\ i \in Nat
        BY <3>1, PlanAssumption DEF IInv, SegInv, TypeInv, DataOK, Seg
      <3> QED BY <3>2 DEF Live
    <2>3. OwnExact(i)' /\ Records(i)
      BY <1>6, <2>2, WorkerKeepsExact DEF Sound
    <2>4. server' = server
      BY <1>2 DEF flagVars
    <2>5. \A j \in Live \ {i} : OwnExact(j)'
      BY <2>1, <2>3, <2>4, OthersExact
    <2>6. outcome' = outcome
      BY <1>6 DEF WorkerNext, Attempt, Respond, Body, NoRange, PastEnd, Fault,
         Receive, EndOfBody, Clamp, Commit, DiskError, endVars
    <2> QED BY <2>1, <2>3, <2>4, <2>5, <2>6 DEF OwnOnly, Records
  <1> QED BY <1>1, <1>2, <1>3, <1>4, <1>5, <1>6 DEF TransferNext

(* What a pool saves and leaves.                                           *)
LEMMA SavesExact ==
  ASSUME FixedPlan(nseg, start, end, open)', NEW s, side' = Sidecar(s)'
  PROVE  (Saved => FixedPlan(side.nseg, side.start, side.end, side.open))'
  BY DEF Sidecar, FixedPlan

LEMMA TransferExact ==
  ASSUME Sound, TaskInv, DiskKept, ExactInv, Transfer
  PROVE  ExactInv'
  <1>0. /\ IInv /\ TypeInv /\ stage = "pool" /\ stage' = "pool" /\ TransferNext
        /\ PlanFixed /\ Fit /\ StreamKept /\ PoolExact /\ Assembly
        /\ UNCHANGED <<planVars, stage, state, result, final>>
        /\ nseg > 0 /\ aside' = aside
    BY DEF TaskInv, IInv, Transfer, Carried, ExactInv, PlanFixed, Placed, planVars
  <1>1. /\ nseg = N /\ Live = 0 .. N - 1
        /\ \A j \in Live : j \in Seg /\ AsPlanned(j)
    <2>1. nseg = N
      BY <1>0 DEF PlanFixed, FixedPlan
    <2> QED BY <1>0, <2>1, LivePlanned DEF Live
  <1>2. \A j \in Live : OwnExact(j)
    BY <1>0, <1>1 DEF PoolExact, OwnExact, Fit, PartFile
  <1>3. /\ splitting' = {}
        /\ \A j \in Live : OwnExact(j)'
        /\ UNCHANGED <<nseg, start, end, open, inPlace, server>>
        /\ outcome' = "joined" => taken' = nseg /\ fatal' = "none" /\ ~abort'
        /\ "range" \in {fatal', outcome'} => ~Ranged
    BY <1>0, <1>1, <1>2, TransferKeepsExact DEF PoolExact
  <1>4. /\ Live' = Live /\ N' = N
        /\ \A j : PlanLength(j)' = PlanLength(j)
    BY <1>3, SamePlan DEF Live
  <1>5. FixedPlan(nseg, start, end, open)'
    BY <1>0, <1>3 DEF PlanFixed, FixedPlan, N, PlanStart, PlanEnd
  <1>6. PlanFixed'
    <2>1. (Saved => FixedPlan(side.nseg, side.start, side.end, side.open))'
      <3>1. CASE side' = side
        BY <1>0, <1>3, <3>1 DEF PlanFixed, FixedPlan, N, PlanStart, PlanEnd, Saved
      <3>2. CASE side' = Sidecar(state)'
        BY <1>5, <3>2, SavesExact
      <3> QED BY <3>1, <3>2 DEF Transfer, Carried
    <2> QED BY <1>0, <1>3, <1>5, <2>1 DEF PlanFixed, Placed, Sized
  <1>7. Fit'
    <2> SUFFICES ASSUME NEW j \in 0 .. N - 1 PROVE PartFile(j)' <= PlanLength(j)
      BY <1>4 DEF Fit
    <2>1. CASE inPlace
      BY <1>0, <1>3, <2>1 DEF Fit, PartFile
    <2>2. CASE ~inPlace
      BY <1>1, <1>3, <1>4, <2>2 DEF OwnExact, PartFile
    <2> QED BY <2>1, <2>2
  <1>8. PoolExact'
    BY <1>3, <1>4 DEF PoolExact, OwnExact, Ranged
  <1>9. StreamKept'
    <2> SUFFICES ASSUME server = "stream", side'.nseg > 0, side'.written[0] > 0,
                        Resumable'
                 PROVE  part'[0] >= 0
      BY <1>0, <1>3 DEF StreamKept
    <2>1. N = 1 /\ 0 \in Live
      BY <1>1, PlanFacts
    <2>2. CASE side' = side
      <3>1. part[0] >= 0
        BY <1>0, <2>2 DEF StreamKept, Resumable
      <3> QED BY <1>0, <2>1, <3>1, TransferData
    <2>3. CASE side' = Sidecar(state)'
      <3>1. written'[0] > 0
        BY <2>3 DEF Sidecar
      <3> QED BY <1>3, <2>1, <3>1 DEF OwnExact, WorkerExact
    <2> QED BY <2>2, <2>3 DEF Transfer, Carried
  <1>10. Complete' /\ Assembly'
    BY <1>0 DEF Complete, Assembly, OnlyInPlace
  <1> QED BY <1>6, <1>7, <1>8, <1>9, <1>10 DEF ExactInv

----------------------------------------------------------------------------
(* The steps of the task.                                                  *)

(* Only a whole file that is being verified, or one written in place, can  *)
(* be there before a download is completed.                                *)
LEMMA NotYet ==
  ASSUME Assembly, stage \notin {"none", "unlink", "verify"}
  PROVE  result # "completed" /\ (final = "whole" => OnlyInPlace)
  BY DEF Assembly

(* The plan and the pool over it.                                          *)
LEMMA PlannedExact ==
  ASSUME TaskInv', DiskKept', Assembly, stage \in {"analyse", "pool"}, Fit,
         PlanFixed,
         NEW isOpen \in BOOLEAN,
         NEW first \in [Seg -> 0 .. Size], NEW last \in [Seg -> -1 .. Size - 1],
         NEW done \in [Seg -> Nat], NEW data \in Lengths,
         NEW size, size = IF Sized THEN Size ELSE 0,
         Planned(N, isOpen, first, last, done, size, data),
         UNCHANGED <<want, flagVars>>,
         FixedPlan(N, first, last, isOpen), ~Sized => isOpen,
         ~inPlace' => \A i \in 0 .. N - 1 : data[i] <= PlanLength(i),
         server = "stream" => (done[0] > 0 => data[0] >= 0)
  PROVE  ExactInv'
  <1> DEFINE onDisk == Reconciled(inPlaceOk' /\ want /\ size > 0, isOpen,
                                  first, last, done, data)
  <1>1. PICK n : n = N
    OBVIOUS
  <1>2. /\ n \in Nat \ {0} /\ N = n
        /\ \A i \in 0 .. n - 1 : /\ i \in Seg /\ i < n
                                 /\ PlanLength(i) \in Nat \ {0}
                                 /\ first[i] = PlanStart(n, i)
                                 /\ last[i] = PlanEnd(n, i)
        /\ isOpen => server # "ranges"
    BY <1>1, PlanFacts DEF FixedPlan
  <1>3. /\ nseg' = n /\ open' = isOpen /\ start' = first
        /\ end' = IF isOpen THEN last ELSE Stretched(n, last, size)
        /\ part' = data
        /\ written' = [i \in Seg |-> IF i < n THEN onDisk[i] ELSE 0]
        /\ completed' = {i \in 0 .. n - 1 :
                            ~isOpen /\ onDisk[i] >= last[i] - first[i] + 1}
        /\ stage' = "pool" /\ side' = Sidecar(state)' /\ taken' = 0
        /\ inPlace' = (inPlaceOk' /\ want /\ size > 0)
        /\ aside' = IF inPlace' = inPlace THEN aside ELSE part
        /\ at' = [i \in Seg |-> Rest] /\ splitting' = {}
        /\ fatal' = "none" /\ outcome' = "running"
        /\ result' \in {"downloading", "paused"}
        /\ final' = Prepared(inPlace')
        /\ server' = server
    BY <1>1 DEF Planned, flagVars
  <1>4. N' = n /\ \A i : PlanLength(i)' = PlanLength(i)
    BY <1>1, <1>3, SamePlan
  <1>5. FixedPlan(nseg, start, end, open)'
    <2>1. ASSUME NEW i \in 0 .. n - 1 PROVE end'[i] = PlanEnd(n, i)
      <3>1. i = n - 1 => last[i] = Size - 1
        BY <1>2 DEF PlanEnd
      <3>2. size = Size \/ size = 0
        OBVIOUS
      <3> QED BY <1>2, <1>3, <3>1, <3>2, SizeAssumption DEF Stretched
    <2>2. \A i \in 0 .. n - 1 : start'[i] = PlanStart(n, i)
      BY <1>2, <1>3
    <2>3. \A i : PlanStart(n, i)' = PlanStart(n, i)
      BY DEF PlanStart
    <2> QED BY <1>2, <1>3, <1>4, <2>1, <2>2 DEF FixedPlan, PlanStart, PlanEnd
  <1>6. inPlace' => Sized
    <2>1. inPlace' => size > 0
      BY <1>3
    <2> QED BY <2>1
  <1>7. PlanFixed'
    <2>1. (Saved => FixedPlan(side.nseg, side.start, side.end, side.open))'
      BY <1>3, <1>5, SavesExact
    <2>2. nseg' > 0
      BY <1>2, <1>3
    <2> QED BY <1>3, <1>5, <1>6, <2>1, <2>2 DEF PlanFixed, Sized
  <1>8. Fit'
    <2> SUFFICES ASSUME NEW i \in 0 .. n - 1 PROVE PartFile(i)' <= PlanLength(i)
      BY <1>4 DEF Fit
    <2>1. PartFile(i) <= PlanLength(i)
      BY <1>2 DEF Fit
    <2>2. CASE inPlace' = TRUE
      BY <1>3, <2>1, <2>2 DEF PartFile
    <2>3. CASE inPlace' = FALSE
      BY <1>2, <1>3, <2>3 DEF PartFile
    <2>4. inPlace' \in BOOLEAN
      BY DEF TaskInv, IInv, TypeInv, DataOK
    <2> QED BY <2>2, <2>3, <2>4
  <1>9. ASSUME NEW i \in 0 .. n - 1
        PROVE  /\ i \in Seg /\ written'[i] = onDisk[i]
               /\ data[i] \in Nat \union {-1} /\ done[i] \in Nat
               /\ last[i] - first[i] + 1 = PlanLength(i)
               /\ PlanLength(i) \in Nat \ {0}
    <2>1. i \in Seg /\ i < n
      BY <1>2
    <2> QED BY <1>2, <1>3, <2>1 DEF Lengths, PlanLength
  <1>10. ASSUME NEW i \in 0 .. n - 1, ~inPlace'
         PROVE  onDisk[i] = IF data[i] < 0
                            THEN IF isOpen THEN done[i]
                                 ELSE Least(done[i], PlanLength(i))
                            ELSE data[i]
    <2>1. ~(inPlaceOk' /\ want /\ size > 0) /\ data[i] <= PlanLength(i)
      BY <1>2, <1>3, <1>10
    <2>2. onDisk[i] = IF isOpen THEN IF data[i] < 0 THEN done[i] ELSE data[i]
                      ELSE Least(IF data[i] < 0 THEN done[i] ELSE data[i],
                                 PlanLength(i))
      BY <1>9, <2>1 DEF Reconciled
    <2> QED BY <1>9, <2>1, <2>2 DEF Least
  <1>11. ASSUME NEW i \in 0 .. n - 1 PROVE WorkerExact(i)'
    <2> HIDE DEF onDisk
    <2>0. /\ part'[i] = data[i] /\ taken' = 0 /\ at'[i] = Rest
          /\ i \in completed' => ~isOpen /\ onDisk[i] >= last[i] - first[i] + 1
      BY <1>3, <1>9
    <2>1. at'[i].pc = "rest" /\ ~(i < taken')
      BY <1>2, <2>0 DEF Rest, InHand
    <2>2. ~inPlace' /\ part'[i] >= 0 => written'[i] = part'[i]
      BY <1>3, <1>9, <1>10
    <2>3. server = "stream" /\ written'[i] > 0 => part'[i] >= 0
      <3> SUFFICES ASSUME server = "stream", written'[i] > 0, data[i] < 0
                   PROVE  FALSE
        BY <1>9, <2>0
      <3>1. i = 0 /\ ~Sized
        BY <1>2, PlanFacts DEF Sized
      <3>2. isOpen /\ ~inPlace'
        BY <1>6, <3>1
      <3>3. written'[i] = done[0]
        BY <1>9, <1>10, <3>1, <3>2
      <3>4. data[0] \in Int /\ data[0] < 0 /\ done[0] > 0
        BY <1>9, <3>1, <3>3
      <3>5. data[0] >= 0
        BY <3>4
      <3> QED BY <3>4, <3>5
    <2>4. i \in completed' => part'[i] >= PlanLength(i)
      <3> SUFFICES ASSUME i \in completed' PROVE part'[i] >= PlanLength(i)
        OBVIOUS
      <3>1. ~isOpen /\ onDisk[i] >= PlanLength(i)
        BY <1>9, <2>0
      <3>2. DiskInv(i)'
        BY <1>3, <1>9, <3>1 DEF DiskKept, MemoryKept, Progress, Seg
      <3>3. /\ written'[i] \in Nat /\ part'[i] \in Int
        BY <1>3, <1>9 DEF TaskInv, IInv, TypeInv, DataOK, Seg
      <3>4. written'[i] >= PlanLength(i) /\ PlanLength(i) \in Nat \ {0}
        BY <1>9, <3>1
      <3> QED BY <3>2, <3>3, <3>4 DEF DiskInv
    <2> QED BY <1>3, <1>4, <2>1, <2>2, <2>3, <2>4 DEF WorkerExact, Receiving
  <1> HIDE DEF onDisk
  <1>12. PoolExact'
    BY <1>3, <1>11 DEF PoolExact, Live
  <1>13. StreamKept'
    <2> SUFFICES ASSUME server = "stream", written'[0] > 0 PROVE part'[0] >= 0
      BY <1>3 DEF StreamKept, Sidecar
    <2>1. 0 \in 0 .. n - 1
      BY <1>2
    <2> QED BY <1>3, <1>11, <2>1 DEF WorkerExact
  <1>14. Complete' /\ Assembly'
    <2>1. final' = "whole" => final = "whole"
      BY <1>3 DEF Prepared
    <2> QED BY <1>3, <2>1, NotYet DEF Complete, Assembly, OnlyInPlace
  <1> QED BY <1>7, <1>8, <1>12, <1>13, <1>14 DEF ExactInv

(* One range without an end.                                               *)
LEMMA OpenExact ==
  ASSUME TaskInv', DiskKept', Assembly, stage \in {"analyse", "pool"}, Fit,
         PlanFixed, NEW data \in Lengths,
         NEW size, size = IF Sized THEN Size ELSE 0,
         PlanOpen(size, data), UNCHANGED <<want, flagVars>>,
         server # "ranges",
         ~inPlace' => \A i \in 0 .. N - 1 : data[i] <= PlanLength(i)
  PROVE  ExactInv'
  <1>1. PICK last : last = [i \in Seg |-> IF i = 0 THEN Size - 1 ELSE -1]
    OBVIOUS
  <1>2. /\ last \in [Seg -> -1 .. Size - 1]
        /\ Zero \in [Seg -> 0 .. Size] /\ Zero \in [Seg -> Nat]
    BY <1>1, SizeAssumption DEF Zero
  <1>3. 0 \in Seg /\ \A i \in 0 .. 1 - 1 : i = 0
    BY PlanAssumption DEF Seg
  <1>4. N = 1 /\ Zero[0] = PlanStart(N, 0) /\ last[0] = PlanEnd(N, 0)
        /\ Zero[0] = 0
    BY <1>1, <1>3, PlanFacts DEF Zero
  <1>5. FixedPlan(N, Zero, last, TRUE)
    BY <1>3, <1>4 DEF FixedPlan
  <1>6. Planned(N, TRUE, Zero, last, Zero, size, data)
    BY <1>1, <1>4 DEF PlanOpen
  <1>7. server = "stream" => (Zero[0] > 0 => data[0] >= 0)
    BY <1>4
  <1> QED BY <1>2, <1>5, <1>6, <1>7, PlannedExact

(* The probe.                                                              *)
LEMMA ProbeExact ==
  ASSUME TaskInv, DiskKept, ExactInv, Probe
  PROVE  ExactInv'
  <1> DEFINE size == IF Sized THEN Size ELSE 0
             here == inPlaceOk /\ want /\ size > 0
             data == IF here = inPlace THEN part ELSE aside
             n == IF Ranged THEN Connections ELSE 1
  <1>0. /\ TypeInv /\ PlanTyped /\ Geometry /\ OneRange /\ stage = "analyse"
        /\ UNCHANGED <<want, inPlaceOk, nested, flagVars>>
        /\ TaskInv' /\ DiskKept' /\ Assembly /\ Fit /\ PlanFixed /\ StreamKept
        /\ stage \in {"analyse", "pool"} /\ inPlace \in BOOLEAN
    BY ProbeInv, ProbeDisk
    DEF TaskInv, IInv, Probe, ExactInv, TypeInv, DataOK
  <1>1. data \in Lengths
    BY <1>0 DEF TypeInv, DataOK, PlanTyped, Lengths
  <1>2. size = IF Sized THEN Size ELSE 0
    OBVIOUS
  <1>3. /\ Zero \in [Seg -> Nat] /\ Zero \in [Seg -> 0 .. Size]
        /\ Zero \in Lengths
    BY SizeAssumption DEF Zero, Lengths
  <1>4. size > 0 <=> Sized
    BY SizeAssumption
  <1>5. inPlace' = here
    <2>1. inPlace' = (inPlaceOk' /\ want /\ size > 0)
      BY <1>0 DEF Probe, Planned, PlanOpen
    <2>2. inPlaceOk' = inPlaceOk
      BY <1>0
    <2> HIDE DEF size
    <2> QED BY ONLY <2>1, <2>2, Zenon
  <1>6. ~inPlace' => \A i \in 0 .. N - 1 : data[i] <= PlanLength(i)
    <2> SUFFICES ASSUME ~inPlace', NEW i \in 0 .. N - 1
                 PROVE  data[i] <= PlanLength(i)
      OBVIOUS
    <2>1. PartFile(i) <= PlanLength(i) /\ ~here
      BY <1>0, <1>5 DEF Fit
    <2>2. here \in BOOLEAN
      BY <1>0 DEF PlanTyped
    <2> HIDE DEF here
    <2>3. data[i] = PartFile(i)
      BY <1>0, <2>1, <2>2 DEF PartFile
    <2> QED BY <2>1, <2>3
  <1>7. CASE nseg > 0 /\ Planned(nseg, open, start, end, written, size, data)
    <2>1. PICK isOpen, first, last, done :
             /\ isOpen = open /\ first = start /\ last = end /\ done = written
      OBVIOUS
    <2>2. nseg = N
      BY <1>0, <1>7 DEF PlanFixed, FixedPlan
    <2>6. FixedPlan(N, first, last, isOpen)
      BY <1>0, <1>7, <2>1, <2>2 DEF PlanFixed
    <2>3. /\ isOpen \in BOOLEAN
          /\ first \in [Seg -> 0 .. Size] /\ last \in [Seg -> -1 .. Size - 1]
          /\ done \in [Seg -> Nat]
          /\ ~Sized => isOpen
      BY <1>0, <1>7, <2>1 DEF TypeInv, DataOK, OneRange
    <2>4. Planned(N, isOpen, first, last, done, size, data)
      BY <1>7, <2>1, <2>2
    <2>5. server = "stream" => (done[0] > 0 => data[0] >= 0)
      <3> SUFFICES ASSUME server = "stream", done[0] > 0 PROVE data[0] >= 0
        OBVIOUS
      <3>1. part[0] >= 0
        BY <1>0, <1>7, <2>1 DEF StreamKept
      <3>2. ~Sized /\ ~inPlace
        BY <1>0 DEF Sized, PlanFixed
      <3>3. inPlace = FALSE
        BY <1>0, <3>2
      <3>4. here = FALSE
        BY <1>4, <3>2
      <3> QED BY <3>1, <3>3, <3>4
    <2> HIDE DEF size, data, here
    <2> QED BY <1>0, <1>1, <1>2, <1>6, <2>3, <2>4, <2>5, <2>6, PlannedExact
  <1>8. CASE size = 0 /\ PlanOpen(size, data)
    <2>1. server # "ranges"
      BY <1>4, <1>8, SizeAssumption DEF Sized
    <2> HIDE DEF size, data, here
    <2> QED BY <1>0, <1>1, <1>2, <1>6, <1>8, <2>1, OpenExact
  <1>9. ASSUME size > 0,
               Planned(n, FALSE,
                       [i \in Seg |-> IF i < n THEN PlanStart(n, i) ELSE 0],
                       [i \in Seg |-> IF i < n THEN PlanEnd(n, i) ELSE -1],
                       Zero, size, IF here THEN Zero ELSE data)
        PROVE  ExactInv'
    <2>1. PICK first, last, found :
             /\ first = [i \in Seg |-> IF i < n THEN PlanStart(n, i) ELSE 0]
             /\ last = [i \in Seg |-> IF i < n THEN PlanEnd(n, i) ELSE -1]
             /\ found = IF here THEN Zero ELSE data
      OBVIOUS
    <2>2. n = N
      BY <1>0, <1>4, <1>9 DEF Sized, Ranged, N, TypeInv, FlagsOK, AllServers
    <2>3. found \in Lengths
      BY <1>1, <1>3, <2>1
    <2>4. n \in Nat \ {0} /\ \A i \in Seg : i < n => i \in 0 .. n - 1
      BY <2>2, PlanFacts, PlanAssumption DEF Seg
    <2>5. /\ first \in [Seg -> 0 .. Size] /\ last \in [Seg -> -1 .. Size - 1]
      BY <2>1, <2>4, PlanBounds, SizeAssumption
    <2>6. FixedPlan(N, first, last, FALSE)
      <3>1. \A i \in 0 .. N - 1 : i \in Seg /\ i < n
        BY <2>2, <2>4, PlanFacts
      <3> QED BY <2>1, <2>2, <3>1 DEF FixedPlan
    <2>7. ~Sized => FALSE
      BY <1>4, <1>9
    <2>8. Planned(N, FALSE, first, last, Zero, size, found)
      BY <1>9, <2>1, <2>2
    <2>9. ~inPlace' => \A i \in 0 .. N - 1 : found[i] <= PlanLength(i)
      BY <1>5, <1>6, <2>1
    <2>10. server = "stream" => (Zero[0] > 0 => found[0] >= 0)
      BY <2>7 DEF Sized
    <2> HIDE DEF size, data, n, here
    <2> QED BY <1>0, <1>2, <1>3, <2>3, <2>5, <2>6, <2>7, <2>8, <2>9, <2>10,
               PlannedExact
  <1> HIDE DEF size, data, n
  <1> QED BY <1>7, <1>8, <1>9 DEF Probe, size, here, data, n

(* A step that keeps the plan, and saves it or leaves the sidecar alone.   *)
LEMMA PlanKeptExact ==
  ASSUME PlanFixed, Fit,
         UNCHANGED <<nseg, start, end, open, inPlace, aside, server>>,
         ~inPlace => \A i \in 0 .. N - 1 : part'[i] <= PlanLength(i),
         stage' \in Placed => nseg > 0,
         \/ side' = side \/ side' = NoSide
         \/ \E s \in States : side' = Sidecar(s)
  PROVE  PlanFixed' /\ Fit'
  <1>1. N' = N /\ \A i : PlanLength(i)' = PlanLength(i)
    BY SamePlan
  <1>2. FixedPlan(nseg, start, end, open)'
    BY DEF PlanFixed, FixedPlan, N, PlanStart, PlanEnd
  <1>3. (Saved => FixedPlan(side.nseg, side.start, side.end, side.open))'
    <2>1. CASE side' = side
      BY <2>1 DEF PlanFixed, FixedPlan, N, PlanStart, PlanEnd, Saved
    <2>2. CASE side' = NoSide
      BY <2>2 DEF Saved, NoSide
    <2>3. ASSUME NEW s, side' = Sidecar(s)
          PROVE  (Saved => FixedPlan(side.nseg, side.start, side.end, side.open))'
      <3>1. /\ side'.nseg = nseg' /\ side'.start = start' /\ side'.end = end'
            /\ side'.open = open'
        BY <2>3 DEF Sidecar
      <3> QED BY <1>2, <3>1 DEF FixedPlan
    <2> QED BY <2>1, <2>2, <2>3
  <1>4. PlanFixed'
    BY <1>2, <1>3 DEF PlanFixed, Placed, Sized
  <1>5. Fit'
    BY <1>1 DEF Fit, PartFile
  <1> QED BY <1>4, <1>5

(* The part files fit, whatever way to write is in use.                    *)
LEMMA PartsFit ==
  ASSUME Fit, ~inPlace, NEW i \in 0 .. N - 1
  PROVE  part[i] <= PlanLength(i)
  BY DEF Fit, PartFile

(* Where everything is written in place, nothing is ever merged.           *)
LEMMA AlwaysInPlace ==
  ASSUME OnlyInPlace, DiskKept, PlanFixed, stage \in Placed
  PROVE  inPlace /\ stage \notin {"merge", "unlink"}
  <1>1. ~open /\ want
    BY DEF OnlyInPlace, PlanFixed, FixedPlan, DiskKept, ModeKept
  <1> QED BY <1>1 DEF DiskKept, ModeKept

(* A new task takes what was saved.                                        *)
LEMMA StartExact ==
  ASSUME TaskInv, DiskKept, ExactInv, Start
  PROVE  ExactInv'
  <1>0. /\ PlanFixed /\ Fit /\ StreamKept /\ Assembly /\ SideTyped
        /\ stage = "none" /\ stage' = "analyse" /\ result # "completed"
        /\ result' = "connecting"
        /\ UNCHANGED <<server, inPlace, part, aside, side, final>>
    BY DEF ExactInv, Start, TaskInv
  <1>1. N' = N /\ \A i : PlanLength(i)' = PlanLength(i)
    BY <1>0, SamePlan
  <1>2. Resumable => Saved
    BY DEF Resumable, Saved
  <1>3. FixedPlan(nseg, start, end, open)'
    <2>1. CASE Resumable
      <3>1. /\ nseg' = side.nseg /\ start' = side.start /\ end' = side.end
            /\ open' = side.open
        BY <2>1 DEF Start
      <3> QED BY <1>0, <1>2, <2>1, <3>1
              DEF PlanFixed, FixedPlan, N, PlanStart, PlanEnd
    <2>2. CASE ~Resumable
      BY <2>2 DEF Start, FixedPlan
    <2> QED BY <2>1, <2>2
  <1>4. PlanFixed'
    <2>1. (Saved => FixedPlan(side.nseg, side.start, side.end, side.open))'
      BY <1>0 DEF PlanFixed, FixedPlan, N, PlanStart, PlanEnd, Saved
    <2> QED BY <1>0, <1>3, <2>1 DEF PlanFixed, Placed, Sized
  <1>5. Fit'
    BY <1>0, <1>1 DEF Fit, PartFile
  <1>6. StreamKept'
    <2>1. CASE Resumable
      <3>1. nseg' = side.nseg /\ written' = side.written
        BY <2>1 DEF Start
      <3> QED BY <1>0, <2>1, <3>1 DEF StreamKept, Resumable
    <2>2. CASE ~Resumable
      <3>1. nseg' = 0
        BY <2>2 DEF Start
      <3> QED BY <1>0, <2>2, <3>1 DEF StreamKept, Resumable
    <2> QED BY <2>1, <2>2
  <1>7. PoolExact' /\ Complete' /\ Assembly'
    BY <1>0 DEF PoolExact, Complete, Assembly, OnlyInPlace
  <1> QED BY <1>4, <1>5, <1>6, <1>7 DEF ExactInv

(* A task that ends without having assembled the file.                     *)
LEMMA LeavesExact ==
  ASSUME TaskInv, DiskKept, ExactInv,
         stage \in {"analyse", "pool", "trim"},
         UNCHANGED <<nseg, start, end, open, inPlace, aside, server, part,
                     written, final>>,
         NEW s \in States, NEW r \in Results \ {"completed"}, Leaves(s, r)
  PROVE  ExactInv'
  <1>0. /\ PlanFixed /\ Fit /\ StreamKept /\ Assembly /\ PoolExact
        /\ stage' = "none" /\ result' = r /\ side' = Sidecar(s)
    BY DEF ExactInv, Leaves
  <1>1. PlanFixed' /\ Fit'
    BY <1>0, PartsFit, PlanKeptExact DEF Placed
  <1>2. StreamKept'
    <2> SUFFICES ASSUME server = "stream", nseg > 0, written[0] > 0
                 PROVE  part[0] >= 0
      <3>1. side'.nseg = nseg /\ side'.written = written
        BY <1>0 DEF Sidecar
      <3> QED BY <1>0, <3>1 DEF StreamKept
    <2>1. CASE stage = "analyse"
      BY <1>0, <2>1 DEF StreamKept
    <2>2. CASE stage = "pool"
      <3>1. 0 \in Live
        BY PlanAssumption DEF Live, TaskInv, IInv, TypeInv, DataOK
      <3> QED BY <1>0, <2>2, <3>1 DEF PoolExact, WorkerExact
    <2>3. CASE stage = "trim"
      BY <1>0, <2>3 DEF DiskKept, ModeKept, PlanFixed, Sized
    <2> QED BY <2>1, <2>2, <2>3
  <1>3. PoolExact' /\ Complete' /\ Assembly'
    <2>1. final = "whole" => OnlyInPlace
      BY <1>0, NotYet
    <2> QED BY <1>0, <2>1 DEF PoolExact, Complete, Assembly, OnlyInPlace
  <1> QED BY <1>1, <1>2, <1>3 DEF ExactInv

LEMMA ErrorExact ==
  ASSUME TaskInv, DiskKept, ExactInv, stage \in {"analyse", "pool"},
         NEW s \in {"failed", "stopped"}, Error(s),
         UNCHANGED <<poolVars, planVars, final>>
  PROVE  ExactInv'
  <1>1. UNCHANGED <<nseg, start, end, open, inPlace, aside, server, part,
                    written, final>>
    BY DEF poolVars, segVars, flagVars, planVars
  <1>2. /\ state \in States /\ s \in States /\ s \in Results \ {"completed"}
        /\ "escaped" \in Results \ {"completed"}
    BY DEF TaskInv, StageTyped, States, Results, Terminal
  <1>3. Leaves(state, "escaped") \/ Leaves(s, s)
    BY DEF Error
  <1> QED BY <1>1, <1>2, <1>3, LeavesExact

(* engine.py, _restart_single_segment.                                     *)
LEMMA FallBackExact ==
  ASSUME TaskInv, DiskKept, ExactInv, stage = "pool", FallBack,
         outcome = "range", TaskInv', DiskKept'
  PROVE  ExactInv'
  <1> DEFINE parts == IF inPlace THEN aside ELSE part
             left  == [i \in Seg |-> IF i \in Live THEN -1 ELSE parts[i]]
  <1>0. /\ TypeInv /\ PlanTyped /\ Reported /\ PlanFixed /\ Fit /\ Assembly
        /\ PoolExact /\ inPlaceOk' = FALSE /\ UNCHANGED <<want, flagVars>>
        /\ stage \in {"analyse", "pool"} /\ StreamKept
    BY DEF TaskInv, IInv, FallBack, ExactInv
  <1>1. left \in Lengths
    <2>1. parts \in Lengths
      BY <1>0 DEF TypeInv, DataOK, PlanTyped, Lengths
    <2> QED BY <2>1 DEF Lengths
  <1>2. server \notin {"ranges", "stream"}
    BY <1>0 DEF PoolExact, Ranged
  <1>3. \A i \in 0 .. N - 1 : left[i] <= PlanLength(i)
    <2> SUFFICES ASSUME NEW i \in 0 .. N - 1 PROVE left[i] <= PlanLength(i)
      OBVIOUS
    <2>1. i \in Seg /\ PlanLength(i) \in Nat \ {0}
      BY PlanFacts
    <2>2. PartFile(i) <= PlanLength(i) /\ parts[i] = PartFile(i)
      BY <1>0 DEF Fit, PartFile
    <2> HIDE DEF parts
    <2> QED BY <2>1, <2>2
  <1>4. CASE total > 0
    <2>1. PICK size, data : size = total /\ data = left
      OBVIOUS
    <2>2. /\ PlanOpen(size, data) /\ data \in Lengths
          /\ size = IF Sized THEN Size ELSE 0
          /\ \A i \in 0 .. N - 1 : data[i] <= PlanLength(i)
      BY <1>0, <1>1, <1>3, <1>4, <2>1 DEF FallBack, Reported
    <2> HIDE DEF left, parts
    <2> QED BY <1>0, <1>2, <2>2, OpenExact
  <1>5. CASE ~(total > 0)
    <2> HIDE DEF parts, left
    <2>1. /\ stage' = "analyse" /\ result' = "connecting"
          /\ nseg' = 1 /\ open' = TRUE /\ start' = Zero
          /\ end' = [i \in Seg |-> IF i = 0 THEN Size - 1 ELSE -1]
          /\ written' = Zero /\ part' = left
          /\ UNCHANGED <<inPlace, aside, side, final>>
      BY <1>5 DEF FallBack, parts, left
    <2>2. ~Sized /\ ~inPlace
      BY <1>0, <1>5, SizeAssumption DEF Reported, PlanFixed
    <2>3. N = 1 /\ PlanStart(N, 0) = 0 /\ PlanEnd(N, 0) = Size - 1
          /\ server' = server
      BY <1>0, <1>2, PlanFacts DEF flagVars
    <2>4. N' = N /\ \A i : PlanLength(i)' = PlanLength(i)
      BY <2>3, SamePlan
    <2>5. FixedPlan(nseg, start, end, open)'
      <3>1. 0 \in Seg /\ \A i \in 0 .. 1 - 1 : i = 0
        BY PlanAssumption DEF Seg
      <3>2. start'[0] = 0 /\ end'[0] = Size - 1
        BY <2>1, <3>1 DEF Zero
      <3>3. \A i : PlanStart(1, i)' = PlanStart(1, i)
                   /\ PlanEnd(1, i)' = PlanEnd(1, i)
        BY DEF PlanStart, PlanEnd
      <3> QED BY <1>2, <2>1, <2>3, <2>4, <3>1, <3>2, <3>3 DEF FixedPlan
    <2>6. PlanFixed'
      <3>1. (Saved => FixedPlan(side.nseg, side.start, side.end, side.open))'
        BY <1>0, <2>1, <2>3 DEF PlanFixed, FixedPlan, N, PlanStart, PlanEnd, Saved
      <3> QED BY <1>0, <2>1, <2>2, <2>3, <2>5, <3>1 DEF PlanFixed, Placed, Sized
    <2>7. Fit'
      BY <1>3, <2>1, <2>2, <2>4 DEF Fit, PartFile
    <2>8. StreamKept'
      BY <1>2, <2>3 DEF StreamKept
    <2>9. PoolExact' /\ Complete' /\ Assembly'
      <3>1. final = "whole" => OnlyInPlace
        BY <1>0, NotYet
      <3> QED BY <2>1, <3>1 DEF PoolExact, Complete, Assembly, OnlyInPlace
    <2> QED BY <2>6, <2>7, <2>8, <2>9 DEF ExactInv
  <1> QED BY <1>4, <1>5

(* The pool has returned: joined, it has recorded every segment.           *)
LEMMA PoolEndsExact ==
  ASSUME TaskInv, DiskKept, ExactInv, PoolEnds, TaskInv', DiskKept'
  PROVE  ExactInv'
  <1>0. /\ stage = "pool" /\ outcome # "running" /\ Active = {} /\ IInv
        /\ PlanFixed /\ Fit /\ StreamKept /\ PoolExact /\ Assembly
    BY IdleFacts DEF PoolEnds, ExactInv, TaskInv
  <1>1. CASE /\ outcome = "joined"
             /\ stage' = IF inPlace THEN "trim" ELSE "merge"
             /\ UNCHANGED <<poolVars, planVars, state, result, side, final>>
    <2>1. UNCHANGED <<nseg, start, end, open, inPlace, aside, server, part,
                      written, side, result, final>>
      BY <1>1 DEF poolVars, segVars, flagVars, planVars
    <2>2. stage' \in {"merge", "trim"} /\ nseg > 0
      BY <1>0, <1>1 DEF PlanFixed, Placed
    <2>3. PlanFixed' /\ Fit'
      BY <1>0, <2>1, <2>2, PartsFit, PlanKeptExact
    <2>4. StreamKept'
      BY <1>0, <2>1, <2>2 DEF StreamKept, Resumable
    <2>5. Complete'
      <3> SUFFICES ASSUME NEW i \in Live PROVE part[i] >= PlanLength(i)
        BY <2>1, SamePlan DEF Complete, Live
      <3>1. taken = nseg /\ fatal = "none" /\ ~abort /\ WorkerExact(i)
        BY <1>0, <1>1 DEF PoolExact
      <3>2. i < taken /\ i \in Seg
        BY <1>0, <3>1, LivePlanned, PlanFacts
      <3>3. at[i].pc = "rest"
        BY <1>0, <3>2 DEF Active
      <3> QED BY <3>1, <3>2, <3>3 DEF WorkerExact
    <2>6. PoolExact' /\ Assembly'
      <3>1. result # "completed" /\ (final = "whole" => OnlyInPlace)
        BY <1>0, NotYet
      <3> QED BY <2>1, <2>2, <3>1 DEF PoolExact, Assembly, OnlyInPlace
    <2> QED BY <2>3, <2>4, <2>5, <2>6 DEF ExactInv
  <1>2. CASE outcome = "range" /\ FallBack
    BY <1>0, <1>2, FallBackExact
  <1>3. ASSUME NEW s \in {"failed", "stopped"}, Error(s),
               UNCHANGED <<poolVars, planVars, final>>
        PROVE  ExactInv'
    BY <1>0, <1>3, ErrorExact
  <1> QED BY <1>1, <1>2, <1>3 DEF PoolEnds

(* Parts that fill their ranges are the file.                              *)
LEMMA RangeFacts ==
  ASSUME TaskInv, DiskKept, PlanFixed, Complete, stage \in {"merge", "trim"},
         NEW i \in Live
  PROVE  /\ nseg = N /\ Live = 0 .. N - 1
         /\ start[i] = PlanStart(N, i) /\ part[i] \in Int
         /\ PlanStart(N, i) \in Int /\ PlanEnd(N, i) \in Int
         /\ PlanLength(i) = PlanEnd(N, i) - PlanStart(N, i) + 1
         /\ PlanLength(i) \in Nat \ {0} /\ part[i] >= PlanLength(i)
  <1>1. nseg = N /\ Live = 0 .. N - 1 /\ i \in Seg
    BY LivePlanned
  <1>2. FixedPlan(nseg, start, end, open) /\ nseg > 0
    BY DEF PlanFixed, Placed
  <1>3. start[i] = PlanStart(N, i)
    BY <1>1, <1>2 DEF FixedPlan
  <1>4. part[i] \in Int
    BY <1>1, StageChange DEF TaskInv, IInv
  <1>5. /\ PlanStart(N, i) \in 0 .. Size /\ PlanEnd(N, i) \in -1 .. Size - 1
        /\ PlanLength(i) \in Nat \ {0}
    BY <1>1, PlanFacts
  <1>6. PlanStart(N, i) \in Int /\ PlanEnd(N, i) \in Int
    BY <1>5, SizeAssumption
  <1> QED BY <1>1, <1>3, <1>4, <1>5, <1>6 DEF Complete, PlanLength

LEMMA PartsFill ==
  ASSUME TaskInv, DiskKept, PlanFixed, Fit, Complete, stage = "merge", ~inPlace
  PROVE  PartsWhole
  <1> SUFFICES ASSUME NEW b \in 0 .. Size - 1
               PROVE  /\ \E i \in Live : /\ start[i] <= b
                                         /\ b < start[i] + PartLength(i)
                      /\ \A i, j \in Live :
                            /\ start[i] <= b /\ b < start[i] + PartLength(i)
                            /\ start[j] <= b /\ b < start[j] + PartLength(j)
                            => i = j
    BY DEF PartsWhole
  <1>0. b \in Int
    BY SizeAssumption
  <1>1. \A i \in Live : nseg = N /\ Live = 0 .. N - 1
    BY RangeFacts
  <1>2. ASSUME NEW i \in Live
        PROVE  (start[i] <= b /\ b < start[i] + PartLength(i)) <=> InPlan(N, i, b)
    <2>1. /\ i \in 0 .. N - 1 /\ start[i] = PlanStart(N, i) /\ part[i] \in Int
          /\ PlanStart(N, i) \in Int /\ PlanEnd(N, i) \in Int
          /\ PlanLength(i) = PlanEnd(N, i) - PlanStart(N, i) + 1
          /\ PlanLength(i) \in Nat \ {0} /\ part[i] >= PlanLength(i)
      BY RangeFacts
    <2>2. part[i] <= PlanLength(i)
      BY <2>1, PartsFit
    <2>3. PartLength(i) = PlanEnd(N, i) - PlanStart(N, i) + 1
      BY <2>1, <2>2 DEF PartLength
    <2> QED BY <1>0, <2>1, <2>3 DEF InPlan
  <1>3. PICK n : n = N
    OBVIOUS
  <1>4. n \in Nat \ {0} /\ n <= Size
    BY <1>3, PlanFacts
  <1>5. nseg = n
    BY <1>3 DEF PlanFixed, Placed, FixedPlan
  <1>6. Live = 0 .. n - 1
    BY <1>5 DEF Live
  <1> QED BY <1>2, <1>3, <1>4, <1>6, PlanCovers

LEMMA InPlaceFills ==
  ASSUME TaskInv, DiskKept, PlanFixed, Complete, stage = "trim"
  PROVE  InPlaceWhole
  <1> SUFFICES ASSUME NEW b \in 0 .. Size - 1
               PROVE  \E i \in Live : start[i] <= b /\ b < start[i] + part[i]
    BY DEF InPlaceWhole
  <1>0. b \in Int
    BY SizeAssumption
  <1>1. PICK n : n = N
    OBVIOUS
  <1>2. n \in Nat \ {0} /\ n <= Size
    BY <1>1, PlanFacts
  <1>3. nseg = n
    BY <1>1 DEF PlanFixed, Placed, FixedPlan
  <1>4. PICK i \in 0 .. n - 1 : InPlan(n, i, b)
    BY <1>2, PlanCovers
  <1>5. i \in Live
    BY <1>3 DEF Live
  <1>6. /\ start[i] = PlanStart(n, i) /\ part[i] \in Int
        /\ PlanStart(n, i) \in Int /\ PlanEnd(n, i) \in Int
        /\ part[i] >= PlanEnd(n, i) - PlanStart(n, i) + 1
    BY <1>1, <1>5, RangeFacts
  <1>7. start[i] <= b /\ b < start[i] + part[i]
    BY <1>0, <1>4, <1>6 DEF InPlan
  <1> QED BY <1>5, <1>7

(* engine.py, _merge_parts and _finalize_inplace: what is assembled is     *)
(* the file.                                                               *)
LEMMA MergeExact ==
  ASSUME TaskInv, DiskKept, ExactInv, Merge
  PROVE  ExactInv'
  <1>0. /\ PlanFixed /\ Fit /\ Complete /\ Assembly /\ stage = "merge" /\ ~inPlace
        /\ stage' = "unlink" /\ result' = result /\ side' = side
        /\ UNCHANGED <<nseg, start, end, open, inPlace, aside, server, part>>
    BY DEF ExactInv, Merge, DiskKept, ModeKept, poolVars, segVars, flagVars,
       planVars
  <1>1. final' = "whole" /\ result # "completed"
    BY <1>0, PartsFill, NotYet DEF Merge
  <1>2. PlanFixed' /\ Fit'
    <2>1. nseg > 0
      BY <1>0 DEF PlanFixed, Placed
    <2> QED BY <1>0, <2>1, PartsFit, PlanKeptExact
  <1>3. StreamKept' /\ PoolExact' /\ Complete' /\ Assembly'
    BY <1>0, <1>1 DEF StreamKept, PoolExact, Complete, Assembly
  <1> QED BY <1>2, <1>3 DEF ExactInv

LEMMA AssembledExact ==
  ASSUME PlanFixed, Fit, Assembled, final' = "whole",
         stage \in {"unlink", "trim"},
         UNCHANGED <<nseg, start, end, open, inPlace, aside, server, part>>
  PROVE  ExactInv'
  <1>1. \/ /\ stage' = "verify" /\ side' = Sidecar("verifying")
           /\ result' = "verifying"
        \/ stage' = "none" /\ side' = NoSide /\ result' = "completed"
    BY DEF Assembled, Completes
  <1>2. PlanFixed' /\ Fit'
    <2>1. nseg > 0 /\ "verifying" \in States
      BY DEF PlanFixed, Placed, States
    <2>2. side' = NoSide \/ \E s \in States : side' = Sidecar(s)
      BY <1>1, <2>1
    <2> QED BY <2>1, <2>2, PartsFit, PlanKeptExact
  <1>3. StreamKept'
    BY <1>1 DEF StreamKept, Resumable, NoSide
  <1>4. PoolExact' /\ Complete' /\ Assembly'
    BY <1>1 DEF PoolExact, Complete, Assembly
  <1> QED BY <1>2, <1>3, <1>4 DEF ExactInv

LEMMA TrimExact ==
  ASSUME TaskInv, DiskKept, ExactInv, Trim
  PROVE  ExactInv'
  <1>1. /\ PlanFixed /\ Fit /\ Complete /\ stage = "trim" /\ Assembled
        /\ UNCHANGED <<nseg, start, end, open, inPlace, aside, server, part>>
    BY DEF ExactInv, Trim, poolVars, segVars, flagVars, planVars
  <1>2. final' = "whole"
    BY <1>1, InPlaceFills DEF Trim
  <1> QED BY <1>1, <1>2, AssembledExact

(* The parts go one after the other, then the file is in place.            *)
LEMMA UnlinkExact ==
  ASSUME TaskInv, DiskKept, ExactInv, Unlink
  PROVE  ExactInv'
  <1>0. /\ PlanFixed /\ Fit /\ Assembly /\ stage = "unlink" /\ nseg > 0
        /\ UNCHANGED <<nseg, start, end, open, inPlace, aside, server, final>>
        /\ final = "whole" /\ ~inPlace /\ TypeInv
    BY DEF ExactInv, Unlink, flagVars, planVars, PlanFixed, Placed, Assembly,
       DiskKept, ModeKept, TaskInv, IInv
  <1>1. CASE Assembled /\ UNCHANGED part
    BY <1>0, <1>1, AssembledExact
  <1>2. ASSUME NEW i \in Live, part' = [part EXCEPT ![i] = -1],
               UNCHANGED <<stage, state, result, side>>
        PROVE  ExactInv'
    <2>1. \A j \in 0 .. N - 1 : part'[j] <= PlanLength(j)
      <3> SUFFICES ASSUME NEW j \in 0 .. N - 1 PROVE part'[j] <= PlanLength(j)
        OBVIOUS
      <3>1. part[j] <= PlanLength(j) /\ PlanLength(j) \in Nat \ {0} /\ j \in Seg
        BY <1>0, PartsFit, PlanFacts
      <3>2. part'[j] = IF j = i THEN -1 ELSE part[j]
        BY <1>0, <1>2, <3>1 DEF TypeInv, DataOK
      <3> QED BY <3>1, <3>2
    <2>2. PlanFixed' /\ Fit'
      BY <1>0, <1>2, <2>1, PlanKeptExact
    <2>3. StreamKept' /\ PoolExact' /\ Complete' /\ Assembly'
      BY <1>0, <1>2 DEF StreamKept, PoolExact, Complete, Assembly, OnlyInPlace
    <2> QED BY <2>2, <2>3 DEF ExactInv
  <1> QED BY <1>1, <1>2 DEF Unlink

(* A whole file passes the verification.                                   *)
LEMMA VerifyExact ==
  ASSUME TaskInv, DiskKept, ExactInv, Verify
  PROVE  ExactInv'
  <1>0. /\ PlanFixed /\ Fit /\ final = "whole" /\ final' = "whole"
        /\ UNCHANGED <<nseg, start, end, open, inPlace, aside, server, part>>
        /\ stage = "verify" /\ Completes
    BY DEF ExactInv, Verify, Assembly, poolVars, segVars, flagVars, planVars
  <1>1. stage' = "none" /\ side' = NoSide /\ result' = "completed"
    BY <1>0 DEF Completes
  <1>2. PlanFixed' /\ Fit'
    BY <1>0, <1>1, PartsFit, PlanKeptExact DEF Placed
  <1>3. StreamKept'
    BY <1>1 DEF StreamKept, Resumable, NoSide
  <1>4. PoolExact' /\ Complete' /\ Assembly'
    BY <1>0, <1>1 DEF PoolExact, Complete, Assembly
  <1> QED BY <1>2, <1>3, <1>4 DEF ExactInv

(* A task that is closed in the middle of anything but a merge.            *)
LEMMA QuitExact ==
  ASSUME NoGap \/ OnlyInPlace, TaskInv, DiskKept, ExactInv, Quit
  PROVE  ExactInv'
  <1>0. /\ PlanFixed /\ Fit /\ Assembly /\ stage \in QuitIn
        /\ Leaves(state, result) /\ state \in States /\ result \in Results
        /\ UNCHANGED <<nseg, start, end, open, inPlace, aside, server, written>>
    BY DEF ExactInv, Quit, flagVars, planVars, TaskInv, StageTyped
  <1>1. stage \in {"analyse", "pool", "merge", "unlink", "trim", "verify"}
    BY <1>0, TaskAssumption DEF Stages
  <1>2. /\ stage \notin {"merge", "unlink"}
        /\ stage = "verify" => OnlyInPlace
    BY <1>0, AlwaysInPlace DEF NoGap, Placed
  <1>3. UNCHANGED <<part, final>>
    BY <1>2 DEF Quit
  <1>4. CASE stage \in {"analyse", "pool", "trim"}
    <2>1. result # "completed"
      BY <1>0, <1>4, NotYet
    <2> QED BY <1>0, <1>3, <1>4, <2>1, LeavesExact
  <1>5. CASE stage = "verify"
    <2>1. stage' = "none" /\ result' = result /\ side' = Sidecar(state)
      BY <1>0 DEF Leaves
    <2>2. PlanFixed' /\ Fit'
      BY <1>0, <1>3, <2>1, PartsFit, PlanKeptExact DEF Placed
    <2>3. server' # "stream" /\ result # "completed"
      BY <1>0, <1>2, <1>5 DEF OnlyInPlace, PlanFixed, Assembly
    <2>4. StreamKept' /\ PoolExact' /\ Complete'
      BY <2>1, <2>3 DEF StreamKept, PoolExact, Complete
    <2>5. Assembly'
      BY <1>2, <1>5, <2>1, <2>3 DEF Assembly, OnlyInPlace
    <2> QED BY <2>2, <2>4, <2>5 DEF ExactInv
  <1> QED BY <1>1, <1>2, <1>4, <1>5

(* A process that dies loses bytes, and no part file.                      *)
LEMMA CrashExact ==
  ASSUME NoGap \/ OnlyInPlace, TaskInv, DiskKept, ExactInv, Crash
  PROVE  ExactInv'
  <1>0. /\ PlanFixed /\ Fit /\ Assembly /\ StreamKept /\ stage \in CrashIn
        /\ stage' = "none" /\ result' = "none"
        /\ side' = side \/ side' = NoSide
        /\ UNCHANGED <<nseg, start, end, open, inPlace, aside, server>>
        /\ final' = "whole" => final = "whole"
    BY DEF ExactInv, Crash, flagVars, planVars
  <1>1. ASSUME NEW i \in Seg
        PROVE  /\ part[i] \in Int /\ part'[i] \in Int /\ part'[i] <= part[i]
               /\ part[i] >= 0 => part'[i] >= 0
    <2>1. /\ part[i] \in Nat \union {-1} /\ part'[i] \in -1 .. Size
          /\ Flushed(i) <= part'[i] /\ part'[i] <= part[i] /\ at[i].from \in Nat
      <3>1. at[i] \in Stage
        BY DEF TaskInv, IInv, TypeInv, WorkersOK
      <3> QED BY <3>1 DEF Crash, TaskInv, IInv, TypeInv, DataOK, Stage
    <2>2. part[i] \in Int /\ part'[i] \in Int
      BY <2>1, SizeAssumption
    <2> QED BY <2>1, <2>2 DEF Flushed, Least
  <1>2. stage \in {"unlink", "verify"} => OnlyInPlace
    BY <1>0 DEF NoGap
  <1>3. PlanFixed' /\ Fit'
    <2>1. ~inPlace => \A i \in 0 .. N - 1 : part'[i] <= PlanLength(i)
      <3> SUFFICES ASSUME ~inPlace, NEW i \in 0 .. N - 1
                   PROVE  part'[i] <= PlanLength(i)
        OBVIOUS
      <3>1. i \in Seg /\ PlanLength(i) \in Nat /\ part[i] <= PlanLength(i)
        BY <1>0, PlanFacts, PartsFit
      <3> QED BY <1>1, <3>1
    <2> QED BY <1>0, <2>1, PlanKeptExact DEF Placed
  <1>4. StreamKept'
    <2> SUFFICES ASSUME server = "stream", side' = side, Resumable,
                        side.nseg > 0, side.written[0] > 0
                 PROVE  part'[0] >= 0
      BY <1>0 DEF StreamKept, Resumable, NoSide
    <2>1. stage \notin {"unlink", "verify"}
      BY <1>0, <1>2 DEF OnlyInPlace, PlanFixed
    <2>2. 0 \in Seg
      BY PlanAssumption DEF Seg
    <2> QED BY <1>0, <1>1, <2>1, <2>2 DEF StreamKept
  <1>5. PoolExact' /\ Complete'
    BY <1>0 DEF PoolExact, Complete
  <1>6. Assembly'
    <2>1. stage # "none"
      BY <1>0, TaskAssumption DEF Stages
    <2>2. final' = "whole" => OnlyInPlace
      BY <1>0, <1>2, <2>1 DEF Assembly
    <2> QED BY <1>0, <2>2 DEF Assembly, OnlyInPlace
  <1> QED BY <1>3, <1>4, <1>5, <1>6 DEF ExactInv

(* A call of the manager, or nothing.                                      *)
LEMMA UserExact ==
  ASSUME ExactInv, Pause \/ Resume \/ Cancel \/ UNCHANGED vars
  PROVE  ExactInv'
  <1>0. /\ PlanFixed /\ Fit /\ StreamKept /\ PoolExact /\ Complete /\ Assembly
    BY DEF ExactInv
  <1>1. /\ UNCHANGED <<segVars, workVars, endVars, planVars, stage, side, final>>
        /\ server' = server
        /\ \/ result' = result
           \/ stage # "none" /\ result' \in {"paused", "downloading"}
    BY DEF Pause, Resume, Cancel, ClearRunning, SetRunning, SetCancel, vars,
       poolVars, flagVars, taskVars
  <1>2. /\ UNCHANGED <<nseg, start, end, open, inPlace, written, part, aside>>
        /\ UNCHANGED <<taken, at, completed, splitting, fatal, abort, outcome>>
        /\ N' = N /\ \A i : PlanLength(i)' = PlanLength(i)
    BY <1>1, SamePlan DEF segVars, workVars, endVars, planVars
  <1>3. PlanFixed' /\ Fit'
    BY <1>0, <1>1, <1>2, PartsFit, PlanKeptExact DEF PlanFixed
  <1>4. StreamKept' /\ Complete'
    BY <1>0, <1>1, <1>2 DEF StreamKept, Complete, Resumable, Live
  <1>5. PoolExact'
    BY <1>0, <1>1, <1>2
    DEF PoolExact, WorkerExact, Receiving, Cursor, DiskInv, Live, Ranged
  <1>6. Assembly'
    BY <1>0, <1>1 DEF Assembly, OnlyInPlace
  <1> QED BY <1>3, <1>4, <1>5, <1>6 DEF ExactInv

----------------------------------------------------------------------------
(* A download that is reported completed is the remote file.               *)

LEMMA ExactInit == TaskInit => ExactInv
  <1> SUFFICES ASSUME TaskInit PROVE ExactInv
    OBVIOUS
  <1>1. /\ stage = "none" /\ side = NoSide /\ nseg = 0 /\ server \in Servers
        /\ part = [i \in Seg |-> -1] /\ aside = [i \in Seg |-> 0]
        /\ inPlace = FALSE /\ result = "none" /\ final = "absent"
    BY DEF TaskInit
  <1>2. Fit
    <2> SUFFICES ASSUME NEW i \in 0 .. N - 1 PROVE PartFile(i) <= PlanLength(i)
      BY DEF Fit
    <2>1. i \in Seg /\ PlanLength(i) \in Nat
      BY PlanFacts
    <2> QED BY <1>1, <2>1 DEF PartFile
  <1>3. PlanFixed /\ StreamKept
    BY <1>1 DEF PlanFixed, FixedPlan, Saved, NoSide, Placed, StreamKept,
       Resumable
  <1>4. PoolExact /\ Complete /\ Assembly
    BY <1>1 DEF PoolExact, Complete, Assembly
  <1> QED BY <1>2, <1>3, <1>4 DEF ExactInv

LEMMA SoundIsTrustworthy == Sound => Trustworthy
  BY DEF Sound, Trustworthy, NoGap, OnlyInPlace

LEMMA ExactStep ==
  ASSUME Sound
  PROVE  TaskInv /\ DiskKept /\ ExactInv /\ [TaskNext]_vars => ExactInv'
  <1> SUFFICES ASSUME TaskInv, DiskKept, ExactInv, [TaskNext]_vars
               PROVE  ExactInv'
    OBVIOUS
  <1>0. TaskInv' /\ DiskKept' /\ (NoGap \/ OnlyInPlace)
    BY TaskStep, DiskStep, SoundIsTrustworthy DEF Sound
  <1>1. CASE Start
    BY <1>1, StartExact
  <1>2. CASE Probe
    BY <1>0, <1>2, ProbeExact
  <1>3. CASE ProbeFails
    BY <1>3, ErrorExact DEF ProbeFails
  <1>4. CASE Transfer
    BY <1>4, TransferExact
  <1>5. CASE PoolEnds
    BY <1>0, <1>5, PoolEndsExact
  <1>6. CASE Merge \/ Unlink \/ Trim \/ Verify
    BY <1>6, MergeExact, UnlinkExact, TrimExact, VerifyExact
  <1>7. CASE Quit \/ Crash
    BY <1>0, <1>7, QuitExact, CrashExact
  <1>8. CASE Pause \/ Resume \/ Cancel \/ UNCHANGED vars
    BY <1>8, UserExact
  <1> QED BY <1>1, <1>2, <1>3, <1>4, <1>5, <1>6, <1>7, <1>8 DEF TaskNext

(* Where splits cannot leave a range short, a write that fails is not      *)
(* taken for the end of a segment, and no process ends between the parts'  *)
(* deletion and the sidecar's, the parts or the file written in place hold *)
(* every byte once when the pool has joined: ExactInv is invariant.        *)
THEOREM ExactInvariance ==
  ASSUME Sound
  PROVE  TaskSpec => []ExactInv
  <1>1. TaskSpec => []DiskKept
    BY DiskInit, DiskStep, SoundIsTrustworthy, TaskInvariance, PTL DEF TaskSpec
  <1> QED BY <1>1, ExactInit, ExactStep, TaskInvariance, PTL DEF TaskSpec

(* engine.py, run: a download that is reported completed is the remote     *)
(* file, byte for byte, whatever stops, failures, quits, crashes and       *)
(* resumes came before, for every size, plan, kind of server and way to    *)
(* write, under the conditions of Sound.                                   *)
THEOREM CompletedCorrect ==
  ASSUME Sound
  PROVE  TaskSpec => []CompletedWhole
  <1>1. ExactInv => CompletedWhole
    BY DEF ExactInv, Assembly, CompletedWhole
  <1> QED BY <1>1, ExactInvariance, PTL

(* Nothing is asked of the transfer where a hash is given.                 *)
Certified == result = "completed" => stage = "none" /\ final = "whole"

LEMMA CertifiedStep ==
  ASSUME Hash
  PROVE  TaskInv /\ Certified /\ [TaskNext]_vars => Certified'
  <1> SUFFICES ASSUME TaskInv, Certified, [TaskNext]_vars PROVE Certified'
    OBVIOUS
  <1>0. StageTyped
    BY DEF TaskInv
  <1>1. CASE Start
    BY <1>1 DEF Start, Certified
  <1>2. CASE Probe
    BY <1>2 DEF Probe, Planned, PlanOpen, Certified
  <1>3. CASE ProbeFails
    BY <1>3 DEF ProbeFails, Error, Leaves, Certified
  <1>4. CASE Transfer
    BY <1>4 DEF Transfer, Carried, Certified
  <1>5. CASE PoolEnds
    <2>1. CASE UNCHANGED <<result, final>> /\ stage = "pool"
      BY <2>1 DEF Certified
    <2>2. CASE FallBack
      BY <2>2 DEF FallBack, PlanOpen, Planned, Certified
    <2>3. CASE Error("failed") \/ Error("stopped")
      BY <2>3 DEF Error, Leaves, Certified
    <2> QED BY <1>5, <2>1, <2>2, <2>3 DEF PoolEnds
  <1>6. CASE Merge
    BY <1>6 DEF Merge, Certified
  <1>7. CASE Unlink \/ Trim
    BY <1>7 DEF Unlink, Trim, Assembled, Certified
  <1>8. CASE Verify
    BY <1>8 DEF Verify, Completes, Leaves, Certified
  <1>9. CASE Pause \/ Resume \/ Cancel \/ UNCHANGED vars
    BY <1>9 DEF Pause, Resume, Cancel, vars, taskVars, Certified
  <1>10. CASE Quit \/ Crash
    <2>1. stage # "none"
      BY <1>10, TaskAssumption DEF Quit, Crash, Stages
    <2> QED BY <1>10, <2>1 DEF Quit, Leaves, Crash, Certified
  <1> QED BY <1>1, <1>2, <1>3, <1>4, <1>5, <1>6, <1>7, <1>8, <1>9, <1>10
          DEF TaskNext

(* engine.py, run: with an expected hash a download that is reported       *)
(* completed is the remote file, under every split, failing write, switch  *)
(* of mode, quit and crash there may be.                                   *)
THEOREM VerifiedCorrect ==
  ASSUME Hash
  PROVE  TaskSpec => []CompletedWhole
  <1>1. TaskInit => Certified
    BY DEF TaskInit, Certified
  <1>2. Certified => CompletedWhole
    BY DEF Certified, CompletedWhole
  <1> QED BY <1>1, <1>2, CertifiedStep, TaskInvariance, PTL DEF TaskSpec

----------------------------------------------------------------------------
(* The task implements DownloadPromise.                                    *)

(* What a task at work reports is its state, and that says where it is.    *)
Reports ==
    /\ stage # "none" => result = state
    /\ stage = "analyse" => state \in {"connecting", "paused", "downloading"}
    /\ stage \in {"pool", "merge", "unlink", "trim"}
          => state \in {"downloading", "paused"}
    /\ stage = "verify" => state = "verifying"

Status == IF stage = "none" /\ result \notin Terminal THEN "idle" ELSE result

LEMMA ReportsStep ==
  TaskInv /\ Reports /\ [TaskNext]_vars => Reports'
  <1> SUFFICES ASSUME TaskInv, Reports, [TaskNext]_vars PROVE Reports'
    OBVIOUS
  <1>1. CASE Start
    BY <1>1 DEF Start, Reports
  <1>2. CASE Probe
    BY <1>2 DEF Probe, Planned, PlanOpen, Reports
  <1>3. CASE ProbeFails
    BY <1>3 DEF ProbeFails, Error, Leaves, Reports
  <1>4. CASE Transfer
    BY <1>4 DEF Transfer, Carried, Reports
  <1>5. CASE PoolEnds
    <2>1. CASE UNCHANGED <<state, result>> /\ stage' \in {"trim", "merge"}
      BY <1>5, <2>1 DEF PoolEnds, Reports
    <2>2. CASE FallBack
      BY <2>2 DEF FallBack, PlanOpen, Planned, Reports
    <2>3. CASE Error("failed") \/ Error("stopped")
      BY <2>3 DEF Error, Leaves, Reports
    <2> QED BY <1>5, <2>1, <2>2, <2>3 DEF PoolEnds
  <1>6. CASE Merge
    BY <1>6 DEF Merge, Reports, planVars
  <1>7. CASE Unlink \/ Trim
    BY <1>7 DEF Unlink, Trim, Assembled, Completes, Reports
  <1>8. CASE Verify
    BY <1>8 DEF Verify, Completes, Leaves, Reports
  <1>9. CASE Pause \/ Resume \/ Cancel \/ UNCHANGED vars
    BY <1>9 DEF Pause, Resume, Cancel, vars, taskVars, Reports
  <1>10. CASE Quit \/ Crash
    BY <1>10 DEF Quit, Leaves, Crash, Reports
  <1> QED BY <1>1, <1>2, <1>3, <1>4, <1>5, <1>6, <1>7, <1>8, <1>9, <1>10
          DEF TaskNext

(* Reports of DownloadPromise in the order in which the task makes them.   *)
AtWorkStates == {"connecting", "paused", "downloading", "verifying"}
LEMMA Reportable ==
  /\ \A s \in {"idle", "failed", "stopped", "verification_failed"} :
        "connecting" \in Promise!Follows[s]
  /\ \A s \in AtWorkStates : "idle" \in Promise!Follows[s]
  /\ \A s \in AtWorkStates \ {"verifying"} : "failed" \in Promise!Follows[s]
  /\ \A s \in {"paused", "downloading"} :
        {"stopped", "connecting", "verifying", "completed"}
           \subseteq Promise!Follows[s]
  /\ \A s \in {"connecting", "downloading"} : "paused" \in Promise!Follows[s]
  /\ \A s \in {"connecting", "paused"} : "downloading" \in Promise!Follows[s]
  /\ "completed" \in Promise!Follows["verifying"]
  BY DEF Promise!Follows, AtWorkStates

(* The three ways a step may look: a report, a write, nothing.             *)
LEMMA Looks ==
  ASSUME StageTyped',
         final = "whole" => final' = "whole",
         \/ /\ Status' \in Promise!Follows[Status]
            /\ Status' = "completed" => final' = "whole"
            /\ Status' # "verification_failed"
         \/ Status' = Status /\ Status \in {"downloading", "paused"}
         \/ Status' = Status /\ final' = final
  PROVE  [Promise!Next]_(Promise!vars)
  BY DEF StageTyped, Status, Promise!Next, Promise!Report, Promise!Write,
     Promise!vars, Promise!Files

LEMMA PlannedLooks ==
  ASSUME stage # "none", Status \in {"connecting", "paused", "downloading"},
         StageTyped', NEW n, NEW isOpen, NEW first, NEW last, NEW done,
         NEW size, NEW data, Planned(n, isOpen, first, last, done, size, data)
  PROVE  [Promise!Next]_(Promise!vars)
  <1>1. Status' \in {"downloading", "paused"}
    BY DEF Planned, Status, Terminal
  <1>2. final = "whole" => final' = "whole"
    BY DEF Planned, Prepared
  <1>3. Status' = Status \/ Status' \in Promise!Follows[Status]
    BY <1>1, Reportable
  <1> QED BY <1>1, <1>2, <1>3, Looks

LEMMA ErrorLooks ==
  ASSUME Status \in {"connecting", "paused", "downloading"}, StageTyped',
         NEW s \in {"failed", "stopped"}, Error(s), final' = final,
         s = "stopped" => Status # "connecting"
  PROVE  [Promise!Next]_(Promise!vars)
  <1>1. Status' \in {"idle", s}
    BY DEF Error, Leaves, Status, Terminal
  <1>2. Status' \in Promise!Follows[Status]
    BY <1>1, Reportable DEF AtWorkStates
  <1> QED BY <1>1, <1>2, Looks

LEMMA PoolEndsLooks ==
  ASSUME Reports, PoolEnds, StageTyped'
  PROVE  [Promise!Next]_(Promise!vars)
  <1>0. Status \in {"downloading", "paused"} /\ stage = "pool" /\ result = Status
    BY DEF PoolEnds, Reports, Status
  <1>1. CASE outcome = "joined"
    <2>1. Status' = Status /\ final' = final
      BY <1>0, <1>1 DEF PoolEnds, Status
    <2> QED BY <2>1, Looks
  <1>2. CASE FallBack
    <2>1. CASE stage' = "analyse" /\ result' = "connecting" /\ final' = final
      <3>1. Status' = "connecting"
        BY <2>1 DEF Status
      <3>2. Status' \in Promise!Follows[Status]
        BY <1>0, <3>1, Reportable
      <3> QED BY <2>1, <3>1, <3>2, Looks
    <2>2. ASSUME NEW left, PlanOpen(total, left) PROVE [Promise!Next]_(Promise!vars)
      <3>1. PICK first, last :
               Planned(1, TRUE, first, last, first, total, left)
        BY <2>2 DEF PlanOpen
      <3> QED BY <1>0, <3>1, PlannedLooks
    <2> QED BY <1>2, <2>1, <2>2 DEF FallBack
  <1>3. ASSUME NEW s \in {"failed", "stopped"}, Error(s), final' = final
        PROVE  [Promise!Next]_(Promise!vars)
    BY <1>0, <1>3, ErrorLooks
  <1> QED BY <1>1, <1>2, <1>3 DEF PoolEnds

LEMMA AssembleLooks ==
  ASSUME TaskInv, DiskKept, ExactInv, ExactInv', Reports, StageTyped',
         Merge \/ Unlink \/ Trim \/ Verify
  PROVE  [Promise!Next]_(Promise!vars)
  <1>1. CASE Merge
    <2>1. /\ Status' = Status /\ Status \in {"downloading", "paused"}
          /\ stage' = "unlink"
      BY <1>1 DEF Merge, Reports, Status
    <2>2. final' = "whole"
      BY <2>1 DEF ExactInv, Assembly
    <2> QED BY <2>1, <2>2, Looks
  <1>2. CASE Assembled /\ stage \in {"unlink", "trim"}
    <2>1. Status \in {"downloading", "paused"}
      BY <1>2 DEF Reports, Status
    <2>2. /\ Status' \in {"verifying", "completed"}
          /\ stage' = "verify" \/ result' = "completed"
      BY <1>2 DEF Assembled, Completes, Status, Terminal
    <2>3. final' = "whole"
      BY <2>2 DEF ExactInv, Assembly
    <2>4. Status' \in Promise!Follows[Status]
      BY <2>1, <2>2, Reportable
    <2> QED BY <2>2, <2>3, <2>4, Looks
  <1>3. CASE Unlink /\ UNCHANGED <<stage, state, result, side>>
    <2>1. Status' = Status /\ final' = final
      BY <1>3 DEF Unlink, Status
    <2> QED BY <2>1, Looks
  <1>4. CASE Verify
    <2>1. final = "whole" /\ final' = "whole" /\ Completes
      BY <1>4 DEF ExactInv, Assembly, Verify
    <2>2. Status = "verifying" /\ Status' = "completed"
      BY <1>4, <2>1 DEF Verify, Reports, Status, Completes, Terminal
    <2>3. Status' \in Promise!Follows[Status]
      BY <2>2, Reportable
    <2> QED BY <2>1, <2>2, <2>3, Looks
  <1> QED BY <1>1, <1>2, <1>3, <1>4 DEF Unlink, Trim

(* The end of the process is never a report, and spares a whole file.      *)
LEMMA EndsLooks ==
  ASSUME NoGap \/ OnlyInPlace, DiskKept, ExactInv, Reports, StageTyped',
         Quit \/ Crash
  PROVE  [Promise!Next]_(Promise!vars)
  <1>1. stage \in {"analyse", "pool", "merge", "unlink", "trim", "verify"}
    BY TaskAssumption DEF Quit, Crash, Stages
  <1>2. Status \in AtWorkStates /\ result = Status
    BY <1>1 DEF Reports, Status, AtWorkStates
  <1>3. Status' = "idle"
    <2>1. stage' = "none" /\ result' \in {result, "none"}
      BY DEF Quit, Leaves, Crash
    <2> QED BY <1>2, <2>1 DEF Status, AtWorkStates, Terminal
  <1>4. Status' \in Promise!Follows[Status]
    BY <1>2, <1>3, Reportable
  <1>5. final = "whole" => final' = "whole"
    <2>1. CASE stage \in {"merge", "unlink"}
      <3>1. ~OnlyInPlace
        BY <2>1, AlwaysInPlace DEF ExactInv, Placed
      <3>2. CASE stage = "merge"
        BY <3>1, <3>2, NotYet DEF ExactInv
      <3>3. CASE stage = "unlink"
        BY <3>3 DEF Quit, Crash
      <3> QED BY <2>1, <3>2, <3>3
    <2>2. CASE stage \notin {"merge", "unlink"}
      BY <2>2 DEF Quit, Crash
    <2> QED BY <2>1, <2>2
  <1> QED BY <1>3, <1>4, <1>5, Looks

LEMMA RefinesStep ==
  ASSUME Sound
  PROVE  /\ TaskInv /\ DiskKept /\ ExactInv /\ Reports
         /\ TaskInv' /\ ExactInv' /\ [TaskNext]_vars
         => [Promise!Next]_(Promise!vars)
  <1> SUFFICES ASSUME TaskInv, DiskKept, ExactInv, Reports, TaskInv', ExactInv',
                      [TaskNext]_vars
               PROVE  [Promise!Next]_(Promise!vars)
    OBVIOUS
  <1>0. StageTyped /\ StageTyped' /\ (NoGap \/ OnlyInPlace)
    BY DEF TaskInv, Sound
  <1>1. CASE Start
    <2>1. /\ Status \in {"idle", "failed", "stopped", "verification_failed"}
          /\ Status' = "connecting" /\ final' = final
      BY <1>1 DEF Start, Status, Terminal
    <2>2. Status' \in Promise!Follows[Status]
      BY <2>1, Reportable
    <2> QED BY <1>0, <2>1, <2>2, Looks
  <1>2. CASE Probe \/ ProbeFails
    <2>1. /\ Status \in {"connecting", "paused", "downloading"}
          /\ stage = "analyse"
      BY <1>2 DEF Probe, ProbeFails, Reports, Status
    <2>2. CASE ProbeFails
      BY <1>0, <2>1, <2>2, ErrorLooks DEF ProbeFails
    <2>3. CASE Probe
      <3>1. PICK n, isOpen, first, last, done, size, data :
               Planned(n, isOpen, first, last, done, size, data)
        BY <2>3 DEF Probe, PlanOpen
      <3> QED BY <1>0, <2>1, <3>1, PlannedLooks
    <2> QED BY <1>2, <2>2, <2>3
  <1>3. CASE PoolEnds
    BY <1>0, <1>3, PoolEndsLooks
  <1>4. CASE Merge \/ Unlink \/ Trim \/ Verify
    BY <1>0, <1>4, AssembleLooks
  <1>5. CASE Quit \/ Crash
    BY <1>0, <1>5, EndsLooks
  <1>6. CASE UNCHANGED <<stage, result, final>>
    BY <1>0, <1>6, Looks DEF Status
  <1>7. CASE Transfer \/ Cancel \/ UNCHANGED vars
    BY <1>6, <1>7 DEF Transfer, Carried, Cancel, vars, taskVars
  <1>8. CASE Pause \/ Resume
    <2>1. CASE Pause
      <3>1. /\ Status \in {"connecting", "downloading"} /\ Status' = "paused"
            /\ final' = final
        BY <2>1 DEF Pause, Reports, Status, Terminal
      <3>2. Status' \in Promise!Follows[Status]
        BY <3>1, Reportable
      <3> QED BY <1>0, <3>1, <3>2, Looks
    <2>2. CASE Resume /\ state = "paused"
      <3>1. /\ Status = "paused" /\ Status' = "downloading" /\ final' = final
        BY <2>2 DEF Resume, Reports, Status, Terminal
      <3>2. Status' \in Promise!Follows[Status]
        BY <3>1, Reportable
      <3> QED BY <1>0, <3>1, <3>2, Looks
    <2>3. CASE Resume /\ state # "paused"
      BY <1>6, <2>3 DEF Resume
    <2> QED BY <1>8, <2>1, <2>2, <2>3
  <1> QED BY <1>1, <1>2, <1>3, <1>4, <1>5, <1>7, <1>8 DEF TaskNext

(* The detailed task implements DownloadPromise: its reports follow one    *)
(* another as promised, completed is reported last and only of a whole     *)
(* file, and no later attempt, quit or crash damages a file once whole.    *)
THEOREM PromiseKept ==
  ASSUME Sound
  PROVE  TaskSpec => KeepsPromise
  <1>1. TaskInit => Promise!Init /\ Reports
    BY DEF TaskInit, Promise!Init, Reports, Terminal
  <1>2. TaskSpec => []DiskKept
    BY DiskInit, DiskStep, SoundIsTrustworthy, TaskInvariance, PTL DEF TaskSpec
  <1>3. TaskSpec => []Reports
    BY <1>1, ReportsStep, TaskInvariance, PTL DEF TaskSpec
  <1> QED BY <1>1, <1>2, <1>3, RefinesStep, TaskInvariance, ExactInvariance, PTL
          DEF TaskSpec, KeepsPromise, Promise!Spec
=============================================================================
