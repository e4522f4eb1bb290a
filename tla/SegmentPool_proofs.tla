------------------------- MODULE SegmentPool_proofs -------------------------
(***************************************************************************)
(* Theorems about SegmentPool, for every file size, number of segments,    *)
(* workers and retries, and every kind of server.                          *)
(***************************************************************************)
EXTENDS SegmentPool, FiniteSetTheorems, TLAPS

(* The type invariant is not inductive: a worker that ends would take      *)
(* "alive" below zero, were there not a live worker for every segment in   *)
(* hand.                                                                   *)
DataOK ==
    /\ nseg \in 0 .. MaxSegs
    /\ start \in [Seg -> 0 .. Size]
    /\ end \in [Seg -> -1 .. Size - 1]
    /\ open \in BOOLEAN
    /\ inPlace \in BOOLEAN
    /\ written \in [Seg -> Nat]
    /\ part \in [Seg -> Nat \union {-1}]
    /\ taken \in 0 .. nseg

WorkersOK ==
    /\ alive \in 0 .. MaxWorkers
    /\ at \in [Seg -> Stage]
    /\ completed \subseteq Seg
    /\ splitting \subseteq Active
    /\ fatal \in {"none", "permanent", "range"}
    /\ abort \in BOOLEAN
    /\ Cardinality(Active) <= alive

FlagsOK ==
    /\ server \in AllServers
    /\ running \in BOOLEAN
    /\ cancel \in BOOLEAN
    /\ outcome \in {"running", "joined", "aborted", "permanent", "range"}

TypeInv == DataOK /\ WorkersOK /\ FlagsOK

(* The inductive type invariant is stronger than the one that is checked.  *)
LEMMA TypeInvImpliesTypeOK == TypeInv => TypeOK
  BY DEF TypeInv, TypeOK, DataOK, WorkersOK, FlagsOK

----------------------------------------------------------------------------
(* Arithmetic of the plan.                                                 *)

(* The floor of a quotient is the one that its product brackets.           *)
LEMMA DivFloor ==
  ASSUME NEW a \in Nat, NEW n \in Nat \ {0}
  PROVE  /\ a \div n \in Nat
         /\ n * (a \div n) <= a
         /\ a < n * (a \div n) + n
  BY SMT

(* A product with a smaller factor is not larger.                          *)
LEMMA ProductMonotone ==
  ASSUME NEW q \in Nat, NEW i \in Nat, NEW n \in Nat, i <= n
  PROVE  i * q \in Nat /\ i * q <= n * q
  BY SMT

(* One factor more adds the other one.                                     *)
LEMMA ProductStep ==
  ASSUME NEW q \in Nat, NEW i \in Nat
  PROVE  (i + 1) * q = i * q + q
  BY SMT

(* Every planned range begins in the file, at or before its end.           *)
LEMMA PlanBounds ==
  ASSUME NEW n \in Nat \ {0}, NEW i \in 0 .. n - 1
  PROVE  /\ PlanStart(n, i) \in 0 .. Size
         /\ PlanEnd(n, i) \in -1 .. Size - 1
  <1> DEFINE q == Size \div n
  <1>1. q \in Nat /\ n * q <= Size
    BY SizeAssumption, DivFloor
  <1>2. i * q \in Nat /\ i * q <= n * q
    BY <1>1, ProductMonotone
  <1>3. (i + 1) * q \in Nat /\ (i + 1) * q <= n * q
    BY <1>1, ProductMonotone
  <1>4. PlanStart(n, i) = i * q /\ PlanStart(n, i + 1) = (i + 1) * q
    BY DEF PlanStart
  <1>5. n * q \in Int
    BY <1>1
  <1> HIDE DEF q
  <1>6. PlanStart(n, i) \in 0 .. Size
    BY <1>1, <1>2, <1>4, <1>5, SizeAssumption
  <1>7. PlanEnd(n, i) \in -1 .. Size - 1
    BY <1>1, <1>3, <1>4, <1>5, SizeAssumption DEF PlanEnd
  <1> QED BY <1>6, <1>7

----------------------------------------------------------------------------
(* Workers and the segments they have in hand.                             *)

(* The segments in hand can be counted.                                    *)
LEMMA ActiveFinite == IsFiniteSet(Active) /\ Cardinality(Active) \in Nat
  <1>1. Active \in SUBSET (0 .. MaxSegs - 1)
    BY DEF Active, Seg
  <1>2. IsFiniteSet(0 .. MaxSegs - 1)
    BY FS_Interval, PlanAssumption
  <1>3. IsFiniteSet(Active)
    BY <1>1, <1>2, FS_Subset
  <1> QED BY <1>3, FS_CardinalityType

(* A worker that lets its segment go leaves one segment fewer in hand.     *)
LEMMA LeaveActive ==
  ASSUME NEW i \in Active, at \in [Seg -> Stage], at' = [at EXCEPT ![i] = Rest]
  PROVE  /\ at' \in [Seg -> Stage]
         /\ Active' = Active \ {i}
         /\ Cardinality(Active) \in Nat
         /\ Cardinality(Active') = Cardinality(Active) - 1
  <1>1. i \in Seg
    BY DEF Active
  <1>2. Rest \in Stage /\ Rest.pc = "rest"
    BY DEF Rest, InHand, Stage
  <1>3. at' \in [Seg -> Stage]
    BY <1>1, <1>2
  <1>4. Active' = Active \ {i}
    BY <1>1, <1>2 DEF Active
  <1>5. Cardinality(Active \ {i}) = Cardinality(Active) - 1
    BY ActiveFinite, FS_RemoveElement
  <1> QED BY <1>3, <1>4, <1>5, ActiveFinite

(* However a worker lets its segment go, the workers stay well formed.     *)
LEMMA LeavingKeepsWorkers ==
  ASSUME TypeInv, NEW i \in Active,
         \/ Finish(i) \/ Abort(i) \/ Vanish(i)
         \/ Fail(i, "permanent") \/ Fail(i, "range")
  PROVE  WorkersOK'
  <1>1. /\ at' \in [Seg -> Stage]
        /\ Active' = Active \ {i}
        /\ Cardinality(Active) \in Nat
        /\ Cardinality(Active') = Cardinality(Active) - 1
    <2>1. at' = [at EXCEPT ![i] = Rest]
      BY DEF Finish, Abort, Vanish, Fail, Leave
    <2> QED BY <2>1, LeaveActive DEF TypeInv, WorkersOK
  <1>2. splitting' \subseteq Active'
    BY <1>1 DEF Finish, Abort, Vanish, Fail, Leave, TypeInv, WorkersOK
  <1>3. /\ completed' \subseteq Seg
        /\ fatal' \in {"none", "permanent", "range"}
        /\ abort' \in BOOLEAN
    BY DEF Finish, Abort, Vanish, Fail, TypeInv, WorkersOK, Active
  <1>4. alive' = alive \/ alive' = alive - 1
    BY DEF Finish, Abort, Vanish, Fail
  <1>5. alive' \in 0 .. MaxWorkers /\ Cardinality(Active') <= alive'
    <2>1. alive \in 0 .. MaxWorkers /\ Cardinality(Active) <= alive
      BY DEF TypeInv, WorkersOK
    <2>2. Cardinality(Active') \in Nat
      <3>1. IsFiniteSet(Active \ {i})
        BY ActiveFinite, FS_RemoveElement
      <3> QED BY <3>1, <1>1, FS_CardinalityType
    <2> QED BY <1>1, <1>4, <2>1, <2>2, LimitsAssumption
  <1> QED BY <1>1, <1>2, <1>3, <1>5 DEF WorkersOK

(* A worker that goes on with its segment keeps them so too.               *)
LEMMA StayingKeepsWorkers ==
  ASSUME TypeInv, NEW i \in Active, NEW r \in Stage, r.pc # "rest",
         at' = [at EXCEPT ![i] = r],
         UNCHANGED <<alive, completed, splitting, fatal, abort>>
  PROVE  WorkersOK'
  <1>1. i \in Seg /\ at \in [Seg -> Stage]
    BY DEF Active, TypeInv, WorkersOK
  <1>2. at' \in [Seg -> Stage]
    BY <1>1
  <1>3. Active' = Active
    BY <1>1 DEF Active
  <1> QED BY <1>2, <1>3 DEF TypeInv, WorkersOK

----------------------------------------------------------------------------
(* The type invariant, action by action.                                   *)

(* A pool over a plan is well typed (SegmentPool.__init__).                *)
LEMMA TypeInvInit == PoolInit => TypeInv
  <1> SUFFICES ASSUME PoolInit PROVE TypeInv
    OBVIOUS
  <1>1. nseg \in Nat \ {0} /\ nseg <= MaxSegs /\ nseg <= Size
    BY PlanAssumption, SizeAssumption DEF PoolInit
  <1>2. start \in [Seg -> 0 .. Size] /\ end \in [Seg -> -1 .. Size - 1]
    <2>1. \A i \in 0 .. nseg - 1 :
             /\ PlanStart(nseg, i) \in 0 .. Size
             /\ PlanEnd(nseg, i) \in -1 .. Size - 1
      BY <1>1, PlanBounds
    <2> QED BY <1>1, <2>1, SizeAssumption DEF PoolInit, Seg
  <1>3. written \in [Seg -> Nat] /\ part \in [Seg -> Nat \union {-1}]
    BY SizeAssumption DEF PoolInit
  <1>4. DataOK
    <2>1. open \in BOOLEAN /\ inPlace \in BOOLEAN /\ taken = 0
      BY DEF PoolInit, PoolReady
    <2>2. nseg \in 0 .. MaxSegs /\ taken \in 0 .. nseg
      BY <1>1, <2>1, PlanAssumption
    <2> QED BY <1>2, <1>3, <2>1, <2>2 DEF DataOK
  <1>5. Active = {}
    BY DEF PoolInit, PoolReady, Active, Rest, InHand
  <1>6. InitialWorkers \in 0 .. MaxWorkers
    BY LimitsAssumption DEF InitialWorkers, Least
  <1>7. WorkersOK
    <2>1. at \in [Seg -> Stage]
      BY DEF PoolInit, PoolReady, Rest, InHand, Stage
    <2>2. Cardinality(Active) = 0
      BY <1>5, FS_EmptySet
    <2>3. /\ alive \in 0 .. MaxWorkers /\ 0 <= alive
          /\ completed = {} /\ splitting = {}
          /\ fatal = "none" /\ abort = FALSE
      BY <1>6 DEF PoolInit, PoolReady
    <2> QED BY <2>1, <2>2, <2>3 DEF WorkersOK
  <1>8. FlagsOK
    BY SwitchAssumption DEF PoolInit, PoolReady, FlagsOK
  <1> QED BY <1>4, <1>7, <1>8 DEF TypeInv

(* A segment at another await than "rest" is in hand.                      *)
LEMMA AtActive ==
  ASSUME NEW i \in Seg, NEW where, where # "rest", At(i, where)
  PROVE  i \in Active
  BY DEF At, Active

(* What the type invariant says of one segment.                            *)
LEMMA StageChange ==
  ASSUME TypeInv, NEW i \in Seg
  PROVE  /\ at[i] \in Stage
         /\ written[i] \in Nat
         /\ start[i] \in 0 .. Size
         /\ end[i] \in -1 .. Size - 1
         /\ part[i] \in Nat \union {-1}
  BY DEF TypeInv, DataOK, WorkersOK

(* A worker that moves to its next await keeps its segment.                *)
LEMMA MoveKeepsWorkers ==
  ASSUME TypeInv, NEW i \in Active,
         NEW where \in {"attempt", "request", "stream", "held", "limit"},
         Move(i, where)
  PROVE  WorkersOK'
  <1> DEFINE r == [at[i] EXCEPT !.pc = where]
  <1>1. i \in Seg /\ at[i] \in Stage
    BY StageChange DEF Active
  <1>2. r \in Stage /\ r.pc # "rest"
    BY <1>1 DEF Stage
  <1>3. at' = [at EXCEPT ![i] = r]
    BY DEF Move
  <1> HIDE DEF r
  <1> QED BY <1>2, <1>3, StayingKeepsWorkers DEF Move

(* So does one that tries again; one that gives up ends (segment.py, run). *)
LEMMA RetryKeepsWorkers ==
  ASSUME TypeInv, NEW i \in Active, Retry(i)
  PROVE  WorkersOK'
  <1> DEFINE r == InHand("attempt", at[i].tries + 1)
  <1>1. i \in Seg /\ at[i] \in Stage
    BY StageChange DEF Active
  <1>2. CASE at[i].tries >= RetryMax
    BY <1>2, LeavingKeepsWorkers DEF Retry
  <1>3. CASE ~(at[i].tries >= RetryMax)
    <2>1. r \in Stage /\ r.pc # "rest"
      BY <1>1 DEF Stage, InHand
    <2>2. at' = [at EXCEPT ![i] = r]
      BY <1>3 DEF Retry
    <2> HIDE DEF r
    <2> QED BY <1>3, <2>1, <2>2, StayingKeepsWorkers DEF Retry
  <1> QED BY <1>2, <1>3

(* An idle worker takes the next segment (pool.py, _worker).               *)
LEMMA GetType == ASSUME TypeInv, Get PROVE TypeInv'
  <1> DEFINE r == InHand("attempt", 1)
  <1>1. taken \in Seg /\ at \in [Seg -> Stage] /\ r \in Stage /\ r.pc = "attempt"
    <2>1. taken \in Nat /\ nseg \in 0 .. MaxSegs /\ taken < nseg
      BY PlanAssumption DEF Get, TypeInv, DataOK
    <2>2. taken \in Seg
      BY <2>1, PlanAssumption DEF Seg
    <2>3. r \in Stage /\ r.pc = "attempt"
      BY DEF InHand, Stage
    <2> QED BY <2>2, <2>3 DEF TypeInv, WorkersOK
  <1>2. at' = [at EXCEPT ![taken] = r] /\ at' \in [Seg -> Stage]
    BY <1>1 DEF Get
  <1>3. Active' = Active \union {taken}
    BY <1>1, <1>2 DEF Active
  <1>4. Cardinality(Active') <= alive
    <2>1. Cardinality(Active') \in {Cardinality(Active), Cardinality(Active) + 1}
      BY <1>3, ActiveFinite, FS_AddElement
    <2> QED BY <2>1, ActiveFinite, LimitsAssumption
            DEF Get, TypeInv, WorkersOK
  <1>5. WorkersOK'
    BY <1>2, <1>3, <1>4 DEF Get, endVars, TypeInv, WorkersOK
  <1>6. DataOK'
    BY DEF Get, segVars, TypeInv, DataOK
  <1>7. FlagsOK'
    BY DEF Get, flagVars, endVars, TypeInv, FlagsOK
  <1> QED BY <1>5, <1>6, <1>7 DEF TypeInv

(* The steps of a worker.                                                  *)

(* An attempt begins, or ends at once (segment.py, _attempt).              *)
LEMMA AttemptType ==
  ASSUME TypeInv, NEW i \in Seg, Attempt(i)
  PROVE  TypeInv'
  <1>1. i \in Active
    BY AtActive DEF Attempt
  <1>2. WorkersOK'
    <2>1. CASE Finish(i) \/ Abort(i)
      BY <1>1, <2>1, LeavingKeepsWorkers
    <2>2. CASE /\ at' = [at EXCEPT ![i].pc = "request", ![i].asked = end[i],
                                   ![i].from = written[i]]
               /\ UNCHANGED <<alive, completed, splitting, fatal, abort>>
      <3> DEFINE r == [at[i] EXCEPT !.pc = "request", !.asked = end[i],
                                    !.from = written[i]]
      <3>1. r \in Stage /\ r.pc # "rest"
        <4>1. at[i] \in Stage /\ end[i] \in Int /\ written[i] \in Nat
          BY StageChange, SizeAssumption
        <4> QED BY <4>1 DEF Stage
      <3>2. at' = [at EXCEPT ![i] = r]
        BY <2>2
      <3> HIDE DEF r
      <3> QED BY <1>1, <2>2, <3>1, <3>2, StayingKeepsWorkers
    <2> QED BY <2>1, <2>2 DEF Attempt
  <1>3. DataOK' /\ FlagsOK'
    BY DEF Attempt, segVars, flagVars, TypeInv, DataOK, FlagsOK
  <1> QED BY <1>2, <1>3 DEF TypeInv

(* The response carries the range (segment.py, _attempt).                  *)
LEMMA BodyType ==
  ASSUME TypeInv, NEW i \in Seg, Body(i)
  PROVE  TypeInv'
  <1>1. i \in Active
    BY AtActive DEF Body
  <1>2. WorkersOK'
    BY <1>1, MoveKeepsWorkers DEF Body
  <1>3. part' \in [Seg -> Nat \union {-1}]
    <2>1. Opened(i) \in Nat \union {-1}
      BY StageChange DEF Opened, Greatest
    <2> QED BY <2>1 DEF Body, TypeInv, DataOK
  <1>4. DataOK' /\ FlagsOK'
    BY <1>3 DEF Body, flagVars, TypeInv, DataOK, FlagsOK
  <1> QED BY <1>2, <1>4 DEF TypeInv

(* The server ignores the range (segment.py, _attempt).                    *)
LEMMA NoRangeType ==
  ASSUME TypeInv, NEW i \in Seg, NoRange(i)
  PROVE  TypeInv'
  <1>1. i \in Active
    BY AtActive DEF NoRange
  <1>2. WorkersOK'
    BY <1>1, LeavingKeepsWorkers DEF NoRange
  <1>3. DataOK' /\ FlagsOK'
    BY DEF NoRange, segVars, flagVars, TypeInv, DataOK, FlagsOK
  <1> QED BY <1>2, <1>3 DEF TypeInv

(* A 416 (segment.py, _attempt).                                           *)
LEMMA PastEndType ==
  ASSUME TypeInv, NEW i \in Seg, PastEnd(i), open
  PROVE  TypeInv'
  <1>1. i \in Active
    BY AtActive DEF PastEnd
  <1>2. WorkersOK'
    BY <1>1, LeavingKeepsWorkers DEF PastEnd
  <1>3. written' \in [Seg -> Nat]
    BY DEF PastEnd, TypeInv, DataOK
  <1>4. DataOK' /\ FlagsOK'
    BY <1>3 DEF PastEnd, flagVars, TypeInv, DataOK, FlagsOK
  <1> QED BY <1>2, <1>4 DEF TypeInv

(* A status or a network error (segment.py, run).                          *)
LEMMA FaultType ==
  ASSUME TypeInv, NEW i \in Seg, NEW error \in Faults, Fault(i, error)
  PROVE  TypeInv'
  <1>1. i \in Active
    BY AtActive DEF Fault
  <1>2. WorkersOK'
    BY <1>1, RetryKeepsWorkers, LeavingKeepsWorkers DEF Fault
  <1>3. DataOK' /\ FlagsOK'
    BY DEF Fault, segVars, flagVars, TypeInv, DataOK, FlagsOK
  <1> QED BY <1>2, <1>3 DEF TypeInv

(* A chunk arrives (segment.py, _attempt).                                 *)
LEMMA ReceiveType ==
  ASSUME TypeInv, NEW i \in Seg, Receive(i)
  PROVE  TypeInv'
  <1>1. i \in Active
    BY AtActive DEF Receive
  <1>2. PICK n \in 1 .. Least(ChunkMax, at[i].asked - Cursor(i) + 1) :
           at' = [at EXCEPT ![i].pc = "held", ![i].chunk = n]
    BY DEF Receive
  <1>3. n \in Nat
    <2>1. at[i].asked \in Int /\ Cursor(i) \in Int
      BY StageChange, SizeAssumption DEF Stage, Cursor
    <2>2. Least(ChunkMax, at[i].asked - Cursor(i) + 1) \in Int
      BY <2>1, LimitsAssumption DEF Least
    <2> QED BY <2>2
  <1>4. WorkersOK'
    <2> DEFINE r == [at[i] EXCEPT !.pc = "held", !.chunk = n]
    <2>1. r \in Stage /\ r.pc # "rest"
      BY <1>3, StageChange DEF Stage
    <2>2. at' = [at EXCEPT ![i] = r]
      BY <1>2
    <2>3. UNCHANGED <<alive, completed, splitting, fatal, abort>>
      BY DEF Receive, endVars
    <2> HIDE DEF r
    <2> QED BY <1>1, <2>1, <2>2, <2>3, StayingKeepsWorkers
  <1>5. DataOK' /\ FlagsOK'
    BY DEF Receive, segVars, flagVars, endVars, TypeInv, DataOK, FlagsOK
  <1> QED BY <1>4, <1>5 DEF TypeInv

(* The body ends (segment.py, _attempt).                                   *)
LEMMA EndOfBodyType ==
  ASSUME TypeInv, NEW i \in Seg, EndOfBody(i)
  PROVE  TypeInv'
  <1>1. i \in Active
    BY AtActive DEF EndOfBody
  <1>2. WorkersOK'
    BY <1>1, LeavingKeepsWorkers DEF EndOfBody
  <1>3. DataOK' /\ FlagsOK'
    BY DEF EndOfBody, segVars, flagVars, TypeInv, DataOK, FlagsOK
  <1> QED BY <1>2, <1>3 DEF TypeInv

(* A chunk is written and counted (segment.py, _attempt).                  *)
LEMMA AppendType ==
  ASSUME TypeInv, NEW i \in Active, NEW n \in Nat, Append(i, n)
  PROVE  /\ WorkersOK'
         /\ written' \in [Seg -> Nat]
         /\ part' \in [Seg -> Nat \union {-1}]
  <1>1. i \in Seg
    BY DEF Active
  <1>2. WorkersOK'
    <2>1. CASE i \in splitting
      BY <2>1, LeavingKeepsWorkers DEF Append
    <2>2. CASE i \notin splitting
      <3> DEFINE r == [at[i] EXCEPT !.pc = "stream", !.chunk = 0]
      <3>1. r \in Stage /\ r.pc # "rest"
        BY <1>1, StageChange DEF Stage
      <3>2. at' = [at EXCEPT ![i] = r]
        BY <2>2 DEF Append
      <3> HIDE DEF r
      <3> QED BY <2>2, <3>1, <3>2, StayingKeepsWorkers DEF Append
    <2> QED BY <2>1, <2>2
  <1>3. written' \in [Seg -> Nat]
    BY <1>1 DEF Append, TypeInv, DataOK
  <1>4. part' \in [Seg -> Nat \union {-1}]
    <2>1. /\ part[i] \in Nat \union {-1} /\ written[i] \in Nat
          /\ part \in [Seg -> Nat \union {-1}]
      BY <1>1 DEF TypeInv, DataOK
    <2>2. /\ Greatest(part[i], written[i] + n) \in Nat \union {-1}
          /\ part[i] + n \in Nat \union {-1}
      BY <2>1 DEF Greatest
    <2> QED BY <1>1, <2>1, <2>2 DEF Append
  <1> QED BY <1>2, <1>3, <1>4

(* A chunk is clamped to the range (segment.py, _attempt).                 *)
LEMMA ClampType ==
  ASSUME TypeInv, NEW i \in Seg, Clamp(i)
  PROVE  TypeInv'
  <1> DEFINE n == IF open THEN at[i].chunk ELSE Least(at[i].chunk, Room(i))
  <1>1. i \in Active
    BY AtActive DEF Clamp
  <1>2. at[i].chunk \in Nat /\ Room(i) \in Int
    BY StageChange, SizeAssumption DEF Stage, Room, Cursor
  <1>3. open \/ Room(i) > 0 => n \in Nat
    BY <1>2 DEF Least
  <1>4. DataOK'
    <2>1. CASE UNCHANGED <<written, part>>
      BY <2>1 DEF Clamp, TypeInv, DataOK
    <2>2. CASE (open \/ Room(i) > 0) /\ Append(i, n)
      BY <1>1, <1>3, <2>2, AppendType DEF Clamp, TypeInv, DataOK
    <2> QED BY <2>1, <2>2 DEF Clamp
  <1>5. WorkersOK'
    <2>1. CASE Abort(i) \/ Finish(i)
      BY <1>1, <2>1, LeavingKeepsWorkers
    <2>2. CASE /\ open \/ Room(i) > 0
               /\ at' = [at EXCEPT ![i].pc = "limit", ![i].chunk = n]
               /\ UNCHANGED <<alive, completed, splitting, fatal, abort>>
      <3> DEFINE r == [at[i] EXCEPT !.pc = "limit", !.chunk = n]
      <3> HIDE DEF n
      <3>1. r \in Stage /\ r.pc # "rest"
        BY <1>3, <2>2, StageChange DEF Stage
      <3>2. at' = [at EXCEPT ![i] = r]
        BY <2>2
      <3> HIDE DEF r
      <3> QED BY <1>1, <2>2, <3>1, <3>2, StayingKeepsWorkers
    <2>3. CASE (open \/ Room(i) > 0) /\ Append(i, n)
      BY <1>1, <1>3, <2>3, AppendType
    <2> QED BY <2>1, <2>2, <2>3 DEF Clamp
  <1>6. FlagsOK'
    BY DEF Clamp, flagVars, TypeInv, FlagsOK
  <1> QED BY <1>4, <1>5, <1>6 DEF TypeInv

(* The limiter lets a chunk through (segment.py, _attempt).                *)
LEMMA CommitType ==
  ASSUME TypeInv, NEW i \in Seg, Commit(i)
  PROVE  TypeInv'
  <1>1. i \in Active
    BY AtActive DEF Commit
  <1>2. at[i].chunk \in Nat
    BY StageChange DEF Stage
  <1>3. /\ WorkersOK'
        /\ written' \in [Seg -> Nat]
        /\ part' \in [Seg -> Nat \union {-1}]
    BY <1>1, <1>2, AppendType DEF Commit
  <1>4. DataOK' /\ FlagsOK'
    BY <1>3 DEF Commit, flagVars, TypeInv, DataOK, FlagsOK
  <1> QED BY <1>3, <1>4 DEF TypeInv

(* A worker ends without a trace: OSError or _kill_stalled (pool.py).      *)
LEMMA VanishType ==
  ASSUME TypeInv, NEW i \in Active, Vanish(i),
         UNCHANGED <<segVars, taken, flagVars, outcome>>
  PROVE  TypeInv'
  <1>1. WorkersOK'
    BY LeavingKeepsWorkers
  <1>2. DataOK' /\ FlagsOK'
    BY DEF segVars, flagVars, TypeInv, DataOK, FlagsOK
  <1> QED BY <1>1, <1>2 DEF TypeInv

(* The steps of the ramp and of the task that owns the pool.               *)

(* The ramp creates a worker (pool.py, _ramp).                             *)
LEMMA SpawnType == ASSUME TypeInv, Spawn PROVE TypeInv'
  <1>1. alive' \in 0 .. MaxWorkers /\ Cardinality(Active) <= alive'
    <2>1. alive \in 0 .. MaxWorkers /\ Cardinality(Active) <= alive
      BY DEF TypeInv, WorkersOK
    <2>2. alive < MaxWorkers /\ alive' = alive + 1
      BY DEF Spawn, MayGrow
    <2> QED BY <2>1, <2>2, ActiveFinite, LimitsAssumption
  <1>2. WorkersOK'
    <2>1. Active' = Active
      BY DEF Spawn, Active
    <2> QED BY <1>1, <2>1 DEF Spawn, endVars, TypeInv, WorkersOK
  <1>3. DataOK' /\ FlagsOK'
    BY DEF Spawn, segVars, flagVars, endVars, TypeInv, DataOK, FlagsOK
  <1> QED BY <1>2, <1>3 DEF TypeInv

(* What _assist hands over lies between the progress of a segment in hand  *)
(* and that segment's end.                                                 *)
LEMMA AssistCuts ==
  ASSUME TypeInv, Assist
  PROVE  \E i \in Active, mid \in 0 .. Size - 1 :
            /\ Split(i, mid)
            /\ ~open /\ Cursor(i) <= mid /\ mid <= end[i]
  <1>1. PICK speed \in [Active -> Speeds] : \E i \in Targets(speed) :
           Split(i, Cut(i, speed))
    BY DEF Assist
  <1>2. PICK i \in Targets(speed) : Split(i, Cut(i, speed))
    BY <1>1
  <1>3. i \in Active /\ Remaining(i) > AssistMin
    BY DEF Targets, Candidates, Splittable
  <1>4. i \in Seg /\ Cursor(i) \in Nat /\ end[i] \in -1 .. Size - 1
    BY <1>3, StageChange, SizeAssumption DEF Active, Cursor
  <1>5. ~open /\ Cursor(i) <= end[i] /\ Remaining(i) = end[i] - Cursor(i) + 1
    BY <1>3, <1>4, LimitsAssumption DEF Remaining
  <1>6. /\ Cut(i, speed) \in 0 .. Size - 1
        /\ Cursor(i) <= Cut(i, speed) /\ Cut(i, speed) <= end[i]
    <2>1. end[i] \in Int /\ Remaining(i) \in Nat \ {0}
      BY <1>4, <1>5, SizeAssumption
    <2>2. /\ Remaining(i) \div 2 \in Nat
          /\ Remaining(i) \div 2 <= Remaining(i) - 1
      BY <2>1
    <2>3. CASE speed[i] = 0
      BY <1>4, <1>5, <2>1, <2>3, SizeAssumption DEF Cut
    <2>4. CASE speed[i] # 0
      <3>1. Cut(i, speed) = Cursor(i) + (Remaining(i) \div 2)
        BY <2>4 DEF Cut
      <3> QED BY <1>4, <1>5, <2>1, <2>2, <3>1, SizeAssumption
    <2> QED BY <2>3, <2>4
  <1> QED BY <1>2, <1>3, <1>5, <1>6

(* A segment is split (pool.py, _assist and _split).                       *)
LEMMA AssistType == ASSUME TypeInv, Assist PROVE TypeInv'
  <1>1. PICK i \in Active, mid \in 0 .. Size - 1 :
           /\ Split(i, mid)
           /\ ~open /\ Cursor(i) <= mid /\ mid <= end[i]
    BY AssistCuts
  <1>2. i \in Seg /\ nseg \in Seg /\ nseg' \in 0 .. MaxSegs
    <2>1. nseg \in 0 .. MaxSegs /\ nseg < MaxSegs /\ nseg' = nseg + 1
      BY <1>1 DEF TypeInv, DataOK, Assist, Split
    <2> QED BY <2>1, PlanAssumption DEF Active, Seg
  <1>3. start' \in [Seg -> 0 .. Size]
    <2>1. mid \in 0 .. Size
      BY SizeAssumption
    <2> QED BY <1>1, <1>2, <2>1 DEF Split, TypeInv, DataOK
  <1>4. end' \in [Seg -> -1 .. Size - 1]
    <2>1. Narrowed(mid) \in -1 .. Size - 1
      BY SizeAssumption DEF Narrowed
    <2>2. end' = [end EXCEPT ![nseg] = end[i], ![i] = Narrowed(mid)]
      BY <1>1 DEF Split
    <2>3. end \in [Seg -> -1 .. Size - 1]
      BY DEF TypeInv, DataOK
    <2> QED BY <1>2, <2>1, <2>2, <2>3
  <1>5. written' \in [Seg -> Nat] /\ part' \in [Seg -> Nat \union {-1}]
    BY <1>1, <1>2 DEF Split, TypeInv, DataOK
  <1>6. taken' \in 0 .. nseg'
    <2>1. taken \in 0 .. nseg /\ nseg \in Nat /\ nseg' = nseg + 1 /\ taken' = taken
      BY <1>1, PlanAssumption DEF TypeInv, DataOK, Assist, Split
    <2> QED BY <2>1
  <1>7. DataOK'
    BY <1>2, <1>3, <1>4, <1>5, <1>6 DEF Assist, TypeInv, DataOK
  <1>8. WorkersOK'
    <2>1. Active' = Active
      BY DEF Assist, Active
    <2>2. completed' \subseteq Seg /\ splitting' \subseteq Active'
      BY <1>1, <2>1 DEF Split, TypeInv, WorkersOK
    <2> QED BY <2>1, <2>2 DEF Assist, endVars, TypeInv, WorkersOK
  <1>9. FlagsOK'
    BY DEF Assist, flagVars, endVars, TypeInv, FlagsOK
  <1> QED BY <1>7, <1>8, <1>9 DEF TypeInv

(* The pool returns (pool.py, run).                                        *)
LEMMA EndType == ASSUME TypeInv, End PROVE TypeInv'
  <1>1. at' \in [Seg -> Stage] /\ Active' = {}
    BY DEF End, Active, Rest, InHand, Stage
  <1>2. Cardinality(Active') = 0
    BY <1>1, FS_EmptySet
  <1>3. WorkersOK'
    BY <1>1, <1>2, LimitsAssumption DEF End, TypeInv, WorkersOK
  <1>4. DataOK' /\ FlagsOK'
    BY DEF End, segVars, flagVars, TypeInv, DataOK, WorkersOK, FlagsOK
  <1> QED BY <1>3, <1>4 DEF TypeInv

(* The task pauses, resumes or cancels (engine.py).                        *)
LEMMA FlagsType ==
  ASSUME TypeInv, ClearRunning \/ SetRunning \/ SetCancel
  PROVE  TypeInv'
  <1>1. UNCHANGED <<segVars, workVars, server, endVars>>
    BY DEF ClearRunning, SetRunning, SetCancel
  <1>2. Active' = Active
    BY <1>1 DEF workVars, Active
  <1>3. DataOK' /\ WorkersOK'
    BY <1>1, <1>2 DEF segVars, workVars, endVars, TypeInv, DataOK, WorkersOK
  <1>4. FlagsOK'
    BY <1>1 DEF ClearRunning, SetRunning, SetCancel, endVars, TypeInv, FlagsOK
  <1> QED BY <1>3, <1>4 DEF TypeInv

----------------------------------------------------------------------------
(* A worker touches its own segment and nothing of the others.             *)
OwnOnly(i) ==
    /\ UNCHANGED <<nseg, start, end, open, inPlace, taken>>
    /\ \A j \in Seg \ {i} : /\ at'[j] = at[j]
                            /\ written'[j] = written[j]
                            /\ part'[j] = part[j]

(* Leaving a segment touches no other.                                     *)
LEMMA LeaveOwn ==
  ASSUME TypeInv, NEW i \in Seg,
         \/ Finish(i) \/ Abort(i) \/ Vanish(i)
         \/ Fail(i, "permanent") \/ Fail(i, "range")
  PROVE  /\ at'[i].pc = "rest"
         /\ \A j \in Seg \ {i} : at'[j] = at[j]
  BY DEF Finish, Abort, Vanish, Fail, Leave, Rest, InHand, TypeInv, WorkersOK

(* Moving to the next await touches no other segment.                      *)
LEMMA MoveOwn ==
  ASSUME TypeInv, NEW i \in Seg, NEW where, Move(i, where)
  PROVE  /\ at'[i].pc = where
         /\ \A j \in Seg \ {i} : at'[j] = at[j]
  <1>1. at[i] \in Stage /\ at \in [Seg -> Stage]
    BY DEF TypeInv, WorkersOK
  <1> QED BY <1>1 DEF Move, Stage

(* A retry touches no other segment.                                       *)
LEMMA RetryOwn ==
  ASSUME TypeInv, NEW i \in Seg, Retry(i)
  PROVE  /\ at'[i].pc \in {"rest", "attempt"}
         /\ \A j \in Seg \ {i} : at'[j] = at[j]
  <1>1. CASE at[i].tries >= RetryMax
    BY <1>1, LeaveOwn DEF Retry
  <1>2. CASE ~(at[i].tries >= RetryMax)
    BY <1>2 DEF Retry, InHand, TypeInv, WorkersOK
  <1> QED BY <1>1, <1>2

(* A write touches no other segment, and covers what it counts.            *)
LEMMA AppendOwn ==
  ASSUME TypeInv, NEW i \in Seg, NEW n \in Nat, Append(i, n)
  PROVE  /\ at'[i].pc \in {"rest", "stream"}
         /\ written'[i] = written[i] + n
         /\ part'[i] = IF inPlace THEN Greatest(part[i], written[i] + n)
                       ELSE part[i] + n
         /\ \A j \in Seg \ {i} : /\ at'[j] = at[j]
                                 /\ written'[j] = written[j]
                                 /\ part'[j] = part[j]
  <1>1. /\ at'[i].pc \in {"rest", "stream"}
        /\ \A j \in Seg \ {i} : at'[j] = at[j]
    <2>1. CASE i \in splitting
      BY <2>1, LeaveOwn DEF Append
    <2>2. CASE i \notin splitting
      BY <2>2 DEF Append, Stage, TypeInv, WorkersOK
    <2> QED BY <2>1, <2>2
  <1> QED BY <1>1 DEF Append, TypeInv, DataOK

(* What the type and the progress of a segment rest on: only a segment     *)
(* taken from the queue is in hand, a range that is requested is not empty *)
(* (so that a 416 never invents progress), a segment that receives bytes   *)
(* has its file.                                                           *)
SegInv(i) ==
    /\ at[i].pc # "rest" => i < taken
    /\ at[i].pc = "request" /\ ~open => Cursor(i) <= at[i].asked
    /\ at[i].pc \in {"stream", "held", "limit"} /\ ~inPlace => part[i] >= 0

IInv == TypeInv /\ \A i \in Seg : SegInv(i)

(* What the file holds is kept apart: a task may begin over a sidecar that *)
(* promises more than the disk has.                                        *)
DiskInv(i) == written[i] > 0 => written[i] <= part[i]
Progress   == \A i \in Seg : DiskInv(i)
KeepsDisk(i) == DiskInv(i) => DiskInv(i)'

(* A segment that a step does not touch keeps its invariant.               *)
LEMMA OthersKeep ==
  ASSUME NEW i \in Seg, OwnOnly(i), NEW j \in Seg \ {i}, SegInv(j)
  PROVE  SegInv(j)' /\ KeepsDisk(j)
  BY DEF OwnOnly, SegInv, Cursor, KeepsDisk, DiskInv

(* A segment at rest keeps it too.                                         *)
LEMMA LeftKeeps ==
  ASSUME NEW i \in Seg, SegInv(i), at'[i].pc = "rest",
         UNCHANGED <<written, part>>
  PROVE  SegInv(i)' /\ KeepsDisk(i)
  BY DEF SegInv, KeepsDisk, DiskInv

(* The request asks for bytes of the range that are missing.               *)
LEMMA AttemptSeg ==
  ASSUME IInv, NEW i \in Seg, Attempt(i)
  PROVE  OwnOnly(i) /\ SegInv(i)' /\ KeepsDisk(i)
  <1>0. TypeInv /\ SegInv(i)
    BY DEF IInv
  <1>1. UNCHANGED <<segVars, taken>>
    BY DEF Attempt
  <1>2. CASE Finish(i) \/ Abort(i)
    BY <1>0, <1>1, <1>2, LeaveOwn, LeftKeeps DEF segVars, OwnOnly
  <1>3. CASE ~(~open /\ Cursor(i) > end[i])
             /\ at' = [at EXCEPT ![i].pc = "request", ![i].asked = end[i],
                                 ![i].from = written[i]]
    <2>1. /\ at'[i].pc = "request" /\ at'[i].asked = end[i]
          /\ \A j \in Seg \ {i} : at'[j] = at[j]
      BY <1>0, <1>3 DEF Stage, TypeInv, WorkersOK
    <2>2. open \/ Cursor(i) <= end[i]
      BY <1>0, <1>3, StageChange, SizeAssumption DEF Cursor
    <2>3. i < taken
      BY <1>0 DEF Attempt, At, SegInv
    <2> QED BY <1>0, <1>1, <2>1, <2>2, <2>3
            DEF segVars, OwnOnly, SegInv, Cursor, KeepsDisk, DiskInv
  <1> QED BY <1>2, <1>3 DEF Attempt

(* The file is opened; what was written stays in it.                       *)
LEMMA BodySeg ==
  ASSUME IInv, NEW i \in Seg, Body(i)
  PROVE  OwnOnly(i) /\ SegInv(i)' /\ KeepsDisk(i)
  <1>0. TypeInv /\ SegInv(i)
    BY DEF IInv
  <1>1. at'[i].pc = "stream" /\ \A j \in Seg \ {i} : at'[j] = at[j]
    BY <1>0, MoveOwn DEF Body
  <1>2. /\ part'[i] = Opened(i)
        /\ \A j \in Seg \ {i} : part'[j] = part[j]
    BY <1>0 DEF Body, TypeInv, DataOK
  <1>3. OwnOnly(i)
    BY <1>1, <1>2 DEF Body, OwnOnly
  <1>4. /\ ~inPlace => Opened(i) >= 0
        /\ DiskInv(i) => (written[i] > 0 => written[i] <= Opened(i))
    <2>1. part[i] \in Int /\ written[i] \in Nat
      BY <1>0, StageChange
    <2> QED BY <1>0, <2>1 DEF Opened, Greatest, SegInv, DiskInv
  <1>5. i < taken
    BY <1>0 DEF Body, At, SegInv
  <1>6. SegInv(i)' /\ KeepsDisk(i)
    BY <1>1, <1>2, <1>4, <1>5 DEF Body, SegInv, KeepsDisk, DiskInv
  <1> QED BY <1>3, <1>6

(* A 416 cannot answer a request for bytes that the file has.              *)
LEMMA PastEndSeg ==
  ASSUME IInv, NEW i \in Seg, PastEnd(i)
  PROVE  open /\ OwnOnly(i) /\ SegInv(i)' /\ KeepsDisk(i)
  <1>0. TypeInv /\ SegInv(i)
    BY DEF IInv
  <1>1. open
    <2>1. Cursor(i) > at[i].asked /\ Cursor(i) \in Int /\ at[i].asked \in Int
      BY <1>0, StageChange, SizeAssumption DEF PastEnd, Cursor, Stage
    <2> QED BY <1>0, <2>1 DEF PastEnd, At, SegInv, TypeInv, DataOK
  <1>2. at'[i].pc = "rest" /\ \A j \in Seg \ {i} : at'[j] = at[j]
    BY <1>0, LeaveOwn DEF PastEnd
  <1>3. written'[i] = 0 /\ \A j \in Seg \ {i} : written'[j] = written[j]
    BY <1>0, <1>1 DEF PastEnd, TypeInv, DataOK
  <1> QED BY <1>1, <1>2, <1>3 DEF PastEnd, OwnOnly, SegInv, KeepsDisk, DiskInv

(* An attempt that failed keeps the progress it made.                      *)
LEMMA FaultSeg ==
  ASSUME IInv, NEW i \in Seg, NEW error \in Faults, Fault(i, error)
  PROVE  OwnOnly(i) /\ SegInv(i)' /\ KeepsDisk(i)
  <1>0. TypeInv /\ SegInv(i)
    BY DEF IInv
  <1>1. /\ at'[i].pc \in {"rest", "attempt"}
        /\ \A j \in Seg \ {i} : at'[j] = at[j]
    BY <1>0, RetryOwn, LeaveOwn DEF Fault
  <1>2. i < taken
    BY <1>0 DEF Fault, At, SegInv
  <1> QED BY <1>0, <1>1, <1>2
          DEF Fault, segVars, OwnOnly, SegInv, KeepsDisk, DiskInv

(* A chunk is not progress yet.                                            *)
LEMMA ReceiveSeg ==
  ASSUME IInv, NEW i \in Seg, Receive(i)
  PROVE  OwnOnly(i) /\ SegInv(i)' /\ KeepsDisk(i)
  <1>0. TypeInv /\ SegInv(i)
    BY DEF IInv
  <1>1. at'[i].pc = "held" /\ \A j \in Seg \ {i} : at'[j] = at[j]
    BY <1>0 DEF Receive, Stage, TypeInv, WorkersOK
  <1>2. at[i].pc = "stream" /\ UNCHANGED <<segVars, taken>>
    BY DEF Receive, At
  <1> QED BY <1>0, <1>1, <1>2 DEF segVars, OwnOnly, SegInv, KeepsDisk, DiskInv

(* A written chunk is progress, and is in the file.                        *)
LEMMA AppendSeg ==
  ASSUME IInv, NEW i \in Seg, NEW n \in Nat, Append(i, n),
         at[i].pc \in {"held", "limit"},
         UNCHANGED <<nseg, start, end, open, inPlace, taken>>
  PROVE  OwnOnly(i) /\ SegInv(i)' /\ KeepsDisk(i)
  <1>0. TypeInv /\ SegInv(i)
    BY DEF IInv
  <1>1. OwnOnly(i)
    BY <1>0, AppendOwn DEF OwnOnly
  <1>2. /\ at'[i].pc \in {"rest", "stream"}
        /\ written'[i] = written[i] + n
        /\ part'[i] = IF inPlace THEN Greatest(part[i], written[i] + n)
                      ELSE part[i] + n
    BY <1>0, AppendOwn
  <1>3. /\ part[i] \in Int /\ written[i] \in Nat
        /\ inPlace \/ part[i] >= 0
    BY <1>0, StageChange DEF SegInv, TypeInv, DataOK
  <1>4. /\ ~inPlace => part'[i] >= 0
        /\ (written[i] > 0 => written[i] <= part[i]) => written'[i] <= part'[i]
    BY <1>2, <1>3 DEF Greatest
  <1>5. i < taken
    BY <1>0 DEF SegInv
  <1> QED BY <1>1, <1>2, <1>4, <1>5 DEF SegInv, KeepsDisk, DiskInv

(* Clamping writes at most what it counts.                                 *)
LEMMA ClampSeg ==
  ASSUME IInv, NEW i \in Seg, Clamp(i)
  PROVE  OwnOnly(i) /\ SegInv(i)' /\ KeepsDisk(i)
  <1> DEFINE n == IF open THEN at[i].chunk ELSE Least(at[i].chunk, Room(i))
  <1>0. TypeInv /\ SegInv(i) /\ at[i].pc = "held"
    BY DEF IInv, Clamp, At
  <1>1. UNCHANGED <<nseg, start, end, open, inPlace, taken>>
    BY DEF Clamp
  <1>2. CASE (Abort(i) \/ Finish(i)) /\ UNCHANGED <<written, part>>
    BY <1>0, <1>1, <1>2, LeaveOwn, LeftKeeps DEF OwnOnly
  <1>3. CASE /\ at' = [at EXCEPT ![i].pc = "limit", ![i].chunk = n]
             /\ UNCHANGED <<written, part>>
    <2> HIDE DEF n
    <2>1. at'[i].pc = "limit" /\ \A j \in Seg \ {i} : at'[j] = at[j]
      BY <1>0, <1>3 DEF Stage, TypeInv, WorkersOK
    <2> QED BY <1>0, <1>1, <1>3, <2>1 DEF OwnOnly, SegInv, KeepsDisk, DiskInv
  <1>4. CASE (open \/ Room(i) > 0) /\ Append(i, n)
    <2>1. at[i].chunk \in Nat /\ Room(i) \in Int
      BY <1>0, StageChange, SizeAssumption DEF Stage, Room, Cursor
    <2>2. n \in Nat
      BY <1>4, <2>1 DEF Least
    <2> HIDE DEF n
    <2> QED BY <1>0, <1>1, <1>4, <2>2, AppendSeg
  <1> QED BY <1>2, <1>3, <1>4 DEF Clamp

(* A worker disturbs the segment it has in hand and no other.              *)
LEMMA WorkerSeg ==
  ASSUME IInv, NEW i \in Seg, WorkerNext(i)
  PROVE  OwnOnly(i) /\ SegInv(i)' /\ KeepsDisk(i)
  <1>0. TypeInv /\ SegInv(i)
    BY DEF IInv
  <1>1. CASE Attempt(i)
    BY <1>1, AttemptSeg
  <1>2. CASE Respond(i)
    <2>1. CASE Body(i)
      BY <2>1, BodySeg
    <2>2. CASE NoRange(i)
      BY <1>0, <2>2, LeaveOwn, LeftKeeps DEF NoRange, segVars, OwnOnly
    <2>3. CASE PastEnd(i)
      BY <2>3, PastEndSeg
    <2>4. CASE \E error \in Faults : Fault(i, error)
      BY <2>4, FaultSeg
    <2> QED BY <1>2, <2>1, <2>2, <2>3, <2>4 DEF Respond
  <1>3. CASE Receive(i)
    BY <1>3, ReceiveSeg
  <1>4. CASE EndOfBody(i)
    BY <1>0, <1>4, LeaveOwn, LeftKeeps DEF EndOfBody, segVars, OwnOnly
  <1>5. CASE Clamp(i)
    BY <1>5, ClampSeg
  <1>6. CASE Commit(i)
    <2>1. at[i].chunk \in Nat
      BY <1>0, StageChange DEF Stage
    <2> QED BY <1>6, <2>1, AppendSeg DEF Commit, At
  <1>7. CASE DiskError(i)
    BY <1>0, <1>7, LeaveOwn, LeftKeeps DEF DiskError, segVars, OwnOnly
  <1> QED BY <1>1, <1>2, <1>3, <1>4, <1>5, <1>6, <1>7 DEF WorkerNext

----------------------------------------------------------------------------
(* The invariant holds at first and every step keeps it.                   *)

(* The invariant holds of a pool over a plan.                              *)
LEMMA InvInit == PoolInit => IInv /\ Progress
  <1> SUFFICES ASSUME PoolInit PROVE IInv /\ Progress
    OBVIOUS
  <1>1. \A i \in Seg : at[i].pc = "rest"
    BY DEF PoolInit, PoolReady, Rest, InHand
  <1>2. \A i \in Seg : written[i] > 0 => written[i] <= part[i]
    BY SizeAssumption DEF PoolInit
  <1>3. \A i \in Seg : SegInv(i)
    BY <1>1 DEF SegInv
  <1> QED BY <1>2, <1>3, TypeInvInit DEF IInv, Progress, DiskInv

(* Every step of a worker keeps the invariant.                             *)
LEMMA WorkerInv ==
  ASSUME IInv, NEW i \in Seg, WorkerNext(i) \/ Kill(i)
  PROVE  IInv'
  <1>0. TypeInv
    BY DEF IInv
  <1>1. CASE WorkerNext(i)
    <2>1. TypeInv'
      <3>1. CASE Respond(i)
        BY <1>0, <3>1, BodyType, NoRangeType, PastEndType, PastEndSeg, FaultType
        DEF Respond
      <3>2. CASE DiskError(i)
        <4>1. i \in Active
          BY <3>2, AtActive DEF DiskError
        <4> QED BY <1>0, <3>2, <4>1, VanishType DEF DiskError
      <3> QED BY <1>0, <1>1, <3>1, <3>2, AttemptType, ReceiveType,
                 EndOfBodyType, ClampType, CommitType DEF WorkerNext
    <2>2. OwnOnly(i) /\ SegInv(i)'
      BY <1>1, WorkerSeg
    <2>3. \A j \in Seg : SegInv(j)'
      BY <2>2, OthersKeep DEF IInv
    <2>4. Seg' = Seg
      BY DEF Seg
    <2> QED BY <2>1, <2>3, <2>4 DEF IInv
  <1>2. CASE Kill(i)
    <2>1. i \in Active
      BY <1>0, <1>2 DEF Kill, TypeInv, WorkersOK
    <2>2. TypeInv'
      BY <1>0, <1>2, <2>1, VanishType DEF Kill
    <2>3. OwnOnly(i) /\ SegInv(i)'
      BY <1>0, <1>2, LeaveOwn, LeftKeeps DEF Kill, segVars, OwnOnly, IInv
    <2>4. \A j \in Seg : SegInv(j)'
      BY <2>3, OthersKeep DEF IInv
    <2> QED BY <2>2, <2>4 DEF IInv, Seg
  <1> QED BY <1>1, <1>2

(* A segment that is taken has a worker.                                   *)
LEMMA GetInv == ASSUME IInv, Get PROVE IInv'
  <1>0. TypeInv /\ taken \in Seg /\ taken' = taken + 1 /\ taken \in Nat
    <2>1. TypeInv /\ taken \in Nat /\ nseg \in 0 .. MaxSegs /\ taken < nseg
      BY PlanAssumption DEF IInv, Get, TypeInv, DataOK
    <2> QED BY <2>1, PlanAssumption DEF Get, Seg
  <1>1. TypeInv'
    BY <1>0, GetType
  <1>2. /\ at'[taken].pc = "attempt"
        /\ \A j \in Seg \ {taken} : at'[j] = at[j]
    BY <1>0 DEF Get, InHand, TypeInv, WorkersOK
  <1>3. \A j \in Seg : SegInv(j)'
    <2> SUFFICES ASSUME NEW j \in Seg PROVE SegInv(j)'
      OBVIOUS
    <2>1. SegInv(j) /\ j \in Int
      BY PlanAssumption DEF IInv, Seg
    <2>2. CASE j = taken
      BY <1>0, <1>2, <2>1, <2>2 DEF Get, segVars, SegInv
    <2>3. CASE j # taken
      BY <1>0, <1>2, <2>1, <2>3 DEF Get, segVars, SegInv, Cursor
    <2> QED BY <2>2, <2>3
  <1> QED BY <1>1, <1>3 DEF IInv, Seg

(* A split leaves both halves well formed.                                 *)
LEMMA AssistInv == ASSUME IInv, Assist PROVE IInv'
  <1>0. TypeInv /\ taken = nseg /\ nseg \in Seg
    <2>1. TypeInv /\ nseg \in 0 .. MaxSegs /\ nseg < MaxSegs
      BY DEF IInv, Assist, TypeInv, DataOK
    <2> QED BY <2>1, PlanAssumption DEF Assist, Seg
  <1>1. TypeInv'
    BY <1>0, AssistType
  <1>2. PICK i \in Active, mid \in 0 .. Size - 1 : Split(i, mid)
    BY <1>0, AssistCuts
  <1>3. at[nseg].pc = "rest"
    BY <1>0, PlanAssumption DEF IInv, SegInv, Seg
  <1>4. written'[nseg] = 0
    BY <1>0, <1>2 DEF Split, TypeInv, DataOK
  <1>5. \A j \in Seg \ {nseg} :
           start'[j] = start[j] /\ written'[j] = written[j] /\ part'[j] = part[j]
    BY <1>0, <1>2 DEF Split, TypeInv, DataOK
  <1>6. \A j \in Seg : SegInv(j)'
    <2> SUFFICES ASSUME NEW j \in Seg PROVE SegInv(j)'
      OBVIOUS
    <2>1. CASE j = nseg
      BY <1>3, <1>4, <2>1 DEF Assist, SegInv
    <2>2. CASE j # nseg
      BY <1>5, <2>2 DEF Assist, IInv, SegInv, Cursor
    <2> QED BY <2>1, <2>2
  <1> QED BY <1>1, <1>6 DEF IInv, Seg

(* The end of the pool leaves no segment in hand.                          *)
LEMMA EndInv == ASSUME IInv, End PROVE IInv'
  <1>1. TypeInv'
    BY EndType DEF IInv
  <1>2. \A j \in Seg : at'[j].pc = "rest"
    BY DEF End, Rest, InHand
  <1>3. \A j \in Seg : SegInv(j)'
    BY <1>2 DEF End, segVars, IInv, SegInv
  <1> QED BY <1>1, <1>3 DEF IInv, Seg

(* A new worker has no segment.                                            *)
LEMMA SpawnInv == ASSUME IInv, Spawn PROVE IInv'
  <1>1. TypeInv'
    BY SpawnType DEF IInv
  <1>2. \A j \in Seg : SegInv(j)'
    BY DEF Spawn, segVars, IInv, SegInv, Cursor
  <1> QED BY <1>1, <1>2 DEF IInv, Seg

(* Pause, resume and cancel touch no segment.                              *)
LEMMA FlagsInv ==
  ASSUME IInv, ClearRunning \/ SetRunning \/ SetCancel
  PROVE  IInv'
  <1>1. TypeInv'
    BY FlagsType DEF IInv
  <1>2. UNCHANGED <<segVars, workVars>>
    BY DEF ClearRunning, SetRunning, SetCancel
  <1>3. \A j \in Seg : SegInv(j)'
    BY <1>2 DEF segVars, workVars, IInv, SegInv, Cursor
  <1> QED BY <1>1, <1>3 DEF IInv, Seg

(* A step that changes nothing keeps the invariant.                        *)
LEMMA StutterInv == ASSUME IInv, UNCHANGED poolVars PROVE IInv'
  BY DEF poolVars, segVars, workVars, flagVars, endVars, IInv, SegInv, Cursor,
         Seg, TypeInv, DataOK, WorkersOK, FlagsOK, Active

(* The invariant is inductive: one case for every action of the pool.      *)
LEMMA InvStep == IInv /\ [PoolNext]_poolVars => IInv'
  <1> SUFFICES ASSUME IInv, [PoolNext]_poolVars PROVE IInv'
    OBVIOUS
  <1>1. CASE TransferNext
    BY <1>1, GetInv, SpawnInv, AssistInv, EndInv, WorkerInv DEF TransferNext
  <1>2. CASE ClearRunning \/ SetRunning \/ SetCancel
    BY <1>2, FlagsInv
  <1>3. CASE UNCHANGED poolVars
    BY <1>3, StutterInv
  <1> QED BY <1>1, <1>2, <1>3 DEF PoolNext

(* Nor does any step count a byte the file does not hold.                  *)
LEMMA ProgressStep == IInv /\ Progress /\ [PoolNext]_poolVars => Progress'
  <1> SUFFICES ASSUME IInv, Progress, [PoolNext]_poolVars,
                      NEW j \in Seg
               PROVE  DiskInv(j)'
    BY DEF Progress, Seg
  <1>1. DiskInv(j)
    BY DEF Progress
  <1>2. ASSUME NEW i \in Seg, WorkerNext(i)
        PROVE  DiskInv(j)'
    <2>1. OwnOnly(i) /\ KeepsDisk(i)
      BY <1>2, WorkerSeg
    <2> QED BY <1>1, <2>1, OthersKeep DEF IInv, KeepsDisk
  <1>3. CASE UNCHANGED <<written, part>>
    BY <1>1, <1>3 DEF DiskInv
  <1>4. CASE Get \/ Spawn \/ End \/ \E i \in Seg : Kill(i)
    BY <1>3, <1>4 DEF Get, Spawn, End, Kill, segVars
  <1>5. CASE Assist
    <2>1. PICK i \in Active, mid \in 0 .. Size - 1 : Split(i, mid)
      BY <1>5, AssistCuts DEF IInv
    <2>2. \/ written'[j] = 0
          \/ written'[j] = written[j] /\ part'[j] = part[j]
      BY <2>1 DEF Split, IInv, TypeInv, DataOK
    <2> QED BY <1>1, <2>2 DEF DiskInv
  <1>6. CASE ClearRunning \/ SetRunning \/ SetCancel \/ UNCHANGED poolVars
    BY <1>3, <1>6 DEF ClearRunning, SetRunning, SetCancel, poolVars, segVars
  <1> QED BY <1>2, <1>4, <1>5, <1>6 DEF PoolNext, TransferNext

(* In every state that workers, ramp and user reach together the pool is   *)
(* well formed: no more segments in hand than live workers, none in hand   *)
(* that was not taken from the queue, and a request asks for bytes of its  *)
(* own range (pool.py and segment.py).                                     *)
THEOREM Invariance == PoolSpec => []IInv
  BY InvInit, InvStep, PTL DEF PoolSpec

(* Every variable keeps its type; in particular the number of live workers *)
(* never falls below zero nor rises above the connections allowed          *)
(* (pool.py, _worker and _ramp), and a 416 never makes progress negative.  *)
THEOREM TypeCorrect == PoolSpec => []TypeOK
  <1>1. IInv => TypeOK
    BY TypeInvImpliesTypeOK DEF IInv
  <1> QED BY <1>1, Invariance, PTL

(* SegmentState.written never counts a byte the file does not hold         *)
(* (segment.py, _attempt; pool.py, _split).                                *)
THEOREM ProgressCorrect == PoolSpec => []ProgressOnDisk
  <1>1. PoolSpec => []Progress
    <2>1. PoolInit => Progress
      BY InvInit
    <2> QED BY <2>1, ProgressStep, Invariance, PTL DEF PoolSpec
  <1>2. IInv /\ Progress => ProgressOnDisk
    <2> SUFFICES ASSUME IInv, Progress, NEW i \in Live, written[i] > 0
                 PROVE  written[i] <= part[i]
      BY DEF ProgressOnDisk
    <2>1. i \in Seg
      BY PlanAssumption DEF Live, Seg, IInv, TypeInv, DataOK
    <2> QED BY <2>1 DEF Progress, DiskInv
  <1> QED BY <1>1, <1>2, Invariance, PTL

----------------------------------------------------------------------------
(* The ranges cut the file without overlap or gap.                         *)

(* planner.py: the plan does, for every size and number of connections.    *)
InPlan(n, i, b) == PlanStart(n, i) <= b /\ b <= PlanEnd(n, i)

LEMMA PlanCovers ==
  ASSUME NEW n \in Nat \ {0}, n <= Size, NEW b \in 0 .. Size - 1
  PROVE  /\ \E i \in 0 .. n - 1 : InPlan(n, i, b)
         /\ \A i, j \in 0 .. n - 1 : InPlan(n, i, b) /\ InPlan(n, j, b) => i = j
  <1> DEFINE q == Size \div n
  <1>1. b \in Nat /\ b < Size
    BY SizeAssumption
  <1>2. q \in Nat /\ n * q <= Size /\ Size < n * q + n
    BY SizeAssumption, DivFloor
  <1>3. q > 0
    <2>1. n * 0 = 0
      OBVIOUS
    <2> QED BY <1>2, <2>1, SizeAssumption
  <1>4. \A i \in 0 .. n - 1 : /\ PlanStart(n, i) = i * q /\ i * q \in Nat
                              /\ PlanEnd(n, i) = IF i = n - 1 THEN Size - 1
                                                 ELSE (i + 1) * q - 1
    <2> SUFFICES ASSUME NEW i \in 0 .. n - 1
                 PROVE  /\ PlanStart(n, i) = i * q /\ i * q \in Nat
                        /\ PlanEnd(n, i) = IF i = n - 1 THEN Size - 1
                                           ELSE (i + 1) * q - 1
      OBVIOUS
    <2>1. i * q \in Nat
      BY <1>2, ProductMonotone
    <2> QED BY <2>1 DEF PlanStart, PlanEnd
  <1> HIDE DEF q
  <1>5. \E i \in 0 .. n - 1 : InPlan(n, i, b)
    <2> DEFINE d == b \div q
    <2>1. d \in Nat /\ q * d <= b /\ b < q * d + q
      BY <1>1, <1>2, <1>3, DivFloor
    <2>2. q * d = d * q /\ d * q \in Nat /\ (d + 1) * q = d * q + q
      BY <1>2, <2>1, ProductStep, ProductMonotone
    <2> HIDE DEF d
    <2>3. CASE d < n - 1
      <3>1. d \in 0 .. n - 1 /\ d # n - 1
        BY <2>1, <2>3
      <3>2. PlanStart(n, d) <= b /\ b <= PlanEnd(n, d)
        BY <1>1, <1>2, <1>4, <2>1, <2>2, <3>1
      <3> QED BY <3>1, <3>2 DEF InPlan
    <2>4. CASE ~(d < n - 1)
      <3>1. n - 1 \in 0 .. n - 1 /\ n - 1 \in Nat /\ n - 1 <= d
        BY <2>1, <2>4
      <3>2. (n - 1) * q \in Nat /\ (n - 1) * q <= d * q
        BY <1>2, <2>1, <3>1, ProductMonotone
      <3>3. PlanStart(n, n - 1) <= b /\ b <= PlanEnd(n, n - 1)
        BY <1>1, <1>2, <1>4, <2>1, <2>2, <3>1, <3>2, SizeAssumption
      <3> QED BY <3>1, <3>3 DEF InPlan
    <2> QED BY <2>3, <2>4
  <1>6. ASSUME NEW i \in 0 .. n - 1, NEW j \in 0 .. n - 1,
               InPlan(n, i, b), InPlan(n, j, b), i < j
        PROVE  FALSE
    <2>1. i \in Nat /\ j \in Nat /\ i # n - 1 /\ i + 1 <= j
      BY <1>6
    <2>2. (i + 1) * q \in Nat /\ (i + 1) * q <= j * q
      BY <1>2, <2>1, ProductMonotone
    <2>3. b <= (i + 1) * q - 1 /\ j * q <= b /\ j * q \in Nat
      BY <1>4, <1>6, <2>1 DEF InPlan
    <2> QED BY <1>1, <2>2, <2>3
  <1>7. ASSUME NEW i \in 0 .. n - 1, NEW j \in 0 .. n - 1,
               InPlan(n, i, b), InPlan(n, j, b)
        PROVE  i = j
    <2>1. ~(i < j) /\ ~(j < i)
      BY <1>6, <1>7
    <2> QED BY <2>1
  <1> QED BY <1>5, <1>7

LEMMA PlanTiles == PoolInit => RangesTile
  <1> SUFFICES ASSUME PoolInit, NEW b \in 0 .. Size - 1
               PROVE  /\ \E i \in Live : Holds(i, b)
                      /\ \A i, j \in Live : Holds(i, b) /\ Holds(j, b) => i = j
    BY DEF RangesTile
  <1>1. PICK n : n = nseg
    OBVIOUS
  <1>2. /\ n \in Nat \ {0} /\ n <= Size /\ n <= MaxSegs
    BY <1>1, PlanAssumption, SizeAssumption DEF PoolInit
  <1>3. Live = 0 .. n - 1 /\ \A i \in 0 .. n - 1 : i \in Seg /\ i < n
    BY <1>1, <1>2, PlanAssumption DEF Live, Seg
  <1>4. \A i \in Live : Holds(i, b) <=> InPlan(n, i, b)
    BY <1>1, <1>3 DEF PoolInit, Holds, InPlan
  <1> QED BY <1>2, <1>3, <1>4, PlanCovers

(* A split hands the tail of a range to a new segment.                     *)
LEMMA SplitTiles == ASSUME IInv, RangesTile, Assist PROVE RangesTile'
  <1>0. TypeInv /\ nseg \in Nat /\ nseg \in Seg /\ taken = nseg
    <2>1. TypeInv /\ nseg \in 0 .. MaxSegs /\ nseg < MaxSegs
      BY DEF IInv, Assist, TypeInv, DataOK
    <2> QED BY <2>1, PlanAssumption DEF Assist, Seg
  <1>1. PICK k \in Active, mid \in 0 .. Size - 1 :
           /\ Split(k, mid)
           /\ ~open /\ Cursor(k) <= mid /\ mid <= end[k]
    BY <1>0, AssistCuts
  <1>n. PICK new \in Seg : new = nseg
    BY <1>0
  <1>2. k \in Live /\ k \in Seg /\ k # new /\ k \in Int
    <2>1. k \in Seg /\ k < taken /\ k \in Nat
      BY PlanAssumption DEF Active, IInv, SegInv, Seg
    <2> QED BY <1>0, <1>n, <2>1 DEF Live
  <1>3. start[k] <= mid /\ mid \in Int /\ start[k] \in Int /\ end[k] \in Int
    <2>1. start[k] \in Int /\ written[k] \in Nat /\ end[k] \in Int /\ mid \in Int
      BY <1>0, <1>2, StageChange, SizeAssumption
    <2> QED BY <1>1, <2>1 DEF Cursor
  <1>4. Live' = Live \union {new} /\ new \notin Live
    BY <1>0, <1>1, <1>n DEF Split, Live
  <1>5. /\ start'[k] = start[k] /\ end'[k] = mid - 1
        /\ start'[new] = mid /\ end'[new] = end[k]
        /\ \A j \in Live \ {k} : start'[j] = start[j] /\ end'[j] = end[j]
    <2>1. Live \subseteq Seg
      BY <1>0, PlanAssumption DEF TypeInv, DataOK, Live, Seg
    <2>2. /\ start' = [start EXCEPT ![new] = mid]
          /\ end' = [end EXCEPT ![new] = end[k], ![k] = mid - 1]
      BY <1>1, <1>n DEF Split, Narrowed
    <2> QED BY <1>0, <1>2, <1>4, <2>1, <2>2 DEF TypeInv, DataOK
  <1>6. ASSUME NEW b \in 0 .. Size - 1
        PROVE  /\ \E i \in Live' : Holds(i, b)'
               /\ \A i, j \in Live' : Holds(i, b)' /\ Holds(j, b)' => i = j
    <2>1. /\ \E i \in Live : Holds(i, b)
          /\ \A i, j \in Live : Holds(i, b) /\ Holds(j, b) => i = j
      BY DEF RangesTile
    <2>2. b \in Int
      BY SizeAssumption
    <2>3. \A j \in Live \ {k} : Holds(j, b)' <=> Holds(j, b)
      BY <1>5 DEF Holds
    <2>4. Holds(k, b) <=> Holds(k, b)' \/ Holds(new, b)'
      BY <1>1, <1>3, <1>5, <2>2 DEF Holds
    <2>5. ~(Holds(k, b)' /\ Holds(new, b)')
      BY <1>3, <1>5, <2>2 DEF Holds
    <2> QED BY <1>2, <1>4, <2>1, <2>3, <2>4, <2>5
  <1> QED BY <1>6 DEF RangesTile

(* Only a split changes the ranges.                                        *)
LEMMA TilesStep == IInv /\ RangesTile /\ [PoolNext]_poolVars => RangesTile'
  <1> SUFFICES ASSUME IInv, RangesTile, [PoolNext]_poolVars PROVE RangesTile'
    OBVIOUS
  <1>1. CASE Assist
    BY <1>1, SplitTiles
  <1>2. CASE UNCHANGED <<nseg, start, end>>
    BY <1>2 DEF RangesTile, Live, Holds
  <1>3. CASE \E i \in Seg : WorkerNext(i)
    BY <1>2, <1>3, WorkerSeg DEF OwnOnly
  <1>4. CASE Get \/ Spawn \/ End \/ \E i \in Seg : Kill(i)
    BY <1>2, <1>4 DEF Get, Spawn, End, Kill, segVars
  <1>5. CASE ClearRunning \/ SetRunning \/ SetCancel
    BY <1>2, <1>5 DEF ClearRunning, SetRunning, SetCancel, segVars
  <1>6. CASE UNCHANGED poolVars
    BY <1>2, <1>6 DEF poolVars, segVars
  <1> QED BY <1>1, <1>3, <1>4, <1>5, <1>6 DEF PoolNext, TransferNext

(* pool.py, "parts stay non-overlapping": after any number of splits, in   *)
(* any state of the workers, every byte of the file belongs to exactly one *)
(* segment (planner.py, plan_segments; pool.py, _assist and _split).       *)
THEOREM TilesCorrect == PoolSpec => []RangesTile
  <1>1. PoolInit => IInv /\ RangesTile
    BY InvInit, PlanTiles
  <1>2. IInv /\ RangesTile /\ [PoolNext]_poolVars => IInv' /\ RangesTile'
    BY InvStep, TilesStep
  <1> QED BY <1>1, <1>2, PTL DEF PoolSpec

----------------------------------------------------------------------------
(* A completed segment that was never narrowed is whole.                   *)

(* A segment that kept the end the plan gave it, and is not empty.         *)
KeptEnd(i) == end[i] \in PlanEnds /\ start[i] <= end[i]

(* No planned end lies inside a range, so the end that a split leaves      *)
(* behind is never one of them.                                            *)
EndsOutside(i) == \A e \in PlanEnds : ~(start[i] <= e /\ e < end[i])
PlanKept == ~open => \A i \in Live : EndsOutside(i)

(* UnsplitWhole is not inductive: that the request of a worker ends where  *)
(* its segment does, and that its segment is not being split, must be      *)
(* known while the response is still arriving.                             *)
WholeInv(i) ==
    /\ at[i].pc # "rest" => i \notin completed
    /\ i \in splitting => ~KeptEnd(i)
    /\ at[i].pc \in {"request", "stream", "held", "limit"} /\ KeptEnd(i)
          => at[i].asked = end[i]
    /\ i \in completed /\ KeptEnd(i) => part[i] >= Length(i)

WInv == PlanKept /\ \A i \in Seg : WholeInv(i)

(* The ends of the plan are bytes of the file.                             *)
LEMMA PlanEndsInt == PlanEnds \subseteq -1 .. Size - 1
  <1>1. Connections \in Nat \ {0}
    BY PlanAssumption
  <1> QED BY <1>1, PlanBounds DEF PlanEnds

(* planner.py: a plan's ends are the ends of its ranges.                   *)
LEMMA PlanKeptInit == PoolInit => PlanKept
  <1> SUFFICES ASSUME PoolInit, ~open, NEW i \in Live, NEW e \in PlanEnds,
                      start[i] <= e, e < end[i]
               PROVE  FALSE
    BY DEF PlanKept, EndsOutside
  <1> DEFINE n == Connections
             q == Size \div n
  <1>1. n \in Nat \ {0} /\ nseg = n /\ i \in 0 .. n - 1 /\ i \in Seg
    BY PlanAssumption DEF PoolInit, Live, Seg
  <1>2. q \in Nat /\ n * q <= Size
    BY <1>1, SizeAssumption, DivFloor
  <1>3. PICK j \in 0 .. n - 1 : e = PlanEnd(n, j)
    BY DEF PlanEnds
  <1>4. start[i] = i * q /\ i * q \in Nat
    BY <1>1, <1>2, ProductMonotone DEF PoolInit, PlanStart
  <1>5. end[i] = PlanEnd(n, i)
    BY <1>1 DEF PoolInit
  <1>6. j # n - 1
    <2>1. ASSUME j = n - 1 PROVE FALSE
      <3>1. e = Size - 1
        BY <1>3, <2>1 DEF PlanEnd
      <3>2. end[i] \in -1 .. Size - 1
        BY <1>1, <1>5, PlanBounds
      <3> QED BY <3>1, <3>2, SizeAssumption
    <2> QED BY <2>1
  <1>7. e = (j + 1) * q - 1 /\ (j + 1) * q \in Nat /\ j + 1 \in Nat
    BY <1>1, <1>2, <1>3, <1>6, ProductMonotone DEF PlanEnd, PlanStart
  <1> HIDE DEF n, q
  <1>8. ~(j + 1 <= i)
    <2>1. ASSUME j + 1 <= i PROVE FALSE
      <3>1. (j + 1) * q <= i * q
        BY <1>1, <1>2, <1>7, <2>1, ProductMonotone
      <3> QED BY <1>4, <1>7, <3>1
    <2> QED BY <2>1
  <1>9. i < n - 1 /\ i + 1 \in Nat /\ i + 1 <= j + 1
    BY <1>1, <1>6, <1>8
  <1>10. end[i] = (i + 1) * q - 1
    BY <1>1, <1>5, <1>9 DEF PlanEnd, PlanStart, n, q
  <1>11. (i + 1) * q \in Nat /\ (i + 1) * q <= (j + 1) * q
    BY <1>2, <1>7, <1>9, ProductMonotone
  <1> QED BY <1>7, <1>10, <1>11

(* Nothing is recorded and nothing is in hand when a pool begins.          *)
LEMMA WholeInit == PoolInit => WInv
  <1> SUFFICES ASSUME PoolInit PROVE WInv
    OBVIOUS
  <1>1. \A i \in Seg : at[i].pc = "rest"
    BY DEF PoolInit, PoolReady, Rest, InHand
  <1>2. completed = {} /\ splitting = {}
    BY DEF PoolInit, PoolReady
  <1> QED BY <1>1, <1>2, PlanKeptInit DEF WInv, WholeInv

(* What a worker may record: its own segment and no other.                 *)
RecordsOwn(i) == /\ completed' \subseteq completed \union {i}
                 /\ splitting' \subseteq splitting

(* A segment that a step does not touch keeps what is known of it.         *)
LEMMA OthersWhole ==
  ASSUME NEW i \in Seg, OwnOnly(i), RecordsOwn(i), NEW j \in Seg \ {i},
         WholeInv(j)
  PROVE  WholeInv(j)'
  BY DEF OwnOnly, RecordsOwn, WholeInv, KeptEnd, PlanEnds, PlanEnd, PlanStart,
         Length

(* A worker that ends without recording its segment leaves nothing to know.*)
LEMMA LostWhole ==
  ASSUME TypeInv, NEW i \in Seg, WholeInv(i), at[i].pc # "rest",
         UNCHANGED <<start, end>>,
         \/ Abort(i) \/ Vanish(i) \/ Fail(i, "permanent") \/ Fail(i, "range")
  PROVE  WholeInv(i)' /\ RecordsOwn(i)
  <1>1. at'[i].pc = "rest"
    BY LeaveOwn
  <1>2. completed' = completed /\ splitting' = splitting \ {i}
    BY DEF Abort, Vanish, Fail, Leave
  <1> QED BY <1>1, <1>2 DEF WholeInv, RecordsOwn

(* A worker that records its segment must have written all of it.          *)
LEMMA FinishedWhole ==
  ASSUME TypeInv, NEW i \in Seg, Finish(i), UNCHANGED <<start, end>>,
         KeptEnd(i) => part'[i] >= Length(i)
  PROVE  WholeInv(i)' /\ RecordsOwn(i)
  <1>1. at'[i].pc = "rest"
    BY LeaveOwn
  <1>2. completed' = completed \union {i} /\ splitting' = splitting \ {i}
    BY DEF Finish, Leave
  <1> QED BY <1>1, <1>2 DEF WholeInv, RecordsOwn, KeptEnd, PlanEnds, PlanEnd,
             PlanStart, Length

(* A worker that goes on keeps its request.                                *)
LEMMA StaysWhole ==
  ASSUME NEW i \in Seg, WholeInv(i), at[i].pc # "rest",
         UNCHANGED <<start, end, completed, splitting>>,
         \/ at'[i].pc = "attempt"
         \/ at'[i].asked = end[i]
         \/ /\ at'[i].asked = at[i].asked
            /\ at[i].pc \in {"request", "stream", "held", "limit"}
  PROVE  WholeInv(i)' /\ RecordsOwn(i)
  BY DEF WholeInv, RecordsOwn, KeptEnd, PlanEnds, PlanEnd, PlanStart, Length

(* Progress past the end of a range that is not empty is on disk.          *)
LEMMA PassedWhole ==
  ASSUME TypeInv, NEW i \in Seg, DiskInv(i), Cursor(i) > end[i], KeptEnd(i)
  PROVE  part[i] >= Length(i)
  <1>1. /\ start[i] \in Int /\ end[i] \in Int
        /\ written[i] \in Nat /\ part[i] \in Int
    BY StageChange, SizeAssumption
  <1> QED BY <1>1 DEF DiskInv, Cursor, KeptEnd, Length

(* A retry begins another attempt or gives the segment up.                 *)
LEMMA RetryWhole ==
  ASSUME TypeInv, NEW i \in Seg, WholeInv(i), at[i].pc # "rest",
         UNCHANGED <<start, end>>, Retry(i)
  PROVE  WholeInv(i)' /\ RecordsOwn(i)
  <1>1. CASE at[i].tries >= RetryMax
    BY <1>1, LostWhole DEF Retry
  <1>2. CASE ~(at[i].tries >= RetryMax)
    <2>1. at'[i].pc = "attempt"
      BY <1>2 DEF Retry, InHand, TypeInv, WorkersOK
    <2> QED BY <1>2, <2>1, StaysWhole DEF Retry
  <1> QED BY <1>1, <1>2

(* A worker that stops after this chunk has a segment that was narrowed.   *)
LEMMA AppendWhole ==
  ASSUME TypeInv, NEW i \in Seg, WholeInv(i), NEW n \in Nat, Append(i, n),
         at[i].pc \in {"held", "limit"}, UNCHANGED <<start, end>>
  PROVE  WholeInv(i)' /\ RecordsOwn(i)
  <1>1. CASE i \in splitting
    <2>1. Finish(i) /\ ~KeptEnd(i)
      BY <1>1 DEF Append, WholeInv
    <2> QED BY <2>1, FinishedWhole
  <1>2. CASE i \notin splitting
    <2>1. /\ at'[i].asked = at[i].asked
          /\ UNCHANGED <<completed, splitting>>
      BY <1>2 DEF Append, Stage, TypeInv, WorkersOK
    <2> QED BY <2>1, StaysWhole
  <1> QED BY <1>1, <1>2

(* The steps of a worker, one after the other.                             *)
LEMMA WorkerWhole ==
  ASSUME IInv, Progress, NEW i \in Seg, WholeInv(i), WorkerNext(i)
  PROVE  WholeInv(i)' /\ RecordsOwn(i)
  <1>0. TypeInv /\ DiskInv(i)
    BY DEF IInv, Progress
  <1>1. UNCHANGED <<start, end>>
    BY WorkerSeg DEF OwnOnly
  <1>2. at[i] \in Stage /\ at \in [Seg -> Stage]
    BY <1>0 DEF TypeInv, WorkersOK
  <1>3. /\ start[i] \in Int /\ end[i] \in Int /\ at[i].asked \in Int
        /\ written[i] \in Nat /\ part[i] \in Int /\ Cursor(i) \in Int
    BY <1>0, <1>2, StageChange, SizeAssumption DEF Stage, Cursor
  <1>4. CASE Attempt(i)
    <2>1. at[i].pc = "attempt"
      BY <1>4 DEF Attempt, At
    <2>2. CASE Abort(i)
      BY <1>0, <1>1, <2>1, <2>2, LostWhole
    <2>3. CASE Cursor(i) > end[i] /\ Finish(i)
      BY <1>0, <1>1, <1>4, <2>3, PassedWhole, FinishedWhole DEF Attempt, segVars
    <2>4. CASE /\ at' = [at EXCEPT ![i].pc = "request", ![i].asked = end[i],
                                   ![i].from = written[i]]
               /\ UNCHANGED <<completed, splitting>>
      <3>1. at'[i].asked = end[i]
        BY <1>2, <2>4 DEF Stage
      <3> QED BY <1>1, <2>1, <2>4, <3>1, StaysWhole
    <2> QED BY <1>4, <2>2, <2>3, <2>4 DEF Attempt
  <1>5. CASE Body(i)
    <2>1. at[i].pc = "request" /\ UNCHANGED <<completed, splitting>>
      BY <1>5 DEF Body, At, Move
    <2>2. at'[i].asked = at[i].asked
      BY <1>2, <1>5 DEF Body, Move, Stage
    <2> QED BY <1>1, <2>1, <2>2, StaysWhole
  <1>6. CASE NoRange(i)
    BY <1>0, <1>1, <1>6, LostWhole DEF NoRange, At
  <1>7. CASE PastEnd(i)
    <2>1. at[i].pc = "request" /\ Finish(i) /\ part' = part
      BY <1>7 DEF PastEnd, At
    <2>2. KeptEnd(i) => Cursor(i) > end[i]
      BY <1>3, <1>7, <2>1 DEF PastEnd, WholeInv
    <2> QED BY <1>0, <1>1, <2>1, <2>2, PassedWhole, FinishedWhole
  <1>8. CASE \E error \in Faults : Fault(i, error)
    <2>1. at[i].pc \in {"request", "stream"}
      BY <1>8 DEF Fault, At
    <2> QED BY <1>0, <1>1, <1>8, <2>1, RetryWhole, LostWhole DEF Fault
  <1>9. CASE Receive(i)
    <2>1. at[i].pc = "stream" /\ UNCHANGED <<completed, splitting>>
      BY <1>9 DEF Receive, At
    <2>2. at'[i].asked = at[i].asked
      BY <1>2, <1>9 DEF Receive, Stage
    <2> QED BY <1>1, <2>1, <2>2, StaysWhole
  <1>10. CASE EndOfBody(i)
    <2>1. /\ at[i].pc = "stream" /\ Finish(i) /\ part' = part
          /\ Cursor(i) > at[i].asked
      BY <1>10 DEF EndOfBody, At, segVars
    <2>2. KeptEnd(i) => Cursor(i) > end[i]
      BY <2>1 DEF WholeInv
    <2> QED BY <1>0, <1>1, <2>1, <2>2, PassedWhole, FinishedWhole
  <1>11. CASE Clamp(i)
    <2> DEFINE n == IF open THEN at[i].chunk ELSE Least(at[i].chunk, Room(i))
    <2>1. at[i].pc = "held"
      BY <1>11 DEF Clamp, At
    <2>2. CASE Abort(i)
      BY <1>0, <1>1, <2>1, <2>2, LostWhole
    <2>3. CASE Room(i) <= 0 /\ Finish(i) /\ part' = part
      <3>1. Cursor(i) > end[i]
        BY <1>3, <2>3 DEF Room
      <3> QED BY <1>0, <1>1, <2>3, <3>1, PassedWhole, FinishedWhole
    <2>4. CASE /\ at' = [at EXCEPT ![i].pc = "limit", ![i].chunk = n]
               /\ UNCHANGED <<completed, splitting>>
      <3> HIDE DEF n
      <3>1. at'[i].asked = at[i].asked
        BY <1>2, <2>4 DEF Stage
      <3> QED BY <1>1, <2>1, <2>4, <3>1, StaysWhole
    <2>5. CASE (open \/ Room(i) > 0) /\ Append(i, n)
      <3>1. at[i].chunk \in Nat /\ Room(i) \in Int
        BY <1>2, <1>3 DEF Stage, Room
      <3>2. n \in Nat
        BY <2>5, <3>1 DEF Least
      <3> HIDE DEF n
      <3> QED BY <1>0, <1>1, <2>1, <2>5, <3>2, AppendWhole
    <2> QED BY <1>11, <2>2, <2>3, <2>4, <2>5 DEF Clamp
  <1>12. CASE Commit(i)
    <2>1. at[i].chunk \in Nat /\ at[i].pc = "limit"
      BY <1>2, <1>12 DEF Stage, Commit, At
    <2> QED BY <1>0, <1>1, <1>12, <2>1, AppendWhole DEF Commit
  <1>13. CASE DiskError(i)
    <2>1. at[i].pc # "rest"
      BY <1>13 DEF DiskError, At
    <2> QED BY <1>0, <1>1, <1>13, <2>1, LostWhole DEF DiskError
  <1> QED BY <1>4, <1>5, <1>6, <1>7, <1>8, <1>9, <1>10, <1>11, <1>12, <1>13
          DEF WorkerNext, Respond

(* Every step of a worker, of the ramp or of the user.                     *)
LEMMA PlanKeptStep == IInv /\ PlanKept /\ [PoolNext]_poolVars => PlanKept'
  <1> SUFFICES ASSUME IInv, PlanKept, [PoolNext]_poolVars PROVE PlanKept'
    OBVIOUS
  <1>1. CASE Assist
    <2>0. TypeInv /\ nseg \in Nat /\ nseg \in Seg /\ taken = nseg
      <3>1. TypeInv /\ nseg \in 0 .. MaxSegs /\ nseg < MaxSegs
        BY <1>1 DEF IInv, Assist, TypeInv, DataOK
      <3> QED BY <1>1, <3>1, PlanAssumption DEF Assist, Seg
    <2>1. PICK k \in Active, mid \in 0 .. Size - 1 :
             Split(k, mid) /\ ~open /\ Cursor(k) <= mid /\ mid <= end[k]
      BY <1>1, <2>0, AssistCuts
    <2>n. PICK new \in Seg : new = nseg
      BY <2>0
    <2>2. k \in Seg /\ k \in Live /\ k # new
      <3>1. k \in Seg /\ k < taken /\ k \in Nat
        BY PlanAssumption DEF Active, IInv, SegInv, Seg
      <3> QED BY <2>0, <2>n, <3>1 DEF Live
    <2>3. start[k] <= mid /\ mid \in Int /\ start[k] \in Int /\ end[k] \in Int
      <3>1. start[k] \in Int /\ written[k] \in Nat /\ end[k] \in Int /\ mid \in Int
        BY <2>0, <2>2, StageChange, SizeAssumption
      <3> QED BY <2>1, <3>1 DEF Cursor
    <2>4. Live' = Live \union {new} /\ new \notin Live
      BY <2>0, <2>1, <2>n DEF Split, Live
    <2>5. /\ start'[k] = start[k] /\ end'[k] = mid - 1
          /\ start'[new] = mid /\ end'[new] = end[k]
          /\ \A j \in Live \ {k} : start'[j] = start[j] /\ end'[j] = end[j]
      <3>1. Live \subseteq Seg
        BY <2>0, PlanAssumption DEF TypeInv, DataOK, Live, Seg
      <3>2. /\ start' = [start EXCEPT ![new] = mid]
            /\ end' = [end EXCEPT ![new] = end[k], ![k] = mid - 1]
        BY <2>1, <2>n DEF Split, Narrowed
      <3> QED BY <2>0, <2>2, <2>4, <3>1, <3>2 DEF TypeInv, DataOK
    <2>6. ASSUME NEW i \in Live', NEW e \in PlanEnds, start'[i] <= e, e < end'[i]
          PROVE  FALSE
      <3>1. e \in Int
        BY PlanEndsInt, SizeAssumption
      <3>2. \A j \in Live : ~(start[j] <= e /\ e < end[j])
        BY <2>1 DEF PlanKept, EndsOutside
      <3>3. ~(start[k] <= e /\ e < end[k])
        BY <2>2, <3>2
      <3>5. CASE i = k
        <4>1. start[k] <= e /\ e < mid - 1
          BY <2>5, <2>6, <3>5
        <4> QED BY <2>1, <2>3, <3>1, <3>3, <4>1
      <3>6. CASE i = new
        <4>1. mid <= e /\ e < end[k]
          BY <2>5, <2>6, <3>6
        <4> QED BY <2>3, <3>1, <3>3, <4>1
      <3>4. CASE i \in Live \ {k}
        BY <2>5, <2>6, <3>2, <3>4
      <3> QED BY <2>4, <3>4, <3>5, <3>6
    <2>7. PlanEnds' = PlanEnds
      BY DEF PlanEnds, PlanEnd, PlanStart
    <2> QED BY <2>6, <2>7 DEF PlanKept, EndsOutside
  <1>2. CASE UNCHANGED <<nseg, start, end, open>>
    BY <1>2 DEF PlanKept, EndsOutside, Live, PlanEnds, PlanEnd, PlanStart
  <1>3. CASE \E i \in Seg : WorkerNext(i)
    BY <1>2, <1>3, WorkerSeg DEF OwnOnly
  <1>4. CASE Get \/ Spawn \/ End \/ \E i \in Seg : Kill(i)
    BY <1>2, <1>4 DEF Get, Spawn, End, Kill, segVars
  <1>5. CASE ClearRunning \/ SetRunning \/ SetCancel \/ UNCHANGED poolVars
    BY <1>2, <1>5 DEF ClearRunning, SetRunning, SetCancel, poolVars, segVars
  <1> QED BY <1>1, <1>3, <1>4, <1>5 DEF PoolNext, TransferNext

(* A segment that is narrowed lost its planned end, and the segment that   *)
(* was made of its tail has been recorded by nobody.                       *)
LEMMA AssistWhole ==
  ASSUME IInv, WInv, Assist, NEW j \in Seg
  PROVE  WholeInv(j)'
  <1>0. TypeInv /\ nseg \in Seg /\ taken = nseg /\ PlanKept
    <2>1. TypeInv /\ nseg \in 0 .. MaxSegs /\ nseg < MaxSegs
      BY DEF IInv, Assist, TypeInv, DataOK
    <2> QED BY <2>1, PlanAssumption DEF Assist, Seg, WInv
  <1>1. PICK k \in Active, mid \in 0 .. Size - 1 :
           Split(k, mid) /\ ~open /\ Cursor(k) <= mid /\ mid <= end[k]
    BY <1>0, AssistCuts
  <1>n. PICK new \in Seg : new = nseg
    BY <1>0
  <1>2. /\ k \in Seg /\ k # new /\ k \in Live /\ at[k].pc # "rest"
        /\ at[new].pc = "rest"
    <2>1. k \in Seg /\ k < taken /\ k \in Nat /\ at[k].pc # "rest"
      BY PlanAssumption DEF Active, IInv, SegInv, Seg
    <2>2. at[new].pc = "rest"
      BY <1>0, <1>n, PlanAssumption DEF IInv, SegInv, Seg
    <2>3. nseg \in Nat
      BY <1>0, PlanAssumption DEF Seg
    <2> QED BY <1>0, <1>n, <2>1, <2>2, <2>3 DEF Live
  <1>3. /\ start' = [start EXCEPT ![new] = mid]
        /\ end' = [end EXCEPT ![new] = end[k], ![k] = mid - 1]
        /\ part'[j] = part[j] \/ j = new
        /\ completed' = completed \ {new}
        /\ splitting' = splitting \union {k}
        /\ at' = at
    BY <1>1, <1>n DEF Split, Narrowed, Assist, TypeInv, DataOK, IInv
  <1>4. start \in [Seg -> 0 .. Size] /\ end \in [Seg -> -1 .. Size - 1]
    BY <1>0 DEF TypeInv, DataOK
  <1>5. PlanEnds' = PlanEnds
    BY DEF PlanEnds, PlanEnd, PlanStart
  <1>6. WholeInv(j)
    BY DEF WInv
  <1>7. CASE j = new
    <2>1. j \notin completed' /\ j \notin splitting' /\ at'[j].pc = "rest"
      <3>1. new \notin splitting
        BY <1>0, <1>2 DEF TypeInv, WorkersOK, Active
      <3> QED BY <1>2, <1>3, <1>7, <3>1
    <2> QED BY <2>1 DEF WholeInv
  <1>8. CASE j = k
    <2>1. start'[j] = start[j] /\ end'[j] = mid - 1
      BY <1>2, <1>3, <1>4, <1>8
    <2>2. ~KeptEnd(j)'
      <3>1. ASSUME mid - 1 \in PlanEnds, start[k] <= mid - 1 PROVE FALSE
        <4>1. start[k] <= mid - 1 /\ mid - 1 < end[k]
          BY <1>1, <1>2, <1>4, <3>1, SizeAssumption
        <4> QED BY <1>0, <1>1, <1>2, <3>1, <4>1 DEF PlanKept, EndsOutside
      <3> QED BY <1>5, <1>8, <2>1, <3>1 DEF KeptEnd
    <2>3. at'[j].pc # "rest" /\ j \notin completed'
      BY <1>2, <1>3, <1>6, <1>8 DEF WholeInv
    <2> QED BY <2>2, <2>3 DEF WholeInv
  <1>9. CASE j # new /\ j # k
    <2>1. start'[j] = start[j] /\ end'[j] = end[j] /\ part'[j] = part[j]
      BY <1>2, <1>3, <1>4, <1>9
    <2>2. /\ KeptEnd(j)' <=> KeptEnd(j)
          /\ Length(j)' = Length(j)
      BY <1>5, <2>1 DEF KeptEnd, Length
    <2> QED BY <1>3, <1>6, <1>9, <2>1, <2>2 DEF WholeInv
  <1> QED BY <1>7, <1>8, <1>9

(* A segment taken again is recorded no longer.                            *)
LEMMA GetWhole == ASSUME IInv, WInv, Get, NEW j \in Seg PROVE WholeInv(j)'
  <1>0. WholeInv(j) /\ at \in [Seg -> Stage] /\ splitting \subseteq Active
    BY DEF WInv, IInv, TypeInv, WorkersOK
  <1>1. UNCHANGED <<start, end, part, splitting>> /\ completed' = completed \ {taken}
    BY DEF Get, segVars
  <1>2. KeptEnd(j)' <=> KeptEnd(j)
    BY <1>1 DEF KeptEnd, PlanEnds, PlanEnd, PlanStart
  <1>3. CASE j = taken
    <2>1. at'[j].pc = "attempt" /\ j \notin completed'
      BY <1>0, <1>1, <1>3 DEF Get, InHand
    <2> QED BY <1>0, <1>1, <1>2, <2>1 DEF WholeInv
  <1>4. CASE j # taken
    <2>1. at'[j] = at[j]
      BY <1>0, <1>4 DEF Get
    <2> QED BY <1>0, <1>1, <1>2, <2>1 DEF WholeInv, Length
  <1> QED BY <1>3, <1>4

(* Every step keeps what is known of completed segments.                   *)
LEMMA WholeStep == IInv /\ Progress /\ WInv /\ [PoolNext]_poolVars => WInv'
  <1> SUFFICES ASSUME IInv, Progress, WInv, [PoolNext]_poolVars,
                      NEW j \in Seg
               PROVE  WholeInv(j)'
    BY PlanKeptStep DEF WInv, Seg
  <1>0. WholeInv(j) /\ TypeInv
    BY DEF WInv, IInv
  <1>1. ASSUME NEW i \in Seg, WorkerNext(i) PROVE WholeInv(j)'
    BY <1>0, <1>1, WorkerSeg, WorkerWhole, OthersWhole DEF WInv
  <1>2. ASSUME NEW i \in Seg, Kill(i) PROVE WholeInv(j)'
    <2>1. at[i].pc # "rest" /\ UNCHANGED <<start, end>>
      BY <1>0, <1>2 DEF Kill, segVars, TypeInv, WorkersOK, Active
    <2>2. Vanish(i) /\ OwnOnly(i)
      BY <1>0, <1>2, LeaveOwn DEF Kill, segVars, OwnOnly
    <2>3. WholeInv(i)' /\ RecordsOwn(i)
      BY <1>0, <2>1, <2>2, LostWhole DEF WInv
    <2> QED BY <1>0, <2>2, <2>3, OthersWhole
  <1>3. CASE UNCHANGED <<segVars, at, completed, splitting>>
    BY <1>0, <1>3 DEF segVars, WholeInv, KeptEnd, PlanEnds, PlanEnd, PlanStart,
                      Length
  <1>4. CASE End
    <2>1. at'[j].pc = "rest" /\ splitting' = {}
      BY <1>4 DEF End, Rest, InHand
    <2>2. UNCHANGED <<segVars, completed>>
      BY <1>4 DEF End
    <2> QED BY <1>0, <2>1, <2>2 DEF segVars, WholeInv, KeptEnd, PlanEnds,
               PlanEnd, PlanStart, Length
  <1>5. CASE Spawn \/ ClearRunning \/ SetRunning \/ SetCancel
             \/ UNCHANGED poolVars
    BY <1>3, <1>5 DEF Spawn, ClearRunning, SetRunning, SetCancel, poolVars,
                      workVars
  <1>6. CASE Get \/ Assist
    BY <1>6, GetWhole, AssistWhole
  <1> QED BY <1>1, <1>2, <1>4, <1>5, <1>6 DEF PoolNext, TransferNext

(* pool.py and segment.py: whatever the order of retries, pauses, failed   *)
(* writes, splits and killed workers, a segment that is recorded as        *)
(* completed and kept the end the plan gave it is on disk to its last byte.*)
THEOREM UnsplitCorrect == PoolSpec => []UnsplitWhole
  <1>1. PoolInit => IInv /\ Progress /\ WInv
    BY InvInit, WholeInit
  <1>2. IInv /\ Progress /\ WInv /\ [PoolNext]_poolVars
           => IInv' /\ Progress' /\ WInv'
    BY InvStep, ProgressStep, WholeStep
  <1>3. IInv /\ WInv => UnsplitWhole
    BY DEF IInv, TypeInv, WorkersOK, WInv, WholeInv, KeptEnd, UnsplitWhole
  <1> QED BY <1>1, <1>2, <1>3, PTL DEF PoolSpec

-----------------------------------------------------------------------------
(* What a split has to leave for its promise to hold.                      *)

(* A split leaves the segment it narrows only bytes that are written or in *)
(* the hands of its worker.  _split does not see to it, except for a       *)
(* segment that is stalled: of that it hands over all that is missing.     *)
SplitsCovered ==
    \A i \in Live : end'[i] < end[i] => Cursor(i) + at[i].chunk > end'[i]

(* The worker of a split segment ends with its next chunk, so that chunk   *)
(* has to reach the end; and no request of a worker stops before the end.  *)
CoverInv(i) ==
    /\ at[i].pc \in {"attempt", "request", "stream"} => at[i].chunk = 0
    /\ at[i].pc \in {"request", "stream", "held", "limit"} => end[i] <= at[i].asked
    /\ i \in splitting => Cursor(i) + at[i].chunk > end[i]
    /\ i \in completed => written[i] >= Length(i)

Covered == ~open => \A i \in Seg : CoverInv(i)

(* The numbers of a segment.                                               *)
LEMMA Numbers ==
  ASSUME TypeInv, NEW i \in Seg
  PROVE  /\ start[i] \in Int /\ end[i] \in Int /\ written[i] \in Nat
         /\ at \in [Seg -> Stage] /\ at[i] \in Stage
         /\ at[i].asked \in Int /\ at[i].chunk \in Nat
         /\ Cursor(i) \in Int /\ Cursor(i) = start[i] + written[i]
         /\ Length(i) = end[i] - start[i] + 1
  <1>1. /\ start[i] \in Int /\ end[i] \in Int /\ written[i] \in Nat
        /\ at[i] \in Stage /\ at \in [Seg -> Stage]
    BY StageChange, SizeAssumption DEF TypeInv, WorkersOK
  <1> QED BY <1>1 DEF Stage, Cursor, Length

(* A segment that a step does not touch keeps what is known of it.         *)
LEMMA OthersCovered ==
  ASSUME NEW i \in Seg, OwnOnly(i), RecordsOwn(i), NEW j \in Seg \ {i}, CoverInv(j)
  PROVE  CoverInv(j)'
  BY DEF OwnOnly, RecordsOwn, CoverInv, Cursor, Length

(* A worker that ends without recording its segment leaves nothing to know.*)
LEMMA LostCovered ==
  ASSUME TypeInv, NEW i \in Seg, WholeInv(i), at[i].pc # "rest",
         \/ Abort(i) \/ Vanish(i) \/ Fail(i, "permanent") \/ Fail(i, "range")
  PROVE  CoverInv(i)'
  <1>1. at'[i].pc = "rest"
    BY LeaveOwn
  <1>2. completed' = completed /\ splitting' = splitting \ {i}
    BY DEF Abort, Vanish, Fail, Leave
  <1> QED BY <1>1, <1>2 DEF WholeInv, CoverInv

(* A worker that records its segment must have written all of it.          *)
LEMMA FinishedCovered ==
  ASSUME TypeInv, NEW i \in Seg, Finish(i), UNCHANGED <<start, end>>,
         written'[i] >= Length(i)
  PROVE  CoverInv(i)'
  <1>1. at'[i].pc = "rest"
    BY LeaveOwn
  <1>2. splitting' = splitting \ {i}
    BY DEF Finish, Leave
  <1> QED BY <1>1, <1>2 DEF CoverInv, Length

(* Progress past the end of a range is all of the range.                   *)
LEMMA PassedCovered ==
  ASSUME TypeInv, NEW i \in Seg, Cursor(i) > end[i], written' = written
  PROVE  written'[i] >= Length(i)
  BY Numbers

(* A worker that goes on keeps the end of its segment in reach.            *)
LEMMA StaysCovered ==
  ASSUME NEW i \in Seg, CoverInv(i), WholeInv(i), at[i].pc # "rest",
         UNCHANGED <<start, end, completed, splitting>>,
         at'[i].pc \in {"attempt", "request", "stream"} => at'[i].chunk = 0,
         at'[i].pc \in {"request", "stream", "held", "limit"} => end[i] <= at'[i].asked,
         i \in splitting => start[i] + written'[i] + at'[i].chunk > end[i]
  PROVE  CoverInv(i)'
  BY DEF CoverInv, WholeInv, Cursor

(* A retry begins another attempt or gives the segment up.                 *)
LEMMA RetryCovered ==
  ASSUME TypeInv, NEW i \in Seg, CoverInv(i), WholeInv(i),
         at[i].pc \in {"request", "stream"},
         UNCHANGED <<start, end, written>>, Retry(i)
  PROVE  CoverInv(i)'
  <1>1. CASE at[i].tries >= RetryMax
    BY <1>1, LostCovered DEF Retry
  <1>2. CASE ~(at[i].tries >= RetryMax)
    <2>1. at'[i].pc = "attempt" /\ at'[i].chunk = 0
      BY <1>2 DEF Retry, InHand, TypeInv, WorkersOK
    <2>2. at[i].chunk = 0
      BY DEF CoverInv
    <2>3. i \in splitting => start[i] + written'[i] + at'[i].chunk > end[i]
      BY <2>1, <2>2, Numbers DEF CoverInv
    <2>4. UNCHANGED <<completed, splitting>>
      BY <1>2 DEF Retry
    <2> QED BY <2>1, <2>3, <2>4, StaysCovered
  <1> QED BY <1>1, <1>2

(* The last chunk of a split segment reaches its end.                      *)
LEMMA AppendCovered ==
  ASSUME TypeInv, NEW i \in Seg, CoverInv(i), WholeInv(i), NEW n \in Nat, Append(i, n),
         at[i].pc \in {"held", "limit"}, UNCHANGED <<start, end>>,
         i \in splitting => written[i] + n >= Length(i)
  PROVE  CoverInv(i)'
  <1>1. written'[i] = written[i] + n
    BY AppendOwn
  <1>2. CASE i \in splitting
    BY <1>1, <1>2, FinishedCovered DEF Append
  <1>3. CASE i \notin splitting
    <2>1. /\ at'[i].pc = "stream" /\ at'[i].chunk = 0 /\ at'[i].asked = at[i].asked
          /\ UNCHANGED <<completed, splitting>>
      BY <1>3 DEF Append, Stage, TypeInv, WorkersOK
    <2>2. end[i] <= at'[i].asked
      BY <2>1 DEF CoverInv
    <2> QED BY <1>3, <2>1, <2>2, StaysCovered
  <1> QED BY <1>2, <1>3

(* The steps of a worker, one after the other.                             *)
LEMMA WorkerCovered ==
  ASSUME IInv, ~open, NEW i \in Seg, WholeInv(i), CoverInv(i), WorkerNext(i)
  PROVE  CoverInv(i)'
  <1>0. TypeInv
    BY DEF IInv
  <1>1. UNCHANGED <<start, end>>
    BY WorkerSeg DEF OwnOnly
  <1>2. at[i] \in Stage /\ at \in [Seg -> Stage]
    BY <1>0, Numbers
  <1>3. /\ start[i] \in Int /\ end[i] \in Int /\ at[i].asked \in Int
        /\ written[i] \in Nat /\ at[i].chunk \in Nat /\ Cursor(i) \in Int
        /\ Cursor(i) = start[i] + written[i] /\ Length(i) = end[i] - start[i] + 1
    BY <1>0, Numbers
  <1>4. CASE Attempt(i)
    <2>1. at[i].pc = "attempt" /\ written' = written
      BY <1>4 DEF Attempt, At, segVars
    <2>2. CASE Abort(i)
      BY <1>0, <2>1, <2>2, LostCovered
    <2>3. CASE Cursor(i) > end[i] /\ Finish(i)
      BY <1>0, <1>1, <2>1, <2>3, PassedCovered, FinishedCovered
    <2>4. CASE /\ at' = [at EXCEPT ![i].pc = "request", ![i].asked = end[i],
                                   ![i].from = written[i]]
               /\ UNCHANGED <<completed, splitting>>
      <3>1. at'[i].asked = end[i] /\ at'[i].chunk = at[i].chunk
        BY <1>2, <2>4 DEF Stage
      <3>2. at[i].chunk = 0
        BY <2>1 DEF CoverInv
      <3>3. i \in splitting => start[i] + written'[i] + at'[i].chunk > end[i]
        BY <1>3, <2>1, <3>1 DEF CoverInv
      <3>4. end[i] <= at'[i].asked
        BY <1>3, <3>1
      <3> QED BY <1>1, <2>1, <2>4, <3>1, <3>2, <3>3, <3>4, StaysCovered
    <2> QED BY <1>4, <2>2, <2>3, <2>4 DEF Attempt
  <1>5. CASE Body(i)
    <2>1. at[i].pc = "request" /\ UNCHANGED <<completed, splitting, written>>
      BY <1>5 DEF Body, At, Move
    <2>2. at'[i].asked = at[i].asked /\ at'[i].chunk = at[i].chunk
      BY <1>2, <1>5 DEF Body, Move, Stage
    <2>3. at[i].chunk = 0 /\ end[i] <= at[i].asked
      BY <2>1 DEF CoverInv
    <2>4. i \in splitting => start[i] + written'[i] + at'[i].chunk > end[i]
      BY <1>3, <2>1, <2>2 DEF CoverInv
    <2> QED BY <1>1, <2>1, <2>2, <2>3, <2>4, StaysCovered
  <1>6. CASE NoRange(i)
    BY <1>0, <1>6, LostCovered DEF NoRange, At
  <1>7. CASE PastEnd(i)
    <2>1. Finish(i) /\ written'[i] = Length(i)
      BY <1>0, <1>7 DEF PastEnd, TypeInv, DataOK
    <2>2. written'[i] >= Length(i)
      BY <1>3, <2>1
    <2> QED BY <1>0, <1>1, <2>1, <2>2, FinishedCovered
  <1>8. CASE \E error \in Faults : Fault(i, error)
    <2>1. at[i].pc \in {"request", "stream"} /\ written' = written
      BY <1>8 DEF Fault, At, segVars
    <2>2. Retry(i) \/ Fail(i, "permanent")
      BY <1>8 DEF Fault
    <2> QED BY <1>0, <1>1, <2>1, <2>2, RetryCovered, LostCovered
  <1>9. CASE Receive(i)
    <2>1. at[i].pc = "stream" /\ UNCHANGED <<completed, splitting, written>>
      BY <1>9 DEF Receive, At, segVars
    <2>2. PICK n \in Nat : at' = [at EXCEPT ![i].pc = "held", ![i].chunk = n]
      <3>1. \A n \in 1 .. Least(ChunkMax, at[i].asked - Cursor(i) + 1) : n \in Nat
        OBVIOUS
      <3> QED BY <1>9, <3>1 DEF Receive
    <2>3. at'[i].pc = "held" /\ at'[i].asked = at[i].asked /\ at'[i].chunk = n
      BY <1>2, <2>2 DEF Stage
    <2>4. at[i].chunk = 0 /\ end[i] <= at[i].asked
      BY <2>1 DEF CoverInv
    <2>5. i \in splitting => start[i] + written'[i] + at'[i].chunk > end[i]
      BY <1>3, <2>1, <2>3, <2>4 DEF CoverInv
    <2> QED BY <1>1, <2>1, <2>3, <2>4, <2>5, StaysCovered
  <1>10. CASE EndOfBody(i)
    <2>1. /\ at[i].pc = "stream" /\ Finish(i) /\ written' = written
          /\ Cursor(i) > at[i].asked
      BY <1>10 DEF EndOfBody, At, segVars
    <2>2. end[i] <= at[i].asked
      BY <2>1 DEF CoverInv
    <2>3. Cursor(i) > end[i]
      BY <1>3, <2>1, <2>2
    <2> QED BY <1>0, <1>1, <2>1, <2>3, PassedCovered, FinishedCovered
  <1>11. CASE Clamp(i)
    <2> DEFINE n == Least(at[i].chunk, Room(i))
    <2>1. at[i].pc = "held"
      BY <1>11 DEF Clamp, At
    <2>2. CASE Abort(i)
      BY <1>0, <2>1, <2>2, LostCovered
    <2>3. CASE Room(i) <= 0 /\ Finish(i) /\ written' = written
      <3>1. Cursor(i) > end[i]
        BY <1>3, <2>3 DEF Room
      <3> QED BY <1>0, <1>1, <2>3, <3>1, PassedCovered, FinishedCovered
    <2>4. ASSUME Room(i) > 0
          PROVE  /\ n \in Nat
                 /\ i \in splitting => Cursor(i) + n > end[i] /\ written[i] + n >= Length(i)
      <3>1. Room(i) = end[i] - Cursor(i) + 1
        BY DEF Room
      <3>2. i \in splitting => Cursor(i) + at[i].chunk > end[i]
        BY DEF CoverInv
      <3> QED BY <1>3, <2>4, <3>1, <3>2 DEF Least
    <2>5. CASE /\ Room(i) > 0
               /\ at' = [at EXCEPT ![i].pc = "limit", ![i].chunk = n]
               /\ UNCHANGED <<completed, splitting, written>>
      <3>1. /\ n \in Nat
            /\ i \in splitting => Cursor(i) + n > end[i]
        BY <2>4, <2>5
      <3> HIDE DEF n
      <3>2. at'[i].pc = "limit" /\ at'[i].asked = at[i].asked /\ at'[i].chunk = n
        BY <1>2, <2>5 DEF Stage
      <3>3. end[i] <= at'[i].asked
        BY <2>1, <3>2 DEF CoverInv
      <3>4. i \in splitting => start[i] + written'[i] + at'[i].chunk > end[i]
        BY <1>3, <2>5, <3>1, <3>2
      <3> QED BY <1>1, <2>1, <2>5, <3>2, <3>3, <3>4, StaysCovered
    <2>6. CASE Room(i) > 0 /\ Append(i, n)
      <3>1. n \in Nat /\ (i \in splitting => written[i] + n >= Length(i))
        BY <2>4, <2>6
      <3> HIDE DEF n
      <3> QED BY <1>0, <1>1, <2>1, <2>6, <3>1, AppendCovered
    <2> QED BY <1>11, <2>2, <2>3, <2>5, <2>6 DEF Clamp
  <1>12. CASE Commit(i)
    <2>1. at[i].pc = "limit" /\ Append(i, at[i].chunk)
      BY <1>12 DEF Commit, At
    <2>2. i \in splitting => written[i] + at[i].chunk >= Length(i)
      BY <1>3 DEF CoverInv
    <2> QED BY <1>0, <1>1, <1>3, <2>1, <2>2, AppendCovered
  <1>13. CASE DiskError(i)
    <2>1. at[i].pc # "rest" /\ Vanish(i)
      BY <1>13 DEF DiskError, At
    <2> QED BY <1>0, <2>1, LostCovered
  <1> QED BY <1>4, <1>5, <1>6, <1>7, <1>8, <1>9, <1>10, <1>11, <1>12, <1>13
          DEF WorkerNext, Respond

(* A covered split leaves its segment the bytes its worker holds.          *)
LEMMA AssistCovered ==
  ASSUME IInv, WInv, Covered, Assist, SplitsCovered, NEW j \in Seg
  PROVE  CoverInv(j)'
  <1>0. TypeInv /\ nseg \in Seg /\ taken = nseg
    <2>1. TypeInv /\ nseg \in 0 .. MaxSegs /\ nseg < MaxSegs
      BY DEF IInv, Assist, TypeInv, DataOK
    <2> QED BY <2>1, PlanAssumption DEF Assist, Seg
  <1>1. PICK k \in Active, mid \in 0 .. Size - 1 :
           Split(k, mid) /\ ~open /\ Cursor(k) <= mid /\ mid <= end[k]
    BY <1>0, AssistCuts
  <1>n. PICK new \in Seg : new = nseg
    BY <1>0
  <1>2. /\ k \in Seg /\ k # new /\ k \in Live /\ at[k].pc # "rest"
        /\ at[new].pc = "rest"
    <2>1. k \in Seg /\ k < taken /\ k \in Nat /\ at[k].pc # "rest"
      BY PlanAssumption DEF Active, IInv, SegInv, Seg
    <2>2. at[new].pc = "rest"
      BY <1>0, <1>n, PlanAssumption DEF IInv, SegInv, Seg
    <2>3. nseg \in Nat
      BY <1>0, PlanAssumption DEF Seg
    <2> QED BY <1>0, <1>n, <2>1, <2>2, <2>3 DEF Live
  <1>3. /\ start' = [start EXCEPT ![new] = mid]
        /\ end' = [end EXCEPT ![new] = end[k], ![k] = mid - 1]
        /\ written' = [written EXCEPT ![new] = 0]
        /\ completed' = completed \ {new}
        /\ splitting' = splitting \union {k}
        /\ at' = at
    BY <1>1, <1>n DEF Split, Narrowed, Assist
  <1>4. /\ start \in [Seg -> 0 .. Size] /\ end \in [Seg -> -1 .. Size - 1]
        /\ written \in [Seg -> Nat]
    BY <1>0 DEF TypeInv, DataOK
  <1>5. CoverInv(j) /\ WholeInv(j)
    BY <1>1 DEF Covered, WInv
  <1>6. CASE j = new
    <2>1. new \notin splitting
      BY <1>0, <1>2 DEF TypeInv, WorkersOK, Active
    <2>2. j \notin completed' /\ j \notin splitting' /\ at'[j].pc = "rest"
      BY <1>2, <1>3, <1>6, <2>1
    <2> QED BY <2>2 DEF CoverInv
  <1>7. CASE j = k
    <2>1. start'[j] = start[j] /\ end'[j] = mid - 1 /\ written'[j] = written[j]
      BY <1>2, <1>3, <1>4, <1>7
    <2>2. mid - 1 < end[k]
      BY <1>1, <1>2, <1>4, SizeAssumption
    <2>3. Cursor(k) + at[k].chunk > mid - 1
      BY <1>2, <1>7, <2>1, <2>2 DEF SplitsCovered
    <2>4. (Cursor(j) + at[j].chunk > end[j])'
      BY <1>3, <1>7, <2>1, <2>3 DEF Cursor
    <2>5. at[j].pc \in {"request", "stream", "held", "limit"} => end'[j] <= at[j].asked
      <3>1. at[j].asked \in Int /\ end[j] \in Int /\ mid \in Int
        BY <1>0, Numbers, SizeAssumption
      <3> QED BY <1>5, <1>7, <2>1, <2>2, <3>1 DEF CoverInv
    <2>6. j \notin completed'
      BY <1>2, <1>3, <1>5, <1>7 DEF WholeInv
    <2> QED BY <1>3, <1>5, <2>4, <2>5, <2>6 DEF CoverInv
  <1>8. CASE j # new /\ j # k
    <2>1. start'[j] = start[j] /\ end'[j] = end[j] /\ written'[j] = written[j]
      BY <1>2, <1>3, <1>4, <1>8
    <2> QED BY <1>3, <1>5, <1>8, <2>1 DEF CoverInv, Cursor, Length
  <1> QED BY <1>6, <1>7, <1>8

(* A segment is taken with nothing in hand.                                *)
LEMMA GetCovered ==
  ASSUME IInv, Get, NEW j \in Seg, CoverInv(j)
  PROVE  CoverInv(j)'
  <1>0. at \in [Seg -> Stage] /\ splitting \subseteq Active /\ TypeInv
    BY DEF IInv, TypeInv, WorkersOK
  <1>1. UNCHANGED <<start, end, written, splitting>> /\ completed' = completed \ {taken}
    BY DEF Get, segVars
  <1>2. CASE j = taken
    <2>1. at'[j].pc = "attempt" /\ at'[j].chunk = 0 /\ j \notin completed'
      BY <1>0, <1>1, <1>2 DEF Get, InHand
    <2>2. j \notin splitting
      <3>1. taken \in Int /\ (at[j].pc # "rest" => j < taken)
        BY <1>2, PlanAssumption DEF IInv, SegInv, Seg
      <3>2. at[j].pc = "rest"
        BY <1>2, <3>1
      <3> QED BY <1>0, <3>2 DEF Active
    <2> QED BY <1>1, <2>1, <2>2 DEF CoverInv
  <1>3. CASE j # taken
    <2>1. at'[j] = at[j]
      BY <1>0, <1>3 DEF Get
    <2> QED BY <1>1, <2>1 DEF CoverInv, Cursor, Length
  <1> QED BY <1>2, <1>3

(* Every step keeps it.                                                    *)
LEMMA CoveredStep ==
  IInv /\ Progress /\ WInv /\ Covered /\ [PoolNext]_poolVars /\ [SplitsCovered]_poolVars
    => Covered'
  <1> SUFFICES ASSUME IInv, Progress, WInv, Covered, [PoolNext]_poolVars,
                      [SplitsCovered]_poolVars, ~open', NEW j \in Seg
               PROVE  CoverInv(j)'
    BY DEF Covered, Seg
  <1>1. ASSUME NEW i \in Seg, WorkerNext(i) PROVE CoverInv(j)'
    <2>1. OwnOnly(i) /\ ~open /\ WholeInv(i)
      BY <1>1, WorkerSeg DEF OwnOnly, WInv
    <2>2. RecordsOwn(i)
      BY <1>1, <2>1, WorkerWhole
    <2>3. CoverInv(i) /\ CoverInv(j)
      BY <2>1 DEF Covered
    <2> QED BY <1>1, <2>1, <2>2, <2>3, WorkerCovered, OthersCovered
  <1>2. ASSUME NEW i \in Seg, Kill(i) PROVE CoverInv(j)'
    <2>0. TypeInv /\ WholeInv(i)
      BY DEF IInv, WInv
    <2>1. at[i].pc # "rest" /\ UNCHANGED <<start, end>>
      BY <2>0, <1>2 DEF Kill, segVars, TypeInv, WorkersOK, Active
    <2>2. Vanish(i) /\ OwnOnly(i) /\ ~open
      BY <2>0, <1>2, LeaveOwn DEF Kill, segVars, OwnOnly
    <2>3. CoverInv(i)' /\ RecordsOwn(i)
      BY <2>0, <2>1, <2>2, LostCovered, LostWhole
    <2> QED BY <2>2, <2>3, OthersCovered DEF Covered
  <1>3. ASSUME UNCHANGED <<segVars, at, completed, splitting>> PROVE CoverInv(j)'
    BY <1>3 DEF Covered, segVars, CoverInv, Cursor, Length
  <1>4. CASE End
    <2>1. at'[j].pc = "rest" /\ splitting' = {}
      BY <1>4 DEF End, Rest, InHand
    <2>2. UNCHANGED <<segVars, completed>>
      BY <1>4 DEF End
    <2> QED BY <2>1, <2>2 DEF Covered, segVars, CoverInv, Cursor, Length
  <1>5. CASE Spawn \/ ClearRunning \/ SetRunning \/ SetCancel
             \/ UNCHANGED poolVars
    BY <1>3, <1>5 DEF Spawn, ClearRunning, SetRunning, SetCancel, poolVars,
                      workVars
  <1>6. CASE Get
    BY <1>6, GetCovered DEF Get, segVars, Covered
  <1>7. CASE Assist
    <2>1. CASE SplitsCovered
      BY <1>7, <2>1, AssistCovered
    <2>2. CASE UNCHANGED poolVars
      BY <1>5, <2>2
    <2> QED BY <2>1, <2>2
  <1> QED BY <1>1, <1>2, <1>4, <1>5, <1>6, <1>7 DEF PoolNext, TransferNext

(* Nothing is recorded and nothing is in hand when a pool begins.          *)
LEMMA CoveredInit == PoolInit => Covered
  BY DEF PoolInit, PoolReady, Covered, CoverInv, Rest, InHand

(* pool.py: "Splits are byte-exact [...] so parts stay non-overlapping and *)
(* merges remain correct".  It is so when every split leaves its segment   *)
(* only bytes that are written or in hand, whatever is retried, paused,    *)
(* throttled, killed or fails to be written: a segment that is recorded as *)
(* completed holds its range, split or not.  A range without an end, which *)
(* is never split, is the exception: one that was whole when the pool      *)
(* began is fetched again from its first byte after a 416.                 *)
THEOREM CoveredSplitsCorrect ==
  PoolSpec /\ [][SplitsCovered]_poolVars => [](~open => CompletedHoldsRange)
  <1>1. PoolInit => IInv /\ Progress /\ WInv /\ Covered
    BY InvInit, WholeInit, CoveredInit
  <1>2. IInv /\ Progress /\ WInv /\ Covered /\ [PoolNext]_poolVars /\ [SplitsCovered]_poolVars
           => IInv' /\ Progress' /\ WInv' /\ Covered'
    BY InvStep, ProgressStep, WholeStep, CoveredStep
  <1>3. IInv /\ Covered => (~open => CompletedHoldsRange)
    BY DEF IInv, TypeInv, WorkersOK, Covered, CoverInv, CompletedHoldsRange
  <1> QED BY <1>1, <1>2, <1>3, PTL DEF PoolSpec

(* Of a stalled segment _split hands over all that is missing, so a pool   *)
(* in which only stalled segments are split covers every split.            *)
LEMMA StalledSplitsCovered ==
  ASSUME Speeds \subseteq {0}, TypeInv, Assist
  PROVE  SplitsCovered
  <1>1. nseg \in Nat /\ nseg \notin Live
    BY PlanAssumption DEF TypeInv, DataOK, Live
  <1>2. PICK speed \in [Active -> Speeds] : \E i \in Targets(speed) :
           Split(i, Cut(i, speed))
    BY DEF Assist
  <1>3. PICK k \in Targets(speed) : Split(k, Cut(k, speed))
    BY <1>2
  <1>4. k \in Active /\ k \in Seg
    BY <1>3 DEF Targets, Candidates, Active
  <1>5. Cut(k, speed) = Cursor(k)
    BY <1>4 DEF Cut
  <1>6. end' = [end EXCEPT ![nseg] = end[k], ![k] = Cursor(k) - 1]
    BY <1>3, <1>5 DEF Split, Narrowed
  <1> SUFFICES ASSUME NEW i \in Live, end'[i] < end[i]
               PROVE  Cursor(i) + at[i].chunk > end'[i]
    BY DEF SplitsCovered
  <1>7. i \in Seg /\ i # nseg
    BY <1>1, PlanAssumption DEF TypeInv, DataOK, Live, Seg
  <1>8. /\ end[i] \in Int /\ Cursor(i) \in Int /\ at[i].chunk \in Nat
        /\ end \in [Seg -> -1 .. Size - 1]
    BY <1>7, Numbers DEF TypeInv, DataOK
  <1>9. CASE i = k
    <2>1. end'[i] = Cursor(i) - 1
      BY <1>6, <1>7, <1>8, <1>9
    <2> QED BY <1>8, <2>1
  <1>10. CASE i # k
    <2>1. end'[i] = end[i]
      BY <1>6, <1>7, <1>8, <1>10
    <2> QED BY <1>8, <2>1
  <1> QED BY <1>9, <1>10

(* No other step moves an end.                                             *)
LEMMA OthersNarrowNothing ==
  ASSUME IInv, [PoolNext]_poolVars, ~Assist
  PROVE  SplitsCovered
  <1>1. end' = end
    <2>1. CASE \E i \in Seg : WorkerNext(i)
      BY <2>1, WorkerSeg DEF OwnOnly
    <2>2. CASE Get \/ Spawn \/ End \/ \E i \in Seg : Kill(i)
      BY <2>2 DEF Get, Spawn, End, Kill, segVars
    <2>3. CASE ClearRunning \/ SetRunning \/ SetCancel \/ UNCHANGED poolVars
      BY <2>3 DEF ClearRunning, SetRunning, SetCancel, poolVars, segVars
    <2> QED BY <2>1, <2>2, <2>3 DEF PoolNext, TransferNext
  <1>2. \A i \in Live : end[i] \in Int
    <2>1. Live \subseteq Seg
      BY PlanAssumption DEF IInv, TypeInv, DataOK, Live, Seg
    <2> QED BY <2>1, Numbers DEF IInv
  <1> QED BY <1>1, <1>2 DEF SplitsCovered

(* pool.py, _split: a pool in which whoever is split had stalled, so that  *)
(* its whole remainder is handed over, records as completed only segments  *)
(* that hold their range.  The condition above is one that pools which do  *)
(* split can meet.                                                         *)
THEOREM StalledSplitsCorrect ==
  ASSUME Speeds \subseteq {0}
  PROVE  PoolSpec => [](~open => CompletedHoldsRange)
  <1>1. PoolInit => IInv /\ Progress /\ WInv /\ Covered
    BY InvInit, WholeInit, CoveredInit
  <1>2. IInv /\ [PoolNext]_poolVars => SplitsCovered
    BY StalledSplitsCovered, OthersNarrowNothing DEF IInv
  <1>3. IInv /\ Progress /\ WInv /\ Covered /\ [PoolNext]_poolVars
           => IInv' /\ Progress' /\ WInv' /\ Covered'
    BY <1>2, InvStep, ProgressStep, WholeStep, CoveredStep
  <1>4. IInv /\ Covered => (~open => CompletedHoldsRange)
    BY DEF IInv, TypeInv, WorkersOK, Covered, CoverInv, CompletedHoldsRange
  <1> QED BY <1>1, <1>3, <1>4, PTL DEF PoolSpec
=============================================================================
