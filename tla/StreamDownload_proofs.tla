------------------------ MODULE StreamDownload_proofs ------------------------
(***************************************************************************)
(* Theorems about StreamDownload, for any finite set of streams, any       *)
(* limits, with the end of the process or without.                         *)
(***************************************************************************)
EXTENDS StreamDownload, FiniteSetTheorems, SequenceTheorems,
        WellFoundedInduction, TLAPS

(* The tasks are of the type, and the HLS engine knows those in its stages *)
(* only: who waits, waits for one that downloads.                          *)
AnyTasks == [Streams -> TaskState]
RolesIn(tasks) ==
    \A d \in Streams :
        /\ tasks[d].role # "none" => tasks[d].phase \in Browser
        /\ tasks[d].of \in Streams <=> tasks[d].role = "waiter"
        /\ tasks[d].role = "waiter" => tasks[tasks[d].of].role = "owner"

Typed ==
    /\ row \in [Streams -> Known \union {"removed"}]
    /\ disk \in [Streams -> {"no", "part", "whole"}]
    /\ task \in AnyTasks
    /\ loops \in [Streams -> 0 .. MaxLoops]
    /\ redo \in [Streams -> {"no", "waits", "ready"}]
    /\ free \in Nat /\ line \in Seq(Streams)

(* The line holds tasks that wait, each once, and there is one only when   *)
(* no permit is free; every permit is free or held by one task.            *)
Lined ==
    /\ line # <<>> => free = 0
    /\ \A i \in 1 .. Len(line) : task[line[i]].phase = "waits"
    /\ \A i, k \in 1 .. Len(line) : line[i] = line[k] => i = k
Holders   == {d \in Streams : Holds(d)}
Permitted == \E n \in Limits : free + Cardinality(Holders) = n

(* A row says "connecting" not before its task has a permit.               *)
Before == {"created", "waits", "granted"}
Fresh  == \A d \in Streams : task[d].phase \in Before => row[d] # "connecting"

StreamInv == Typed /\ RolesIn(task) /\ Lined /\ Permitted /\ Fresh

(* What StreamNeverStuck says of a step other than the end of the process. *)
Unstuck == \A d \in Streams : Stuck(d)' => Stuck(d) \/ task[d].phase = "again"

----------------------------------------------------------------------------
(* The least number of a set: the sets 1 .. n are well-founded.            *)
LEMMA Smallest ==
  ASSUME NEW T \in SUBSET Nat, T # {}
  PROVE  \E n \in T : \A k \in T : n <= k
<1> DEFINE U == {1 .. n : n \in T}
<1>1. U \subseteq FiniteSubsetsOf(Nat) /\ U # {}
  <2>1. \A n \in T : IsFiniteSet(1 .. n) /\ 1 .. n \in SUBSET Nat
    BY FS_Interval
  <2> QED
    BY <2>1 DEF FiniteSubsetsOf
<1>2. IsWellFoundedOn(StrictSubsetOrdering(Nat), FiniteSubsetsOf(Nat))
  BY FS_StrictSubsetOrderingWellFounded
<1>3. \E x \in U : \A y \in U : ~ (<<y, x>> \in StrictSubsetOrdering(Nat))
  <2> HIDE DEF U
  <2> QED
    BY ONLY <1>1, <1>2, WFMin, Zenon
<1>4. PICK n \in T : \A y \in U : ~ (<<y, 1 .. n>> \in StrictSubsetOrdering(Nat))
  BY <1>3
<1>5. ASSUME NEW k \in T, k < n PROVE FALSE
  <2>1. /\ 1 .. k \in U /\ 1 .. k \subseteq 1 .. n /\ 1 .. n \subseteq Nat
        /\ n \in 1 .. n /\ n \notin 1 .. k
    BY <1>5
  <2>2. <<1 .. k, 1 .. n>> \in StrictSubsetOrdering(Nat)
    BY <2>1 DEF StrictSubsetOrdering
  <2> QED
    BY <1>4, <2>1, <2>2
<1> QED
  BY <1>5

(* As long as one task has reserved no output there is one to reserve.     *)
LEMMA OutputLeft ==
  ASSUME task \in AnyTasks, NEW d \in Streams, task[d].out = 0
  PROVE  FreeOutput \in Outputs
<1> DEFINE Others == Streams \ {d}
           f == [e \in Others |-> task[e].out]
           Taken == {f[e] : e \in Others}
<1>1. /\ IsFiniteSet(Streams) /\ Cardinality(Streams) \in Nat
      /\ IsFiniteSet(Others) /\ Cardinality(Others) = Cardinality(Streams) - 1
      /\ Cardinality(Others) \in Nat
  BY StreamAssumption, FS_RemoveElement, FS_CardinalityType
<1>2. f \in Surjection(Others, Taken)
  BY DEF Surjection
<1>3. IsFiniteSet(Taken) /\ Cardinality(Taken) <= Cardinality(Others)
  <2> HIDE DEF f, Taken
  <2> QED
    BY <1>1, <1>2, FS_Surjection
<1>4. Outputs \subseteq Nat \ {0} /\ IsFiniteSet(Outputs) /\ Cardinality(Outputs) = Cardinality(Streams)
  <2>1. Cardinality(Streams) \in Nat
    BY <1>1
  <2>2. IsFiniteSet(1 .. Cardinality(Streams))
        /\ Cardinality(1 .. Cardinality(Streams)) = Cardinality(Streams)
    BY <2>1, FS_Interval
  <2> QED
    BY <2>1, <2>2 DEF Outputs
<1>5. Outputs \ Reserved # {}
  <2>1. SUFFICES ASSUME Outputs \subseteq Reserved PROVE FALSE
    OBVIOUS
  <2>2. \A e \in Streams : task[e].out # 0 => task[e].out \in Taken
    OBVIOUS
  <2>3. Outputs \subseteq Taken
    BY <1>4, <2>1, <2>2 DEF Reserved
  <2> HIDE DEF f, Taken
  <2>4. Cardinality(Outputs) <= Cardinality(Taken) /\ Cardinality(Taken) \in Nat
    BY <1>3, <2>3, FS_Subset, FS_CardinalityType
  <2> QED
    BY <1>1, <1>3, <1>4, <2>4
<1>6. \E n \in Outputs \ Reserved : \A k \in Outputs \ Reserved : n <= k
  BY <1>4, <1>5, Smallest
<1> QED
  BY <1>6 DEF FreeOutput

----------------------------------------------------------------------------
(* What a step has to leave as it is.                                      *)
Phases == {"none", "created", "waits", "granted", "over"} \union Stages
Roles  == {"none", "owner", "waiter", "told"}

LEMMA Records ==
  ASSUME NEW r \in TaskState
  PROVE  /\ r.phase \in Phases /\ r.stop \in BOOLEAN /\ r.role \in Roles
         /\ r.of \in Streams \union {Nobody} /\ r.told \in Answers
         /\ r.out \in {0} \union Outputs
  BY DEF TaskState, Phases, Roles

LEMMA Fields ==
  /\ \A p \in Phases : In(p) \in TaskState /\ In(p).phase = p /\ In(p).role = "none"
                       /\ In(p).of = Nobody
  /\ \A r \in TaskState, p \in Phases :
       /\ [r EXCEPT !.phase = p] \in TaskState
       /\ [r EXCEPT !.phase = p, !.role = "none"] \in TaskState
       /\ [r EXCEPT !.phase = p, !.role = "none", !.told = "none", !.out = 0] \in TaskState
<1>1. \A p \in Phases : In(p) \in TaskState /\ In(p).phase = p /\ In(p).role = "none"
                         /\ In(p).of = Nobody
  BY DEF In, TaskState, Phases, Answers
<1>2. ASSUME NEW r \in TaskState, NEW p \in Phases
      PROVE  [r EXCEPT !.phase = p] \in TaskState
  BY DEF TaskState, Phases
<1>3. ASSUME NEW r \in TaskState
      PROVE  /\ [r EXCEPT !.role = "none"] \in TaskState
             /\ [r EXCEPT !.role = "none", !.told = "none", !.out = 0] \in TaskState
  BY DEF TaskState, Answers
<1>4. ASSUME NEW r \in TaskState, NEW p \in Phases
      PROVE  /\ [r EXCEPT !.phase = p, !.role = "none"] \in TaskState
             /\ [r EXCEPT !.phase = p, !.role = "none", !.told = "none", !.out = 0]
                  \in TaskState
  <2> DEFINE q == [r EXCEPT !.phase = p]
  <2>1. /\ [q EXCEPT !.role = "none"] \in TaskState
        /\ [q EXCEPT !.role = "none", !.told = "none", !.out = 0] \in TaskState
    BY <1>2, <1>3
  <2> QED
    BY <2>1
<1> QED
  BY <1>1, <1>2, <1>4

LEMMA StagesAre ==
  /\ Browser \subseteq Stages /\ Stages \subseteq Phases /\ Before \subseteq Phases
  /\ \A p \in Stages : p \notin Before /\ p \notin {"none", "over"}
  BY DEF Stages, Browser, Before, Phases

LEMMA SameRoles ==
  ASSUME NEW s \in AnyTasks, NEW t \in AnyTasks, RolesIn(s),
         \A e \in Streams : /\ t[e].role = s[e].role /\ t[e].of = s[e].of
                            /\ t[e].role # "none" => t[e].phase \in Browser
  PROVE  RolesIn(t)
<1> SUFFICES ASSUME NEW d \in Streams
             PROVE  /\ t[d].role # "none" => t[d].phase \in Browser
                    /\ t[d].of \in Streams <=> t[d].role = "waiter"
                    /\ t[d].role = "waiter" => t[t[d].of].role = "owner"
  BY DEF RolesIn
<1>1. /\ s[d].of \in Streams <=> s[d].role = "waiter"
      /\ s[d].role = "waiter" => s[s[d].of].role = "owner"
  BY DEF RolesIn
<1> QED
  BY <1>1

LEMMA NobodyWaitsFor ==
  ASSUME NEW s \in AnyTasks, RolesIn(s), NEW d \in Streams, s[d].role # "owner"
  PROVE  \A e \in Streams : s[e].of # d
  BY DEF RolesIn

LEMMA LosesRole ==
  ASSUME NEW s \in AnyTasks, NEW t \in AnyTasks, RolesIn(s), NEW d \in Streams,
         \A e \in Streams \ {d} : /\ t[e].role = s[e].role /\ t[e].of = s[e].of
                                  /\ t[e].role # "none" => t[e].phase \in Browser,
         t[d].role = "none", t[d].of \notin Streams, \A e \in Streams : s[e].of # d
  PROVE  RolesIn(t)
<1> SUFFICES ASSUME NEW e \in Streams
             PROVE  /\ t[e].role # "none" => t[e].phase \in Browser
                    /\ t[e].of \in Streams <=> t[e].role = "waiter"
                    /\ t[e].role = "waiter" => t[t[e].of].role = "owner"
  BY DEF RolesIn
<1>1. CASE e = d
  BY <1>1
<1>2. CASE e # d
  <2>1. /\ s[e].of \in Streams <=> s[e].role = "waiter"
        /\ s[e].role = "waiter" => s[s[e].of].role = "owner"
        /\ s[e].of # d
    BY DEF RolesIn
  <2> QED
    BY <1>2, <2>1
<1> QED
  BY <1>1, <1>2

(* Neither the line nor the permits change.                                *)
Holding == {"granted"} \union Stages
LEMMA HoldsIs ==
  /\ \A e \in Streams : Holds(e) <=> task[e].phase \in Holding
  /\ IsFiniteSet(Holders) /\ Cardinality(Holders) \in Nat
<1>1. IsFiniteSet(Holders)
  BY StreamAssumption, FS_Subset DEF Holders
<1> QED
  BY <1>1, FS_CardinalityType DEF Holds, Holding

LEMMA LineIs ==
  ASSUME Typed
  PROVE  /\ Len(line) \in Nat /\ DOMAIN line = 1 .. Len(line)
         /\ \A i \in 1 .. Len(line) : line[i] \in Streams
<1>1. line \in Seq(Streams)
  BY DEF Typed
<1> QED
  BY <1>1, LenProperties, ElementOfSeq

LEMMA Staying ==
  ASSUME StreamInv, UNCHANGED <<free, line>>,
         \A e \in Streams : \/ task'[e].phase = task[e].phase
                            \/ task[e].phase # "waits" /\
                               (task[e].phase \in Holding <=> task'[e].phase \in Holding)
  PROVE  Lined' /\ Permitted'
<1>1. \A e \in Streams : Holds(e)' <=> Holds(e)
  BY DEF Holds, Holding
<1>2. Holders' = Holders
  BY <1>1 DEF Holders
<1>3. Permitted'
  BY <1>2 DEF StreamInv, Permitted
<1>4. Lined'
  <2>1. \A i \in 1 .. Len(line) : line[i] \in Streams
    BY LineIs DEF StreamInv
  <2> QED
    BY <2>1 DEF StreamInv, Lined, Holding, Stages, Browser
<1> QED
  BY <1>3, <1>4

LEMMA Wrapping ==
  ASSUME StreamInv,
         \A e \in Streams :
            /\ row'[e] = "connecting" => row[e] = "connecting" \/ task'[e].phase \in Stages
            /\ task'[e].phase \in Before => task[e].phase \in Before \/ row'[e] # "connecting"
            /\ task'[e].phase \in {"none", "over"} =>
                 \/ task[e].phase \in {"none", "over", "again"} \/ row'[e] # "connecting"
  PROVE  Fresh' /\ Unstuck
<1>1. Fresh'
  BY StagesAre DEF StreamInv, Fresh
<1>2. Unstuck
  BY StagesAre DEF Unstuck, Stuck
<1> QED
  BY <1>1, <1>2

(* A task is created, unless there is one or the row is not to be started. *)
LEMMA Starting ==
  ASSUME StreamInv, NEW d \in Streams, NEW r \in [Streams -> Known \union {"removed"}],
         StartFrom(r, d), \A e \in Streams : r[e] = "connecting" => row[e] = "connecting",
         UNCHANGED <<free, line>>
  PROVE  /\ row' \in [Streams -> Known \union {"removed"}] /\ task' \in AnyTasks
         /\ RolesIn(task') /\ Lined' /\ Permitted' /\ Fresh' /\ Unstuck
<1>1. task \in AnyTasks /\ RolesIn(task)
  BY DEF StreamInv, Typed
<1>2. CASE Startable(r, d)
  <2>1. /\ task' = [task EXCEPT ![d] = In("created")]
        /\ row' = [r EXCEPT ![d] = IF @ \in Waiting THEN @ ELSE "queued"]
        /\ task[d].phase = "none"
    BY <1>2 DEF StartFrom, Startable, HasTask
  <2>2. row' \in [Streams -> Known \union {"removed"}]
        /\ (\A e \in Streams : row'[e] = "connecting" => row[e] = "connecting")
        /\ row'[d] # "connecting"
    BY <2>1 DEF Known, Waiting
  <2>3. In("created") \in TaskState /\ In("created").phase = "created"
        /\ In("created").role = "none" /\ In("created").of = Nobody
    BY Fields DEF Phases
  <2>4. task' \in AnyTasks /\ task'[d] = In("created")
        /\ (\A e \in Streams \ {d} : task'[e] = task[e])
    BY <1>1, <2>1, <2>3 DEF AnyTasks
  <2>5. task[d].role = "none" /\ Nobody \notin Streams
    BY <1>1, <2>1, StreamAssumption DEF RolesIn, Browser
  <2>6. \A e \in Streams \ {d} : task[e].role # "none" => task[e].phase \in Browser
    BY <1>1 DEF RolesIn
  <2>7. \A e \in Streams : task[e].of # d
    BY <1>1, <2>5, NobodyWaitsFor
  <2>8. RolesIn(task')
    BY <1>1, <2>3, <2>4, <2>5, <2>6, <2>7, LosesRole
  <2>9. Lined' /\ Permitted'
    BY <2>1, <2>3, <2>4, Staying DEF Holding, Stages, Browser
  <2>10. Fresh' /\ Unstuck
    BY <2>2, <2>3, <2>4, Wrapping
  <2> QED
    BY <2>2, <2>4, <2>8, <2>9, <2>10
<1>3. CASE ~Startable(r, d)
  <2>1. row' = r /\ task' = task
    BY <1>3 DEF StartFrom
  <2>2. Lined' /\ Permitted'
    BY <2>1, Staying
  <2>3. Fresh' /\ Unstuck
    BY <2>1, Wrapping
  <2> QED
    BY <1>1, <2>1, <2>2, <2>3
<1> QED
  BY <1>2, <1>3

(* Only the event of a task is set.                                        *)
LEMMA Telling ==
  ASSUME StreamInv, NEW d \in Streams, task' = Stopping(d), UNCHANGED <<free, line>>,
         \A e \in Streams : row'[e] = "connecting" => row[e] = "connecting"
  PROVE  task' \in AnyTasks /\ RolesIn(task') /\ Lined' /\ Permitted' /\ Fresh' /\ Unstuck
<1>1. task \in AnyTasks /\ RolesIn(task)
  BY DEF StreamInv, Typed
<1>2. \A e \in Streams : task[e] \in TaskState
  BY <1>1 DEF AnyTasks
<1> DEFINE r == [task[d] EXCEPT !.stop = @ \/ Registered(d)]
<1>3. task' = [task EXCEPT ![d] = r]
  BY DEF Stopping
<1>4. /\ r \in TaskState /\ r.phase = task[d].phase /\ r.role = task[d].role
      /\ r.of = task[d].of
  <2>1. task[d] \in TaskState /\ (task[d].stop \/ Registered(d)) \in BOOLEAN
    BY <1>2, Records
  <2> HIDE DEF Registered
  <2> QED
    BY <2>1 DEF TaskState
<1> HIDE DEF r
<1>5. /\ task' \in AnyTasks
      /\ \A e \in Streams : /\ task'[e].phase = task[e].phase
                            /\ task'[e].role = task[e].role /\ task'[e].of = task[e].of
  <2>1. task' \in AnyTasks
    BY <1>1, <1>3, <1>4 DEF AnyTasks
  <2>2. \A e \in Streams : task'[e] = IF e = d THEN r ELSE task[e]
    BY <1>1, <1>3 DEF AnyTasks
  <2> QED
    BY <1>4, <2>1, <2>2
<1>6. RolesIn(task')
  <2>1. \A e \in Streams : task[e].role # "none" => task[e].phase \in Browser
    BY <1>1 DEF RolesIn
  <2> QED
    BY <1>1, <1>5, <2>1, SameRoles
<1>7. Lined' /\ Permitted'
  BY <1>5, Staying
<1>8. Fresh' /\ Unstuck
  BY <1>5, Wrapping
<1> QED
  BY <1>5, <1>6, <1>7, <1>8

----------------------------------------------------------------------------
(* What the user does, and the loops that do it for him later.             *)
NoPartsIs(d) == NoParts(d) \in [Streams -> {"no", "part", "whole"}]

LEMMA DiskStays ==
  ASSUME Typed, NEW d \in Streams
  PROVE  /\ NoPartsIs(d)
         /\ [disk EXCEPT ![d] = "no"] \in [Streams -> {"no", "part", "whole"}]
         /\ disk \in [Streams -> {"no", "part", "whole"}]
  BY DEF Typed, NoPartsIs, NoParts

LEMMA Concluding ==
  ASSUME row' \in [Streams -> Known \union {"removed"}],
         disk' \in [Streams -> {"no", "part", "whole"}], task' \in AnyTasks,
         loops' \in [Streams -> 0 .. MaxLoops], redo' \in [Streams -> {"no", "waits", "ready"}],
         free' \in Nat, line' \in Seq(Streams),
         RolesIn(task'), Lined', Permitted', Fresh'
  PROVE  StreamInv'
  BY DEF StreamInv, Typed

LEMMA AfreshKeeps ==
  ASSUME StreamInv, NEW d \in Streams, Afresh(d), UNCHANGED <<free, line>>,
         loops' \in [Streams -> 0 .. MaxLoops], redo' \in [Streams -> {"no", "waits", "ready"}]
  PROVE  StreamInv' /\ Unstuck
<1>1. Typed /\ RolesIn(task)
  BY DEF StreamInv
<1>2. disk' \in [Streams -> {"no", "part", "whole"}] /\ free' \in Nat /\ line' \in Seq(Streams)
  BY <1>1, DiskStays DEF Afresh, NoPartsIs, Typed
<1>3. CASE Exists(d)
  <2> DEFINE r == [row EXCEPT ![d] = "queued"]
  <2>1. /\ r \in [Streams -> Known \union {"removed"}] /\ StartFrom(r, d)
        /\ \A e \in Streams : r[e] = "connecting" => row[e] = "connecting"
    BY <1>1, <1>3 DEF Afresh, Typed, Known, Waiting
  <2> HIDE DEF r
  <2>2. /\ row' \in [Streams -> Known \union {"removed"}] /\ task' \in AnyTasks
        /\ RolesIn(task') /\ Lined' /\ Permitted' /\ Fresh' /\ Unstuck
    BY <2>1, Starting
  <2> QED
    BY <1>2, <2>2, Concluding
<1>4. CASE ~Exists(d)
  <2>1. UNCHANGED <<row, task>>
    BY <1>4 DEF Afresh
  <2>2. Lined' /\ Permitted' /\ Fresh' /\ Unstuck
    BY <2>1, Staying, Wrapping
  <2>3. row' \in [Streams -> Known \union {"removed"}] /\ task' \in AnyTasks /\ RolesIn(task')
    BY <1>1, <2>1 DEF Typed
  <2> QED
    BY <1>2, <2>2, <2>3, Concluding
<1> QED
  BY <1>3, <1>4

LEMMA UserKeeps ==
  ASSUME StreamInv, NEW d \in Streams, User(d)
  PROVE  StreamInv' /\ Unstuck
<1>1. Typed
  BY DEF StreamInv
<1>2. /\ row \in [Streams -> Known \union {"removed"}]
      /\ disk \in [Streams -> {"no", "part", "whole"}]
      /\ loops \in [Streams -> 0 .. MaxLoops] /\ redo \in [Streams -> {"no", "waits", "ready"}]
      /\ free \in Nat /\ line \in Seq(Streams) /\ MaxLoops \in Nat
  BY <1>1, StreamAssumption DEF Typed
<1>3. CASE Start(d)
  <2>1. StartFrom(row, d) /\ UNCHANGED <<disk, loops, redo, free, line>>
    BY <1>3 DEF Start
  <2> QED
    BY <1>2, <2>1, Starting, Concluding
<1>4. CASE Pause(d)
  <2>1. /\ row' = [row EXCEPT ![d] = "paused"] /\ task' = Stopping(d)
        /\ UNCHANGED <<disk, loops, redo, free, line>>
    BY <1>4 DEF Pause
  <2>2. row' \in [Streams -> Known \union {"removed"}]
        /\ \A e \in Streams : row'[e] = "connecting" => row[e] = "connecting"
    BY <1>2, <2>1 DEF Known, Waiting
  <2> QED
    BY <1>2, <2>1, <2>2, Telling, Concluding
<1>5. CASE Resume(d)
  <2>1. UNCHANGED <<disk, redo, free, line>>
    BY <1>5 DEF Resume
  <2>2. CASE Registered(d)
    <3>1. /\ loops[d] < MaxLoops /\ loops' = [loops EXCEPT ![d] = @ + 1]
          /\ UNCHANGED <<row, task>>
      BY <1>5, <2>2 DEF Resume
    <3>2. loops' \in [Streams -> 0 .. MaxLoops]
      BY <1>2, <3>1
    <3>3. Lined' /\ Permitted' /\ Fresh' /\ Unstuck
      BY <2>1, <3>1, Staying, Wrapping
    <3>4. task' \in AnyTasks /\ RolesIn(task')
      BY <1>1, <3>1 DEF StreamInv, Typed
    <3> QED
      BY <1>2, <2>1, <3>1, <3>2, <3>3, <3>4, Concluding
  <2>3. CASE ~Registered(d)
    <3>1. StartFrom(row, d) /\ UNCHANGED loops
      BY <1>5, <2>3 DEF Resume
    <3> QED
      BY <1>2, <2>1, <3>1, Starting, Concluding
  <2> QED
    BY <2>2, <2>3
<1>6. CASE Cancel(d)
  <2>1. /\ task' = Stopping(d) /\ disk' \in {disk, NoParts(d)}
        /\ UNCHANGED <<row, loops, redo, free, line>>
    BY <1>6 DEF Cancel
  <2>2. disk' \in [Streams -> {"no", "part", "whole"}]
    BY <1>1, <2>1, DiskStays DEF NoPartsIs
  <2> QED
    BY <1>2, <2>1, <2>2, Telling, Concluding
<1>7. CASE Remove(d)
  <2>1. /\ row' = [row EXCEPT ![d] = "removed"] /\ task' = Stopping(d)
        /\ disk' \in {NoParts(d), [disk EXCEPT ![d] = "no"]}
        /\ UNCHANGED <<loops, redo, free, line>>
    BY <1>7 DEF Remove
  <2>2. disk' \in [Streams -> {"no", "part", "whole"}]
    BY <1>1, <2>1, DiskStays DEF NoPartsIs
  <2>3. row' \in [Streams -> Known \union {"removed"}]
        /\ \A e \in Streams : row'[e] = "connecting" => row[e] = "connecting"
    BY <1>2, <2>1
  <2> QED
    BY <1>2, <2>1, <2>2, <2>3, Telling, Concluding
<1>8. CASE Restart(d)
  <2>1. UNCHANGED <<loops, free, line>>
    BY <1>8 DEF Restart
  <2>2. CASE HasTask(d)
    <3>1. /\ task' = Stopping(d) /\ redo' = [redo EXCEPT ![d] = "waits"]
          /\ UNCHANGED <<row, disk>>
      BY <1>8, <2>2 DEF Restart
    <3>2. redo' \in [Streams -> {"no", "waits", "ready"}]
      BY <1>2, <3>1
    <3> QED
      BY <1>2, <2>1, <3>1, <3>2, Telling, Concluding
  <2>3. CASE ~HasTask(d)
    <3>1. Afresh(d) /\ UNCHANGED redo
      BY <1>8, <2>3 DEF Restart
    <3> QED
      BY <1>2, <2>1, <3>1, AfreshKeeps
  <2> QED
    BY <2>2, <2>3
<1> QED
  BY <1>3, <1>4, <1>5, <1>6, <1>7, <1>8 DEF User

LEMMA LaterKeeps ==
  ASSUME StreamInv, NEW d \in Streams, LoopStarts(d) \/ RestartEnds(d)
  PROVE  StreamInv' /\ Unstuck
<1>1. /\ row \in [Streams -> Known \union {"removed"}]
      /\ disk \in [Streams -> {"no", "part", "whole"}]
      /\ loops \in [Streams -> 0 .. MaxLoops] /\ redo \in [Streams -> {"no", "waits", "ready"}]
      /\ free \in Nat /\ line \in Seq(Streams) /\ MaxLoops \in Nat
  BY StreamAssumption DEF StreamInv, Typed
<1>2. CASE LoopStarts(d)
  <2>1. /\ loops[d] > 0 /\ loops' = [loops EXCEPT ![d] = @ - 1]
        /\ StartFrom(row, d) /\ UNCHANGED <<disk, redo, free, line>>
    BY <1>2 DEF LoopStarts
  <2>2. loops' \in [Streams -> 0 .. MaxLoops]
    BY <1>1, <2>1
  <2> QED
    BY <1>1, <2>1, <2>2, Starting, Concluding
<1>3. CASE RestartEnds(d)
  <2>1. Afresh(d) /\ redo' = [redo EXCEPT ![d] = "no"] /\ UNCHANGED <<loops, free, line>>
    BY <1>3 DEF RestartEnds
  <2>2. redo' \in [Streams -> {"no", "waits", "ready"}]
    BY <1>1, <2>1
  <2> QED
    BY <1>1, <2>1, <2>2, AfreshKeeps
<1> QED
  BY <1>2, <1>3

----------------------------------------------------------------------------
(* Permits change hands.                                                   *)

(* A task takes its place in the line.                                     *)
LEMMA LinesUpKeeps ==
  ASSUME StreamInv, NEW d \in Streams, LinesUp(d)
  PROVE  StreamInv' /\ Unstuck
<1>1. /\ task[d].phase = "created" /\ free = 0 /\ line' = Append(line, d)
      /\ task' = [task EXCEPT ![d].phase = "waits"]
      /\ UNCHANGED <<row, disk, loops, redo, free>>
  BY DEF LinesUp
<1>2. task \in AnyTasks /\ RolesIn(task) /\ line \in Seq(Streams)
  BY DEF StreamInv, Typed
<1> DEFINE r == [task[d] EXCEPT !.phase = "waits"]
<1>3. task' = [task EXCEPT ![d] = r] /\ task[d] \in TaskState
  BY <1>1, <1>2 DEF AnyTasks
<1>4. r \in TaskState /\ r.phase = "waits" /\ r.role = task[d].role /\ r.of = task[d].of
  BY <1>3, Fields DEF Phases, TaskState
<1>5. /\ task' \in AnyTasks /\ task'[d] = r
      /\ \A e \in Streams : e # d => task'[e] = task[e]
  BY <1>2, <1>3, <1>4 DEF AnyTasks
<1> HIDE DEF r
<1>6. task[d].role = "none" /\ \A e \in Streams : task[e].role # "none" => task[e].phase \in Browser
  BY <1>1, <1>2 DEF RolesIn, Browser
<1>7. RolesIn(task')
  <2>1. \A e \in Streams : /\ task'[e].role = task[e].role /\ task'[e].of = task[e].of
                           /\ task'[e].role # "none" => task'[e].phase \in Browser
    BY <1>4, <1>5, <1>6
  <2> QED
    BY <1>2, <1>5, <2>1, SameRoles
<1>8. /\ line' \in Seq(Streams) /\ Len(line') = Len(line) + 1 /\ Len(line) \in Nat
      /\ \A i \in 1 .. Len(line) : line'[i] = line[i] /\ line[i] \in Streams
      /\ line'[Len(line) + 1] = d
  <2>1. Len(line) \in Nat /\ \A i \in 1 .. Len(line) : line[i] \in Streams
    BY LineIs DEF StreamInv
  <2>2. /\ Append(line, d) \in Seq(Streams) /\ Len(Append(line, d)) = Len(line) + 1
        /\ (\A i \in 1 .. Len(line) : Append(line, d)[i] = line[i])
        /\ Append(line, d)[Len(line) + 1] = d
    BY <1>2, AppendProperties
  <2> QED
    BY <1>1, <2>1, <2>2
<1>9. Lined'
  <2>1. \A i \in 1 .. Len(line) : task[line[i]].phase = "waits"
    BY DEF StreamInv, Lined
  <2>2. \A i \in 1 .. Len(line) : line[i] # d
    BY <1>1, <2>1
  <2>3. \A i \in 1 .. Len(line') : i \in 1 .. Len(line) \/ i = Len(line) + 1
    BY <1>8
  <2>4. \A i \in 1 .. Len(line') : task'[line'[i]].phase = "waits"
    BY <1>4, <1>5, <1>8, <2>1, <2>2, <2>3
  <2>5. \A i, k \in 1 .. Len(line') : line'[i] = line'[k] => i = k
    BY <1>8, <2>2, <2>3 DEF StreamInv, Lined
  <2> QED
    BY <1>1, <2>4, <2>5 DEF Lined
<1>10. Permitted'
  <2>1. \A e \in Streams : Holds(e)' <=> Holds(e)
    BY <1>1, <1>4, <1>5 DEF Holds, Stages, Browser
  <2>2. Holders' = Holders
    BY <2>1 DEF Holders
  <2> QED
    BY <1>1, <2>2 DEF StreamInv, Permitted
<1>11. Fresh' /\ Unstuck
  BY <1>1, <1>4, <1>5, Wrapping DEF Before
<1> QED
  BY <1>1, <1>5, <1>7, <1>8, <1>9, <1>10, <1>11, Concluding DEF StreamInv, Typed

(* A task ends: its permit goes to the first of the line, or is free.      *)
LEMMA Ending ==
  ASSUME StreamInv, NEW d \in Streams, NEW tasks \in AnyTasks, RolesIn(tasks),
         \A e \in Streams : tasks[e].phase = task[e].phase /\ tasks[e].of # d,
         LeavesWith(d, tasks), Holds(d) \/ (task[d].phase = "created" /\ free > 0)
  PROVE  /\ task' \in AnyTasks /\ RolesIn(task') /\ free' \in Nat /\ line' \in Seq(Streams)
         /\ Lined' /\ Permitted' /\ task'[d].phase = "over"
         /\ \A e \in Streams \ {d} :
              \/ task'[e].phase = task[e].phase
              \/ task[e].phase = "waits" /\ task'[e].phase = "granted"
<1>1. /\ task' = [e \in Streams |->
                    IF e = d THEN In("over")
                    ELSE IF e \in Heir THEN [tasks[e] EXCEPT !.phase = "granted"]
                    ELSE tasks[e]]
      /\ free' = IF line = <<>> /\ Holds(d) THEN free + 1 ELSE free
      /\ line' = IF line = <<>> THEN line ELSE Tail(line)
  BY DEF LeavesWith
<1>2. /\ Typed /\ free \in Nat /\ line \in Seq(Streams)
      /\ \A e \in Streams : tasks[e] \in TaskState
  BY DEF StreamInv, Typed, AnyTasks
<1>3. /\ In("over") \in TaskState /\ In("over").phase = "over" /\ In("over").role = "none"
      /\ In("over").of \notin Streams
  BY Fields, StreamAssumption DEF Phases
<1>4. \A r \in TaskState :
        LET g == [r EXCEPT !.phase = "granted"]
        IN  g \in TaskState /\ g.phase = "granted" /\ g.role = r.role /\ g.of = r.of
  BY Fields DEF Phases, TaskState
<1>5. \A e \in Heir : task[e].phase = "waits" /\ e # d
  <2>1. CASE line = <<>>
    BY <2>1 DEF Heir
  <2>2. CASE line # <<>>
    <3>1. Head(line) = line[1] /\ 1 \in 1 .. Len(line)
      BY <1>2, <2>2, HeadTailProperties, EmptySeq, LineIs
    <3>2. task[line[1]].phase = "waits" /\ free = 0
      BY <2>2, <3>1 DEF StreamInv, Lined
    <3> QED
      BY <2>2, <3>1, <3>2 DEF Heir, Holds, Stages, Browser
  <2> QED
    BY <2>1, <2>2
<1>6. \A e \in Streams :
        /\ e = d => task'[e] = In("over")
        /\ e # d => task'[e].role = tasks[e].role /\ task'[e].of = tasks[e].of
                    /\ task'[e] \in TaskState
                    /\ task'[e].phase = IF e \in Heir THEN "granted" ELSE task[e].phase
  <2>1. SUFFICES ASSUME NEW e \in Streams, e # d
                 PROVE  /\ task'[e].role = tasks[e].role /\ task'[e].of = tasks[e].of
                        /\ task'[e] \in TaskState
                        /\ task'[e].phase = IF e \in Heir THEN "granted" ELSE task[e].phase
    BY <1>1
  <2>2. CASE e \in Heir
    <3> DEFINE g == [tasks[e] EXCEPT !.phase = "granted"]
    <3>1. task'[e] = g
      BY <1>1, <2>1, <2>2
    <3>2. /\ g \in TaskState /\ g.phase = "granted" /\ g.role = tasks[e].role
          /\ g.of = tasks[e].of
      BY <1>2, <1>4
    <3> HIDE DEF g
    <3> QED
      BY <2>2, <3>1, <3>2
  <2>3. CASE e \notin Heir
    BY <1>1, <1>2, <2>1, <2>3
  <2> QED
    BY <2>2, <2>3
<1>7. task' \in AnyTasks /\ task'[d].phase = "over"
      /\ \A e \in Streams \ {d} :
           \/ task'[e].phase = task[e].phase
           \/ task[e].phase = "waits" /\ task'[e].phase = "granted"
  <2>1. \A e \in Streams : task'[e] \in TaskState
    BY <1>3, <1>6
  <2>2. task' = [e \in Streams |-> task'[e]]
    BY <1>1
  <2>3. task' \in AnyTasks
    BY <2>1, <2>2 DEF AnyTasks
  <2> QED
    BY <1>3, <1>5, <1>6, <2>3
<1>8. RolesIn(task')
  <2>1. \A e \in Streams : tasks[e].role # "none" => tasks[e].phase \in Browser
    BY DEF RolesIn
  <2>2. \A e \in Streams \ {d} : task'[e].role # "none" => task'[e].phase \in Browser
    <3>1. "waits" \notin Browser
      BY DEF Browser
    <3> QED
      BY <1>5, <1>6, <2>1, <3>1
  <2>3. task'[d].role = "none" /\ task'[d].of \notin Streams
    BY <1>3, <1>6
  <2> QED
    BY <1>6, <1>7, <2>2, <2>3, LosesRole
<1>9. CASE line = <<>>
  <2>1. Heir = {} /\ line' = <<>> /\ Len(line') = 0
    BY <1>1, <1>9, EmptySeq DEF Heir
  <2>2. Lined'
    BY <2>1 DEF Lined
  <2>3. \A e \in Streams : Holds(e)' <=> e # d /\ Holds(e)
    BY <1>3, <1>6, <2>1 DEF Holds, Stages, Browser
  <2>4. Holders' = Holders \ {d}
    BY <2>3 DEF Holders
  <2>5. Cardinality(Holders') = IF Holds(d) THEN Cardinality(Holders) - 1 ELSE Cardinality(Holders)
    BY <2>4, HoldsIs, FS_RemoveElement DEF Holders
  <2>6. PICK n \in Limits : free + Cardinality(Holders) = n
    BY DEF StreamInv, Permitted
  <2>7. free' + Cardinality(Holders') = n /\ free' \in Nat
    BY <1>1, <1>2, <1>9, <2>5, <2>6, HoldsIs
  <2>8. Permitted'
    BY <2>7 DEF Permitted
  <2> QED
    BY <1>7, <1>8, <2>1, <2>2, <2>7, <2>8, EmptySeq
<1>10. CASE line # <<>>
  <2> DEFINE h == Head(line)
  <2>1. /\ h = line[1] /\ 1 \in 1 .. Len(line) /\ Tail(line) \in Seq(Streams)
        /\ Len(Tail(line)) = Len(line) - 1 /\ Len(line) \in Nat
        /\ \A i \in 1 .. Len(Tail(line)) : Tail(line)[i] = line[i + 1]
    BY <1>2, <1>10, HeadTailProperties, EmptySeq, LineIs
  <2>2. Heir = {h} /\ line' = Tail(line) /\ free' = free
    BY <1>1, <1>10 DEF Heir
  <2>3. h \in Streams /\ task[h].phase = "waits" /\ h # d /\ free = 0
    BY <1>2, <1>5, <1>10, <2>1, <2>2, LineIs DEF StreamInv, Lined
  <2> HIDE DEF h
  <2>4. Holds(d) /\ ~Holds(h)
    BY <2>3 DEF Holds, Stages, Browser
  <2>5. \A e \in Streams : Holds(e)' <=> e = h \/ (e # d /\ Holds(e))
    BY <1>3, <1>6, <2>2, <2>3 DEF Holds, Stages, Browser
  <2>6. Holders' = (Holders \ {d}) \cup {h}
    BY <2>3, <2>5 DEF Holders
  <2>7. IsFiniteSet(Holders \ {d}) /\ Cardinality(Holders \ {d}) = Cardinality(Holders) - 1
    BY <2>4, HoldsIs, FS_RemoveElement DEF Holders
  <2>8. h \notin Holders \ {d}
    BY <2>4 DEF Holders
  <2>9. Cardinality(Holders') = Cardinality(Holders)
    <3>1. Cardinality((Holders \ {d}) \cup {h}) = Cardinality(Holders \ {d}) + 1
      BY <2>7, <2>8, FS_AddElement
    <3>2. Cardinality(Holders) \in Nat
      BY HoldsIs
    <3> QED
      BY <2>6, <2>7, <3>1, <3>2
  <2>10. Permitted'
    BY <2>2, <2>9 DEF StreamInv, Permitted
  <2>11. Lined'
    <3>1. /\ \A i \in 1 .. Len(line) : task[line[i]].phase = "waits" /\ line[i] \in Streams
          /\ \A i, k \in 1 .. Len(line) : line[i] = line[k] => i = k
      BY <1>2, LineIs DEF StreamInv, Lined
    <3>2. \A i \in 1 .. Len(line') : i + 1 \in 1 .. Len(line) /\ i + 1 # 1 /\ line'[i] = line[i + 1]
      BY <2>1, <2>2
    <3>3. \A i \in 1 .. Len(line') : line'[i] # h /\ line'[i] # d /\ line'[i] \in Streams
      <4>1. \A i \in 1 .. Len(line) : line[i] # d
        BY <2>4, <3>1 DEF Holds, Stages, Browser
      <4> QED
        BY <2>1, <3>1, <3>2, <4>1
    <3>4. \A i \in 1 .. Len(line') : task'[line'[i]].phase = "waits"
      BY <1>6, <2>2, <3>1, <3>2, <3>3
    <3>5. \A i, k \in 1 .. Len(line') : line'[i] = line'[k] => i = k
      <4> SUFFICES ASSUME NEW i \in 1 .. Len(line'), NEW k \in 1 .. Len(line'),
                          line'[i] = line'[k]
                   PROVE  i = k
        OBVIOUS
      <4>1. i + 1 = k + 1
        BY <3>1, <3>2
      <4> QED
        BY <4>1
    <3> QED
      BY <2>2, <2>3, <3>4, <3>5 DEF Lined
  <2> QED
    BY <1>2, <1>7, <1>8, <2>1, <2>2, <2>10, <2>11
<1> QED
  BY <1>9, <1>10

(* The task of one download ends with its role, which nobody waits for.    *)
LEMMA LeavesKeeps ==
  ASSUME StreamInv, NEW d \in Streams, NEW tasks \in AnyTasks, RolesIn(tasks),
         \A e \in Streams : tasks[e].phase = task[e].phase /\ tasks[e].of # d,
         LeavesWith(d, tasks), Holds(d) \/ (task[d].phase = "created" /\ free > 0),
         row' \in [Streams -> Known \union {"removed"}],
         disk' \in [Streams -> {"no", "part", "whole"}], UNCHANGED <<loops, redo>>,
         \A e \in Streams : row'[e] = "connecting" => row[e] = "connecting",
         row'[d] # "connecting" \/ task[d].phase = "again"
  PROVE  StreamInv' /\ Unstuck
<1>1. /\ task' \in AnyTasks /\ RolesIn(task') /\ free' \in Nat /\ line' \in Seq(Streams)
      /\ Lined' /\ Permitted' /\ task'[d].phase = "over"
      /\ \A e \in Streams \ {d} :
           \/ task'[e].phase = task[e].phase
           \/ task[e].phase = "waits" /\ task'[e].phase = "granted"
  BY Ending
<1>2. Fresh' /\ Unstuck
  <2>1. \A e \in Streams :
           /\ row'[e] = "connecting" => row[e] = "connecting"
           /\ task'[e].phase \in Before => task[e].phase \in Before
           /\ task'[e].phase \in {"none", "over"} =>
                \/ task[e].phase \in {"none", "over", "again"} \/ row'[e] # "connecting"
    BY <1>1 DEF Before
  <2> QED
    BY <2>1, Wrapping
<1> QED
  BY <1>1, <1>2, Concluding DEF StreamInv, Typed

(* A task goes on, with its permit, into another stage.                    *)
LEMMA GoesOnKeeps ==
  ASSUME StreamInv, NEW d \in Streams, NEW tasks \in AnyTasks, RolesIn(tasks),
         \A e \in Streams : tasks[e].phase = task[e].phase /\ tasks[e].of # d,
         task' \in AnyTasks, task'[d].role = "none", task'[d].of \notin Streams,
         \A e \in Streams \ {d} : task'[e] = tasks[e],
         task[d].phase \in Holding, task'[d].phase \in Stages,
         row' \in [Streams -> Known \union {"removed"}],
         \A e \in Streams : row'[e] = "connecting" => row[e] = "connecting" \/ e = d,
         UNCHANGED <<disk, loops, redo, free, line>>
  PROVE  StreamInv' /\ Unstuck
<1>1. RolesIn(task')
  <2>1. \A e \in Streams : tasks[e].role # "none" => tasks[e].phase \in Browser
    BY DEF RolesIn
  <2> QED
    BY <2>1, LosesRole
<1>2. Lined' /\ Permitted'
  BY Staying DEF Holding, Stages, Browser
<1>3. Fresh' /\ Unstuck
  BY Wrapping, StagesAre
<1> QED
  BY <1>1, <1>2, <1>3, Concluding DEF StreamInv, Typed

----------------------------------------------------------------------------
(* Entering and leaving.                                                   *)
LEMMA TasksAre ==
  ASSUME StreamInv
  PROVE  /\ row \in [Streams -> Known \union {"removed"}]
         /\ disk \in [Streams -> {"no", "part", "whole"}]
         /\ task \in AnyTasks /\ RolesIn(task)
         /\ \A e \in Streams : /\ task[e] \in TaskState
                               /\ task[e].role # "none" => task[e].phase \in Browser
  BY DEF StreamInv, Typed, AnyTasks, RolesIn

(* A task that is nothing to the HLS engine leaves.                        *)
LEMMA RowLeaves ==
  ASSUME StreamInv, NEW d \in Streams, task[d].phase \notin Browser, Leaves(d),
         Holds(d) \/ (task[d].phase = "created" /\ free > 0),
         row' \in [Streams -> Known \union {"removed"}],
         disk' \in [Streams -> {"no", "part", "whole"}], UNCHANGED <<loops, redo>>,
         \A e \in Streams : row'[e] = "connecting" => row[e] = "connecting",
         row'[d] # "connecting"
  PROVE  StreamInv' /\ Unstuck
<1>1. task \in AnyTasks /\ RolesIn(task) /\ task[d].role # "owner"
  BY TasksAre
<1>2. \A e \in Streams : task[e].of # d
  BY <1>1, NobodyWaitsFor
<1> QED
  BY <1>1, <1>2, LeavesKeeps DEF Leaves

(* The same, into the next stage.                                          *)
LEMMA RowGoes ==
  ASSUME StreamInv, NEW d \in Streams, NEW phase \in Stages, Goes(d, phase),
         task[d].phase \in Stages \ Browser, UNCHANGED <<row, disk, loops, redo>>
  PROVE  StreamInv' /\ Unstuck
<1>1. /\ task \in AnyTasks /\ RolesIn(task) /\ task[d].role = "none" /\ task[d] \in TaskState
      /\ row \in [Streams -> Known \union {"removed"}]
  BY TasksAre
<1>2. task' = [task EXCEPT ![d].phase = phase, ![d].role = "none"] /\ UNCHANGED <<free, line>>
  BY DEF Goes
<1> DEFINE r == [task[d] EXCEPT !.phase = phase, !.role = "none"]
<1>3. r \in TaskState /\ r.phase = phase /\ r.role = "none" /\ r.of = task[d].of
  BY <1>1, Fields, StagesAre DEF TaskState
<1>4. task' \in AnyTasks /\ task'[d] = r /\ \A e \in Streams \ {d} : task'[e] = task[e]
  BY <1>1, <1>2, <1>3 DEF AnyTasks
<1> HIDE DEF r
<1>5. \A e \in Streams : task[e].of # d
  BY <1>1, NobodyWaitsFor
<1>6. task[d].of \notin Streams
  BY <1>1 DEF RolesIn
<1>7. task[d].phase \in Holding
  BY DEF Holding
<1> QED
  BY <1>1, <1>2, <1>3, <1>4, <1>5, <1>6, <1>7, GoesOnKeeps

LEMMA EntersKeeps ==
  ASSUME StreamInv, NEW d \in Streams, Enter(d) \/ EnterRaises(d)
  PROVE  StreamInv' /\ Unstuck
<1>1. /\ task \in AnyTasks /\ RolesIn(task) /\ task[d] \in TaskState
      /\ row \in [Streams -> Known \union {"removed"}]
      /\ disk \in [Streams -> {"no", "part", "whole"}]
      /\ \A e \in Streams : task[e].role # "none" => task[e].phase \in Browser
  BY TasksAre
<1>2. MayRun(d) /\ UNCHANGED <<disk, loops, redo>>
  BY DEF Enter, EnterRaises
<1>3. /\ task[d].phase \in {"created", "granted"}
      /\ Holds(d) \/ (task[d].phase = "created" /\ free > 0)
      /\ Holds(d) <=> task[d].phase = "granted"
  BY <1>2 DEF MayRun, Holds, Stages, Browser
<1>4. row[d] # "connecting" /\ task[d].phase \notin Browser
  BY <1>3 DEF StreamInv, Fresh, Before, Browser
<1>5. CASE Leaves(d) /\ UNCHANGED row
  BY <1>1, <1>2, <1>3, <1>4, <1>5, RowLeaves
<1>6. CASE Enter(d) /\ Exists(d)
  <2>1. PICK phase \in {"fetch", "sniff", "browser", "resolve"} :
          task' = [task EXCEPT ![d].phase = phase]
    BY <1>6 DEF Enter
  <2>2. /\ row' = [row EXCEPT ![d] = "connecting"] /\ UNCHANGED line
        /\ free' = IF Holds(d) THEN free ELSE free - 1
    BY <1>6 DEF Enter
  <2>3. phase \in Stages
    BY DEF Stages, Browser
  <2> DEFINE r == [task[d] EXCEPT !.phase = phase]
  <2>4. /\ task[d].role = "none" /\ r \in TaskState /\ r.phase = phase
        /\ r.role = "none" /\ r.of = task[d].of
    BY <1>1, <1>4, <2>3, Fields, StagesAre DEF TaskState
  <2>5. task' \in AnyTasks /\ task'[d] = r /\ \A e \in Streams \ {d} : task'[e] = task[e]
    BY <1>1, <2>1, <2>4 DEF AnyTasks
  <2> HIDE DEF r
  <2>6. /\ row' \in [Streams -> Known \union {"removed"}]
        /\ \A e \in Streams : row'[e] = "connecting" => row[e] = "connecting" \/ e = d
    BY <1>1, <2>2 DEF Known
  <2>7. RolesIn(task')
    <3>1. \A e \in Streams : /\ task'[e].role = task[e].role /\ task'[e].of = task[e].of
                             /\ task'[e].role # "none" => task'[e].phase \in Browser
      BY <1>1, <2>4, <2>5
    <3> QED
      BY <1>1, <2>5, <3>1, SameRoles
  <2>8. Fresh' /\ Unstuck
    <3>1. "granted" \notin Stages /\ "created" \notin Stages
      BY DEF Stages, Browser
    <3> QED
      BY <2>3, <2>4, <2>5, <2>6, Wrapping, StagesAre
  <2>9. free' \in Nat /\ Lined' /\ Permitted'
    <3>1. CASE task[d].phase = "granted"
      <4>1. free' = free /\ line' = line
        BY <1>3, <2>2, <3>1
      <4>2. \A e \in Streams : \/ task'[e].phase = task[e].phase
                               \/ task[e].phase # "waits" /\
                                  (task[e].phase \in Holding <=> task'[e].phase \in Holding)
        BY <2>3, <2>4, <2>5, <3>1 DEF Holding
      <4> QED
        BY <4>1, <4>2, Staying DEF StreamInv, Typed
    <3>2. CASE task[d].phase = "created" /\ free > 0
      <4>1. /\ ~Holds(d) /\ free \in Nat /\ free' = free - 1 /\ free' \in Nat
            /\ line = <<>> /\ line' = <<>> /\ Len(line') = 0
        BY <1>3, <2>2, <3>2, EmptySeq DEF StreamInv, Typed, Lined
      <4>2. Lined'
        BY <4>1 DEF Lined
      <4>3. \A e \in Streams : Holds(e)' <=> e = d \/ Holds(e)
        BY <2>3, <2>4, <2>5 DEF Holds
      <4>4. Holders' = Holders \cup {d} /\ d \notin Holders
        BY <4>1, <4>3 DEF Holders
      <4>5. Cardinality(Holders \cup {d}) = Cardinality(Holders) + 1
        BY <4>4, HoldsIs, FS_AddElement
      <4>6. PICK n \in Limits : free + Cardinality(Holders) = n
        BY DEF StreamInv, Permitted
      <4>7. Cardinality(Holders) \in Nat /\ Cardinality(Holders') = Cardinality(Holders) + 1
        BY <4>4, <4>5, HoldsIs
      <4>8. free' + Cardinality(Holders') = n
        BY <4>1, <4>6, <4>7
      <4>9. Permitted'
        BY <4>8 DEF Permitted
      <4> QED
        BY <4>1, <4>2, <4>9
    <3> QED
      BY <1>2, <3>1, <3>2 DEF MayRun
  <2> QED
    BY <1>2, <2>2, <2>5, <2>6, <2>7, <2>8, <2>9, Concluding DEF StreamInv, Typed
<1> QED
  BY <1>5, <1>6 DEF Enter, EnterRaises

LEMMA ForgetKeeps ==
  ASSUME StreamInv, NEW d \in Streams, Forget(d)
  PROVE  StreamInv' /\ Unstuck
<1>1. /\ task[d].phase = "over" /\ task' = [task EXCEPT ![d] = In("none")]
      /\ redo' = [redo EXCEPT ![d] = IF @ = "waits" THEN "ready" ELSE @]
      /\ UNCHANGED <<row, disk, loops, free, line>>
  BY DEF Forget
<1>2. /\ task \in AnyTasks /\ RolesIn(task)
      /\ \A e \in Streams : task[e].role # "none" => task[e].phase \in Browser
  BY TasksAre
<1>3. /\ In("none") \in TaskState /\ In("none").phase = "none" /\ In("none").role = "none"
      /\ In("none").of \notin Streams
  BY Fields, StreamAssumption DEF Phases
<1>4. task' \in AnyTasks /\ task'[d] = In("none") /\ \A e \in Streams \ {d} : task'[e] = task[e]
  BY <1>1, <1>2, <1>3 DEF AnyTasks
<1>5. task[d].role # "owner"
  BY <1>1, <1>2 DEF Browser
<1>6. RolesIn(task')
  <2>1. \A e \in Streams : task[e].of # d
    BY <1>2, <1>5, NobodyWaitsFor
  <2> QED
    BY <1>2, <1>3, <1>4, <2>1, LosesRole
<1>7. Lined' /\ Permitted'
  BY <1>1, <1>3, <1>4, Staying DEF Holding, Stages, Browser
<1>8. Fresh' /\ Unstuck
  BY <1>1, <1>3, <1>4, Wrapping DEF Before
<1>9. redo' \in [Streams -> {"no", "waits", "ready"}]
  BY <1>1 DEF StreamInv, Typed
<1> QED
  BY <1>1, <1>4, <1>6, <1>7, <1>8, <1>9, Concluding DEF StreamInv, Typed

----------------------------------------------------------------------------
(* The stages of yt-dlp.                                                   *)
LEMMA Rewritten ==
  ASSUME Typed, NEW d \in Streams, NEW s \in {"completed", "failed", "stopped"}
  PROVE  /\ Write(d, s) \in [Streams -> Known \union {"removed"}]
         /\ Write(d, s)[d] # "connecting"
         /\ \A e \in Streams : Write(d, s)[e] = "connecting" => row[e] = "connecting"
<1>1. row \in [Streams -> Known \union {"removed"}]
  BY DEF Typed
<1>2. CASE Exists(d)
  BY <1>1, <1>2 DEF Write, Known, Ended
<1>3. CASE ~Exists(d)
  <2>1. row[d] # "connecting"
    BY <1>3 DEF Exists, Known
  <2> QED
    BY <1>1, <1>3, <2>1 DEF Write
<1> QED
  BY <1>2, <1>3

LEMMA FailsKeeps ==
  ASSUME StreamInv, NEW d \in Streams, task[d].phase \in Stages \ Browser, FailsOrAgain(d),
         UNCHANGED <<disk, loops, redo>>
  PROVE  StreamInv' /\ Unstuck
<1>1. Typed /\ Holds(d) /\ "again" \in Stages
  BY DEF StreamInv, Holds, Stages, Browser
<1>2. CASE Fails(d, task)
  <2>1. row' = Write(d, "failed") /\ Leaves(d)
    BY <1>2 DEF Fails, Leaves
  <2>2. /\ row' \in [Streams -> Known \union {"removed"}] /\ row'[d] # "connecting"
        /\ \A e \in Streams : row'[e] = "connecting" => row[e] = "connecting"
    BY <1>1, <2>1, Rewritten
  <2> QED
    BY <1>1, <2>1, <2>2, RowLeaves, TasksAre
<1>3. CASE Goes(d, "again") /\ UNCHANGED row
  BY <1>1, <1>3, RowGoes
<1> QED
  BY <1>2, <1>3 DEF FailsOrAgain

LEMMA FetchesKeep ==
  ASSUME StreamInv, NEW d \in Streams,
         \/ Sniffed(d) \/ Resolved(d) \/ ResolveFails(d)
         \/ Block(d) \/ Fetched(d) \/ FetchStops(d) \/ FetchFails(d)
  PROVE  StreamInv' /\ Unstuck
<1>1. /\ Typed /\ row \in [Streams -> Known \union {"removed"}]
      /\ disk \in [Streams -> {"no", "part", "whole"}]
  BY TasksAre DEF StreamInv
<1>2. /\ {"sniff", "resolve", "fetch"} \subseteq Stages \ Browser
      /\ "browser" \in Stages /\ "resolve" \in Stages /\ "fetch" \in Stages
      /\ \A p \in Stages : p \in Holding
  BY DEF Stages, Browser, Holding
<1>3. task[d].phase \in {"sniff", "resolve", "fetch"}
  BY DEF Sniffed, Resolved, ResolveFails, Block, Fetched, FetchStops, FetchFails
<1>4. Holds(d) /\ task[d].phase \in Stages \ Browser
  BY <1>2, <1>3 DEF Holds
<1>5. CASE Sniffed(d)
  <2>1. /\ Goes(d, "browser") \/ Goes(d, "resolve")
        /\ UNCHANGED <<row, disk, loops, redo>>
    BY <1>5 DEF Sniffed
  <2> QED
    BY <1>2, <1>4, <2>1, RowGoes
<1>6. CASE Resolved(d)
  <2>1. UNCHANGED <<row, disk, loops, redo>>
    BY <1>6 DEF Resolved
  <2>2. CASE Exists(d)
    BY <1>2, <1>4, <1>6, <2>1, <2>2, RowGoes DEF Resolved
  <2>3. CASE ~Exists(d)
    <3>1. Leaves(d) /\ row[d] # "connecting"
      BY <1>6, <2>3 DEF Resolved, Exists, Known
    <3> QED
      BY <1>1, <1>4, <2>1, <3>1, RowLeaves
  <2> QED
    BY <2>2, <2>3
<1>7. CASE ResolveFails(d) \/ FetchFails(d)
  BY <1>4, <1>7, FailsKeeps DEF ResolveFails, FetchFails
<1>8. CASE Block(d)
  <2>1. disk' = [disk EXCEPT ![d] = "part"] /\ UNCHANGED <<row, task, loops, redo, free, line>>
    BY <1>8 DEF Block
  <2>2. disk' \in [Streams -> {"no", "part", "whole"}]
    BY <1>1, <2>1
  <2>3. Lined' /\ Permitted' /\ Fresh' /\ Unstuck
    BY <2>1, Staying, Wrapping
  <2> QED
    BY <2>1, <2>2, <2>3, Concluding DEF StreamInv, Typed
<1>9. CASE Fetched(d)
  <2>1. /\ row' = Write(d, "completed") /\ disk' = [disk EXCEPT ![d] = "whole"]
        /\ Leaves(d) /\ UNCHANGED <<loops, redo>>
    BY <1>9 DEF Fetched, Completes, Leaves
  <2>2. disk' \in [Streams -> {"no", "part", "whole"}]
    BY <1>1, <2>1
  <2>3. /\ row' \in [Streams -> Known \union {"removed"}] /\ row'[d] # "connecting"
        /\ \A e \in Streams : row'[e] = "connecting" => row[e] = "connecting"
    BY <1>1, <2>1, Rewritten
  <2> QED
    BY <1>4, <2>1, <2>2, <2>3, RowLeaves
<1>10. CASE FetchStops(d)
  <2>1. row' = Parked(d) /\ Leaves(d) /\ UNCHANGED <<disk, loops, redo>>
    BY <1>10 DEF FetchStops, Stopped, Leaves
  <2>2. /\ row' \in [Streams -> Known \union {"removed"}] /\ row'[d] # "connecting"
        /\ \A e \in Streams : row'[e] = "connecting" => row[e] = "connecting"
    BY <1>1, <2>1, Rewritten DEF Parked
  <2> QED
    BY <1>1, <1>4, <2>1, <2>2, RowLeaves
<1> QED
  BY <1>5, <1>6, <1>7, <1>8, <1>9, <1>10

----------------------------------------------------------------------------
(* The stages of the HLS engine.                                           *)
LEMMA JoinKeeps ==
  ASSUME StreamInv, NEW d \in Streams, Join(d)
  PROVE  StreamInv' /\ Unstuck
<1>1. /\ task \in AnyTasks /\ RolesIn(task) /\ task[d] \in TaskState
      /\ \A e \in Streams : task[e].role # "none" => task[e].phase \in Browser
  BY TasksAre
<1>2. /\ task[d].phase \in Browser /\ task[d].role = "none"
      /\ UNCHANGED <<row, disk, loops, redo, free, line>>
  BY DEF Join
<1>3. \A e \in Streams : task[e].of # d
  BY <1>1, <1>2, NobodyWaitsFor
<1>4. task[d].of \notin Streams
  BY <1>1, <1>2 DEF RolesIn
<1>5. task' \in AnyTasks /\ RolesIn(task') /\ \A e \in Streams : task'[e].phase = task[e].phase
  <2>1. CASE task' = [task EXCEPT ![d].role = "owner"]
    <3> DEFINE r == [task[d] EXCEPT !.role = "owner"]
    <3>1. /\ r \in TaskState /\ r.phase = task[d].phase /\ r.role = "owner"
          /\ r.of = task[d].of
      BY <1>1 DEF TaskState
    <3>2. task' \in AnyTasks /\ task'[d] = r /\ \A e \in Streams \ {d} : task'[e] = task[e]
      BY <1>1, <2>1, <3>1 DEF AnyTasks
    <3> HIDE DEF r
    <3>3. ASSUME NEW e \in Streams
          PROVE  /\ task'[e].role # "none" => task'[e].phase \in Browser
                 /\ task'[e].of \in Streams <=> task'[e].role = "waiter"
                 /\ task'[e].role = "waiter" => task'[task'[e].of].role = "owner"
      <4>1. CASE e = d
        BY <1>2, <1>4, <3>1, <3>2, <4>1
      <4>2. CASE e # d
        BY <1>1, <1>3, <3>2, <4>2 DEF RolesIn
      <4> QED
        BY <4>1, <4>2
    <3>4. RolesIn(task')
      BY <3>3 DEF RolesIn
    <3> QED
      BY <3>1, <3>2, <3>4
  <2>2. ASSUME NEW o \in Streams, task[o].role = "owner",
               task' = [task EXCEPT ![d].role = "waiter", ![d].of = o]
        PROVE  task' \in AnyTasks /\ RolesIn(task')
               /\ \A e \in Streams : task'[e].phase = task[e].phase
    <3> DEFINE r == [task[d] EXCEPT !.role = "waiter", !.of = o]
    <3>1. r \in TaskState /\ r.phase = task[d].phase /\ r.role = "waiter" /\ r.of = o
      BY <1>1 DEF TaskState
    <3>2. task' \in AnyTasks /\ task'[d] = r /\ \A e \in Streams \ {d} : task'[e] = task[e]
      <4>1. task' = [task EXCEPT ![d] = r]
        BY <2>2
      <4> QED
        BY <1>1, <3>1, <4>1 DEF AnyTasks
    <3> HIDE DEF r
    <3>3. ASSUME NEW e \in Streams
          PROVE  /\ task'[e].role # "none" => task'[e].phase \in Browser
                 /\ task'[e].of \in Streams <=> task'[e].role = "waiter"
                 /\ task'[e].role = "waiter" => task'[task'[e].of].role = "owner"
      <4>1. CASE e = d
        <5>1. o # d /\ task'[o].role = "owner"
          BY <1>2, <2>2, <3>2
        <5>2. task'[e] = r
          BY <3>2, <4>1
        <5> QED
          BY <1>2, <2>2, <3>1, <5>1, <5>2
      <4>2. CASE e # d
        BY <1>1, <1>3, <3>2, <4>2 DEF RolesIn
      <4> QED
        BY <4>1, <4>2
    <3>4. RolesIn(task')
      BY <3>3 DEF RolesIn
    <3> QED
      BY <3>1, <3>2, <3>4
  <2> QED
    BY <2>1, <2>2 DEF Join
<1>6. Lined' /\ Permitted' /\ Fresh' /\ Unstuck
  BY <1>2, <1>5, Staying, Wrapping
<1> QED
  BY <1>2, <1>5, <1>6, Concluding DEF StreamInv, Typed

LEMMA ReserveKeeps ==
  ASSUME StreamInv, NEW d \in Streams, Reserve(d)
  PROVE  StreamInv' /\ Unstuck
<1>1. /\ task \in AnyTasks /\ RolesIn(task) /\ task[d] \in TaskState
      /\ \A e \in Streams : task[e].role # "none" => task[e].phase \in Browser
  BY TasksAre
<1>2. /\ task[d].out = 0 /\ task' = [task EXCEPT ![d].out = FreeOutput]
      /\ UNCHANGED <<row, disk, loops, redo, free, line>>
  BY DEF Reserve
<1>3. FreeOutput \in Outputs
  BY <1>1, <1>2, OutputLeft
<1> DEFINE r == [task[d] EXCEPT !.out = FreeOutput]
<1>4. /\ r \in TaskState /\ r.phase = task[d].phase /\ r.role = task[d].role
      /\ r.of = task[d].of
  <2> HIDE DEF FreeOutput
  <2> QED
    BY <1>1, <1>3 DEF TaskState
<1>5. task' \in AnyTasks /\ task'[d] = r /\ \A e \in Streams \ {d} : task'[e] = task[e]
  <2> HIDE DEF FreeOutput
  <2> QED
    BY <1>1, <1>2, <1>4 DEF AnyTasks
<1> HIDE DEF r
<1>6. \A e \in Streams : /\ task'[e].role = task[e].role /\ task'[e].of = task[e].of
                         /\ task'[e].phase = task[e].phase
                         /\ task'[e].role # "none" => task'[e].phase \in Browser
  BY <1>1, <1>4, <1>5
<1>7. RolesIn(task')
  BY <1>1, <1>5, <1>6, SameRoles
<1>8. Lined' /\ Permitted' /\ Fresh' /\ Unstuck
  BY <1>2, <1>6, Staying, Wrapping
<1> QED
  BY <1>2, <1>5, <1>7, <1>8, Concluding DEF StreamInv, Typed

(* All that wait hear how the download they wait for has ended.            *)
LEMMA TellingAll ==
  ASSUME StreamInv, NEW d \in Streams, NEW answer \in Answers, task[d].role = "owner"
  PROVE  /\ Told(d, answer) \in AnyTasks /\ RolesIn(Told(d, answer))
         /\ \A e \in Streams : /\ Told(d, answer)[e].phase = task[e].phase
                               /\ Told(d, answer)[e].of # d
<1>1. /\ task \in AnyTasks /\ RolesIn(task)
      /\ \A e \in Streams : task[e] \in TaskState
  BY TasksAre
<1> DEFINE t == Told(d, answer)
<1>2. ASSUME NEW e \in Streams
      PROVE  /\ t[e] \in TaskState /\ t[e].phase = task[e].phase
             /\ task[e].of = d => t[e].role = "told" /\ t[e].of = Nobody
             /\ task[e].of # d => t[e] = task[e]
  <2>1. CASE task[e].of = d
    <3>1. t[e] = [task[e] EXCEPT !.role = "told", !.of = Nobody, !.told = answer]
      BY <2>1 DEF Told, Hears
    <3> QED
      BY <1>1, <2>1, <3>1 DEF TaskState
  <2>2. CASE task[e].of # d
    BY <1>1, <2>2 DEF Told
  <2> QED
    BY <2>1, <2>2
<1>3. t = [e \in Streams |-> t[e]]
  BY DEF Told
<1> HIDE DEF t
<1>4. t \in AnyTasks
  BY <1>2, <1>3 DEF AnyTasks
<1>5. Nobody \notin Streams
  BY StreamAssumption
<1>6. \A e \in Streams : t[e].of # d
  BY <1>2, <1>5
<1>7. ASSUME NEW e \in Streams
      PROVE  /\ t[e].role # "none" => t[e].phase \in Browser
             /\ t[e].of \in Streams <=> t[e].role = "waiter"
             /\ t[e].role = "waiter" => t[t[e].of].role = "owner"
  <2>1. /\ task[e].role # "none" => task[e].phase \in Browser
        /\ task[e].of \in Streams <=> task[e].role = "waiter"
        /\ task[e].role = "waiter" => task[task[e].of].role = "owner"
    BY <1>1 DEF RolesIn
  <2>2. CASE task[e].of = d
    BY <1>2, <1>5, <2>1, <2>2
  <2>3. CASE task[e].of # d
    <3>1. ASSUME task[e].role = "waiter" PROVE t[task[e].of].role = "owner"
      <4>1. task[e].of \in Streams /\ task[task[e].of].role = "owner"
        BY <2>1, <3>1
      <4>2. task[task[e].of].of # d
        BY <1>1, <4>1 DEF RolesIn
      <4> QED
        BY <1>2, <4>1, <4>2
    <3> QED
      BY <1>2, <2>1, <2>3, <3>1
  <2> QED
    BY <2>2, <2>3
<1>8. RolesIn(t)
  BY <1>7 DEF RolesIn
<1> QED
  BY <1>2, <1>4, <1>6, <1>8 DEF t

LEMMA AnsweredKeeps ==
  ASSUME StreamInv, NEW d \in Streams, NEW tasks \in AnyTasks, RolesIn(tasks),
         \A e \in Streams : tasks[e].phase = task[e].phase /\ tasks[e].of # d,
         tasks[d].of \notin Streams, task[d].phase \in Browser,
         NEW answer \in Answers, Answered(d, answer, tasks), UNCHANGED <<loops, redo>>
  PROVE  StreamInv' /\ Unstuck
<1>1. /\ Typed /\ row \in [Streams -> Known \union {"removed"}]
      /\ disk \in [Streams -> {"no", "part", "whole"}] /\ tasks[d] \in TaskState
  BY TasksAre DEF StreamInv, AnyTasks
<1>2. Holds(d) /\ task[d].phase \in Holding /\ Browser = {"browser", "again"}
      /\ {"resolve", "again"} \subseteq Stages
  BY DEF Holds, Holding, Stages, Browser
<1>3. ASSUME LeavesWith(d, tasks), row' \in {Write(d, "completed"), Write(d, "failed"), Parked(d)},
             disk' \in [Streams -> {"no", "part", "whole"}]
      PROVE  StreamInv' /\ Unstuck
  <2>1. /\ row' \in [Streams -> Known \union {"removed"}] /\ row'[d] # "connecting"
        /\ \A e \in Streams : row'[e] = "connecting" => row[e] = "connecting"
    <3>1. CASE row' = Parked(d)
      BY <1>1, <3>1, Rewritten DEF Parked
    <3>2. CASE row' # Parked(d)
      BY <1>1, <1>3, <3>2, Rewritten
    <3> QED
      BY <3>1, <3>2
  <2> QED
    BY <1>2, <1>3, <2>1, LeavesKeeps
<1>4. ASSUME NEW phase \in {"resolve", "again"},
             task' = [tasks EXCEPT ![d].phase = phase, ![d].role = "none",
                                   ![d].told = "none", ![d].out = 0],
             UNCHANGED <<row, free, line, disk>>
      PROVE  StreamInv' /\ Unstuck
  <2> DEFINE r == [tasks[d] EXCEPT !.phase = phase, !.role = "none", !.told = "none",
                                   !.out = 0]
  <2>1. r \in TaskState /\ r.phase = phase /\ r.role = "none" /\ r.of = tasks[d].of
    <3>1. phase \in Phases
      BY <1>2, StagesAre
    <3>2. r \in TaskState
      BY <1>1, <3>1, Fields
    <3>3. r.phase = phase /\ r.role = "none" /\ r.of = tasks[d].of
      BY <1>1 DEF TaskState
    <3> QED
      BY <3>2, <3>3
  <2>2. task' \in AnyTasks /\ task'[d] = r /\ \A e \in Streams \ {d} : task'[e] = tasks[e]
    BY <1>4, <2>1 DEF AnyTasks
  <2> HIDE DEF r
  <2> QED
    BY <1>1, <1>2, <1>4, <2>1, <2>2, GoesOnKeeps
<1>5. CASE answer = "path"
  <2>1. /\ LeavesWith(d, tasks) /\ row' = Write(d, "completed")
        /\ disk' = [disk EXCEPT ![d] = "whole"]
    BY <1>5 DEF Answered, Completes
  <2>2. disk' \in [Streams -> {"no", "part", "whole"}]
    BY <1>1, <2>1
  <2> QED
    BY <1>3, <2>1, <2>2
<1>6. CASE answer = "none"
  <2>1. CASE task[d].phase = "browser"
    <3>1. /\ task' = [tasks EXCEPT ![d].phase = "resolve", ![d].role = "none",
                                   ![d].told = "none", ![d].out = 0]
          /\ UNCHANGED <<row, free, line, disk>>
      BY <1>6, <2>1 DEF Answered
    <3> QED
      BY <1>4, <3>1
  <2>2. CASE task[d].phase # "browser"
    <3>1. Fails(d, tasks) /\ UNCHANGED disk
      BY <1>6, <2>2 DEF Answered
    <3> QED
      BY <1>1, <1>3, <3>1 DEF Fails
  <2> QED
    BY <2>1, <2>2
<1>7. CASE answer \in {"cancelled", "raised"} /\ task[d].phase = "again"
  <2>1. LeavesWith(d, tasks) /\ UNCHANGED <<row, disk>>
    BY <1>7 DEF Answered
  <2> QED
    BY <1>1, <1>2, <1>7, <2>1, LeavesKeeps
<1>8. CASE answer = "cancelled" /\ task[d].phase = "browser"
  <2>1. /\ row' = Parked(d) /\ LeavesWith(d, tasks)
        /\ disk' \in {disk, [disk EXCEPT ![d] = IF @ = "no" THEN "part" ELSE @]}
    BY <1>8 DEF Answered, Stopped
  <2>2. disk' \in [Streams -> {"no", "part", "whole"}]
    BY <1>1, <2>1
  <2> QED
    BY <1>3, <2>1, <2>2
<1>9. CASE answer = "raised" /\ task[d].phase = "browser"
  <2>1. UNCHANGED disk
    BY <1>9 DEF Answered
  <2>2. CASE Fails(d, tasks)
    BY <1>1, <1>3, <2>1, <2>2 DEF Fails
  <2>3. CASE ~Fails(d, tasks)
    <3>1. /\ task' = [tasks EXCEPT ![d].phase = "again", ![d].role = "none",
                                   ![d].told = "none", ![d].out = 0]
          /\ UNCHANGED <<row, free, line>>
      BY <1>9, <2>3 DEF Answered
    <3> QED
      BY <1>4, <2>1, <3>1
  <2> QED
    BY <2>2, <2>3
<1> QED
  BY <1>2, <1>5, <1>6, <1>7, <1>8, <1>9 DEF Answers

LEMMA EngineKeeps ==
  ASSUME StreamInv, NEW d \in Streams,
         WaiterEnds(d) \/ \E answer \in Answers : OwnerEnds(d, answer)
  PROVE  StreamInv' /\ Unstuck
<1>1. /\ task \in AnyTasks /\ RolesIn(task) /\ task[d] \in TaskState
      /\ task[d].role # "none" => task[d].phase \in Browser
      /\ task[d].role # "waiter" => task[d].of \notin Streams
  BY TasksAre DEF RolesIn
<1>2. CASE WaiterEnds(d)
  <2>1. /\ task[d].role = "told" /\ Answered(d, task[d].told, task)
        /\ UNCHANGED <<loops, redo>>
    BY <1>2 DEF WaiterEnds
  <2>2. \A e \in Streams : task[e].of # d
    BY <1>1, <2>1, NobodyWaitsFor
  <2>3. task[d].told \in Answers
    BY <1>1, Records
  <2> QED
    BY <1>1, <2>1, <2>2, <2>3, AnsweredKeeps
<1>3. ASSUME NEW answer \in Answers, OwnerEnds(d, answer)
      PROVE  StreamInv' /\ Unstuck
  <2>1. /\ task[d].role = "owner" /\ Answered(d, answer, Told(d, answer))
        /\ UNCHANGED <<loops, redo>>
    BY <1>3 DEF OwnerEnds
  <2> DEFINE t == Told(d, answer)
  <2>2. /\ t \in AnyTasks /\ RolesIn(t)
        /\ \A e \in Streams : t[e].phase = task[e].phase /\ t[e].of # d
    BY <2>1, TellingAll
  <2>3. t[d].of \notin Streams
    <3>1. t[d] = task[d] \/ t[d].of = Nobody
      BY <1>1 DEF Told, Hears, TaskState
    <3> QED
      BY <1>1, <2>1, <3>1, StreamAssumption
  <2>4. Answered(d, answer, t)
    BY <2>1
  <2> HIDE DEF t
  <2> QED
    BY <1>1, <2>1, <2>2, <2>3, <2>4, AnsweredKeeps
<1> QED
  BY <1>2, <1>3

----------------------------------------------------------------------------
(* A process that begins has no tasks.                                     *)
LEMMA Beginning ==
  ASSUME row' \in [Streams -> Known \union {"removed"}],
         disk' \in [Streams -> {"no", "part", "whole"}],
         task' = [d \in Streams |-> In("none")], loops' = [d \in Streams |-> 0],
         redo' = [d \in Streams |-> "no"], free' \in Limits, line' = <<>>
  PROVE  StreamInv'
<1>1. /\ In("none") \in TaskState /\ In("none").phase = "none" /\ In("none").role = "none"
      /\ In("none").of \notin Streams
  BY Fields, StreamAssumption DEF Phases
<1>2. task' \in AnyTasks /\ \A d \in Streams : task'[d] = In("none")
  BY <1>1 DEF AnyTasks
<1>3. free' \in Nat /\ line' \in Seq(Streams) /\ Len(line') = 0
      /\ loops' \in [Streams -> 0 .. MaxLoops] /\ redo' \in [Streams -> {"no", "waits", "ready"}]
  BY StreamAssumption, EmptySeq
<1>4. RolesIn(task') /\ Lined' /\ Fresh'
  BY <1>1, <1>2, <1>3 DEF RolesIn, Lined, Fresh, Before
<1>5. Permitted'
  <2>1. Holders' = {}
    BY <1>1, <1>2 DEF Holders, Holds, Stages, Browser
  <2>2. free' + Cardinality(Holders') = free'
    BY <1>3, <2>1, FS_EmptySet
  <2> QED
    BY <2>2 DEF Permitted
<1> QED
  BY <1>2, <1>3, <1>4, <1>5, Concluding

LEMMA StreamBegins == Init => StreamInv
<1> SUFFICES ASSUME Init PROVE StreamInv
  OBVIOUS
<1>1. /\ In("none") \in TaskState /\ In("none").phase = "none" /\ In("none").role = "none"
      /\ In("none").of \notin Streams
  BY Fields, StreamAssumption DEF Phases
<1>2. task \in AnyTasks /\ \A d \in Streams : task[d] = In("none")
  BY <1>1 DEF Init, AnyTasks
<1>3. Typed /\ Len(line) = 0
  BY <1>2, StreamAssumption, EmptySeq DEF Init, Typed, Known, Waiting
<1>4. RolesIn(task) /\ Lined /\ Fresh
  BY <1>1, <1>2, <1>3 DEF Init, RolesIn, Lined, Fresh, Before
<1>5. Permitted
  <2>1. Holders = {}
    BY <1>1, <1>2 DEF Holders, Holds, Stages, Browser
  <2>2. free + Cardinality(Holders) = free
    BY <1>3, <2>1, FS_EmptySet DEF Typed
  <2> QED
    BY <2>2 DEF Init, Permitted
<1> QED
  BY <1>3, <1>4, <1>5 DEF StreamInv

LEMMA StreamStep ==
  StreamInv /\ [Next]_vars => StreamInv' /\ (Unstuck \/ NewProcess)
<1> SUFFICES ASSUME StreamInv, [Next]_vars
             PROVE  StreamInv' /\ (Unstuck \/ NewProcess)
  OBVIOUS
<1>1. ASSUME NEW d \in Streams, User(d) \/ TaskStep(d) \/ Stage(d)
      PROVE  StreamInv' /\ Unstuck
  <2>1. CASE TaskStep(d)
    BY <2>1, LinesUpKeeps, EntersKeeps, ForgetKeeps, LaterKeeps DEF TaskStep
  <2>2. CASE Stage(d)
    BY <2>2, FetchesKeep, JoinKeeps, ReserveKeeps, EngineKeeps DEF Stage
  <2> QED
    BY <1>1, <2>1, <2>2, UserKeeps
<1>2. CASE NewProcess
  BY <1>2, TasksAre, Beginning DEF NewProcess
<1>3. CASE UNCHANGED vars
  <2>1. UNCHANGED <<row, disk, task, loops, redo, free, line>>
    BY <1>3 DEF vars
  <2>2. Lined' /\ Permitted' /\ Fresh' /\ Unstuck
    BY <2>1, Staying, Wrapping
  <2> QED
    BY <2>1, <2>2, Concluding DEF StreamInv, Typed
<1> QED
  BY <1>1, <1>2, <1>3 DEF Next

(* The invariant: the tasks the HLS engine knows are in its stages, the    *)
(* line holds those that wait, each once, while no permit is free, every   *)
(* permit is free or held by one task, and a row says "connecting" not     *)
(* before its task has one (core/downloads/manager.py,                     *)
(* media/hls/downloader.py).                                               *)
THEOREM StreamInvariant == Spec => []StreamInv
<1> QED
  BY StreamBegins, StreamStep, PTL DEF Spec

(* Every variable has its type; in particular never are more permits free  *)
(* than there were when the process began, although tasks end in a dozen   *)
(* ways, and an output is always left to reserve (_run_streaming and the   *)
(* semaphore of core/downloads/manager.py, the output that                 *)
(* media/hls/downloader.py reserves).                                      *)
THEOREM StreamTypeCorrect == Spec => []StreamTypeOK
<1>1. StreamInv => StreamTypeOK
  <2> SUFFICES ASSUME StreamInv PROVE StreamTypeOK
    OBVIOUS
  <2>1. PICK n \in Limits : free + Cardinality(Holders) = n
    BY DEF StreamInv, Permitted
  <2>2. free \in 0 .. n
    BY <2>1, HoldsIs, StreamAssumption DEF StreamInv, Typed
  <2> QED
    BY <2>2 DEF StreamInv, Typed, AnyTasks, StreamTypeOK
<1> QED
  BY StreamInvariant, <1>1, PTL

(* Who waits for another's download waits for one that is at work, and so  *)
(* hears of its end whichever of the ways it ends (_ACTIVE_DOWNLOADS of    *)
(* media/hls/downloader.py): an owner leaves its role only in the step     *)
(* that tells all who wait.                                                *)
THEOREM WaitersHeard == Spec => []NobodyWaitsInVain
<1>1. StreamInv => NobodyWaitsInVain
  BY DEF StreamInv, RolesIn, NobodyWaitsInVain
<1> QED
  BY StreamInvariant, <1>1, PTL

(* No end of a stage leaves a row at "connecting" behind, but the end of   *)
(* the process and an exception of the second attempt through the browser  *)
(* (_run_streaming of core/downloads/manager.py).                          *)
THEOREM StreamNeverStuckAlways == Spec => StreamNeverStuck
<1>1. ASSUME StreamInv, [Next]_vars
      PROVE  [\A d \in Streams :
                Stuck(d)' => Stuck(d) \/ NewProcess \/ task[d].phase = "again"]_vars
  BY <1>1, StreamStep DEF Unstuck
<1> QED
  BY StreamInvariant, <1>1, PTL DEF Spec, StreamNeverStuck
=============================================================================
