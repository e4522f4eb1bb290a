------------------------- MODULE TorrentQueue_proofs -------------------------
(***************************************************************************)
(* Theorems about TorrentQueue, for any number of torrents, any priorities *)
(* and settings, with restarts of the process or without.                  *)
(***************************************************************************)
EXTENDS TorrentQueue, FiniteSetTheorems, SequenceTheorems,
        WellFoundedInduction, TLAPS

AnyRows  == [Torrents -> Known \union {"new", "removed"}]
AnyTasks == [Torrents -> TaskState]
AnyPrio  == [Torrents -> Priorities]

(* The invariant is said of rows, tasks, permits and a line that need not  *)
(* be those of a state: the queue is asked in the middle of a step.        *)

(* The line holds tasks that wait, each once, and there is one only when   *)
(* no permit is free; every permit is free or held by one task.            *)
LinedUp(t, f, l) ==
    /\ l \in Seq(Torrents) /\ f \in Nat
    /\ l # <<>> => f = 0
    /\ \A i \in 1 .. Len(l) : t[l[i]].phase = "waits"
    /\ \A i, k \in 1 .. Len(l) : l[i] = l[k] => i = k
Holding      == {"granted"} \union Handled
Holders(t)   == {d \in Torrents : t[d].phase \in Holding}
Permitted(t, f) == f + Cardinality(Holders(t)) = Permits

(* A handler whose row waits is parked: this is why the torrents the queue *)
(* starts had no slot before.  A new row has no task.                      *)
Fits(r, t) ==
    \A d \in Torrents : /\ (HasHandler(t, d) /\ r[d] \in Waiting) => t[d].paused
                        /\ (r[d] = "new") => ~HasTask(t, d)

Sits(r, t, f, l) == /\ r \in AnyRows /\ t \in AnyTasks /\ Fits(r, t)
                    /\ LinedUp(t, f, l) /\ Permitted(t, f)

QueueInv ==
    /\ Sits(row, task, free, line)
    /\ seeding \in [Torrents -> BOOLEAN] /\ prio \in AnyPrio
    /\ limits \in Limits
    /\ redo \in [Torrents -> {"no", "waits", "ready"}]

(* Who has a slot, and who stands in the queue without a task.             *)
Takers(r, t, s) ==
    {d \in Torrents : /\ ~s[d]
                      /\ \/ r[d] \in Transfer
                         \/ /\ r[d] \in {"queued", "scheduled"}
                            /\ HasTask(t, d) /\ ~Parked(t, d)}
Standing(r, t, s) == {d \in Torrents : r[d] = "queued" /\ ~HasTask(t, d) /\ ~s[d]}
Excused == NewProcess \/ EarlyPause \/ LateRequeue

----------------------------------------------------------------------------
(* The least number of a set: the sets 1 .. n are well-founded.            *)
LEMMA Least ==
  ASSUME NEW T \in SUBSET Nat, T # {}
  PROVE  \E n \in T : \A k \in T : n <= k
<1> DEFINE U == {1 .. n : n \in T}
<1>1. U \subseteq FiniteSubsetsOf(Nat) /\ U # {}
  <2>1. \A n \in T : IsFiniteSet(1 .. n) /\ 1 .. n \in SUBSET Nat
    BY FS_Interval
  <2> QED
    BY <2>1 DEF FiniteSubsetsOf
<1>2. IsWellFoundedOn(StrictSubsetOrdering(Nat), FiniteSubsetsOf(Nat))
  BY FS_StrictSubsetOrderingWellFounded
<1>3. \E x \in U : \A y \in U : ~ (<<y, x>> \in StrictSubsetOrdering(Nat))
  <2> HIDE DEF U
  <2> QED
    BY ONLY <1>1, <1>2, WFMin, Zenon
<1>4. PICK n \in T : \A y \in U : ~ (<<y, 1 .. n>> \in StrictSubsetOrdering(Nat))
  BY <1>3
<1>5. ASSUME NEW k \in T, k < n PROVE FALSE
  <2>1. /\ 1 .. k \in U /\ 1 .. k \subseteq 1 .. n /\ 1 .. n \subseteq Nat
        /\ n \in 1 .. n /\ n \notin 1 .. k
    BY <1>5
  <2>2. <<1 .. k, 1 .. n>> \in StrictSubsetOrdering(Nat)
    BY <2>1 DEF StrictSubsetOrdering
  <2> QED
    BY <1>4, <2>1, <2>2
<1> QED
  BY <1>5


----------------------------------------------------------------------------
(* What the operators of the model make of rows, tasks and the line.       *)
Phases == {"none", "created", "waits", "granted", "over"} \union Handled

LEMMA Records ==
  ASSUME NEW t \in AnyTasks, NEW d \in Torrents
  PROVE  /\ t[d] \in TaskState /\ t[d].phase \in Phases
         /\ t[d].paused \in BOOLEAN /\ t[d].cancel \in BOOLEAN
  BY DEF AnyTasks, TaskState, Phases

LEMMA Fields ==
  /\ \A p \in Phases : /\ In(p) \in TaskState /\ In(p).phase = p
                       /\ In(p).paused = FALSE
  /\ \A x \in TaskState, p \in Phases :
       /\ [x EXCEPT !.phase = p] \in TaskState /\ [x EXCEPT !.phase = p].phase = p
       /\ [x EXCEPT !.phase = p].paused = x.paused
  /\ \A x \in TaskState :
       /\ [x EXCEPT !.paused = FALSE] \in TaskState
       /\ ~[x EXCEPT !.paused = FALSE].paused
       /\ [x EXCEPT !.paused = FALSE].phase = x.phase
       /\ [x EXCEPT !.paused = TRUE] \in TaskState
       /\ [x EXCEPT !.paused = TRUE].paused
       /\ [x EXCEPT !.paused = TRUE].phase = x.phase
       /\ [x EXCEPT !.cancel = TRUE] \in TaskState
       /\ [x EXCEPT !.cancel = TRUE].paused = x.paused
       /\ [x EXCEPT !.cancel = TRUE].phase = x.phase
  BY DEF In, TaskState, Phases

LEMMA TorrentsAre ==
  /\ IsFiniteSet(Torrents) /\ Torrents \subseteq Nat
  /\ \A S \in SUBSET Torrents : IsFiniteSet(S) /\ Cardinality(S) \in Nat
<1>1. IsFiniteSet(Torrents) /\ Torrents \subseteq Nat
  BY TorrentAssumption, FS_Interval DEF Torrents
<1> QED
  BY <1>1, FS_Subset, FS_CardinalityType

(* Neither the line nor the permits change.                                *)
LEMMA Staying ==
  ASSUME NEW t, NEW u, NEW f, NEW l, LinedUp(t, f, l), Permitted(t, f),
         \A e \in Torrents :
            \/ u[e].phase = t[e].phase
            \/ /\ t[e].phase # "waits"
               /\ t[e].phase \in Holding <=> u[e].phase \in Holding
  PROVE  LinedUp(u, f, l) /\ Permitted(u, f)
<1>1. Holders(u) = Holders(t)
  BY DEF Holders
<1>2. Permitted(u, f)
  BY <1>1 DEF Permitted
<1>3. \A i \in 1 .. Len(l) : l[i] \in Torrents
  BY LenProperties, ElementOfSeq DEF LinedUp
<1>4. LinedUp(u, f, l)
  BY <1>3 DEF LinedUp, Holding, Handled
<1> QED
  BY <1>2, <1>4

(* The start of a torrent keeps what a task holds: a parked handler goes   *)
(* on, a task is created where there was none.                             *)
LEMMA StartingSits ==
  ASSUME NEW r, NEW t, NEW f, NEW l, Sits(r, t, f, l),
         NEW ds \in SUBSET Torrents, \A d \in ds : Startable(t, d) /\ r[d] # "new"
  PROVE  /\ Sits(Rows(r, t, ds), Tasks(t, ds), f, l)
         /\ \A d \in Torrents \ ds : /\ Rows(r, t, ds)[d] = r[d]
                                     /\ Tasks(t, ds)[d] = t[d]
         /\ \A d \in ds :
              \/ /\ HasHandler(t, d) /\ HasHandler(Tasks(t, ds), d)
                 /\ Rows(r, t, ds)[d] = "downloading" /\ ~Tasks(t, ds)[d].paused
              \/ /\ ~HasTask(t, d) /\ Tasks(t, ds)[d].phase = "created"
                 /\ Rows(r, t, ds)[d] = IF r[d] \in Waiting THEN r[d] ELSE "scheduled"
<1> DEFINE rr == Rows(r, t, ds)
           tt == Tasks(t, ds)
<1>1. r \in AnyRows /\ t \in AnyTasks /\ Fits(r, t) /\ LinedUp(t, f, l) /\ Permitted(t, f)
  BY DEF Sits
<1>2. /\ \A d \in Torrents \ ds : rr[d] = r[d] /\ tt[d] = t[d]
      /\ rr = [d \in Torrents |-> rr[d]] /\ tt = [d \in Torrents |-> tt[d]]
  BY DEF Rows, Tasks
<1> HIDE DEF rr, tt
<1>3. ASSUME NEW d \in ds
      PROVE  /\ tt[d] \in TaskState /\ rr[d] \in Known
             /\ \/ /\ HasHandler(t, d) /\ HasHandler(tt, d) /\ tt[d].phase = t[d].phase
                   /\ rr[d] = "downloading" /\ ~tt[d].paused
                \/ /\ ~HasTask(t, d) /\ tt[d].phase = "created"
                   /\ rr[d] = IF r[d] \in Waiting THEN r[d] ELSE "scheduled"
  <2>1. CASE HasHandler(t, d)
    <3>1. tt[d] = [t[d] EXCEPT !.paused = FALSE] /\ rr[d] = "downloading"
      BY <2>1 DEF Rows, Tasks, rr, tt
    <3>2. t[d] \in TaskState
      BY <1>1, Records
    <3>3. tt[d] \in TaskState /\ tt[d].phase = t[d].phase /\ ~tt[d].paused
      BY <3>1, <3>2 DEF TaskState
    <3> QED
      BY <2>1, <3>1, <3>3 DEF HasHandler, Known, Transfer
  <2>2. CASE ~HasHandler(t, d)
    <3>1. /\ tt[d] = In("created") /\ ~HasTask(t, d)
          /\ rr[d] = IF r[d] \in Waiting THEN r[d] ELSE "scheduled"
      BY <2>2 DEF Rows, Tasks, Startable, rr, tt
    <3>2. tt[d] \in TaskState /\ tt[d].phase = "created"
      BY <3>1, Fields DEF Phases
    <3> QED
      BY <3>1, <3>2 DEF Known, Waiting
  <2> QED
    BY <2>1, <2>2
<1>4. rr \in AnyRows
  <2>1. \A d \in Torrents : rr[d] \in Known \union {"new", "removed"}
    BY <1>1, <1>2, <1>3 DEF AnyRows
  <2> QED
    BY <1>2, <2>1 DEF AnyRows
<1>5. tt \in AnyTasks
  <2>1. \A d \in Torrents : tt[d] \in TaskState
    BY <1>1, <1>2, <1>3, Records
  <2> QED
    BY <1>2, <2>1 DEF AnyTasks
<1>6. Fits(rr, tt)
  <2> SUFFICES ASSUME NEW d \in Torrents
               PROVE  /\ (HasHandler(tt, d) /\ rr[d] \in Waiting) => tt[d].paused
                      /\ (rr[d] = "new") => ~HasTask(tt, d)
    BY DEF Fits
  <2>1. CASE d \in ds
    BY <1>3, <2>1 DEF Known, Transfer, Waiting, Ended, HasHandler, Handled
  <2>2. CASE d \notin ds
    BY <1>1, <1>2, <2>2 DEF Fits, HasHandler, HasTask
  <2> QED
    BY <2>1, <2>2
<1>7. LinedUp(tt, f, l) /\ Permitted(tt, f)
  <2>1. \A e \in Torrents :
            \/ tt[e].phase = t[e].phase
            \/ /\ t[e].phase # "waits"
               /\ t[e].phase \in Holding <=> tt[e].phase \in Holding
    BY <1>2, <1>3 DEF HasTask, Holding, Handled
  <2> QED
    BY <1>1, <2>1, Staying
<1>8. Sits(rr, tt, f, l)
  BY <1>4, <1>5, <1>6, <1>7 DEF Sits
<1> QED
  BY <1>2, <1>3, <1>8 DEF rr, tt

(* reconcile only moves rows between the queue and the schedule.           *)
LEMMA ReconcileIs ==
  ASSUME NEW r \in AnyRows, NEW p, NEW l
  PROVE  /\ Reconcile(r, p, l) \in AnyRows
         /\ \A d \in Torrents :
              \/ Reconcile(r, p, l)[d] = r[d]
              \/ /\ r[d] \in {"queued", "scheduled"}
                 /\ Reconcile(r, p, l)[d] \in {"queued", "scheduled"}
<1> DEFINE rec == Reconcile(r, p, l)
<1>1. /\ rec = [d \in Torrents |-> rec[d]]
      /\ \A d \in Torrents : \/ rec[d] = r[d]
                             \/ /\ r[d] \in {"queued", "scheduled"}
                                /\ rec[d] \in {"queued", "scheduled"}
  BY DEF Reconcile
<1> HIDE DEF rec
<1>2. rec \in AnyRows
  <2>1. \A d \in Torrents : rec[d] \in Known \union {"new", "removed"}
    BY <1>1 DEF AnyRows, Known, Waiting
  <2> QED
    BY <1>1, <2>1 DEF AnyRows
<1> QED
  BY <1>1, <1>2 DEF rec

(* Whenever the queue is asked, what it starts is without a slot so far,   *)
(* and takes one.                                                          *)
LEMMA Asking ==
  ASSUME NEW r, NEW t, NEW f, NEW q, Sits(r, t, f, q), NEW p, NEW l, Ask(r, t, p, l)
  PROVE  \E rec \in AnyRows : \E go \in SUBSET Torrents :
           /\ Fits(rec, t) /\ row' = Rows(rec, t, go) /\ task' = Tasks(t, go)
           /\ \A d \in go : Startable(t, d) /\ rec[d] = "queued" /\ ~seeding[d]
           /\ \A d \in Torrents :
                \/ rec[d] = r[d]
                \/ /\ r[d] \in {"queued", "scheduled"}
                   /\ rec[d] \in {"queued", "scheduled"}
           /\ LET queued   == {d \in Torrents : /\ rec[d] = "queued" /\ ~seeding[d]
                                                /\ Startable(t, d)}
                  ahead(d) == Cardinality({e \in queued : Before(p, e, d)})
              IN  go = {d \in queued : CountTransfers(rec, t) + ahead(d) < l.slots}
<1> DEFINE rec      == Reconcile(r, p, l)
           queued   == {d \in Torrents : /\ rec[d] = "queued" /\ ~seeding[d]
                                         /\ Startable(t, d)}
           ahead(d) == Cardinality({e \in queued : Before(p, e, d)})
           go       == {d \in queued : CountTransfers(rec, t) + ahead(d) < l.slots}
<1>1. r \in AnyRows /\ Fits(r, t)
  BY DEF Sits
<1>2. /\ rec \in AnyRows
      /\ \A d \in Torrents :
           \/ rec[d] = r[d]
           \/ /\ r[d] \in {"queued", "scheduled"}
              /\ rec[d] \in {"queued", "scheduled"}
  BY <1>1, ReconcileIs
<1>3. queued = {d \in Unfinished(rec) : rec[d] = "queued" /\ Startable(t, d)}
  <2> HIDE DEF rec
  <2> QED
    BY DEF Unfinished, Waiting
<1>4. row' = Rows(rec, t, go) /\ task' = Tasks(t, go)
  <2>1. /\ row' = Rows(rec, t, {d \in Unfinished(rec) :
                     /\ rec[d] = "queued" /\ Startable(t, d)
                     /\ SlotLeft(CountTransfers(rec, t) + Cardinality({e \in
                          {x \in Unfinished(rec) : rec[x] = "queued" /\ Startable(t, x)} :
                             Before(p, e, d)}), l)})
        /\ task' = Tasks(t, {d \in Unfinished(rec) :
                     /\ rec[d] = "queued" /\ Startable(t, d)
                     /\ SlotLeft(CountTransfers(rec, t) + Cardinality({e \in
                          {x \in Unfinished(rec) : rec[x] = "queued" /\ Startable(t, x)} :
                             Before(p, e, d)}), l)})
    <3> HIDE DEF queued
    <3> QED
      BY DEF Ask
  <2> HIDE DEF rec
  <2> QED
    BY <1>3, <2>1 DEF SlotLeft
<1>5. Fits(rec, t)
  <2> HIDE DEF rec
  <2> QED
    BY <1>1, <1>2 DEF Fits, Waiting
<1>6. go \subseteq Torrents
  OBVIOUS
<1> HIDE DEF rec
<1>7. \A d \in go : Startable(t, d) /\ rec[d] = "queued" /\ ~seeding[d]
  OBVIOUS
<1> QED
  BY <1>2, <1>4, <1>5, <1>6, <1>7

LEMMA AskSits ==
  ASSUME NEW r, NEW t, NEW f, NEW q, Sits(r, t, f, q), NEW p, NEW l, Ask(r, t, p, l)
  PROVE  Sits(row', task', f, q)
<1>1. PICK rec \in AnyRows, go \in SUBSET Torrents :
        /\ Fits(rec, t) /\ row' = Rows(rec, t, go) /\ task' = Tasks(t, go)
        /\ \A d \in go : Startable(t, d) /\ rec[d] = "queued" /\ ~seeding[d]
  BY Asking
<1>2. Sits(rec, t, f, q)
  BY <1>1 DEF Sits
<1>3. Sits(Rows(rec, t, go), Tasks(t, go), f, q)
  BY <1>1, <1>2, StartingSits
<1> QED
  BY <1>1, <1>3

(* Before is an order on the torrents.                                     *)
LEMMA BeforeOrders ==
  ASSUME NEW p \in AnyPrio, NEW c \in Torrents, NEW d \in Torrents, NEW e \in Torrents
  PROVE  ~Before(p, d, d) /\ (Before(p, c, d) /\ Before(p, d, e) => Before(p, c, e))
<1>1. p[c] \in Nat /\ p[d] \in Nat /\ p[e] \in Nat
  BY TorrentAssumption DEF AnyPrio
<1>2. c \in Nat /\ d \in Nat /\ e \in Nat
  BY TorrentsAre
<1> QED
  BY <1>1, <1>2 DEF Before

(* In a queue the first to be left out has only those ahead of it that     *)
(* were not.                                                               *)
LEMMA FirstOut ==
  ASSUME NEW p \in AnyPrio, NEW queued \in SUBSET Torrents, NEW n \in Nat,
         NEW bound \in Nat, NEW go,
         go = {d \in queued : n + Cardinality({e \in queued : Before(p, e, d)}) < bound}
  PROVE  queued \ go # {} => n + Cardinality(go) >= bound
<1> DEFINE A(d)     == {e \in queued : Before(p, e, d)}
           ahead(d) == Cardinality(A(d))
           Out      == {ahead(d) : d \in queued \ go}
<1>1. SUFFICES ASSUME queued \ go # {} PROVE n + Cardinality(go) >= bound
  OBVIOUS
<1>2. \A d \in queued : IsFiniteSet(A(d)) /\ ahead(d) \in Nat
  BY TorrentsAre
<1>3. \E k \in Out : \A j \in Out : k <= j
  <2>1. Out \in SUBSET Nat /\ Out # {}
    BY <1>1, <1>2
  <2> HIDE DEF Out
  <2> QED
    BY <2>1, Least
<1>4. PICK m \in queued \ go : \A d \in queued \ go : ahead(m) <= ahead(d)
  <2> HIDE DEF ahead
  <2>1. \A d \in queued \ go : ahead(d) \in Out
    OBVIOUS
  <2>2. \A k \in Out : \E d \in queued \ go : k = ahead(d)
    OBVIOUS
  <2> HIDE DEF Out
  <2>3. PICK k \in Out : \A j \in Out : k <= j
    BY <1>3
  <2>4. PICK d \in queued \ go : k = ahead(d)
    BY <2>2
  <2>5. \A e \in queued \ go : ahead(d) <= ahead(e)
    BY <2>1, <2>3, <2>4
  <2> QED
    BY <2>5
<1>5. ASSUME NEW e \in A(m) PROVE e \in go
  <2>1. e \in queued /\ Before(p, e, m) /\ e \in Torrents /\ m \in Torrents
    BY <1>5
  <2>2. A(e) \subseteq A(m) /\ e \notin A(e) /\ e \in A(m)
    BY <2>1, BeforeOrders
  <2>3. ahead(e) <= ahead(m) /\ (ahead(e) = ahead(m) => A(e) = A(m))
    <3>1. IsFiniteSet(A(m)) /\ A(e) \subseteq A(m)
      BY <1>2, <2>2
    <3> HIDE DEF A
    <3> QED
      BY <3>1, FS_Subset
  <2>4. ahead(e) < ahead(m)
    <3>1. ahead(e) \in Nat /\ ahead(m) \in Nat /\ A(e) # A(m)
      BY <1>2, <2>1, <2>2
    <3> HIDE DEF ahead, A
    <3> QED
      BY <2>3, <3>1
  <2>5. ahead(e) \in Nat /\ ahead(m) \in Nat
    BY <1>2, <2>1
  <2> HIDE DEF ahead
  <2> QED
    BY <1>4, <2>1, <2>4, <2>5
<1>6. IsFiniteSet(go) /\ Cardinality(go) \in Nat /\ A(m) \subseteq go
  BY <1>5, TorrentsAre
<1>7. ahead(m) <= Cardinality(go)
  <2> HIDE DEF A
  <2> QED
    BY <1>6, FS_Subset
<1>8. ahead(m) \in Nat /\ ~(n + ahead(m) < bound)
  BY <1>2
<1> HIDE DEF ahead, A
<1> QED
  BY <1>6, <1>7, <1>8

(* Once the queue has been asked, nobody stands in it beside an idle slot. *)
(* The step may still change who seeds, of those that have ended.          *)
LEMMA AskFills ==
  ASSUME NEW r, NEW t, NEW f, NEW q, Sits(r, t, f, q), NEW p \in AnyPrio,
         NEW l \in Limits, Ask(r, t, p, l), NEW s,
         \A d \in Torrents : s[d] = seeding[d] \/ r[d] \in Ended
  PROVE  Standing(row', task', s) # {} => Cardinality(Takers(row', task', s)) >= l.slots
<1>1. PICK rec \in AnyRows, go \in SUBSET Torrents :
        /\ Fits(rec, t) /\ row' = Rows(rec, t, go) /\ task' = Tasks(t, go)
        /\ \A d \in go : Startable(t, d) /\ rec[d] = "queued" /\ ~seeding[d]
        /\ \A d \in Torrents :
             \/ rec[d] = r[d]
             \/ /\ r[d] \in {"queued", "scheduled"}
                /\ rec[d] \in {"queued", "scheduled"}
        /\ LET queued   == {d \in Torrents : /\ rec[d] = "queued" /\ ~seeding[d]
                                             /\ Startable(t, d)}
               ahead(d) == Cardinality({e \in queued : Before(p, e, d)})
           IN  go = {d \in queued : CountTransfers(rec, t) + ahead(d) < l.slots}
  BY Asking
<1> DEFINE queued == {d \in Torrents : /\ rec[d] = "queued" /\ ~seeding[d]
                                       /\ Startable(t, d)}
           had    == Takers(rec, t, seeding)
           have   == Takers(row', task', s)
<1>2. l.slots \in Nat
  BY TorrentAssumption DEF Limits
<1>3. CountTransfers(rec, t) = Cardinality(had)
  BY DEF CountTransfers, TakesSlot, Takers
<1>4. had \subseteq Torrents /\ have \subseteq Torrents /\ go \subseteq Torrents
  BY DEF Takers
<1>5. /\ \A d \in Torrents \ go : row'[d] = rec[d] /\ task'[d] = t[d]
      /\ \A d \in go :
           \/ /\ HasHandler(t, d) /\ HasHandler(task', d)
              /\ row'[d] = "downloading" /\ ~task'[d].paused
           \/ /\ ~HasTask(t, d) /\ task'[d].phase = "created"
              /\ row'[d] = IF rec[d] \in Waiting THEN rec[d] ELSE "scheduled"
  <2>1. Sits(rec, t, f, q)
    BY <1>1 DEF Sits
  <2>2. \A d \in go : Startable(t, d) /\ rec[d] # "new"
    BY <1>1
  <2>3. /\ \A d \in Torrents \ go : /\ Rows(rec, t, go)[d] = rec[d]
                                    /\ Tasks(t, go)[d] = t[d]
        /\ \A d \in go :
             \/ /\ HasHandler(t, d) /\ HasHandler(Tasks(t, go), d)
                /\ Rows(rec, t, go)[d] = "downloading" /\ ~Tasks(t, go)[d].paused
             \/ /\ ~HasTask(t, d) /\ Tasks(t, go)[d].phase = "created"
                /\ Rows(rec, t, go)[d] = IF rec[d] \in Waiting THEN rec[d] ELSE "scheduled"
    BY <2>1, <2>2, StartingSits
  <2> QED
    BY <1>1, <2>3
<1>6. \A d \in Torrents : rec[d] \notin Ended => s[d] = seeding[d]
  BY <1>1 DEF Ended
<1>7. had \intersect go = {}
  <2> SUFFICES ASSUME NEW d \in go PROVE d \notin had
    OBVIOUS
  <2>1. Startable(t, d) /\ rec[d] = "queued"
    BY <1>1
  <2>2. HasHandler(t, d) => t[d].paused
    BY <1>1, <2>1 DEF Fits, Waiting
  <2> QED
    BY <2>1, <2>2 DEF Takers, Startable, Parked, Transfer
<1>8. go \subseteq have
  <2> SUFFICES ASSUME NEW d \in go PROVE d \in have
    OBVIOUS
  <2>1. rec[d] = "queued" /\ ~seeding[d] /\ s[d] = seeding[d]
    BY <1>1, <1>6 DEF Ended
  <2> QED
    BY <1>5, <2>1 DEF Takers, Waiting, Transfer, HasTask, Parked, HasHandler, Handled
<1>9. had \subseteq have
  <2> SUFFICES ASSUME NEW d \in had, d \notin go PROVE d \in have
    BY <1>8
  <2>1. d \in Torrents /\ row'[d] = rec[d] /\ task'[d] = t[d]
    BY <1>5 DEF Takers
  <2>2. s[d] = seeding[d]
    BY <1>6 DEF Takers, Transfer, Ended
  <2> QED
    BY <2>1, <2>2 DEF Takers, HasTask, Parked, HasHandler
<1>10. Standing(row', task', s) \subseteq queued \ go
  <2> SUFFICES ASSUME NEW d \in Standing(row', task', s) PROVE d \in queued \ go
    OBVIOUS
  <2>1. /\ d \in Torrents /\ row'[d] = "queued" /\ ~HasTask(task', d) /\ ~s[d]
    BY DEF Standing
  <2>2. d \notin go
    BY <1>5, <2>1 DEF HasTask
  <2>3. rec[d] = "queued" /\ task'[d] = t[d]
    BY <1>5, <2>1, <2>2
  <2> QED
    BY <1>6, <2>1, <2>2, <2>3 DEF Startable, HasTask, Ended
<1>11. /\ IsFiniteSet(had) /\ IsFiniteSet(have) /\ IsFiniteSet(go)
       /\ Cardinality(had) \in Nat /\ Cardinality(have) \in Nat /\ Cardinality(go) \in Nat
  BY <1>4, TorrentsAre
<1>12. queued \ go # {} => Cardinality(had) + Cardinality(go) >= l.slots
  <2>1. go = {d \in queued : Cardinality(had)
                + Cardinality({e \in queued : Before(p, e, d)}) < l.slots}
    BY <1>1, <1>3
  <2>2. queued \in SUBSET Torrents
    OBVIOUS
  <2> DEFINE n == Cardinality(had)
             bound == l.slots
  <2>3. n \in Nat /\ bound \in Nat
    BY <1>2, <1>11
  <2>4. go = {d \in queued : n + Cardinality({e \in queued : Before(p, e, d)}) < bound}
    BY <2>1
  <2> HIDE DEF queued, had, n, bound
  <2>5. queued \ go # {} => n + Cardinality(go) >= bound
    BY <2>2, <2>3, <2>4, FirstOut
  <2> QED
    BY <2>5 DEF n, bound
<1>13. Cardinality(have) >= Cardinality(had) + Cardinality(go)
  <2> HIDE DEF had, have
  <2>1. Cardinality(had \union go) = Cardinality(had) + Cardinality(go)
    <3>1. Cardinality(had \union go)
            = Cardinality(had) + Cardinality(go) - Cardinality(had \intersect go)
      BY <1>11, FS_Union
    <3>2. Cardinality(had \intersect go) = 0
      BY <1>7, FS_EmptySet
    <3> QED
      BY <1>11, <3>1, <3>2
  <2>2. had \union go \subseteq have
    BY <1>8, <1>9
  <2>3. Cardinality(had \union go) <= Cardinality(have)
    BY <1>11, <2>2, FS_Subset
  <2> QED
    BY <2>1, <2>3
<1> HIDE DEF had, have, queued
<1>14. SUFFICES ASSUME Standing(row', task', s) # {} PROVE Cardinality(have) >= l.slots
  BY DEF have
<1>15. Cardinality(had) + Cardinality(go) >= l.slots
  BY <1>10, <1>12, <1>14
<1> QED
  BY <1>2, <1>11, <1>13, <1>15

----------------------------------------------------------------------------
(* What a step keeps beside the invariant: it asks the queue, or every     *)
(* torrent keeps its slot and nobody is added to those who stand.          *)
Filled ==
    (Standing(row, task, seeding))' # {} =>
        (Cardinality(Takers(row, task, seeding)) >= limits.slots)'
KeepsSlots ==
    /\ Takers(row, task, seeding) \subseteq Takers(row, task, seeding)'
    /\ Standing(row, task, seeding)' \subseteq Standing(row, task, seeding)
    /\ limits' = limits
SitsNext == Sits(row, task, free, line)'
Orderly == Filled \/ KeepsSlots \/ Excused

LEMMA StateIs ==
  ASSUME QueueInv
  PROVE  /\ row \in AnyRows /\ task \in AnyTasks /\ Fits(row, task)
         /\ LinedUp(task, free, line) /\ Permitted(task, free)
         /\ \A e \in Torrents : task[e] \in TaskState
  BY Records DEF QueueInv, Sits

(* The queue is asked.                                                     *)
LEMMA Asked ==
  ASSUME QueueInv, NEW r, NEW t, NEW p \in AnyPrio, NEW l \in Limits, Ask(r, t, p, l),
         Sits(r, t, free', line'), limits' = l,
         \A d \in Torrents : seeding'[d] = seeding[d] \/ r[d] \in Ended
  PROVE  SitsNext /\ Filled
<1>1. Sits(row', task', free', line')
  BY AskSits
<1>2. Standing(row', task', seeding') # {} =>
        Cardinality(Takers(row', task', seeding')) >= l.slots
  BY AskFills
<1> QED
  BY <1>1, <1>2 DEF SitsNext, Filled

(* The tasks change in nothing the invariant speaks of.                    *)
LEMMA SameSits ==
  ASSUME NEW r \in AnyRows, NEW t, NEW u \in AnyTasks, NEW f, NEW q,
         Fits(r, t), LinedUp(t, f, q), Permitted(t, f),
         \A e \in Torrents : u[e].phase = t[e].phase /\ u[e].paused = t[e].paused
  PROVE  Sits(r, u, f, q)
<1>1. Fits(r, u)
  BY DEF Fits, HasHandler, HasTask
<1>2. LinedUp(u, f, q) /\ Permitted(u, f)
  BY Staying
<1> QED
  BY <1>1, <1>2 DEF Sits

LEMMA StoppingIs ==
  ASSUME QueueInv, NEW d \in Torrents
  PROVE  /\ Stopping(d) \in AnyTasks
         /\ \A e \in Torrents : /\ Stopping(d)[e].phase = task[e].phase
                                /\ Stopping(d)[e].paused = task[e].paused
<1>1. task \in AnyTasks /\ task[d] \in TaskState
  BY StateIs
<1>2. CASE HasHandler(task, d)
  <2> DEFINE x == [task[d] EXCEPT !.cancel = TRUE]
  <2>1. Stopping(d) = [task EXCEPT ![d] = x]
    BY <1>2 DEF Stopping
  <2>2. x \in TaskState /\ x.paused = task[d].paused /\ x.phase = task[d].phase
    BY <1>1, Fields
  <2> HIDE DEF x
  <2> QED
    BY <1>1, <2>1, <2>2 DEF AnyTasks
<1>3. CASE ~HasHandler(task, d)
  BY <1>1, <1>3 DEF Stopping
<1> QED
  BY <1>2, <1>3

(* One task changes, in a way that leaves the permits as they are.         *)
LEMMA OneMoves ==
  ASSUME QueueInv, NEW d \in Torrents, NEW x \in TaskState, NEW r \in AnyRows,
         (x.phase \in Handled /\ r[d] \in Waiting) => x.paused,
         (r[d] = "new") => x.phase = "none",
         \A e \in Torrents \ {d} : r[e] = row[e],
         \/ x.phase = task[d].phase
         \/ /\ task[d].phase # "waits"
            /\ task[d].phase \in Holding <=> x.phase \in Holding
  PROVE  Sits(r, [task EXCEPT ![d] = x], free, line)
<1> DEFINE u == [task EXCEPT ![d] = x]
<1>1. /\ u \in AnyTasks /\ u[d] = x
      /\ \A e \in Torrents \ {d} : u[e] = task[e]
  BY StateIs DEF AnyTasks
<1> HIDE DEF u
<1>2. LinedUp(u, free, line) /\ Permitted(u, free)
  <2>1. \A e \in Torrents :
            \/ u[e].phase = task[e].phase
            \/ /\ task[e].phase # "waits"
               /\ task[e].phase \in Holding <=> u[e].phase \in Holding
    BY <1>1
  <2> QED
    BY <2>1, StateIs, Staying
<1>3. Fits(r, u)
  <2> SUFFICES ASSUME NEW e \in Torrents
               PROVE  /\ (HasHandler(u, e) /\ r[e] \in Waiting) => u[e].paused
                      /\ (r[e] = "new") => ~HasTask(u, e)
    BY DEF Fits
  <2>1. CASE e = d
    BY <1>1, <2>1 DEF HasHandler, HasTask
  <2>2. CASE e # d
    BY <1>1, <2>2, StateIs DEF Fits, HasHandler, HasTask
  <2> QED
    BY <2>1, <2>2
<1> QED
  BY <1>1, <1>2, <1>3 DEF Sits, u

(* A torrent is started, whether by a click or by restart().               *)
LEMMA GoingKeeps ==
  ASSUME QueueInv, NEW d \in Torrents, NEW r \in AnyRows, Startable(task, d),
         \A e \in Torrents \ {d} : r[e] = row[e], r[d] # "new",
         HasHandler(task, d) \/ r[d] = "queued" \/ (r[d] = row[d] /\ row[d] \notin Transfer),
         row' = Rows(r, task, {d}), task' = Tasks(task, {d}),
         UNCHANGED <<seeding, limits, free, line>>
  PROVE  SitsNext /\ KeepsSlots
<1>1. PICK g \in AnyRows : /\ row' = Rows(g, task, {d}) /\ Fits(g, task) /\ g[d] # "new"
                           /\ g = row \/ (~HasHandler(task, d) /\ g = r)
                           /\ \A e \in Torrents \ {d} : g[e] = row[e]
  <2>1. CASE HasHandler(task, d)
    <3>1. Rows(r, task, {d}) = Rows(row, task, {d})
      BY <2>1 DEF Rows
    <3>2. row[d] # "new"
      BY <2>1, StateIs DEF Fits, HasHandler, HasTask, Handled
    <3> QED
      BY <3>1, <3>2, StateIs
  <2>2. CASE ~HasHandler(task, d)
    <3>1. Fits(r, task)
      BY <2>2, StateIs DEF Fits
    <3> QED
      BY <2>2, <3>1
  <2> QED
    BY <2>1, <2>2
<1>2. Sits(g, task, free, line)
  BY <1>1, StateIs DEF Sits
<1>3. {d} \subseteq Torrents /\ \A e \in {d} : Startable(task, e) /\ g[e] # "new"
  BY <1>1
<1>4. /\ Sits(Rows(g, task, {d}), Tasks(task, {d}), free, line)
      /\ \A e \in Torrents \ {d} : /\ Rows(g, task, {d})[e] = g[e]
                                   /\ Tasks(task, {d})[e] = task[e]
      /\ \A e \in {d} :
           \/ /\ HasHandler(task, e) /\ HasHandler(Tasks(task, {d}), e)
              /\ Rows(g, task, {d})[e] = "downloading" /\ ~Tasks(task, {d})[e].paused
           \/ /\ ~HasTask(task, e) /\ Tasks(task, {d})[e].phase = "created"
              /\ Rows(g, task, {d})[e] = IF g[e] \in Waiting THEN g[e] ELSE "scheduled"
  BY <1>2, <1>3, StartingSits
<1>5. /\ Sits(row', task', free, line)
      /\ \A e \in Torrents \ {d} : row'[e] = row[e] /\ task'[e] = task[e]
      /\ \/ /\ HasHandler(task, d) /\ HasHandler(task', d)
            /\ row'[d] = "downloading" /\ ~task'[d].paused
         \/ /\ ~HasTask(task, d) /\ task'[d].phase = "created"
            /\ row'[d] = IF r[d] \in Waiting THEN r[d] ELSE "scheduled"
  <2>1. ~HasTask(task, d) => row' = Rows(r, task, {d})
    OBVIOUS
  <2>2. ~HasTask(task, d) => row'[d] = IF r[d] \in Waiting THEN r[d] ELSE "scheduled"
    BY DEF Rows, HasTask, HasHandler, Handled
  <2> QED
    BY <1>1, <1>4, <2>2
<1>6. HasTask(task', d)
  BY <1>5 DEF HasTask, HasHandler, Handled
<1>7. Standing(row', task', seeding') \subseteq Standing(row, task, seeding)
  <2> SUFFICES ASSUME NEW e \in Standing(row', task', seeding')
               PROVE  e \in Standing(row, task, seeding)
    OBVIOUS
  <2>1. e \in Torrents /\ e # d
    BY <1>6 DEF Standing
  <2> QED
    BY <1>5, <2>1 DEF Standing, HasTask
<1>8. Takers(row, task, seeding) \subseteq Takers(row', task', seeding')
  <2> SUFFICES ASSUME NEW e \in Takers(row, task, seeding)
               PROVE  e \in Takers(row', task', seeding')
    OBVIOUS
  <2>1. CASE e # d
    BY <1>5, <2>1 DEF Takers, HasTask, Parked, HasHandler
  <2>2. CASE e = d /\ HasHandler(task, d)
    BY <1>5, <2>2 DEF Takers, Transfer, HasTask, HasHandler, Handled
  <2>3. CASE e = d /\ ~HasHandler(task, d)
    <3>1. ~HasTask(task, d) /\ ~seeding[d] /\ row[d] \in Transfer
      BY <2>3 DEF Startable, Takers
    <3>2. row'[d] = "queued" /\ task'[d].phase = "created"
      BY <1>5, <2>3, <3>1 DEF Waiting
    <3> QED
      BY <2>3, <3>1, <3>2 DEF Takers, HasTask, Parked, HasHandler, Handled
  <2> QED
    BY <2>1, <2>2, <2>3
<1> QED
  BY <1>5, <1>7, <1>8 DEF SitsNext, KeepsSlots

(* start, of a torrent whose row may have been put back in the queue.      *)
LEMMA ManualKeeps ==
  ASSUME QueueInv, NEW d \in Torrents, NEW r, ManualStart(r, d),
         \/ r = row /\ row[d] \in Known
         \/ r = [row EXCEPT ![d] = "queued"],
         UNCHANGED <<seeding, limits, free, line>>
  PROVE  SitsNext /\ (Filled \/ KeepsSlots)
<1>1. /\ row \in AnyRows /\ task \in AnyTasks /\ Fits(row, task)
      /\ LinedUp(task, free, line) /\ Permitted(task, free)
  BY StateIs
<1>2. /\ r \in AnyRows /\ r[d] # "new" /\ \A e \in Torrents \ {d} : r[e] = row[e]
      /\ r = row \/ r[d] = "queued"
  BY <1>1 DEF AnyRows, Known, Transfer, Waiting, Ended
<1>3. CASE row' = Rows(r, task, {d}) /\ task' = Tasks(task, {d}) /\ HasHandler(task, d)
  BY <1>2, <1>3, GoingKeeps DEF Startable
<1>4. CASE /\ row' = Rows(r, task, {d}) /\ task' = Tasks(task, {d})
           /\ ~HasTask(task, d) /\ r[d] \notin Transfer
  <2>1. r[d] = "queued" \/ (r[d] = row[d] /\ row[d] \notin Transfer)
    BY <1>2, <1>4
  <2> QED
    BY <1>2, <1>4, <2>1, GoingKeeps DEF Startable
<1>5. CASE row' = r /\ UNCHANGED task /\ r = row
  BY <1>1, <1>5 DEF SitsNext, Sits, KeepsSlots
<1>6. CASE /\ row' = r /\ UNCHANGED task /\ r[d] = "queued" /\ ~HasHandler(task, d)
           /\ HasTask(task, d) \/ SlotsFull(r, task)
  <2>1. Fits(r, task)
    BY <1>1, <1>2, <1>6 DEF Fits
  <2>2. SitsNext
    BY <1>1, <1>2, <1>6, <2>1 DEF SitsNext, Sits
  <2>3. CASE HasTask(task, d)
    <3>1. \A e \in Torrents : row'[e] = row[e] \/ (e = d /\ row'[e] = "queued")
      BY <1>2, <1>6
    <3>2. Takers(row, task, seeding) \subseteq Takers(row', task', seeding')
      BY <1>6, <2>3, <3>1 DEF Takers, Parked
    <3>3. Standing(row', task', seeding') \subseteq Standing(row, task, seeding)
      BY <1>6, <2>3, <3>1 DEF Standing
    <3> QED
      BY <2>2, <3>2, <3>3 DEF KeepsSlots
  <2>4. CASE SlotsFull(r, task)
    <3>1. Takers(row', task', seeding') = {e \in Torrents : TakesSlot(r, task, e)}
      BY <1>6 DEF Takers, TakesSlot
    <3>2. Cardinality(Takers(row', task', seeding')) >= limits'.slots
      BY <2>4, <3>1 DEF SlotsFull, CountTransfers
    <3> QED
      BY <2>2, <3>2 DEF Filled
  <2> QED
    BY <1>6, <2>3, <2>4
<1>7. CASE HasHandler(task, d) /\ r[d] \in Waiting
  BY <1>3, <1>7 DEF ManualStart
<1>8. CASE ~(HasHandler(task, d) /\ r[d] \in Waiting)
  <2>1. CASE \/ r[d] \in Transfer \union {"completed", "scheduled"}
             \/ HasTask(task, d) \/ SlotsFull(r, task)
    <3>1. row' = r /\ UNCHANGED task
      BY <1>8, <2>1 DEF ManualStart
    <3>2. CASE r = row
      BY <1>5, <3>1, <3>2
    <3>3. CASE r[d] = "queued"
      <4>1. ~HasHandler(task, d)
        BY <1>8, <3>3 DEF Waiting
      <4>2. HasTask(task, d) \/ SlotsFull(r, task)
        BY <2>1, <3>3 DEF Transfer
      <4> QED
        BY <1>6, <3>1, <3>3, <4>1, <4>2
    <3> QED
      BY <1>2, <3>2, <3>3
  <2>2. CASE ~ \/ r[d] \in Transfer \union {"completed", "scheduled"}
               \/ HasTask(task, d) \/ SlotsFull(r, task)
    <3>1. row' = Rows(r, task, {d}) /\ task' = Tasks(task, {d})
      BY <1>8, <2>2 DEF ManualStart
    <3> QED
      BY <1>4, <2>2, <3>1
  <2> QED
    BY <2>1, <2>2
<1> QED
  BY <1>7, <1>8

----------------------------------------------------------------------------
(* What the user does.                                                     *)
LEMMA LimitsAre == QueueInv => prio \in AnyPrio /\ limits \in Limits
  BY DEF QueueInv

(* A row is rewritten and the queue asked, with no task at stake.          *)
LEMMA RowSits ==
  ASSUME QueueInv, NEW d \in Torrents, NEW result \in Known \union {"removed"},
         HasHandler(task, d) => result \notin Waiting \/ task[d].paused
  PROVE  Sits([row EXCEPT ![d] = result], task, free, line)
<1> DEFINE r == [row EXCEPT ![d] = result]
<1>1. r \in AnyRows /\ r[d] = result /\ \A e \in Torrents \ {d} : r[e] = row[e]
  BY StateIs DEF AnyRows
<1>2. Fits(r, task)
  <2> SUFFICES ASSUME NEW e \in Torrents
               PROVE  /\ (HasHandler(task, e) /\ r[e] \in Waiting) => task[e].paused
                      /\ (r[e] = "new") => ~HasTask(task, e)
    BY DEF Fits
  <2> HIDE DEF r
  <2>1. CASE e = d
    BY <1>1, <2>1 DEF Known, Transfer, Waiting, Ended
  <2>2. CASE e # d
    BY <1>1, <2>2, StateIs DEF Fits
  <2> QED
    BY <2>1, <2>2
<1> QED
  BY <1>1, <1>2, StateIs DEF Sits

LEMMA AddKeeps ==
  ASSUME QueueInv, NEW d \in Torrents, Add(d)
  PROVE  SitsNext /\ Orderly
<1> DEFINE r == [row EXCEPT ![d] = "queued"]
<1>1. /\ row[d] = "new" /\ (Advance(r, task) \/ ManualStart(r, d))
      /\ UNCHANGED <<seeding, prio, limits, free, line, redo>>
  BY DEF Add
<1>2. ~HasTask(task, d)
  BY <1>1, StateIs DEF Fits
<1>3. Sits(r, task, free, line)
  BY <1>2, RowSits DEF Known, Waiting, HasTask, HasHandler, Handled
<1>4. r = [row EXCEPT ![d] = "queued"]
  OBVIOUS
<1> HIDE DEF r
<1>5. CASE Advance(r, task)
  <2>1. Ask(r, task, prio, limits) /\ Sits(r, task, free', line')
    BY <1>1, <1>3, <1>5 DEF Advance
  <2>2. \A e \in Torrents : seeding'[e] = seeding[e] \/ r[e] \in Ended
    BY <1>1
  <2> QED
    BY <1>1, <2>1, <2>2, LimitsAre, Asked DEF Orderly
<1>6. CASE ManualStart(r, d)
  BY <1>1, <1>4, <1>6, ManualKeeps DEF Orderly
<1> QED
  BY <1>1, <1>5, <1>6

LEMMA PauseKeeps ==
  ASSUME QueueInv, NEW d \in Torrents, Pause(d)
  PROVE  SitsNext /\ Orderly
<1> DEFINE r == [row EXCEPT ![d] = "paused"]
<1>1. /\ row[d] \in Known /\ UNCHANGED <<seeding, prio, limits, free, line, redo>>
      /\ HasHandler(task, d) => Advance(r, [task EXCEPT ![d].paused = TRUE])
      /\ ~HasHandler(task, d) => row' = r /\ UNCHANGED task
  BY DEF Pause
<1>2. r \in AnyRows /\ r[d] = "paused" /\ \A e \in Torrents \ {d} : r[e] = row[e]
  BY StateIs DEF AnyRows, Known, Waiting
<1>3. CASE HasHandler(task, d)
  <2> DEFINE x == [task[d] EXCEPT !.paused = TRUE]
  <2>1. Advance(r, [task EXCEPT ![d] = x])
    BY <1>1, <1>3
  <2>2. x \in TaskState /\ x.paused /\ x.phase = task[d].phase /\ x.phase # "none"
    BY <1>3, StateIs, Fields DEF HasHandler, Handled
  <2> HIDE DEF x, r
  <2>3. Sits(r, [task EXCEPT ![d] = x], free, line)
    BY <1>2, <2>2, OneMoves
  <2>4. Ask(r, [task EXCEPT ![d] = x], prio, limits)
        /\ Sits(r, [task EXCEPT ![d] = x], free', line')
    BY <1>1, <2>1, <2>3 DEF Advance
  <2>5. \A e \in Torrents : seeding'[e] = seeding[e] \/ r[e] \in Ended
    BY <1>1
  <2> QED
    BY <1>1, <2>4, <2>5, LimitsAre, Asked DEF Orderly
<1>4. CASE ~HasHandler(task, d)
  <2>1. Sits(r, task, free, line)
    BY <1>4, RowSits DEF Known, Waiting
  <2>2. SitsNext
    BY <1>1, <1>4, <2>1 DEF SitsNext
  <2>3. CASE row[d] = "paused"
    <3>1. row' = row
      BY <1>1, <1>4, <2>3, StateIs DEF AnyRows
    <3>2. KeepsSlots
      BY <1>1, <1>4, <3>1 DEF KeepsSlots
    <3> QED
      BY <2>2, <3>2 DEF Orderly
  <2>4. CASE row[d] # "paused"
    <3>1. EarlyPause
      BY <1>1, <1>2, <1>4, <2>4 DEF EarlyPause
    <3> QED
      BY <2>2, <3>1 DEF Orderly, Excused
  <2> QED
    BY <2>3, <2>4
<1> QED
  BY <1>3, <1>4

LEMMA ResumeKeeps ==
  ASSUME QueueInv, NEW d \in Torrents, Resume(d)
  PROVE  SitsNext /\ Orderly
<1>1. /\ row[d] = "paused" /\ UNCHANGED <<seeding, prio, limits, free, line, redo>>
      /\ \/ Advance([row EXCEPT ![d] = "queued"], task)
         \/ /\ Startable(task, d) /\ row' = Rows(row, task, {d})
            /\ task' = Tasks(task, {d})
         \/ UNCHANGED <<row, task>>
  BY DEF Resume, Goes, Stays
<1>2. CASE Advance([row EXCEPT ![d] = "queued"], task)
  <2> DEFINE r == [row EXCEPT ![d] = "queued"]
  <2>1. HasHandler(task, d) => task[d].paused
    BY <1>1, StateIs DEF Fits, Waiting
  <2>2. Sits(r, task, free, line)
    BY <2>1, RowSits DEF Known, Waiting
  <2>3. Ask(r, task, prio, limits)
    BY <1>2 DEF Advance
  <2> HIDE DEF r
  <2>4. Sits(r, task, free', line')
    BY <1>1, <2>2
  <2>5. \A e \in Torrents : seeding'[e] = seeding[e] \/ r[e] \in Ended
    BY <1>1
  <2> QED
    BY <1>1, <2>3, <2>4, <2>5, LimitsAre, Asked DEF Orderly
<1>3. CASE /\ Startable(task, d) /\ row' = Rows(row, task, {d})
           /\ task' = Tasks(task, {d})
  <2>1. row \in AnyRows /\ row[d] # "new" /\ row[d] \notin Transfer
    BY <1>1, StateIs DEF Transfer
  <2>2. SitsNext /\ KeepsSlots
    BY <1>1, <1>3, <2>1, GoingKeeps
  <2> QED
    BY <2>2 DEF Orderly
<1>4. CASE UNCHANGED <<row, task>>
  BY <1>1, <1>4, StateIs DEF SitsNext, Sits, Orderly, KeepsSlots
<1> QED
  BY <1>1, <1>2, <1>3, <1>4

LEMMA SeedKeeps ==
  ASSUME QueueInv, NEW d \in Torrents, StartSeeding(d)
  PROVE  SitsNext /\ Orderly
<1>1. /\ row[d] = "completed" /\ row' = [row EXCEPT ![d] = "downloading"]
      /\ seeding' = [seeding EXCEPT ![d] = TRUE]
      /\ UNCHANGED <<prio, limits, task, free, line, redo>>
  BY DEF StartSeeding
<1>2. SitsNext
  BY <1>1, RowSits DEF SitsNext, Known, Transfer, Waiting
<1>3. /\ row'[d] = "downloading"
      /\ \A e \in Torrents \ {d} : row'[e] = row[e] /\ seeding'[e] = seeding[e]
  BY <1>1, StateIs DEF AnyRows, QueueInv
<1>4. Takers(row, task, seeding) \subseteq Takers(row', task', seeding')
  BY <1>1, <1>3 DEF Takers, Transfer
<1>5. Standing(row', task', seeding') \subseteq Standing(row, task, seeding)
  BY <1>1, <1>3 DEF Standing
<1> QED
  BY <1>1, <1>2, <1>4, <1>5 DEF Orderly, KeepsSlots

(* An event that is set is not seen by the queue.                          *)
LEMMA StoppingKeeps ==
  ASSUME QueueInv, NEW d \in Torrents, task' = Stopping(d),
         UNCHANGED <<row, seeding, limits, free, line>>
  PROVE  SitsNext /\ Orderly
<1>1. /\ task' \in AnyTasks
      /\ \A e \in Torrents : /\ task'[e].phase = task[e].phase
                             /\ task'[e].paused = task[e].paused
  BY StoppingIs
<1>2. Sits(row, task', free, line)
  BY <1>1, StateIs, SameSits
<1>3. Takers(row, task, seeding) \subseteq Takers(row', task', seeding')
  BY <1>1 DEF Takers, HasTask, Parked, HasHandler
<1>4. Standing(row', task', seeding') \subseteq Standing(row, task, seeding)
  BY <1>1 DEF Standing, HasTask
<1> QED
  BY <1>2, <1>3, <1>4 DEF SitsNext, Orderly, KeepsSlots

LEMMA RemoveKeeps ==
  ASSUME QueueInv, NEW d \in Torrents, Remove(d)
  PROVE  SitsNext /\ Orderly
<1> DEFINE r == [row EXCEPT ![d] = "removed"]
           t == Stopping(d)
<1>1. /\ Ask(r, t, prio, limits) /\ UNCHANGED <<seeding, prio, limits, free, line, redo>>
  BY DEF Remove, Advance
<1>2. Sits(r, task, free, line)
  BY RowSits DEF Waiting
<1>3. /\ t \in AnyTasks
      /\ \A e \in Torrents : t[e].phase = task[e].phase /\ t[e].paused = task[e].paused
  BY StoppingIs
<1> HIDE DEF r, t
<1>4. Sits(r, t, free, line)
  BY <1>2, <1>3, SameSits DEF Sits
<1>5. Sits(r, t, free', line') /\ \A e \in Torrents : seeding'[e] = seeding[e]
  BY <1>1, <1>4
<1> QED
  BY <1>1, <1>5, LimitsAre, Asked DEF Orderly

LEMMA PriorityKeeps ==
  ASSUME QueueInv, NEW d \in Torrents, NEW n \in Priorities, SetPriority(d, n)
  PROVE  SitsNext /\ Orderly /\ prio' \in AnyPrio
<1>1. /\ Ask(row, task, prio', limits) /\ prio' = [prio EXCEPT ![d] = n]
      /\ UNCHANGED <<seeding, limits, free, line, redo>>
  BY DEF SetPriority
<1>2. prio' \in AnyPrio
  BY <1>1, LimitsAre DEF AnyPrio
<1>3. Sits(row, task, free', line')
  BY <1>1 DEF QueueInv
<1>4. \A e \in Torrents : seeding'[e] = seeding[e]
  BY <1>1
<1> QED
  BY <1>1, <1>2, <1>3, <1>4, LimitsAre, Asked DEF Orderly

LEMMA SettingsKeep ==
  ASSUME QueueInv, SettingsSaved
  PROVE  SitsNext /\ Orderly /\ limits' \in Limits
<1>1. /\ Ask(row, task, prio, limits') /\ limits' \in Limits
      /\ UNCHANGED <<seeding, prio, free, line, redo>>
  BY DEF SettingsSaved
<1>2. Sits(row, task, free', line')
  BY <1>1 DEF QueueInv
<1>3. \A e \in Torrents : seeding'[e] = seeding[e]
  BY <1>1
<1> QED
  BY <1>1, <1>2, <1>3, LimitsAre, Asked DEF Orderly

LEMMA AgainKeeps ==
  ASSUME QueueInv, NEW d \in Torrents, Again(d), UNCHANGED <<seeding, limits, free, line>>
  PROVE  SitsNext /\ Orderly
<1>1. CASE row[d] \in Known
  BY <1>1, ManualKeeps DEF Again, Orderly
<1>2. CASE row[d] \notin Known
  BY <1>2, StateIs DEF Again, Stays, SitsNext, Sits, Orderly, KeepsSlots
<1> QED
  BY <1>1, <1>2

----------------------------------------------------------------------------
(* What a task does.                                                       *)
LEMMA LineIs ==
  ASSUME QueueInv
  PROVE  /\ line \in Seq(Torrents) /\ Len(line) \in Nat
         /\ \A i \in 1 .. Len(line) : line[i] \in Torrents
  BY StateIs, LenProperties, ElementOfSeq DEF LinedUp

LEMMA LinesUpKeeps ==
  ASSUME QueueInv, NEW d \in Torrents, LinesUp(d)
  PROVE  SitsNext /\ Orderly
<1>1. /\ task[d].phase = "created" /\ free = 0 /\ line' = Append(line, d)
      /\ task' = [task EXCEPT ![d].phase = "waits"]
      /\ UNCHANGED <<row, seeding, prio, limits, free, redo>>
  BY DEF LinesUp
<1> DEFINE x == [task[d] EXCEPT !.phase = "waits"]
<1>2. task' = [task EXCEPT ![d] = x] /\ task[d] \in TaskState /\ task \in AnyTasks
  BY <1>1, StateIs
<1>3. x \in TaskState /\ x.phase = "waits" /\ x.paused = task[d].paused
  BY <1>2, Fields DEF Phases
<1>4. /\ task' \in AnyTasks /\ task'[d] = x
      /\ \A e \in Torrents \ {d} : task'[e] = task[e]
  BY <1>2, <1>3 DEF AnyTasks
<1> HIDE DEF x
<1>5. Fits(row, task')
  <2> SUFFICES ASSUME NEW e \in Torrents
               PROVE  /\ (HasHandler(task', e) /\ row[e] \in Waiting) => task'[e].paused
                      /\ (row[e] = "new") => ~HasTask(task', e)
    BY DEF Fits
  <2>1. CASE e = d
    BY <1>1, <1>3, <1>4, <2>1, StateIs DEF Fits, HasHandler, HasTask, Handled
  <2>2. CASE e # d
    BY <1>4, <2>2, StateIs DEF Fits, HasHandler, HasTask
  <2> QED
    BY <2>1, <2>2
<1>6. /\ line' \in Seq(Torrents) /\ Len(line') = Len(line) + 1 /\ Len(line) \in Nat
      /\ \A i \in 1 .. Len(line) : line'[i] = line[i] /\ line[i] \in Torrents
      /\ line'[Len(line) + 1] = d
  <2>1. /\ Append(line, d) \in Seq(Torrents) /\ Len(Append(line, d)) = Len(line) + 1
        /\ (\A i \in 1 .. Len(line) : Append(line, d)[i] = line[i])
        /\ Append(line, d)[Len(line) + 1] = d
    BY LineIs, AppendProperties
  <2> QED
    BY <1>1, <2>1, LineIs
<1>7. LinedUp(task', free', line')
  <2>1. /\ \A i \in 1 .. Len(line) : task[line[i]].phase = "waits"
        /\ \A i, k \in 1 .. Len(line) : line[i] = line[k] => i = k
    BY StateIs DEF LinedUp
  <2>2. \A i \in 1 .. Len(line) : line[i] # d
    BY <1>1, <2>1
  <2>3. \A i \in 1 .. Len(line') : i \in 1 .. Len(line) \/ i = Len(line) + 1
    BY <1>6
  <2>4. \A i \in 1 .. Len(line') : task'[line'[i]].phase = "waits"
    BY <1>3, <1>4, <1>6, <2>1, <2>2, <2>3
  <2>5. \A i, k \in 1 .. Len(line') : line'[i] = line'[k] => i = k
    BY <1>6, <2>1, <2>2, <2>3
  <2> QED
    BY <1>1, <1>6, <2>4, <2>5 DEF LinedUp
<1>8. Permitted(task', free')
  <2>1. Holders(task') = Holders(task)
    BY <1>1, <1>3, <1>4 DEF Holders, Holding, Handled
  <2> QED
    BY <1>1, <2>1, StateIs DEF Permitted
<1>9. SitsNext
  BY <1>1, <1>4, <1>5, <1>7, <1>8, StateIs DEF SitsNext, Sits
<1>10. KeepsSlots
  <2>1. \A e \in Torrents : /\ HasTask(task', e) <=> HasTask(task, e)
                            /\ Parked(task', e) <=> Parked(task, e)
    BY <1>1, <1>3, <1>4 DEF HasTask, Parked, HasHandler, Handled
  <2> QED
    BY <1>1, <2>1 DEF KeepsSlots, Takers, Standing
<1> QED
  BY <1>9, <1>10 DEF Orderly

(* A task ends: its permit goes to the first of the line, or is free.      *)
LEMMA Leaving ==
  ASSUME QueueInv, NEW d \in Torrents, HandsOn(d),
         Holds(d) \/ (task[d].phase = "created" /\ free > 0)
  PROVE  /\ Left(d) \in AnyTasks /\ Left(d)[d].phase = "over"
         /\ \A e \in Torrents \ {d} :
              \/ Left(d)[e] = task[e]
              \/ task[e].phase = "waits" /\ Left(d)[e].phase = "granted"
         /\ LinedUp(Left(d), free', line') /\ Permitted(Left(d), free')
<1> DEFINE u == Left(d)
<1>1. /\ u = [e \in Torrents |-> IF e = d THEN In("over")
                                 ELSE IF e \in Heir
                                 THEN [task[e] EXCEPT !.phase = "granted"]
                                 ELSE task[e]]
      /\ free' = IF line = <<>> /\ Holds(d) THEN free + 1 ELSE free
      /\ line' = IF line = <<>> THEN line ELSE Tail(line)
  BY DEF Left, HandsOn
<1> HIDE DEF u
<1>2. /\ free \in Nat /\ line \in Seq(Torrents)
      /\ \A e \in Torrents : task[e] \in TaskState
      /\ line # <<>> => free = 0
      /\ \A i \in 1 .. Len(line) : task[line[i]].phase = "waits" /\ line[i] \in Torrents
      /\ \A i, k \in 1 .. Len(line) : line[i] = line[k] => i = k
  BY StateIs, LineIs DEF LinedUp
<1>3. In("over") \in TaskState /\ In("over").phase = "over"
  BY Fields DEF Phases
<1>4. \A e \in Heir : task[e].phase = "waits" /\ e # d
  <2>1. CASE line = <<>>
    BY <2>1 DEF Heir
  <2>2. CASE line # <<>>
    <3>1. Head(line) = line[1] /\ 1 \in 1 .. Len(line)
      BY <1>2, <2>2, HeadTailProperties, EmptySeq, LineIs
    <3>2. task[line[1]].phase = "waits" /\ free = 0
      BY <1>2, <2>2, <3>1
    <3> QED
      BY <2>2, <3>1, <3>2 DEF Heir, Holds, Handled
  <2> QED
    BY <2>1, <2>2
<1>5. /\ u[d] = In("over")
      /\ \A e \in Torrents \ {d} :
           /\ u[e] \in TaskState
           /\ e \in Heir => u[e].phase = "granted"
           /\ e \notin Heir => u[e] = task[e]
  <2>1. u[d] = In("over")
    BY <1>1
  <2>2. ASSUME NEW e \in Torrents \ {d}, e \in Heir
        PROVE  u[e] \in TaskState /\ u[e].phase = "granted"
    <3> DEFINE g == [task[e] EXCEPT !.phase = "granted"]
    <3>1. u[e] = g
      BY <1>1, <2>2
    <3>2. g \in TaskState /\ g.phase = "granted"
      <4>1. \A x \in TaskState : LET y == [x EXCEPT !.phase = "granted"]
                                 IN  y \in TaskState /\ y.phase = "granted"
        BY DEF TaskState
      <4> QED
        BY <1>2, <4>1
    <3> HIDE DEF g
    <3> QED
      BY <3>1, <3>2
  <2>3. \A e \in Torrents \ {d} : e \notin Heir => u[e] = task[e]
    BY <1>1
  <2> QED
    BY <1>2, <2>1, <2>2, <2>3
<1>6. u \in AnyTasks
  <2>1. \A e \in Torrents : u[e] \in TaskState
    BY <1>3, <1>5
  <2>2. u = [e \in Torrents |-> u[e]]
    BY <1>1
  <2> QED
    BY <2>1, <2>2 DEF AnyTasks
<1>7. IsFiniteSet(Holders(task)) /\ Cardinality(Holders(task)) \in Nat
  BY TorrentsAre DEF Holders
<1>8. Holds(d) <=> d \in Holders(task)
  BY DEF Holds, Holders, Holding
<1>9. Permitted(task, free)
  BY StateIs
<1>10. CASE line = <<>>
  <2>1. Heir = {} /\ line' = <<>> /\ Len(line') = 0
    BY <1>1, <1>10, EmptySeq DEF Heir
  <2>2. Holders(u) = Holders(task) \ {d}
    BY <1>3, <1>5, <2>1 DEF Holders, Holding, Handled
  <2>3. Cardinality(Holders(u))
          = IF Holds(d) THEN Cardinality(Holders(task)) - 1 ELSE Cardinality(Holders(task))
    <3>1. CASE Holds(d)
      BY <1>7, <1>8, <2>2, <3>1, FS_RemoveElement
    <3>2. CASE ~Holds(d)
      <4>1. Holders(u) = Holders(task)
        BY <1>8, <2>2, <3>2
      <4> QED
        BY <3>2, <4>1
    <3> QED
      BY <3>1, <3>2
  <2>4. free' + Cardinality(Holders(u)) = Permits /\ free' \in Nat
    <3>1. free + Cardinality(Holders(task)) = Permits
      BY <1>9 DEF Permitted
    <3> QED
      BY <1>1, <1>2, <1>7, <1>10, <2>3, <3>1
  <2>5. LinedUp(u, free', line')
    BY <2>1, <2>4, EmptySeq DEF LinedUp
  <2>6. Permitted(u, free')
    BY <2>4 DEF Permitted
  <2> QED
    BY <1>3, <1>5, <1>6, <2>1, <2>5, <2>6 DEF u
<1>11. CASE line # <<>>
  <2> DEFINE h == Head(line)
  <2>1. /\ h = line[1] /\ 1 \in 1 .. Len(line) /\ Tail(line) \in Seq(Torrents)
        /\ Len(Tail(line)) = Len(line) - 1 /\ Len(line) \in Nat
        /\ \A i \in 1 .. Len(Tail(line)) : Tail(line)[i] = line[i + 1]
    BY <1>2, <1>11, HeadTailProperties, EmptySeq, LineIs
  <2>2. Heir = {h} /\ line' = Tail(line) /\ free' = free
    BY <1>1, <1>11 DEF Heir
  <2>3. h \in Torrents /\ task[h].phase = "waits" /\ h # d /\ free = 0
    BY <1>2, <1>4, <1>11, <2>1, <2>2
  <2> HIDE DEF h
  <2>4. d \in Holders(task) /\ h \notin Holders(task)
    BY <1>8, <2>3 DEF Holders, Holding, Handled
  <2>5. \A e \in Torrents :
           u[e].phase \in Holding <=> (e = h \/ (e # d /\ task[e].phase \in Holding))
    BY <1>3, <1>5, <2>2, <2>3 DEF Holding, Handled
  <2>6. Holders(u) = (Holders(task) \ {d}) \cup {h}
    BY <2>3, <2>5 DEF Holders
  <2>7. /\ IsFiniteSet(Holders(task) \ {d})
        /\ Cardinality(Holders(task) \ {d}) = Cardinality(Holders(task)) - 1
    BY <1>7, <2>4, FS_RemoveElement
  <2>8. Cardinality(Holders(u)) = Cardinality(Holders(task))
    <3>1. Cardinality((Holders(task) \ {d}) \cup {h}) = Cardinality(Holders(task) \ {d}) + 1
      BY <2>4, <2>7, FS_AddElement
    <3> QED
      BY <1>7, <2>6, <2>7, <3>1
  <2>9. Permitted(u, free')
    BY <1>9, <2>2, <2>8 DEF Permitted
  <2>10. LinedUp(u, free', line')
    <3>1. \A i \in 1 .. Len(line') : /\ i + 1 \in 1 .. Len(line) /\ i + 1 # 1
                                     /\ line'[i] = line[i + 1]
      BY <2>1, <2>2
    <3>2. \A i \in 1 .. Len(line') : /\ line'[i] # h /\ line'[i] # d
                                     /\ line'[i] \in Torrents
      <4>1. \A i \in 1 .. Len(line) : line[i] # d
        BY <1>2, <2>4 DEF Holders, Holding, Handled
      <4> QED
        BY <1>2, <2>1, <3>1, <4>1
    <3>3. \A i \in 1 .. Len(line') : u[line'[i]].phase = "waits"
      BY <1>2, <1>5, <2>2, <3>1, <3>2
    <3>4. \A i, k \in 1 .. Len(line') : line'[i] = line'[k] => i = k
      <4> SUFFICES ASSUME NEW i \in 1 .. Len(line'), NEW k \in 1 .. Len(line'),
                          line'[i] = line'[k]
                   PROVE  i = k
        OBVIOUS
      <4>1. /\ i + 1 \in 1 .. Len(line) /\ k + 1 \in 1 .. Len(line)
            /\ line[i + 1] = line[k + 1]
        BY <3>1
      <4>2. i + 1 = k + 1
        BY <1>2, <4>1
      <4> QED
        BY <2>1, <2>2, <4>2
    <3> QED
      BY <2>1, <2>2, <2>3, <3>3, <3>4 DEF LinedUp
  <2>11. \A e \in Torrents \ {d} :
           u[e] = task[e] \/ (task[e].phase = "waits" /\ u[e].phase = "granted")
    BY <1>4, <1>5
  <2> QED
    BY <1>3, <1>5, <1>6, <2>9, <2>10, <2>11 DEF u
<1> QED
  BY <1>10, <1>11

LEMMA FinishKeeps ==
  ASSUME QueueInv, NEW d \in Torrents, NEW result \in Ended, Finish(d, result),
         Holds(d) \/ (task[d].phase = "created" /\ free > 0),
         \/ UNCHANGED seeding
         \/ \E b \in BOOLEAN : seeding' = IF row[d] \in Known
                                          THEN [seeding EXCEPT ![d] = b] ELSE seeding
  PROVE  SitsNext /\ Orderly
<1> DEFINE r == [row EXCEPT ![d] = result]
           t == Left(d)
<1>1. /\ HandsOn(d) /\ UNCHANGED <<prio, limits, redo>>
      /\ row[d] \in Known => Ask(r, t, prio, limits)
      /\ row[d] \notin Known => task' = t /\ UNCHANGED row
  BY DEF Finish, Advance
<1>2. /\ t \in AnyTasks /\ t[d].phase = "over"
      /\ \A e \in Torrents \ {d} :
           \/ t[e] = task[e]
           \/ task[e].phase = "waits" /\ t[e].phase = "granted"
      /\ LinedUp(t, free', line') /\ Permitted(t, free')
  BY <1>1, Leaving
<1> HIDE DEF t
<1>3. CASE row[d] \in Known
  <2>1. r \in AnyRows /\ r[d] = result /\ \A e \in Torrents \ {d} : r[e] = row[e]
    BY StateIs DEF AnyRows, Known
  <2> HIDE DEF r
  <2>2. Fits(r, t)
    <3> SUFFICES ASSUME NEW e \in Torrents
                 PROVE  /\ (HasHandler(t, e) /\ r[e] \in Waiting) => t[e].paused
                        /\ (r[e] = "new") => ~HasTask(t, e)
      BY DEF Fits
    <3>1. CASE e = d
      BY <2>1, <3>1 DEF Ended, Waiting
    <3>2. CASE e # d
      BY <1>2, <2>1, <3>2, StateIs DEF Fits, HasHandler, HasTask, Handled
    <3> QED
      BY <3>1, <3>2
  <2>3. Sits(r, t, free', line')
    BY <1>2, <2>1, <2>2 DEF Sits
  <2>4. \A e \in Torrents : seeding'[e] = seeding[e] \/ r[e] \in Ended
    BY <2>1 DEF QueueInv
  <2> QED
    BY <1>1, <1>3, <2>3, <2>4, LimitsAre, Asked DEF Orderly
<1>4. CASE row[d] \notin Known
  <2>1. task' = t /\ UNCHANGED <<row, seeding, limits>>
    BY <1>1, <1>4
  <2>2. row[d] \notin Transfer \union {"queued", "scheduled"}
    BY <1>4 DEF Known, Waiting
  <2>3. row[d] # "new"
    <3>1. HasTask(task, d)
      BY DEF HasTask, Holds, Handled
    <3> QED
      BY <3>1, StateIs DEF Fits
  <2>4. Fits(row, t)
    <3> SUFFICES ASSUME NEW e \in Torrents
                 PROVE  /\ (HasHandler(t, e) /\ row[e] \in Waiting) => t[e].paused
                        /\ (row[e] = "new") => ~HasTask(t, e)
      BY DEF Fits
    <3>1. CASE e = d
      BY <1>2, <2>3, <3>1 DEF HasHandler, Handled
    <3>2. CASE e # d
      BY <1>2, <3>2, StateIs DEF Fits, HasHandler, HasTask, Handled
    <3> QED
      BY <3>1, <3>2
  <2>5. SitsNext
    BY <1>2, <2>1, <2>4, StateIs DEF SitsNext, Sits
  <2>6. Takers(row, task, seeding) \subseteq Takers(row', task', seeding')
    <3> SUFFICES ASSUME NEW e \in Takers(row, task, seeding)
                 PROVE  e \in Takers(row', task', seeding')
      OBVIOUS
    <3>1. e # d /\ e \in Torrents
      BY <2>2 DEF Takers
    <3> QED
      BY <1>2, <2>1, <3>1 DEF Takers, HasTask, Parked, HasHandler, Handled
  <2>7. Standing(row', task', seeding') \subseteq Standing(row, task, seeding)
    <3> SUFFICES ASSUME NEW e \in Standing(row', task', seeding')
                 PROVE  e \in Standing(row, task, seeding)
      OBVIOUS
    <3>1. e # d /\ e \in Torrents
      BY <2>1, <2>2 DEF Standing
    <3> QED
      BY <1>2, <2>1, <3>1 DEF Standing, HasTask
  <2> QED
    BY <2>1, <2>5, <2>6, <2>7 DEF Orderly, KeepsSlots
<1> QED
  BY <1>3, <1>4

LEMMA EnterKeeps ==
  ASSUME QueueInv, NEW d \in Torrents, Enter(d)
  PROVE  SitsNext /\ Orderly
<1>1. /\ MayRun(d) /\ row' = [row EXCEPT ![d] = "connecting"]
      /\ task' = [task EXCEPT ![d].phase = "adding"]
      /\ free' = IF Holds(d) THEN free ELSE free - 1
      /\ UNCHANGED <<seeding, prio, limits, line, redo>>
  BY DEF Enter
<1>2. /\ free \in Nat /\ task \in AnyTasks /\ task[d] \in TaskState
      /\ Permitted(task, free) /\ (line # <<>> => free = 0)
  BY StateIs DEF LinedUp
<1> DEFINE x == [task[d] EXCEPT !.phase = "adding"]
<1>3. task' = [task EXCEPT ![d] = x]
  BY <1>1, <1>2 DEF AnyTasks
<1>4. x \in TaskState /\ x.phase = "adding" /\ x.paused = task[d].paused
  <2>1. "adding" \in Phases
    BY DEF Phases, Handled
  <2> QED
    BY <1>2, <2>1, Fields
<1>5. /\ task' \in AnyTasks /\ task'[d] = x
      /\ \A e \in Torrents \ {d} : task'[e] = task[e]
  BY <1>2, <1>3, <1>4 DEF AnyTasks
<1> HIDE DEF x
<1>6. /\ row' \in AnyRows /\ row'[d] = "connecting"
      /\ \A e \in Torrents \ {d} : row'[e] = row[e]
  BY <1>1, StateIs DEF AnyRows, Known, Transfer
<1>7. Fits(row', task')
  <2> SUFFICES ASSUME NEW e \in Torrents
               PROVE  /\ (HasHandler(task', e) /\ row'[e] \in Waiting) => task'[e].paused
                      /\ (row'[e] = "new") => ~HasTask(task', e)
    BY DEF Fits
  <2>1. CASE e = d
    BY <1>6, <2>1 DEF Waiting
  <2>2. CASE e # d
    BY <1>5, <1>6, <2>2, StateIs DEF Fits, HasHandler, HasTask
  <2> QED
    BY <2>1, <2>2
<1>8. ASSUME Holds(d)
      PROVE  LinedUp(task', free', line') /\ Permitted(task', free')
  <2>1. \A e \in Torrents :
            \/ task'[e].phase = task[e].phase
            \/ /\ task[e].phase # "waits"
               /\ task[e].phase \in Holding <=> task'[e].phase \in Holding
    BY <1>4, <1>5, <1>8 DEF Holds, Holding, Handled
  <2>2. LinedUp(task', free, line) /\ Permitted(task', free)
    BY <2>1, StateIs, Staying
  <2> QED
    BY <1>1, <1>8, <2>2
<1>9. ASSUME ~Holds(d)
      PROVE  LinedUp(task', free', line') /\ Permitted(task', free')
  <2>1. task[d].phase = "created" /\ free > 0 /\ free' = free - 1 /\ line = <<>>
    <3>1. task[d].phase = "created" /\ free > 0
      BY <1>1, <1>9 DEF MayRun, Holds
    <3> QED
      BY <1>1, <1>2, <1>9, <3>1
  <2>2. Holders(task') = Holders(task) \cup {d} /\ d \notin Holders(task)
    BY <1>4, <1>5, <2>1 DEF Holders, Holding, Handled
  <2>3. IsFiniteSet(Holders(task)) /\ Cardinality(Holders(task)) \in Nat
    BY TorrentsAre DEF Holders
  <2>4. Cardinality(Holders(task')) = Cardinality(Holders(task)) + 1
    BY <2>2, <2>3, FS_AddElement
  <2>5. Permitted(task', free')
    <3>1. free + Cardinality(Holders(task)) = Permits
      BY <1>2 DEF Permitted
    <3>2. free' + Cardinality(Holders(task')) = Permits
      BY <1>2, <2>1, <2>3, <2>4, <3>1
    <3> QED
      BY <3>2 DEF Permitted
  <2>6. LinedUp(task', free', line')
    BY <1>1, <1>2, <2>1, EmptySeq DEF LinedUp
  <2> QED
    BY <2>5, <2>6
<1>10. LinedUp(task', free', line') /\ Permitted(task', free')
  BY <1>1, <1>8, <1>9
<1>11. KeepsSlots
  <2>1. Takers(row, task, seeding) \subseteq Takers(row', task', seeding')
    BY <1>1, <1>5, <1>6 DEF Takers, Transfer, HasTask, Parked, HasHandler
  <2>2. Standing(row', task', seeding') \subseteq Standing(row, task, seeding)
    BY <1>1, <1>5, <1>6 DEF Standing, HasTask
  <2> QED
    BY <1>1, <2>1, <2>2 DEF KeepsSlots
<1> QED
  BY <1>5, <1>6, <1>7, <1>10, <1>11 DEF SitsNext, Sits, Orderly

LEMMA AddedKeeps ==
  ASSUME QueueInv, NEW d \in Torrents, Added(d)
  PROVE  SitsNext /\ Orderly
<1>1. /\ task[d].phase = "adding"
      /\ row' = IF row[d] \in Known THEN [row EXCEPT ![d] = "downloading"] ELSE row
      /\ task' = [task EXCEPT ![d].phase = "polling"]
      /\ UNCHANGED <<seeding, prio, limits, free, line, redo>>
  BY DEF Added
<1>2. task \in AnyTasks /\ task[d] \in TaskState
  BY StateIs
<1> DEFINE x == [task[d] EXCEPT !.phase = "polling"]
<1>3. task' = [task EXCEPT ![d] = x]
  BY <1>1, <1>2 DEF AnyTasks
<1>4. x \in TaskState /\ x.phase = "polling" /\ x.paused = task[d].paused
  <2>1. "polling" \in Phases
    BY DEF Phases, Handled
  <2> QED
    BY <1>2, <2>1, Fields
<1>5. task'[d] = x /\ \A e \in Torrents \ {d} : task'[e] = task[e]
  BY <1>2, <1>3 DEF AnyTasks
<1> HIDE DEF x
<1>6. row[d] # "new"
  BY <1>1, StateIs DEF Fits, HasTask
<1>7. /\ row' \in AnyRows /\ \A e \in Torrents \ {d} : row'[e] = row[e]
      /\ \/ row'[d] = "downloading"
         \/ row'[d] = row[d] /\ row[d] \notin Known
  BY <1>1, StateIs DEF AnyRows, Known, Transfer
<1>8. Sits(row', [task EXCEPT ![d] = x], free, line)
  <2>1. row'[d] \notin Waiting /\ row'[d] # "new"
    BY <1>6, <1>7 DEF Known, Waiting
  <2>2. task[d].phase # "waits" /\ (task[d].phase \in Holding <=> x.phase \in Holding)
    BY <1>1, <1>4 DEF Holding, Handled
  <2> QED
    BY <1>4, <1>7, <2>1, <2>2, OneMoves
<1>9. KeepsSlots
  <2>1. Takers(row, task, seeding) \subseteq Takers(row', task', seeding')
    BY <1>1, <1>5, <1>7 DEF Takers, Known, Waiting, Transfer, HasTask, Parked, HasHandler
  <2>2. Standing(row', task', seeding') \subseteq Standing(row, task, seeding)
    BY <1>1, <1>5, <1>7 DEF Standing, HasTask, Known, Waiting
  <2> QED
    BY <1>1, <2>1, <2>2 DEF KeepsSlots
<1> QED
  BY <1>1, <1>3, <1>8, <1>9 DEF SitsNext, Orderly

LEMMA ForgetKeeps ==
  ASSUME QueueInv, NEW d \in Torrents, Forget(d)
  PROVE  SitsNext /\ Orderly
<1>1. /\ task[d].phase = "over" /\ task' = [task EXCEPT ![d] = In("none")]
      /\ UNCHANGED <<row, seeding, prio, limits, free, line>>
  BY DEF Forget
<1>2. In("none") \in TaskState /\ In("none").phase = "none"
  BY Fields DEF Phases
<1>3. task'[d] = In("none") /\ \A e \in Torrents \ {d} : task'[e] = task[e]
  BY <1>1, StateIs DEF AnyTasks
<1>4. Sits(row, [task EXCEPT ![d] = In("none")], free, line)
  <2>1. row \in AnyRows /\ (In("none").phase \notin Handled)
    BY <1>2, StateIs DEF Handled
  <2>2. task[d].phase # "waits" /\ task[d].phase \notin Holding
        /\ In("none").phase \notin Holding
    BY <1>1, <1>2 DEF Holding, Handled
  <2> QED
    BY <1>2, <2>1, <2>2, OneMoves
<1>5. ASSUME row[d] \in {"queued", "scheduled"} PROVE Orderly
  BY <1>5 DEF Orderly, Excused, LateRequeue
<1>6. ASSUME row[d] \notin {"queued", "scheduled"} PROVE Orderly
  <2>1. Takers(row, task, seeding) \subseteq Takers(row', task', seeding')
    BY <1>1, <1>3, <1>6 DEF Takers, HasTask, Parked, HasHandler
  <2>2. Standing(row', task', seeding') \subseteq Standing(row, task, seeding)
    BY <1>1, <1>3, <1>6 DEF Standing, HasTask
  <2> QED
    BY <1>1, <2>1, <2>2 DEF KeepsSlots, Orderly
<1> QED
  BY <1>1, <1>4, <1>5, <1>6 DEF SitsNext

LEMMA EndsKeep ==
  ASSUME QueueInv, NEW d \in Torrents,
         FailsEarly(d) \/ AddFails(d) \/ Stops(d) \/ Ends(d)
  PROVE  SitsNext /\ Orderly
<1>1. Holds(d) \/ (task[d].phase = "created" /\ free > 0)
  BY DEF FailsEarly, AddFails, Stops, Ends, MayRun, Holds, Handled
<1>2. {"failed", "stopped", "completed"} \subseteq Ended
  BY DEF Ended
<1>3. PICK result \in Ended :
        /\ Finish(d, result)
        /\ \/ UNCHANGED seeding
           \/ \E b \in BOOLEAN : seeding' = IF row[d] \in Known
                                            THEN [seeding EXCEPT ![d] = b] ELSE seeding
  <2>1. CASE FailsEarly(d) \/ AddFails(d)
    BY <1>2, <2>1 DEF FailsEarly, AddFails
  <2>2. CASE Stops(d)
    BY <1>2, <2>2 DEF Stops
  <2>3. CASE Ends(d)
    BY <1>2, <2>3 DEF Ends
  <2> QED
    BY <2>1, <2>2, <2>3
<1> QED
  BY <1>1, <1>3, FinishKeeps

----------------------------------------------------------------------------
(* A process that begins has no tasks.                                     *)
LEMMA NoTasks ==
  ASSUME NEW r \in AnyRows
  PROVE  Sits(r, [d \in Torrents |-> In("none")], Permits, <<>>)
<1> DEFINE u == [d \in Torrents |-> In("none")]
<1>1. In("none") \in TaskState /\ In("none").phase = "none"
  BY Fields DEF Phases
<1>2. u \in AnyTasks /\ \A d \in Torrents : u[d].phase = "none"
  BY <1>1 DEF AnyTasks
<1> HIDE DEF u
<1>3. Fits(r, u)
  BY <1>2 DEF Fits, HasHandler, HasTask, Handled
<1>4. Permits \in Nat /\ <<>> \in Seq(Torrents) /\ Len(<<>>) = 0
  BY TorrentAssumption, EmptySeq
<1>5. LinedUp(u, Permits, <<>>)
  BY <1>4 DEF LinedUp
<1>6. Holders(u) = {}
  BY <1>2 DEF Holders, Holding, Handled
<1>7. Permitted(u, Permits)
  <2>1. Permits + Cardinality(Holders(u)) = Permits
    BY <1>4, <1>6, FS_EmptySet
  <2> QED
    BY <2>1 DEF Permitted
<1> QED
  BY <1>2, <1>3, <1>5, <1>7 DEF Sits, u

LEMMA QueueBegins == Init => QueueInv
<1> SUFFICES ASSUME Init PROVE QueueInv
  OBVIOUS
<1>1. row \in AnyRows
  BY DEF Init, AnyRows
<1>2. Sits(row, task, free, line)
  <2>1. Sits(row, [d \in Torrents |-> In("none")], Permits, <<>>)
    BY <1>1, NoTasks
  <2> QED
    BY <2>1 DEF Init
<1> QED
  BY <1>2, TorrentAssumption DEF Init, QueueInv, AnyPrio

LEMMA Concluding ==
  ASSUME QueueInv, SitsNext, seeding' \in [Torrents -> BOOLEAN], prio' \in AnyPrio,
         limits' \in Limits, redo' \in [Torrents -> {"no", "waits", "ready"}]
  PROVE  QueueInv'
  BY DEF QueueInv, SitsNext

LEMMA UserKeeps ==
  ASSUME QueueInv, NEW d \in Torrents, User(d)
  PROVE  QueueInv' /\ Orderly
<1>1. /\ seeding \in [Torrents -> BOOLEAN] /\ prio \in AnyPrio /\ limits \in Limits
      /\ redo \in [Torrents -> {"no", "waits", "ready"}]
  BY DEF QueueInv
<1>2. CASE Add(d) \/ Pause(d) \/ Resume(d) \/ Remove(d)
  <2>1. SitsNext /\ Orderly
    BY <1>2, AddKeeps, PauseKeeps, ResumeKeeps, RemoveKeeps
  <2>2. UNCHANGED <<seeding, prio, limits, redo>>
    BY <1>2 DEF Add, Pause, Resume, Remove
  <2> QED
    BY <1>1, <2>1, <2>2, Concluding
<1>3. CASE Start(d)
  <2>1. ManualStart(row, d) /\ row[d] \in Known
        /\ UNCHANGED <<seeding, prio, limits, free, line, redo>>
    BY <1>3 DEF Start
  <2>2. SitsNext /\ (Filled \/ KeepsSlots)
    BY <2>1, ManualKeeps
  <2> QED
    BY <1>1, <2>1, <2>2, Concluding DEF Orderly
<1>4. CASE StartSeeding(d)
  <2>1. seeding' \in [Torrents -> BOOLEAN] /\ UNCHANGED <<prio, limits, redo>>
    BY <1>1, <1>4 DEF StartSeeding
  <2> QED
    BY <1>1, <1>4, <2>1, SeedKeeps, Concluding
<1>5. CASE Cancel(d)
  <2>1. task' = Stopping(d) /\ UNCHANGED <<row, seeding, prio, limits, free, line, redo>>
    BY <1>5 DEF Cancel
  <2> QED
    BY <1>1, <2>1, StoppingKeeps, Concluding
<1>6. CASE Restart(d)
  <2>1. UNCHANGED <<seeding, prio, limits, free, line>>
    BY <1>6 DEF Restart
  <2>2. CASE HasTask(task, d)
    <3>1. /\ task' = Stopping(d) /\ UNCHANGED row
          /\ redo' \in [Torrents -> {"no", "waits", "ready"}]
      BY <1>1, <1>6, <2>2 DEF Restart
    <3> QED
      BY <1>1, <2>1, <3>1, StoppingKeeps, Concluding
  <2>3. CASE ~HasTask(task, d)
    <3>1. Again(d) /\ UNCHANGED redo
      BY <1>6, <2>3 DEF Restart
    <3> QED
      BY <1>1, <2>1, <3>1, AgainKeeps, Concluding
  <2> QED
    BY <2>2, <2>3
<1>7. ASSUME NEW n \in Priorities, SetPriority(d, n) PROVE QueueInv' /\ Orderly
  <2>1. UNCHANGED <<seeding, limits, redo>>
    BY <1>7 DEF SetPriority
  <2> QED
    BY <1>1, <1>7, <2>1, PriorityKeeps, Concluding
<1> QED
  BY <1>2, <1>3, <1>4, <1>5, <1>6, <1>7 DEF User

LEMMA TaskKeeps ==
  ASSUME QueueInv, NEW d \in Torrents, TaskStep(d)
  PROVE  QueueInv' /\ Orderly
<1>1. /\ seeding \in [Torrents -> BOOLEAN] /\ prio \in AnyPrio /\ limits \in Limits
      /\ redo \in [Torrents -> {"no", "waits", "ready"}]
  BY DEF QueueInv
<1>2. CASE LinesUp(d) \/ Enter(d) \/ Added(d)
  <2>1. SitsNext /\ Orderly
    BY <1>2, LinesUpKeeps, EnterKeeps, AddedKeeps
  <2>2. UNCHANGED <<seeding, prio, limits, redo>>
    BY <1>2 DEF LinesUp, Enter, Added
  <2> QED
    BY <1>1, <2>1, <2>2, Concluding
<1>3. CASE FailsEarly(d) \/ AddFails(d) \/ Stops(d) \/ Ends(d)
  <2>1. UNCHANGED <<prio, limits, redo>>
    BY <1>3 DEF FailsEarly, AddFails, Stops, Ends, Finish
  <2>2. seeding' \in [Torrents -> BOOLEAN]
    <3>1. CASE UNCHANGED seeding
      BY <1>1, <3>1
    <3>2. CASE ~ UNCHANGED seeding
      <4>1. PICK b \in BOOLEAN : seeding' = IF row[d] \in Known
                                            THEN [seeding EXCEPT ![d] = b] ELSE seeding
        BY <1>3, <3>2 DEF FailsEarly, AddFails, Stops, Ends
      <4> QED
        BY <1>1, <4>1
    <3> QED
      BY <3>1, <3>2
  <2> QED
    BY <1>1, <1>3, <2>1, <2>2, EndsKeep, Concluding
<1>4. CASE Forget(d)
  <2>1. UNCHANGED <<seeding, prio, limits>>
        /\ redo' = [redo EXCEPT ![d] = IF @ = "waits" THEN "ready" ELSE @]
    BY <1>4 DEF Forget
  <2>2. redo' \in [Torrents -> {"no", "waits", "ready"}]
    BY <1>1, <2>1
  <2> QED
    BY <1>1, <1>4, <2>1, <2>2, ForgetKeeps, Concluding
<1>5. CASE RestartEnds(d)
  <2>1. /\ Again(d) /\ UNCHANGED <<seeding, prio, limits, free, line>>
        /\ redo' = [redo EXCEPT ![d] = "no"]
    BY <1>5 DEF RestartEnds
  <2>2. redo' \in [Torrents -> {"no", "waits", "ready"}]
    BY <1>1, <2>1
  <2> QED
    BY <1>1, <2>1, <2>2, AgainKeeps, Concluding
<1> QED
  BY <1>2, <1>3, <1>4, <1>5 DEF TaskStep

LEMMA QueueStep ==
  QueueInv /\ [Next]_vars => QueueInv' /\ Orderly
<1> SUFFICES ASSUME QueueInv, [Next]_vars PROVE QueueInv' /\ Orderly
  OBVIOUS
<1>1. CASE SettingsSaved
  <2>1. UNCHANGED <<seeding, prio, redo>>
    BY <1>1 DEF SettingsSaved
  <2>2. /\ seeding' \in [Torrents -> BOOLEAN] /\ prio' \in AnyPrio
        /\ redo' \in [Torrents -> {"no", "waits", "ready"}]
    BY <2>1 DEF QueueInv
  <2> QED
    BY <1>1, <2>2, SettingsKeep, Concluding
<1>2. CASE NewProcess
  <2>1. /\ task' = [d \in Torrents |-> In("none")] /\ free' = Permits /\ line' = <<>>
        /\ redo' = [d \in Torrents |-> "no"] /\ UNCHANGED <<row, seeding, prio, limits>>
    BY <1>2 DEF NewProcess
  <2>2. Sits(row, [d \in Torrents |-> In("none")], Permits, <<>>)
    BY StateIs, NoTasks
  <2>3. SitsNext
    BY <2>1, <2>2 DEF SitsNext
  <2>4. QueueInv'
    BY <2>1, <2>3 DEF QueueInv, SitsNext
  <2> QED
    BY <1>2, <2>4 DEF Orderly, Excused
<1>3. CASE UNCHANGED vars
  <2>1. UNCHANGED <<row, seeding, prio, limits, task, free, line, redo>>
    BY <1>3 DEF vars
  <2>2. QueueInv'
    BY <2>1 DEF QueueInv
  <2>3. KeepsSlots
    BY <2>1 DEF KeepsSlots
  <2> QED
    BY <2>2, <2>3 DEF Orderly
<1> QED
  BY <1>1, <1>2, <1>3, UserKeeps, TaskKeeps DEF Next

(* The invariant: a torrent with a handler whose row waits is parked, the  *)
(* line holds tasks that wait, each once, while no permit is free, and     *)
(* every permit is free or held by one task (core/torrent_queue.py, the    *)
(* torrents of core/downloads/manager.py, torrent/handler.py).             *)
THEOREM QueueInvariant == Spec => []QueueInv
<1> QED
  BY QueueBegins, QueueStep, PTL DEF Spec

(* Every variable has its type; in particular never are more permits free  *)
(* than there are, although the tasks of torrents are stopped, parked and  *)
(* forgotten in any order (_run_torrent and the semaphore of               *)
(* core/downloads/manager.py).                                             *)
THEOREM TorrentTypeCorrect == Spec => []TorrentTypeOK
<1>1. QueueInv => TorrentTypeOK
  <2> SUFFICES ASSUME QueueInv PROVE TorrentTypeOK
    OBVIOUS
  <2>1. free \in Nat /\ free + Cardinality(Holders(task)) = Permits
    BY StateIs DEF LinedUp, Permitted
  <2>2. Cardinality(Holders(task)) \in Nat /\ Permits \in Nat
    BY TorrentsAre, TorrentAssumption DEF Holders
  <2>3. free \in 0 .. Permits
    BY <2>1, <2>2
  <2> QED
    BY <2>3, StateIs DEF QueueInv, AnyRows, AnyTasks, AnyPrio, LinedUp, TorrentTypeOK
<1> QED
  BY QueueInvariant, <1>1, PTL

(* No step leaves a torrent in the queue beside an idle slot, but the      *)
(* three that NoIdleSlot names: whatever the number of torrents, the       *)
(* priorities and the settings, one call of advance fills every slot that  *)
(* the torrents of the queue can take (reconcile and advance of            *)
(* core/torrent_queue.py).                                                 *)
THEOREM SlotsAlwaysFilled == Spec => NoIdleSlot
<1>1. Idle <=> /\ Standing(row, task, seeding) # {}
               /\ ~(Cardinality(Takers(row, task, seeding)) >= limits.slots)
  <2>1. {d \in Torrents : TakesSlot(row, task, d)} = Takers(row, task, seeding)
    BY DEF TakesSlot, Takers
  <2>2. SlotsFull(row, task) <=> Cardinality(Takers(row, task, seeding)) >= limits.slots
    BY <2>1 DEF SlotsFull, CountTransfers
  <2> QED
    BY <2>2 DEF Idle, Standing
<1>2. (Idle <=> /\ Standing(row, task, seeding) # {}
                /\ ~(Cardinality(Takers(row, task, seeding)) >= limits.slots))'
  BY <1>1, PTL
<1>3. ASSUME QueueInv, [Next]_vars
      PROVE  Idle' => Idle \/ NewProcess \/ EarlyPause \/ LateRequeue
  <2> SUFFICES ASSUME Idle', ~Excused PROVE Idle
    BY DEF Excused
  <2>1. /\ Standing(row, task, seeding)' # {}
        /\ ~(Cardinality(Takers(row, task, seeding)) >= limits.slots)'
    BY <1>2
  <2>2. KeepsSlots
    BY <1>3, <2>1, QueueStep DEF Orderly, Filled
  <2> DEFINE had  == Takers(row, task, seeding)
             have == Takers(row, task, seeding)'
  <2>3. had \subseteq have /\ limits' = limits /\ Standing(row, task, seeding) # {}
    BY <2>1, <2>2 DEF KeepsSlots
  <2>4. /\ IsFiniteSet(have) /\ Cardinality(have) \in Nat /\ Cardinality(had) \in Nat
        /\ limits.slots \in Nat
    <3>1. had \subseteq Torrents /\ have \subseteq Torrents
      BY DEF Takers
    <3> QED
      BY <1>3, <3>1, TorrentsAre, TorrentAssumption DEF QueueInv, Limits
  <2>5. ~(Cardinality(have) >= limits.slots)
    BY <2>1, <2>3
  <2> HIDE DEF had, have
  <2>6. Cardinality(had) <= Cardinality(have)
    BY <2>3, <2>4, FS_Subset
  <2>7. ~(Cardinality(had) >= limits.slots)
    BY <2>4, <2>5, <2>6
  <2> QED
    BY <1>1, <2>3, <2>7 DEF had
<1>4. QueueInv /\ [Next]_vars
        => [Idle' => Idle \/ NewProcess \/ EarlyPause \/ LateRequeue]_vars
  BY <1>3
<1> QED
  BY QueueInvariant, <1>4, PTL DEF Spec, NoIdleSlot
=============================================================================
