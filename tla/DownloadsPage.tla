---------------------------- MODULE DownloadsPage ----------------------------
(***************************************************************************)
(* The table of the Downloads page: a mirror of the downloads table that   *)
(* is kept up by events and, for a long history, filled in slices by a     *)
(* timer while events go on arriving.                                      *)
(*                                                                         *)
(* The page, the event bus's dispatch and the capture watcher live on the  *)
(* GUI thread.  An event posted there is handled at once; one posted by    *)
(* another thread is queued with the snapshot taken when it was posted.    *)
(* The browser host is another process: it writes the database and posts   *)
(* nothing, and the capture watcher looks for the rows that changed.       *)
(***************************************************************************)
EXTENDS Integers, FiniteSets, SequencesExt

CONSTANTS
  RowIds,        \* ids of the downloads table, a higher one is newer: 1..n
  Threshold,     \* _PROGRESSIVE_THRESHOLD
  MaxPosted      \* bound: events queued

ASSUME PageAssumption ==
  /\ RowIds \subseteq Nat \ {0} /\ IsFiniteSet(RowIds)
  /\ {Threshold, MaxPosted} \subseteq Nat

VARIABLES
  stored,        \* the downloads table: id |-> "none", "active" or "done"
  changed,       \* rows written since the capture watcher's last look
  posted,        \* events of other threads, oldest first
  shows,         \* the filter: "all", "finished" or "unfinished"
  page,          \* what the page holds
  pending,       \* snapshots a progressive load has yet to show
  loading,       \* its timer is running
  raced,         \* rows of which a newer snapshot overtook an older one
  hosted         \* rows the host wrote since the capture watcher's last look

pageVars == <<stored, changed, posted, shows, page, pending, loading, raced, hosted>>

Filters == {"all", "finished", "unfinished"}
Snapshot == [id : RowIds, st : {"none", "active", "done"}]
\* A row of the widget: a download's, or the placeholder's
Cell == Snapshot \cup {[id |-> 0, st |-> "none"]}
Placeholder == [id |-> 0, st |-> "none"]

PageTypeOK ==
  /\ stored \in [RowIds -> {"none", "active", "done"}]
  /\ changed \subseteq RowIds /\ hosted \subseteq RowIds /\ raced \subseteq RowIds
  /\ posted \in Seq(Snapshot) /\ Len(posted) <= MaxPosted
  /\ shows \in Filters /\ loading \in BOOLEAN
  /\ pending \in Seq(Snapshot)
  /\ page.table \in Seq(Cell) /\ page.ids \in Seq(RowIds)
  /\ page.rows \in [RowIds -> 0 .. Cardinality(RowIds)]
  /\ page.empty \in BOOLEAN /\ page.dirty \in BOOLEAN

-----------------------------------------------------------------------------
(* The operations of the page, as functions of what it holds: the widget's *)
(* rows, _ids (the id of each row), _rows (the row of each id, 0 for none),*)
(* _empty_row (the placeholder is there, in the first row) and _dirty.     *)

Blank == [table |-> <<>>, ids |-> <<>>, rows |-> [i \in RowIds |-> 0],
          empty |-> FALSE, dirty |-> FALSE]

Matches(s, f) ==
  CASE f = "finished" -> s.st = "done"
    [] f = "unfinished" -> s.st = "active"
    [] OTHER -> TRUE

ClearEmptyRow(p) ==
  IF p.empty THEN [p EXCEPT !.table = Tail(@), !.empty = FALSE] ELSE p

\* The placeholder stands in an empty table, and a call in any other takes it away
UpdateEmptyState(p) ==
  IF p.table = <<>> THEN [p EXCEPT !.table = <<Placeholder>>, !.empty = TRUE]
  ELSE ClearEmptyRow(p)

\* A bug in RemoveRow: the rows below keep their numbers
RemoveUnshifted(p, id) ==
  LET r == p.rows[id] IN
  IF r = 0 THEN [p EXCEPT !.dirty = TRUE]
  ELSE [p EXCEPT !.dirty = TRUE, !.table = RemoveAt(@, r), !.ids = RemoveAt(@, r),
                 !.rows = [@ EXCEPT ![id] = 0]]

RemoveRow(p, id) ==
  LET r == p.rows[id] IN
  IF r = 0 THEN [p EXCEPT !.dirty = TRUE]
  ELSE [p EXCEPT !.dirty = TRUE, !.table = RemoveAt(@, r), !.ids = RemoveAt(@, r),
                 !.rows = [i \in RowIds |-> IF i = id THEN 0
                                            ELSE IF @[i] > r THEN @[i] - 1 ELSE @[i]]]

\* A bug in InsertTop: the known rows keep their numbers
InsertUnshifted(p, s) ==
  [p EXCEPT !.table = <<s>> \o @, !.ids = <<s.id>> \o @, !.rows = [@ EXCEPT ![s.id] = 1]]

\* A new row comes at the top, and every known row moves down with its id
InsertTop(p, s) ==
  [p EXCEPT !.table = <<s>> \o @, !.ids = <<s.id>> \o @,
            !.rows = [i \in RowIds |-> IF i = s.id THEN 1
                                       ELSE IF @[i] # 0 THEN @[i] + 1 ELSE 0]]

InsertLast(p, s) ==
  [p EXCEPT !.table = Append(@, s), !.ids = Append(@, s.id),
            !.rows = [@ EXCEPT ![s.id] = Len(p.table) + 1]]

\* _upsert; in a bulk load (at the end of the table) the placeholder is left for later
Upsert(p, s, f, bulk) ==
  LET settled(q) == IF bulk THEN q ELSE UpdateEmptyState(q)
      room == [ClearEmptyRow(p) EXCEPT !.dirty = TRUE]
  IN IF ~Matches(s, f) THEN settled(RemoveRow(p, s.id))
     ELSE settled(IF room.rows[s.id] # 0
                  THEN [room EXCEPT !.table[room.rows[s.id]] = s]
                  ELSE IF bulk THEN InsertLast(room, s) ELSE InsertTop(room, s))

\* What a handler does with the snapshot of a row: "none" is the event of a removal
Handle(p, s, f) ==
  IF s.st = "none" THEN UpdateEmptyState(RemoveRow(p, s.id)) ELSE Upsert(p, s, f, FALSE)

\* A list of snapshots, one after the other
Load(p, ss, f, bulk) ==
  LET after[k \in 0 .. Len(ss)] == IF k = 0 THEN p ELSE Upsert(after[k - 1], ss[k], f, bulk)
  IN after[Len(ss)]

-----------------------------------------------------------------------------
(* Reading the table afresh *)

\* Row numbers, newest first
Newest(ids) ==
  CHOOSE s \in [1 .. Cardinality(ids) -> ids] : \A j, k \in DOMAIN s : j < k => s[j] > s[k]

\* list_snapshots, or those of some rows
Snapshots(ids) ==
  LET there == Newest({i \in ids : stored[i] # "none"})
  IN [k \in DOMAIN there |-> [id |-> there[k], st |-> stored[there[k]]]]

Waiting(id, queue) == \E k \in DOMAIN queue : queue[k].id = id

\* refresh under a filter: at once, or in slices from an empty page
Refresh(f) ==
  /\ LET all == Snapshots(RowIds)
     IN IF Len(all) > Threshold
        THEN /\ page' = [Blank EXCEPT !.table = <<Placeholder>>, !.empty = TRUE]
             /\ pending' = all /\ loading' = TRUE
        ELSE /\ page' = [UpdateEmptyState(Load(Blank, all, f, TRUE)) EXCEPT !.dirty = FALSE]
             /\ pending' = <<>> /\ loading' = FALSE
  /\ raced' = {i \in raced : Waiting(i, posted)}
  /\ hosted' = {i \in hosted : Waiting(i, posted)}

SetFilter(f) ==
  /\ f # shows /\ shows' = f /\ Refresh(f)
  /\ UNCHANGED <<stored, changed, posted>>

\* Navigating to the page: it is read afresh only if events have changed it
Navigate ==
  /\ page.dirty /\ Refresh(shows)
  /\ UNCHANGED <<stored, changed, posted, shows>>

\* The timer: another slice of the history, or the end of the load
LoadChunk ==
  /\ loading
  /\ \/ /\ pending = <<>> /\ loading' = FALSE
        /\ page' = UpdateEmptyState([page EXCEPT !.dirty = FALSE])
        /\ UNCHANGED pending
     \/ \E n \in 1 .. Len(pending) :
          /\ page' = Load(ClearEmptyRow(page), SubSeq(pending, 1, n), shows, TRUE)
          /\ pending' = SubSeq(pending, n + 1, Len(pending))
          /\ UNCHANGED loading
  /\ UNCHANGED <<stored, changed, posted, shows, raced, hosted>>

-----------------------------------------------------------------------------
(* Events *)

\* A row whose newest snapshot is shown is out of order while an older one of
\* it still waits, with another thread's events or in the load
Overtaken(id, queue) ==
  IF Waiting(id, queue) \/ Waiting(id, pending) THEN raced \cup {id} ELSE raced \ {id}

Write(id, st) == /\ stored[id] # st /\ (st = "done" => stored[id] = "active")
                 /\ stored' = [stored EXCEPT ![id] = st]
                 /\ changed' = changed \cup {id}

\* The manager writes a row on the GUI thread and posts its event
WriteHere(id, st) ==
  /\ Write(id, st)
  /\ page' = Handle(page, [id |-> id, st |-> st], shows)
  /\ raced' = Overtaken(id, posted)
  /\ UNCHANGED <<posted, shows, pending, loading, hosted>>

\* It does so on another thread: the bus queues the event
WriteElsewhere(id, st) ==
  /\ Len(posted) < MaxPosted /\ Write(id, st)
  /\ posted' = Append(posted, [id |-> id, st |-> st])
  /\ UNCHANGED <<shows, page, pending, loading, raced, hosted>>

Dispatch ==
  /\ posted # <<>> /\ posted' = Tail(posted)
  /\ LET s == Head(posted)
     IN /\ page' = Handle(page, s, shows)
        /\ raced' = IF Waiting(s.id, pending) THEN raced \cup {s.id} ELSE raced
  /\ UNCHANGED <<stored, changed, shows, pending, loading, hosted>>

\* The progress of a row, unless it comes too soon after the last: the row is
\* read again
Progress(id) ==
  /\ stored[id] = "active"
  /\ page' = Upsert(page, [id |-> id, st |-> stored[id]], shows, FALSE)
  /\ raced' = Overtaken(id, posted)
  /\ UNCHANGED <<stored, changed, posted, shows, pending, loading, hosted>>

\* The host archives a page: a new row, later a finished one
HostWrites(id, st) ==
  /\ st # "none" /\ Write(id, st) /\ hosted' = hosted \cup {id}
  /\ UNCHANGED <<posted, shows, page, pending, loading, raced>>

\* The capture watcher posts an event for every row that is not as it was
SyncDownloads ==
  LET fresh == Snapshots(changed)
      ids == {fresh[k].id : k \in DOMAIN fresh}
      late == {i \in ids : Waiting(i, posted) \/ Waiting(i, pending)}
  IN /\ changed # {} /\ changed' = {} /\ hosted' = {}
     /\ page' = Load(page, fresh, shows, FALSE)
     /\ raced' = (raced \ ids) \cup late
     /\ UNCHANGED <<stored, posted, shows, pending, loading>>

PageInit ==
  /\ stored = [i \in RowIds |-> "none"] /\ changed = {} /\ posted = <<>> /\ shows = "all"
  /\ page = UpdateEmptyState(Blank)
  /\ pending = <<>> /\ loading = FALSE /\ raced = {} /\ hosted = {}

PageNext ==
  \/ \E f \in Filters : SetFilter(f)
  \/ Navigate
  \/ LoadChunk
  \/ \E id \in RowIds, st \in {"none", "active", "done"} : WriteHere(id, st)
  \/ \E id \in RowIds, st \in {"none", "active", "done"} : WriteElsewhere(id, st)
  \/ Dispatch
  \/ \E id \in RowIds : Progress(id)
  \/ \E id \in RowIds, st \in {"active", "done"} : HostWrites(id, st)
  \/ SyncDownloads

PageSpec == PageInit /\ [][PageNext]_pageVars

-----------------------------------------------------------------------------
\* A row of the widget, its id and its number agree, so that a button acts on
\* the download it is shown for; and once no event, slice or host row is
\* outstanding the page shows the rows of the table that match the filter, as
\* they are now.  The exception is a row of which a newer snapshot was shown
\* while an older one waited: the older one then stays on the page.
ShowsTable ==
  LET real == IF page.empty THEN Tail(page.table) ELSE page.table
      shown == {real[k] : k \in DOMAIN real}
      settled == posted = <<>> /\ ~loading
  IN /\ Len(real) = Len(page.ids)
     /\ \A k \in DOMAIN real : real[k].id = page.ids[k] /\ page.rows[real[k].id] = k
     /\ settled => \A i \in RowIds \ (raced \cup hosted) :
                     LET now == [id |-> i, st |-> stored[i]]
                     IN IF stored[i] # "none" /\ Matches(now, shows) THEN now \in shown
                        ELSE \A c \in shown : c.id # i
=============================================================================
