------------------------------- MODULE Library -------------------------------
(***************************************************************************)
(* What happens around DownloadManager.add: the check for a duplicate and  *)
(* the dialog it may open, the rows of playlists and of archived pages,    *)
(* and the index of file digests.                                          *)
(*                                                                         *)
(* Adds run on the GUI thread.  An add from the Add dialog hangs a         *)
(* question on the context (context.dedup_decision) for as long as it      *)
(* lasts; while its dialog is open a nested event loop runs, in which the  *)
(* timers, the forwarded command lines and the captures add downloads of   *)
(* their own.  Pages are archived and files digested by worker threads.    *)
(*                                                                         *)
(* A URL and the bytes it serves are one value.  The ids of the table are  *)
(* SQLite row ids: the next one is one above the largest in use.           *)
(***************************************************************************)
EXTENDS Integers, FiniteSetsExt, Sequences, Functions

CONSTANTS
  Paths,         \* target files
  Contents,      \* URLs, the bytes they serve and the videos they name: 1..n
  MaxId,         \* bound: largest row id in use
  MaxAdds,       \* bound: calls of add
  MaxOpen,       \* bound: dialogs open inside each other
  MaxJobs        \* bound: digest threads at a time

ASSUME LibraryAssumption ==
  Contents \subseteq Nat /\ {MaxId, MaxAdds, MaxOpen, MaxJobs} \subseteq Nat

VARIABLES
  rows,          \* the downloads table: id |-> row
  disk,          \* path |-> the bytes there, 0 for no file
  index,         \* file_hashes: the [path, content] it lists
  jobs,          \* digest threads: those due and those that looked theirs up
  policy,        \* dedup.enabled and dedup.auto_skip: "off", "ask" or "skip"
  hook,          \* context.dedup_decision is set
  asking,        \* the adds whose dialog is open, the topmost first
  pages,         \* archivings under way: the [id, url] they were started for
  items,         \* playlist_items: the position and the state of each video
  archive,       \* the ids in archives/youtube.txt
  adds           \* calls of add so far

libVars == <<rows, disk, index, jobs, policy, hook, asking, pages, items, archive, adds>>

Hows == {"url", "data", "page", "video"}
Request == [how : Hows, url : Contents, path : Paths, at : Contents]
Row == [st : {"queued", "completed", "failed"}, url : Contents, path : Paths,
        at : Contents \cup {0}]
Item == [at : Contents \cup {0}, st : {"none", "added", "completed", "failed"}]
Entry == [path : Paths, content : Contents]

LibraryTypeOK ==
  /\ DOMAIN rows \subseteq 1 .. MaxId /\ Range(rows) \subseteq Row
  /\ disk \in [Paths -> Contents \cup {0}]
  /\ index \subseteq Entry
  /\ \A j \in jobs : j.entry.path \in Paths /\ j.found \in BOOLEAN
                     /\ j.ph = "looked" => j.entry \in Entry
  /\ policy \in {"off", "ask", "skip"} /\ hook \in BOOLEAN
  /\ Len(asking) <= MaxOpen
  /\ \A k \in DOMAIN asking : asking[k].req \in Request /\ asking[k].set \in BOOLEAN
  /\ \A p \in pages : p.id \in 1 .. MaxId /\ p.url \in Contents
  /\ items \in [Contents -> Item]
  /\ archive \subseteq Contents

LibraryInit ==
  /\ rows = <<>> /\ disk = [p \in Paths |-> 0] /\ index = {} /\ jobs = {}
  /\ policy \in {"off", "ask", "skip"}
  /\ hook = FALSE /\ asking = <<>> /\ pages = {} /\ archive = {} /\ adds = 0
  /\ items = [v \in Contents |-> [at |-> 0, st |-> "none"]]

-----------------------------------------------------------------------------
(* The table *)

\* The id SQLite gives the next row
NextId == Max(DOMAIN rows \cup {0}) + 1
RoomForRow == NextId <= MaxId
WithRow(r) == [i \in DOMAIN rows \cup {NextId} |-> IF i = NextId THEN r ELSE rows[i]]

\* Where bytes already at hand are indexed
ByDigest(bytes) == {e.path : e \in {f \in index : f.content = bytes}}

\* A file at the target, whoever put it there, or else a completed row of the URL
ByUrl(url, path) ==
  IF disk[path] # 0 THEN {path}
  ELSE {rows[i].path : i \in {k \in DOMAIN rows :
                                rows[k].st = "completed" /\ rows[k].url = url}}

Duplicates(q) == IF policy = "off" THEN {}
                 ELSE IF q.how = "data" THEN ByDigest(q.url) ELSE ByUrl(q.url, q.path)

\* What is done about a duplicate: nobody is asked where no question hangs
Decision(asked) ==
  IF policy = "skip" THEN "skip" ELSE IF asked THEN "ask" ELSE "download"

\* The archiving of a page, on its own thread or as a task of the loop: all it
\* keeps of its row is the id
RunArchiving(id, url) == [id |-> id, url |-> url]

\* The row an add makes, with what the add leaves on disk, among the archivings
\* and in the playlist.  A video that is in the playlist keeps its position.
Create(q) ==
  /\ RoomForRow
  /\ rows' = WithRow([st |-> IF q.how = "data" THEN "completed" ELSE "queued",
                      url |-> q.url, path |-> q.path,
                      at |-> IF q.how = "video" THEN q.at ELSE 0])
  /\ disk' = IF q.how = "data" THEN [disk EXCEPT ![q.path] = q.url] ELSE disk
  /\ pages' = IF q.how = "page" THEN pages \cup {RunArchiving(NextId, q.url)} ELSE pages

\* Instead of a download of its own: the row of the file at p, made if there is none
Substitute(q, p) ==
  /\ UNCHANGED <<disk, pages>>
  /\ IF \E i \in DOMAIN rows : rows[i].path = p
     THEN UNCHANGED rows
     ELSE /\ RoomForRow
          /\ rows' = WithRow([st |-> "completed", url |-> q.url, path |-> p, at |-> 0])

\* add_playlist writes the item of a video once its add has returned
Linked(q) ==
  items' = IF q.how # "video" THEN items
           ELSE [items EXCEPT ![q.url] =
                   [at |-> IF @.at = 0 THEN q.at ELSE @.at, st |-> "added"]]

-----------------------------------------------------------------------------
(* Adds *)

\* The dialog that names the file at p, on top of those that are open
OpenDialog(q, p, attended) ==
  asking' = <<[req |-> q, at |-> p, set |-> attended]>> \o asking

\* One add.  A duplicate may open a dialog, under which the add waits
Adds(q, asked, attended) ==
  /\ adds < MaxAdds /\ adds' = adds + 1
  /\ \/ /\ Duplicates(q) = {} \/ Decision(asked) = "download"
        /\ Create(q) /\ Linked(q) /\ UNCHANGED <<asking, hook>>
     \/ /\ Decision(asked) = "skip"
        /\ \E p \in Duplicates(q) : Substitute(q, p)
        /\ Linked(q) /\ UNCHANGED <<asking, hook>>
     \/ /\ Decision(asked) = "ask" /\ Len(asking) < MaxOpen
        /\ \E p \in Duplicates(q) : OpenDialog(q, p, attended)
        /\ hook' = TRUE
        /\ UNCHANGED <<rows, disk, pages, items>>
  /\ UNCHANGED <<index, jobs, policy, archive>>

\* From the Add dialog, which is modal
AddAttended(q) ==
  /\ asking = <<>> /\ q.how \in {"url", "page"}
  /\ Adds(q, TRUE, TRUE)

\* From a capture, a forwarded command line, the remote control; or what the
\* browser fetched for a pasted address: its bytes, its file, or the address it
\* resolved to
AddUnattended(q) == q.how \in {"url", "data"} /\ Adds(q, hook, FALSE)

\* One video of a selection: each is committed before the next is added
AddPlaylist(q) == q.how = "video" /\ asking = <<>> /\ Adds(q, hook, FALSE)

\* A bug in Restored: the hook outlives an add that raises or is answered
LeftSet(frame) == hook

\* The finally of _add_with_dedup_dialog: the add that set the hook takes it away
Restored(frame) == IF frame.set THEN FALSE ELSE hook

\* The topmost dialog is answered, or the add under it fails to write its file
AnswerDialog(choice) ==
  /\ asking # <<>>
  /\ LET f == Head(asking) IN
     /\ CASE choice = "download" -> Create(f.req)
          [] choice = "skip" -> Substitute(f.req, f.at)
          [] OTHER -> UNCHANGED <<rows, disk, pages>>
     /\ hook' = Restored(f)
  /\ asking' = Tail(asking)
  /\ UNCHANGED <<index, jobs, policy, items, archive, adds>>

-----------------------------------------------------------------------------
(* What becomes of the rows *)

\* A digest thread is started for the file at p
Due(p) == [ph |-> "due", entry |-> [path |-> p, content |-> 0], found |-> FALSE]

\* A file is downloaded, or is not: a complete one is to be indexed
FinishTask(i, ok) ==
  /\ i \in DOMAIN rows /\ rows[i].st = "queued" /\ rows[i].at = 0
  /\ rows' = [rows EXCEPT ![i].st = IF ok THEN "completed" ELSE "failed"]
  /\ disk' = IF ok THEN [disk EXCEPT ![rows[i].path] = rows[i].url] ELSE disk
  /\ jobs' = IF ok THEN jobs \cup {Due(rows[i].path)} ELSE jobs
  /\ Cardinality(jobs') <= MaxJobs
  /\ UNCHANGED <<index, policy, hook, asking, pages, items, archive, adds>>

\* A video is: the item at its position hears of it, and the video that item
\* names goes into the archive
FinishVideo(i, ok) ==
  /\ i \in DOMAIN rows /\ rows[i].st = "queued" /\ rows[i].at # 0
  /\ LET r == rows[i]
         to == IF ok THEN "completed" ELSE "failed"
         named == {v \in Contents : items[v].at = r.at}
     IN /\ rows' = [rows EXCEPT ![i].st = to]
        /\ disk' = IF ok THEN [disk EXCEPT ![r.path] = r.url] ELSE disk
        /\ \/ named = {} /\ UNCHANGED <<items, archive>>
           \/ \E v \in named :
                /\ items' = [items EXCEPT ![v].st = to]
                /\ archive' = IF ok THEN archive \cup {v} ELSE archive
  /\ UNCHANGED <<index, jobs, policy, hook, asking, pages, adds>>

\* The archiver names its file after the title of the page and the day
PagePaths == Paths

\* The archiver wrote a page or could not: the row that has the id now is told
Archived(p) ==
  /\ p \in pages /\ pages' = pages \ {p}
  /\ \/ /\ \E x \in PagePaths :
             /\ disk' = [disk EXCEPT ![x] = p.url]
             /\ rows' = [i \in DOMAIN rows |-> IF i # p.id THEN rows[i]
                          ELSE [rows[i] EXCEPT !.st = "completed", !.path = x]]
     \/ /\ rows' = [i \in DOMAIN rows |-> IF i # p.id THEN rows[i]
                       ELSE [rows[i] EXCEPT !.st = "failed"]]
        /\ UNCHANGED disk
  /\ UNCHANGED <<index, jobs, policy, hook, asking, items, archive, adds>>

\* A row is removed; its file and its entry in the index stay
RemoveDownload(i) ==
  /\ i \in DOMAIN rows
  /\ rows' = [k \in DOMAIN rows \ {i} |-> rows[k]]
  /\ UNCHANGED <<disk, index, jobs, policy, hook, asking, pages, items, archive, adds>>

-----------------------------------------------------------------------------
(* The index *)

\* A scan of the folder comes to a file the index did not list when it began
Scan(p) ==
  /\ disk[p] # 0
  /\ jobs' = jobs \cup {Due(p)} /\ Cardinality(jobs') <= MaxJobs
  /\ UNCHANGED <<rows, disk, index, policy, hook, asking, pages, items, archive, adds>>

\* A thread digests its file and looks the digest up
Digest(j) ==
  /\ j \in jobs /\ j.ph = "due" /\ policy # "off"
  /\ LET p == j.entry.path
         e == [path |-> p, content |-> disk[p]]
         looked == [ph |-> "looked", entry |-> e, found |-> ByDigest(disk[p]) # {}]
     IN jobs' = (jobs \ {j}) \cup IF disk[p] = 0 THEN {} ELSE {looked}
  /\ UNCHANGED <<rows, disk, index, policy, hook, asking, pages, items, archive, adds>>

\* It adds the digest it did not find
Index(j) ==
  /\ j \in jobs /\ j.ph = "looked" /\ jobs' = jobs \ {j}
  /\ index' = IF j.found THEN index ELSE index \cup {j.entry}
  /\ UNCHANGED <<rows, disk, policy, hook, asking, pages, items, archive, adds>>

LibraryNext ==
  \/ \E q \in Request : AddAttended(q)
  \/ \E q \in Request : AddUnattended(q)
  \/ \E q \in Request : AddPlaylist(q)
  \/ \E choice \in {"download", "skip", "fails"} : AnswerDialog(choice)
  \/ \E i \in 1 .. MaxId, ok \in BOOLEAN : FinishTask(i, ok)
  \/ \E i \in 1 .. MaxId, ok \in BOOLEAN : FinishVideo(i, ok)
  \/ \E p \in pages : Archived(p)
  \/ \E i \in 1 .. MaxId : RemoveDownload(i)
  \/ \E p \in Paths : Scan(p)
  \/ \E j \in jobs : Digest(j)
  \/ \E j \in jobs : Index(j)

LibrarySpec == LibraryInit /\ [][LibraryNext]_libVars

-----------------------------------------------------------------------------
\* An automated add (a capture, a forwarded command line, the remote control)
\* may find a question hung on the context that its own caller never set.  It
\* is there only while the dialog of an attended add is open underneath: once
\* that dialog is answered, or its add raises, nothing asks any more.
AskedOnlyUnderneath ==
  /\ hook => \E k \in DOMAIN asking : asking[k].set
  /\ \A k \in DOMAIN asking : asking[k].set => k = Len(asking)
=============================================================================
