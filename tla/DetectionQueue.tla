---------------------------- MODULE DetectionQueue ----------------------------
(***************************************************************************)
(* Detected files between the extension and the Detected page.  The        *)
(* extension keeps them in a queue, hands a batch over when the user opens *)
(* a category and forgets what the host accepted.  The host merges the     *)
(* batch into the page's row of browser_detections; the application takes  *)
(* files off that row when the user removes or downloads them and tells    *)
(* the extension through browser_requests.  Host and application are two   *)
(* processes that each read the row, change the list and write it back.    *)
(***************************************************************************)
EXTENDS Naturals, Sequences, FiniteSets

CONSTANTS
  Files,     \* addresses a page offers
  MaxAcks    \* acknowledgements in a behaviour

ASSUME DetectionAssumption == IsFiniteSet(Files) /\ MaxAcks \in Nat

VARIABLES
  found,     \* files detected so far that the user has not dealt with, but for
             \* those lost in a window of the code, see DetectionsKept
  queue,     \* the extension's queue, in storage.local
  batch,     \* the batch being synced
  sync,      \* "idle", "sent", "merging", "stored", "refused" or "failed"
  mergeRead, \* the row as the host read it
  page,      \* files_json of the page's row; the empty set is no row
  shown,     \* the files the Detected page lists, as it last read the row
  removing,  \* files the application is taking off, and the row as it read it
  click,     \* a click on a player's button: its file and how far the host is
  wanted,    \* streams whose click the host left to the application to start
  acks       \* detections_handled requests not yet pushed to the extension

detVars == <<found, queue, batch, sync, mergeRead, page, shown, removing, click,
             wanted, acks>>

clickVars == <<shown, click, wanted>>
detVarsButClick ==
  <<found, queue, batch, sync, mergeRead, page, removing, acks>>

NotRemoving == [files |-> {}, read |-> {}, by |-> "nobody"]
NoClick == [files |-> {}, st |-> "none"]

DetectionsInit ==
  /\ found = {} /\ queue = {} /\ batch = {} /\ sync = "idle"
  /\ mergeRead = {} /\ page = {} /\ shown = {} /\ removing = NotRemoving
  /\ click = NoClick /\ wanted = {}
  /\ acks = <<>>

\* QUEUE.add: a file already queued is merged into its entry.
Detect(f) ==
  /\ found' = found \cup {f}
  /\ queue' = queue \cup {f}
  /\ UNCHANGED <<batch, sync, mergeRead, page, removing, acks, clickVars>>

\* The tab moves to another page: what was queued belongs to the old one
\* (resetForPage).
LeavesPage ==
  /\ queue # {}
  /\ queue' = {}
  /\ found' = found \cap page
  /\ UNCHANGED <<batch, sync, mergeRead, page, removing, acks, clickVars>>

-----------------------------------------------------------------------------
\* The user opens a category: one batch is in flight at a time (QUEUE.sync).
SyncStarts ==
  /\ sync = "idle"
  /\ \E B \in SUBSET queue \ {{}} : batch' = B
  /\ sync' = "sent"
  /\ UNCHANGED <<found, queue, mergeRead, page, removing, acks, clickVars>>

\* _detection_sync refuses while the integration is off; merge_files reads
\* the row of the page.  The user may switch the integration at any time.
MergeReads ==
  /\ sync = "sent" /\ click.st # "merging"
  /\ \/ sync' = "refused" /\ UNCHANGED mergeRead
     \/ sync' = "merging" /\ mergeRead' = page
  /\ UNCHANGED <<found, queue, batch, page, removing, acks, clickVars>>

OnlyNew(B) == B
Merged(B) == mergeRead \cup B
\* The row as it was read has been deleted since
RowGone == mergeRead # {} /\ page = {}

\* The merge writes the list it built from what it read.  Files the
\* application took off in between come back; the update of a row that has
\* gone raises, which the extension hears as an error.
MergeWrites ==
  /\ sync = "merging"
  /\ IF RowGone THEN sync' = "failed" /\ UNCHANGED page
                ELSE sync' = "stored" /\ page' = Merged(batch)
  /\ mergeRead' = {}
  /\ UNCHANGED <<found, queue, batch, removing, acks, clickVars>>

\* dropDelivered forgets the batch.
Drops(B) == queue \ B

\* sendDetectionsToApp takes every answer but an "error" for acceptance, a
\* refusal too.
SyncAccepted ==
  /\ sync \in {"stored", "refused"}
  /\ queue' = Drops(batch)
  /\ found' = found \ (batch \ page)
  /\ sync' = "idle" /\ batch' = {}
  /\ UNCHANGED <<mergeRead, page, removing, acks, clickVars>>

\* An error, or a port that closes before or after the host merged: the
\* batch stays in the queue and is sent again.
SyncFails ==
  /\ sync \in {"sent", "stored", "refused", "failed"}
  /\ sync' = "idle" /\ batch' = {}
  /\ UNCHANGED <<found, queue, mergeRead, page, removing, acks, clickVars>>

-----------------------------------------------------------------------------
\* The user clicks the button on a player whose file is queued; the message goes to
\* the host, which handles one message at a time.
ClickButton(f) ==
  /\ click = NoClick /\ f \in queue
  /\ click' = [files |-> {f}, st |-> "sent"]
  /\ UNCHANGED <<detVarsButClick, shown, wanted>>

\* _download_detection stores the file on its page, whatever comes of it ...
ClickReads ==
  /\ click.st = "sent" /\ sync # "merging"
  /\ \/ click' = [click EXCEPT !.st = "refused"] /\ UNCHANGED mergeRead
     \/ click' = [click EXCEPT !.st = "merging"] /\ mergeRead' = page
  /\ UNCHANGED <<found, queue, batch, sync, page, removing, acks, shown, wanted>>

\* ... a failure to store it is passed over ... and skips it under "Skip all",
\* has the application ask for a quality or start the stream, or starts it itself.
Ways == {"skipped", "asked", "queued", "started"}
ClickWrites(way) ==
  /\ click.st = "merging"
  /\ page' = IF RowGone THEN page ELSE Merged(click.files)
  /\ click' = [click EXCEPT !.st = IF way = "skipped" THEN "refused" ELSE "accepted"]
  /\ wanted' = IF way = "queued" THEN wanted \cup click.files ELSE wanted
  /\ mergeRead' = {}
  /\ UNCHANGED <<found, queue, batch, sync, removing, acks, shown>>

\* A click that was accepted takes the file off the queue.
ClickAnswered ==
  /\ click.st \in {"accepted", "refused"}
  /\ LET done == IF click.st = "accepted" THEN click.files ELSE {}
     IN queue' = queue \ done /\ found' = found \ done
  /\ click' = NoClick
  /\ UNCHANGED <<batch, sync, mergeRead, page, removing, acks, shown, wanted>>

\* The port closes: the file stays queued, though it may be downloading.
ClickLost ==
  /\ click.st \notin {"none", "merging"}
  /\ click' = NoClick
  /\ UNCHANGED <<detVarsButClick, shown, wanted>>

-----------------------------------------------------------------------------
\* The page is opened, or another category chosen.  The host's merges are not told
\* to it: it lists what it read last.
RefreshPage ==
  /\ removing = NotRemoving
  /\ shown' = page
  /\ UNCHANGED <<detVarsButClick, click, wanted>>

\* The acknowledgement is queued first, then the row is read ...
TakeOff(F, by) ==
  /\ removing = NotRemoving /\ Len(acks) < MaxAcks
  /\ acks' = Append(acks, F)
  /\ removing' = [files |-> F, read |-> page, by |-> by]
  /\ found' = found \ F
  /\ UNCHANGED <<queue, batch, sync, mergeRead, page, shown, click>>

\* The user removes or downloads files the page lists (_remove_selected,
\* _download_selected).
TakeShown == (\E F \in SUBSET shown \ {{}} : TakeOff(F, "user")) /\ UNCHANGED wanted

\* The watcher starts a stream a click asked for, listed or not.
StartWanted(f) ==
  /\ f \in wanted /\ wanted' = wanted \ {f}
  /\ TakeOff({f}, "watcher")

\* It cannot be started, or its quality dialog is cancelled: the page keeps it.
WantedCancelled(f) ==
  /\ f \in wanted /\ wanted' = wanted \ {f}
  /\ UNCHANGED <<detVarsButClick, shown, click>>

\* ... and written back without them, over what the host merged in between, unless
\* it had none of them.  The user's page is then read again.
TakenOff == removing.read \ removing.files

RemoveWrites ==
  /\ removing # NotRemoving
  /\ page' = IF TakenOff = removing.read THEN page ELSE TakenOff
  /\ found' = found \ ((page \ page') \ queue)
  /\ shown' = IF removing.by = "user" THEN page' ELSE shown
  /\ removing' = NotRemoving
  /\ UNCHANGED <<queue, batch, sync, mergeRead, acks, click, wanted>>

\* The host pushes the oldest acknowledgement; the extension drops the files
\* from its queue, although they may have been detected again since.
AckArrives ==
  /\ acks # <<>>
  /\ queue' = queue \ Head(acks)
  /\ found' = found \ ((queue \cap Head(acks)) \ page)
  /\ acks' = Tail(acks)
  /\ UNCHANGED <<batch, sync, mergeRead, page, removing, clickVars>>

\* The browser closed after the host claimed the row.
AckLost ==
  /\ acks # <<>>
  /\ acks' = Tail(acks)
  /\ UNCHANGED <<found, queue, batch, sync, mergeRead, page, removing, clickVars>>

DetectionsNext ==
  \/ \E f \in Files : Detect(f)
  \/ LeavesPage
  \/ SyncStarts \/ MergeReads \/ MergeWrites \/ SyncAccepted \/ SyncFails
  \/ \E f \in Files : ClickButton(f) \/ StartWanted(f) \/ WantedCancelled(f)
  \/ \E way \in Ways : ClickWrites(way)
  \/ ClickReads \/ ClickAnswered \/ ClickLost
  \/ RefreshPage \/ TakeShown \/ RemoveWrites \/ AckArrives \/ AckLost

-----------------------------------------------------------------------------
DetectionsTypeOK ==
  /\ found \in SUBSET Files /\ queue \in SUBSET Files /\ batch \in SUBSET Files
  /\ sync \in {"idle", "sent", "merging", "stored", "refused", "failed"}
  /\ mergeRead \in SUBSET Files /\ page \in SUBSET Files
  /\ removing \in [files : SUBSET Files, read : SUBSET Files, by : {"user", "watcher", "nobody"}]
  /\ click \in [files : SUBSET Files, st : {"none", "sent", "merging", "accepted", "refused"}]
  /\ shown \in SUBSET Files /\ wanted \in SUBSET Files
  /\ acks \in Seq(SUBSET Files)

\* A detected file stays in the extension's queue or on the Detected page until
\* the user removes it, downloads it or leaves its page.  There are three windows
\* in which it vanishes, and no other: an answer drops a batch that is not on the
\* page (the host refused it, or the user removed it and it was found again before
\* the answer); a removal overwrites a merge that came between its read and its
\* write, or takes off a file found again meanwhile; an acknowledgement drops a
\* file detected again (queue.js dropDelivered, background.js
\* sendDetectionsToApp, merge_files).
DetectionsKept == found \subseteq queue \cup page
=============================================================================
