----------------------------- MODULE CaptureQueue -----------------------------
(***************************************************************************)
(* Captures and player clicks that the hosts write to the database and the *)
(* application's CaptureWatcher takes up.  The watcher polls with two      *)
(* timers of the same GUI thread and skips a poll when the database files  *)
(* have not changed since that timer looked; each keeps its own stamp.     *)
(* Dialogs run an event loop of their own inside a tick, so the other      *)
(* timer, and an opened Detected page, may poll again meanwhile.           *)
(***************************************************************************)
EXTENDS Naturals, Sequences, FiniteSets

CONSTANTS
  Urls,          \* addresses the extensions capture
  MaxRows,       \* rows of pending_captures in a behaviour
  MaxRequests    \* rows of player clicks and navigations in a behaviour

ASSUME CaptureAssumption ==
  IsFiniteSet(Urls) /\ MaxRows \in Nat \ {0} /\ MaxRequests \in Nat

Watchers == {"poll", "player"}
NoUrl == 0
NoCapture == 0

VARIABLES
  cap,        \* pending_captures: the address and status of every row
  hostRead,   \* an address a host found no pending row for, about to be added
  requests,   \* browser_requests for the GUI: type and whether claimed
  skipAll,    \* the setting browser.skip_all_until lies in the future
  unseen,     \* watchers that have not looked since the last write
  tick,       \* the ticks on the GUI thread's stack, the innermost last
  dialogOpen, \* _dialog_open
  parked,     \* captures written to browser_detections by "Skip all"
  decided     \* captures the user decided on in a dialog

capVars == <<cap, hostRead, requests, skipAll, unseen, tick, dialogOpen, parked, decided>>

Rows == DOMAIN cap
PendingRows == {c \in Rows : cap[c].st = "pending"}
Row(u, st) == [url |-> u, st |-> st]
Waiting(type) == {q \in DOMAIN requests : requests[q] = [type |-> type, claimed |-> FALSE]}
Oldest(S) == CHOOSE c \in S : \A d \in S : c <= d

\* Every committed write changes the files both timers look at.
Written == unseen' = Watchers
SharedStamp(w) == unseen' = {}
Looked(w) == unseen' = unseen \ {w}

CapturesInit ==
  /\ cap = <<>> /\ hostRead = NoUrl /\ requests = <<>>
  /\ skipAll \in BOOLEAN
  /\ unseen = Watchers
  /\ tick = <<>> /\ dialogOpen = FALSE
  /\ parked = {} /\ decided = {}

-----------------------------------------------------------------------------
(* The hosts: separate processes, one for each browser. *)

Sources == {"context_menu", "page_scan", "extension"}
Messages == [source : Sources, media : BOOLEAN, inline : BOOLEAN,
             youtube : BOOLEAN, reachable : BOOLEAN]
Settings == [capture : BOOLEAN, default : BOOLEAN, confirm : BOOLEAN]

\* What _capture does with a message, in the order it asks.
Intercepted(m, s) == m.source = "extension" /\ s.default
OutOfScope(m, s) ==
  m.source = "extension" /\ ~s.default /\ (~s.capture \/ ~m.media)
ProbeFails(m, s) ==
  m.source = "extension" /\ ~m.inline /\ ~Intercepted(m, s) /\ ~m.reachable
AsksFirst(m, s) ==
  m.source = "page_scan" \/ m.youtube \/ (s.confirm /\ ~Intercepted(m, s))

Route(m, s, skipping) ==
  IF OutOfScope(m, s) THEN "left to the browser"
  ELSE IF skipping THEN "rejected"
  ELSE IF m.source = "context_menu" THEN "pending"
  ELSE IF ProbeFails(m, s) THEN "error"
  ELSE IF AsksFirst(m, s) THEN "pending"
  ELSE "started"

Routes == [skipping \in BOOLEAN |->
  {Route(m, s, skipping) : m \in Messages, s \in Settings}]
Arrives(route) == route \in Routes[skipAll]

\* A capture under "Skip all" is recorded as rejected (_skip_capture).
CaptureSkipped(u) ==
  /\ Arrives("rejected")
  /\ Len(cap) < MaxRows
  /\ cap' = Append(cap, Row(u, "rejected"))
  /\ decided' = decided \cup {Len(cap) + 1}
  /\ Written
  /\ UNCHANGED <<hostRead, requests, skipAll, tick, dialogOpen, parked>>

\* _enqueue_pending_capture looks for a pending row of the address ...
CaptureReads(u) ==
  /\ Arrives("pending")
  /\ hostRead = NoUrl
  /\ ~\E c \in PendingRows : cap[c].url = u
  /\ hostRead' = u
  /\ UNCHANGED <<cap, requests, skipAll, unseen, tick, dialogOpen, parked, decided>>

\* ... and adds one; the application and other hosts run in between.
CaptureAdded ==
  /\ hostRead # NoUrl
  /\ hostRead' = NoUrl
  /\ IF Len(cap) < MaxRows
     THEN /\ cap' = Append(cap, Row(hostRead, "pending"))
          /\ Written
     ELSE UNCHANGED <<cap, unseen>>
  /\ UNCHANGED <<requests, skipAll, tick, dialogOpen, parked, decided>>

\* The default downloader starts a capture in the host's own process and only
\* writes the download (_start_immediately).
CaptureStarted ==
  /\ Arrives("started")
  /\ Written
  /\ UNCHANGED <<cap, hostRead, requests, skipAll, tick, dialogOpen, parked, decided>>

\* "Archive this page" too: the host's own download manager archives it (_archive).
PageArchived ==
  /\ Written
  /\ UNCHANGED <<cap, hostRead, requests, skipAll, tick, dialogOpen, parked, decided>>

\* A stream's player button: the start and the navigation are two commits
\* (_queue_player_download); "open detected" adds the navigation alone.
PlayerClicked ==
  /\ Len(requests) < MaxRequests
  /\ \E type \in {"player_download", "navigate"} :
       requests' = Append(requests, [type |-> type, claimed |-> FALSE])
  /\ Written
  /\ UNCHANGED <<cap, hostRead, skipAll, tick, dialogOpen, parked, decided>>

-----------------------------------------------------------------------------
(* The GUI thread.  Qt does not fire a timer again inside its own slot, but *)
(* it fires the other one inside a dialog, and a click on a notification    *)
(* opens the Detected page, which polls.                                    *)

Idle == [by |-> "nobody", at |-> "idle", c |-> NoCapture]
Top == IF tick = <<>> THEN Idle ELSE tick[Len(tick)]
Becomes(at, c) == tick' = [tick EXCEPT ![Len(tick)] = [@ EXCEPT !.at = at, !.c = c]]
Ends == tick' = SubSeq(tick, 1, Len(tick) - 1)
OnStack(w) == \E i \in DOMAIN tick : tick[i].by = w

\* The thread handles events: idle, or inside a dialog of the tick on top.
Responsive == Top.at \in {"idle", "dialog", "quality"}

Enters(w, by) ==
  /\ Responsive /\ w \in unseen
  /\ Looked(w)
  /\ tick' = Append(tick, [by |-> by, at |-> w, c |-> NoCapture])
  /\ UNCHANGED <<cap, hostRead, requests, skipAll, dialogOpen, parked, decided>>

TimerTicks(w) == ~OnStack(w) /\ Enters(w, w)
OpensDetected == ~OnStack("page") /\ Enters("poll", "page")

\* _handle_navigation claims one request in a tick.
Claim(type) ==
  IF Waiting(type) = {} THEN UNCHANGED <<requests, unseen>>
  ELSE /\ requests' = [requests EXCEPT ![Oldest(Waiting(type))].claimed = TRUE]
       /\ Written

Navigates ==
  /\ Top.at = "poll"
  /\ Claim("navigate")
  /\ IF ~dialogOpen THEN Becomes("captures", NoCapture) ELSE Ends
  /\ UNCHANGED <<cap, hostRead, skipAll, dialogOpen, parked, decided>>

\* _handle_player_downloads starts one stream, after its quality dialog if
\* it needs one.
PlayerStarts ==
  /\ Top.at = "player"
  /\ Claim("player_download")
  /\ Becomes("quality", NoCapture) \/ Ends
  /\ UNCHANGED <<cap, hostRead, skipAll, dialogOpen, parked, decided>>

\* _handle_captures: rows older than ten minutes expire, "Skip all" rejects
\* what is pending, and the oldest row gets its dialog.
Expirable(S) == [c \in Rows |-> IF c \in S THEN Row(cap[c].url, "expired") ELSE cap[c]]

ExpireStale ==
  /\ Top.at = "captures"
  /\ \E S \in SUBSET PendingRows :
       /\ S # {} /\ cap' = Expirable(S)
       /\ decided' = decided \cup S
  /\ Written
  /\ UNCHANGED <<hostRead, requests, skipAll, tick, dialogOpen, parked>>

RejectsAll(S) == [c \in Rows |-> IF c \in S THEN Row(cap[c].url, "rejected") ELSE cap[c]]

ShowsCapture ==
  /\ Top.at = "captures"
  /\ \/ /\ PendingRows # {} /\ skipAll
        /\ cap' = RejectsAll(PendingRows)
        /\ decided' = decided \cup PendingRows
        /\ Written /\ Ends
        /\ UNCHANGED dialogOpen
     \/ /\ PendingRows # {} /\ ~skipAll
        /\ dialogOpen' = TRUE
        /\ Becomes("dialog", Oldest(PendingRows))
        /\ UNCHANGED <<cap, unseen, decided>>
     \/ /\ PendingRows = {}
        /\ Ends
        /\ UNCHANGED <<cap, unseen, dialogOpen, decided>>
  /\ UNCHANGED <<hostRead, requests, skipAll, parked>>

\* The dialog closes: skip, download (with a quality dialog if the address
\* needs one), or park everything.  The flag falls before the decision is
\* carried out.
Resolve(c, st) ==
  /\ cap' = [cap EXCEPT ![c].st = st]
  /\ decided' = decided \cup {c}
  /\ IF cap[c].st = st THEN UNCHANGED unseen ELSE Written

DialogCloses ==
  /\ Top.at = "dialog"
  /\ dialogOpen' = FALSE
  /\ \/ \E st \in {"rejected", "approved", "expired"} : Resolve(Top.c, st) /\ Ends
     \/ Becomes("quality", Top.c) /\ UNCHANGED <<cap, unseen, decided>>
     \/ Becomes("park", NoCapture) /\ UNCHANGED <<cap, unseen, decided>>
  /\ UNCHANGED <<hostRead, requests, skipAll, parked>>

QualityCloses ==
  /\ Top.at = "quality"
  /\ IF Top.c = NoCapture THEN UNCHANGED <<cap, unseen, decided>>
     ELSE \E st \in {"rejected", "approved"} : Resolve(Top.c, st)
  /\ Ends
  /\ UNCHANGED <<hostRead, requests, skipAll, dialogOpen, parked>>

\* "Skip all" in the dialog: every pending row is written to the page
\* detections, and then the rows pending by now are rejected.
ParkOldest == parked \cup {c \in PendingRows : \A d \in PendingRows : c <= d}
ParkAll == parked \cup PendingRows

Parks ==
  /\ Top.at = "park"
  /\ parked' = ParkAll
  /\ IF PendingRows = {} THEN UNCHANGED unseen ELSE Written
  /\ tick' = [tick EXCEPT ![Len(tick)] = [@ EXCEPT !.at = "reject", !.c = Len(cap)]]
  /\ UNCHANGED <<cap, hostRead, requests, skipAll, dialogOpen, decided>>

ParkRejects ==
  /\ Top.at = "reject"
  /\ cap' = RejectsAll(PendingRows)
  /\ IF PendingRows = {} THEN UNCHANGED unseen ELSE Written
  /\ Ends
  /\ UNCHANGED <<hostRead, requests, skipAll, dialogOpen, parked, decided>>

\* The setting is switched in the browser page, or its hour passes.
SkipAllSwitched ==
  /\ Responsive
  /\ skipAll' = ~skipAll
  /\ Written
  /\ UNCHANGED <<cap, hostRead, requests, tick, dialogOpen, parked, decided>>

CapturesNext ==
  \/ \E u \in Urls : CaptureSkipped(u) \/ CaptureReads(u)
  \/ CaptureAdded \/ CaptureStarted \/ PageArchived \/ PlayerClicked
  \/ \E w \in Watchers : TimerTicks(w)
  \/ OpensDetected \/ Navigates \/ PlayerStarts
  \/ ExpireStale \/ ShowsCapture \/ DialogCloses \/ QualityCloses
  \/ Parks \/ ParkRejects \/ SkipAllSwitched

-----------------------------------------------------------------------------
CapturesTypeOK ==
  /\ cap \in Seq([url : Urls, st : {"pending", "approved", "rejected", "expired"}])
  /\ hostRead \in Urls \cup {NoUrl}
  /\ requests \in Seq([type : {"player_download", "navigate"}, claimed : BOOLEAN])
  /\ unseen \in SUBSET Watchers
  /\ tick \in Seq([by : Watchers \cup {"page"},
                   at : {"poll", "player", "captures", "dialog", "quality", "park", "reject"},
                   c : 0..MaxRows])
  /\ parked \in SUBSET (1..MaxRows) /\ decided \in SUBSET (1..MaxRows)

\* No row waits unnoticed: while a request or a pending capture waits, the
\* timer that takes it up has a change it has not looked at, or a tick on the
\* stack will look at the row or write when its dialog closes.  A stamp that
\* the two timers shared, or a change consumed while a dialog is up and never
\* written after, would leave the row until somebody happens to write
\* (_db_unchanged, poll, _handle_player_downloads).
WillLook(at) == \E i \in DOMAIN tick : tick[i].at = at
WillWrite ==
  \E i \in DOMAIN tick : \/ tick[i].at \in {"dialog", "park", "reject"}
                         \/ tick[i].at = "quality" /\ tick[i].c # NoCapture
NobodyOverlooked ==
  /\ Waiting("player_download") # {} => "player" \in unseen \/ WillLook("player")
  /\ Waiting("navigate") # {} => "poll" \in unseen \/ WillLook("poll")
  /\ PendingRows # {} =>
       "poll" \in unseen \/ WillLook("poll") \/ WillLook("captures") \/ WillWrite

\* A capture the user was not asked about is rejected only after it was parked
\* on the Detected page, or if a host added it while "Skip all" was at work
\* between its read and its rejection (_park_all_pending_as_detections).
ParkedOrDecided ==
  [][\A c \in PendingRows :
       cap'[c].st = "rejected" =>
         \/ c \in decided' \/ c \in parked
         \/ c > Top.c]_capVars
=============================================================================
