---------------------------- MODULE QualityDialog ----------------------------
(***************************************************************************)
(* The dialog that offers the resolutions of a YouTube video, the dialog   *)
(* that offers the videos of a playlist, and the controllers under them.   *)
(*                                                                         *)
(* A controller runs one extraction at a time, on a thread of its own.     *)
(* The thread's last signal is queued to the GUI thread; the slot there    *)
(* ends and joins the thread before it tells the dialog, so that a retry   *)
(* finds no thread running.                                                *)
(*                                                                         *)
(* A video's formats are reduced to the heights there is a file with sound *)
(* for, the heights there is a picture without sound for, and whether      *)
(* there is sound alone.  Height 0 stands for the best available.          *)
(***************************************************************************)
EXTENDS Integers, Sequences, Functions, FiniteSetsExt

CONSTANTS
  Heights,       \* the heights formats come in: 1..n
  Videos,        \* the videos a playlist may hold
  MaxTries       \* bound: extractions started

ASSUME QualityAssumption == Heights \subseteq Nat \ {0} /\ MaxTries \in Nat \ {0}

VARIABLES
  kind,          \* "quality" or "playlist": which dialog
  ffmpeg,        \* ffmpeg_available of the dialog
  threads,       \* the threads started, in their order
  ctl,           \* _thread of the controller: its number, 0 for None
  signals,       \* last signals on their way to the GUI thread
  view,          \* what the dialog shows
  probe,         \* what it was told last
  result         \* how it ended, if it did

qdVars == <<kind, ffmpeg, threads, ctl, signals, view, probe, result>>

Info == [single : SUBSET Heights, mute : SUBSET Heights, sound : BOOLEAN,
         videos : SUBSET Videos]
Nothing == [single |-> {}, mute |-> {}, sound |-> FALSE, videos |-> {}]
Choice == [st : {"open", "aborted", "taken"}, limit : Heights \cup {0},
           merge : BOOLEAN, videos : SUBSET Videos]
Undecided == [st |-> "open", limit |-> 0, merge |-> FALSE, videos |-> {}]

QualityTypeOK ==
  /\ kind \in {"quality", "playlist"} /\ ffmpeg \in BOOLEAN
  /\ Len(threads) <= MaxTries
  /\ \A t \in DOMAIN threads :
       threads[t] \in [ph : {"first", "again", "listing", "told", "ended"},
                       cancel : BOOLEAN, quit : BOOLEAN, merges : BOOLEAN]
  /\ ctl \in 0 .. Len(threads)
  /\ \A k \in DOMAIN signals : signals[k].of \in DOMAIN threads
                               /\ signals[k].what \in {"ready", "failed", "cancelled"}
                               /\ signals[k].info \in Info
  /\ view \in {"scanning", "ready", "error", "blank"}
  /\ probe.info \in Info /\ probe.merges \in BOOLEAN
  /\ result \in Choice

-----------------------------------------------------------------------------
(* The formats *)

\* A height is offered if one file has it, or if picture and sound can be merged
Offered(info, merges) ==
  {h \in info.single \cup info.mute : h \in info.single \/ (merges /\ info.sound)}

\* Best Available is an option unless there is no picture at all; it is None then
HasBest(info) == info.single \cup info.mute # {}

\* What an option asks yt-dlp for: at most that height, merged or in one file
Option(info, h, merges) ==
  [limit |-> h,
   merge |-> merges /\ info.sound /\ (h # 0 \/ info.mute # {})]

\* The option of that height, else the highest below it, else the best there is
Select(info, h, merges) ==
  LET lower == {k \in Offered(info, merges) : k < h} IN
  IF h = 0 \/ h \in Offered(info, merges) THEN Option(info, h, merges)
  ELSE Option(info, IF lower # {} THEN Max(lower) ELSE 0, merges)

-----------------------------------------------------------------------------
(* The controller *)

\* The thread a controller, of a playlist too, starts
Reader(merges) == [ph |-> "first", cancel |-> FALSE, quit |-> FALSE, merges |-> merges]

IsRunning == ctl # 0 /\ threads[ctl].ph # "ended"

\* A new thread, unless one runs: the dialog does not look at what it is told
Extract(merges) ==
  IF IsRunning
  THEN UNCHANGED <<threads, ctl>>
  ELSE /\ Len(threads) < MaxTries
       /\ threads' = Append(threads, Reader(merges))
       /\ ctl' = Len(threads')

\* A bug in FinishThread: the thread is told to quit, and neither waited for nor
\* forgotten
TellThread(cancelled) ==
  /\ threads' = IF ctl = 0 THEN threads ELSE [threads EXCEPT ![ctl].quit = TRUE]
  /\ UNCHANGED ctl

\* The thread is told to quit, waited for and forgotten.  One that has spoken is
\* done; one that still fetches is left behind after three seconds
FinishThread(cancelled) ==
  /\ threads' = IF ctl = 0 THEN threads
                ELSE [threads EXCEPT ![ctl].quit = TRUE,
                                     ![ctl].cancel = @ \/ cancelled,
                                     ![ctl].ph = IF @ = "told" THEN "ended" ELSE @]
  /\ ctl' = 0

-----------------------------------------------------------------------------
(* A thread *)

\* Its last signal, after which its event loop waits for quit
Tells(t, what, info) ==
  /\ threads' = [threads EXCEPT ![t].ph = "told"]
  /\ signals' = Append(signals, [of |-> t, what |-> what, info |-> info])
  /\ UNCHANGED <<kind, ffmpeg, ctl, view, probe, result>>

\* yt-dlp knows the video; the first entry of what turns out a playlist
ReadVideo(t, info) ==
  /\ kind = "quality" /\ threads[t].ph \in {"first", "again"} /\ info.videos = {}
  /\ Tells(t, "ready", info)

\* A bot wall: once more with the cookies of the capture or of a browser
TryAgain(t) ==
  /\ kind = "quality" /\ threads[t].ph = "first"
  /\ threads' = [threads EXCEPT ![t].ph = "again"]
  /\ UNCHANGED <<kind, ffmpeg, ctl, signals, view, probe, result>>

\* The playlist has been fetched: its entries are next
FetchPlaylist(t) ==
  /\ kind = "playlist" /\ threads[t].ph = "first" /\ ~threads[t].cancel
  /\ threads' = [threads EXCEPT ![t].ph = "listing"]
  /\ UNCHANGED <<kind, ffmpeg, ctl, signals, view, probe, result>>

\* The entries that have an id, each once; none at all is a failure
ListVideos(t, info) ==
  /\ kind = "playlist" /\ threads[t].ph = "listing" /\ ~threads[t].cancel
  /\ info \in {[Nothing EXCEPT !.videos = vs] : vs \in SUBSET Videos \ {{}}}
  /\ Tells(t, "ready", info)

Fail(t) ==
  /\ threads[t].ph \in {"first", "again", "listing"}
  /\ Tells(t, "failed", Nothing)

\* The flag is looked at before the fetch, after it and before each entry
StopListing(t) ==
  /\ kind = "playlist" /\ threads[t].ph \in {"first", "listing"} /\ threads[t].cancel
  /\ Tells(t, "cancelled", Nothing)

\* The event loop of a thread that was told to quit ends
EndThread(t) ==
  /\ threads[t].ph = "told" /\ threads[t].quit
  /\ threads' = [threads EXCEPT ![t].ph = "ended"]
  /\ UNCHANGED <<kind, ffmpeg, ctl, signals, view, probe, result>>

-----------------------------------------------------------------------------
(* The dialog *)

\* What it shows on a result: a card for None fails halfway, and what was shown
\* before stays, with nothing to press but Cancel
Presents(info) == IF kind = "quality" /\ ~HasBest(info) THEN "blank" ELSE "ready"

\* The controller's slot for the last signal of a thread, and the dialog's after it
HandleSignal ==
  /\ signals # <<>> /\ signals' = Tail(signals)
  /\ FinishThread(FALSE)
  /\ LET s == Head(signals) IN
     CASE s.what = "ready" ->
            /\ probe' = [info |-> s.info, merges |-> threads[s.of].merges]
            /\ view' = Presents(s.info)
            /\ UNCHANGED result
       [] s.what = "failed" -> view' = "error" /\ UNCHANGED <<probe, result>>
       [] OTHER -> /\ result' = IF result.st = "open" THEN [result EXCEPT !.st = "aborted"]
                                ELSE result
                   /\ UNCHANGED <<probe, view>>
  /\ UNCHANGED <<kind, ffmpeg>>

\* Try again
Retry ==
  /\ result.st = "open" /\ view = "error"
  /\ view' = "scanning" /\ Extract(ffmpeg)
  /\ UNCHANGED <<kind, ffmpeg, signals, probe, result>>

\* ffmpeg is located: its path is saved and the formats are read again
LocateFfmpeg ==
  /\ result.st = "open" /\ kind = "quality" /\ view = "ready" /\ ~ffmpeg
  /\ ffmpeg' = TRUE /\ view' = "scanning" /\ Extract(TRUE)
  /\ UNCHANGED <<kind, signals, probe, result>>

\* Download: one of the options
Accept(h) ==
  /\ result.st = "open" /\ kind = "quality" /\ view = "ready"
  /\ h = 0 \/ h \in Offered(probe.info, probe.merges)
  /\ LET o == Select(probe.info, h, ffmpeg) IN
     result' = [result EXCEPT !.st = "taken", !.limit = o.limit, !.merge = o.merge]
  /\ UNCHANGED <<kind, ffmpeg, threads, ctl, signals, view, probe>>

\* Download selected: at first everything not in the archive is checked
AcceptVideos(vs) ==
  /\ result.st = "open" /\ kind = "playlist" /\ view = "ready"
  /\ vs # {} /\ vs \subseteq probe.info.videos
  /\ result' = [result EXCEPT !.st = "taken", !.videos = vs]
  /\ UNCHANGED <<kind, ffmpeg, threads, ctl, signals, view, probe>>

\* Cancel and Escape.  The controller of a video's extraction has no cancel: while
\* it runs the call raises and the dialog stays
Reject ==
  /\ result.st = "open" /\ (kind = "playlist" \/ ~IsRunning)
  /\ threads' = IF IsRunning THEN [threads EXCEPT ![ctl].cancel = TRUE] ELSE threads
  /\ result' = [result EXCEPT !.st = "aborted"]
  /\ UNCHANGED <<kind, ffmpeg, ctl, signals, view, probe>>

\* The window is closed: the thread is cancelled and joined, except where cancel
\* raises, which leaves the thread alone and closes the window all the same
Close ==
  /\ result.st = "open"
  /\ IF kind = "quality" /\ IsRunning
     THEN UNCHANGED <<threads, ctl>>
     ELSE FinishThread(TRUE)
  /\ result' = [result EXCEPT !.st = "aborted"]
  /\ UNCHANGED <<kind, ffmpeg, signals, view, probe>>

\* Opening a dialog starts its first extraction
QualityInit ==
  /\ kind \in {"quality", "playlist"} /\ ffmpeg \in BOOLEAN
  /\ threads = <<Reader(ffmpeg)>>
  /\ ctl = 1 /\ signals = <<>> /\ view = "scanning"
  /\ probe = [info |-> Nothing, merges |-> FALSE]
  /\ result = Undecided

QualityNext ==
  \/ \E t \in DOMAIN threads : \E info \in Info : ReadVideo(t, info)
  \/ \E t \in DOMAIN threads : TryAgain(t)
  \/ \E t \in DOMAIN threads : FetchPlaylist(t)
  \/ \E t \in DOMAIN threads : \E info \in Info : ListVideos(t, info)
  \/ \E t \in DOMAIN threads : Fail(t)
  \/ \E t \in DOMAIN threads : StopListing(t)
  \/ \E t \in DOMAIN threads : EndThread(t)
  \/ HandleSignal
  \/ Retry
  \/ LocateFfmpeg
  \/ \E h \in Heights \cup {0} : Accept(h)
  \/ \E vs \in SUBSET Videos : AcceptVideos(vs)
  \/ Reject
  \/ Close

QualitySpec == QualityInit /\ [][QualityNext]_qdVars

-----------------------------------------------------------------------------
\* A dialog that shows "reading..." has a thread that reads, or its answer on the
\* way: a retry is never refused because the thread before it is not quite gone,
\* which would leave a dialog that waits for nobody.
ScanHasReader ==
  result.st = "open" /\ view = "scanning" =>
    \/ ctl # 0 /\ threads[ctl].ph \in {"first", "again", "listing"}
    \/ signals # <<>>
=============================================================================
