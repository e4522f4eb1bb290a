------------------------------- MODULE Preview -------------------------------
(***************************************************************************)
(* The preview of a downloaded video.  A dialog asks ffprobe for the codec *)
(* in a thread; a codec Qt has no decoder for, or no frame after 2.5       *)
(* seconds, and ffmpeg makes a small proxy in another thread, in a cache   *)
(* the next dialogs of that file look in first.                            *)
(*                                                                         *)
(* Dialogs are modal, one is on the screen at a time.  Leaving one by its  *)
(* Close button or Escape only hides it: the close event, which stops its  *)
(* player, timer and threads, comes with the window's own button alone.    *)
(* One file is previewed, and it does not change.                          *)
(***************************************************************************)
EXTENDS Naturals

CONSTANTS
  Dialogs,      \* dialogs at a time, those hidden or closed and still busy included
  Encoders      \* encoders this ffmpeg has, tried in turn

ASSUME PreviewAssumption == Dialogs # {} /\ Encoders \in Nat \ {0}

VARIABLES
  video,        \* whether the probe names the codec unsupported, and whether there
                \* is an ffmpeg
  proxy,        \* the file in the cache: none (or empty), in part, whole, or mixed
                \* by two that wrote it together
  dlg,          \* the dialogs
  abandoned     \* a dialog or a process was left with a transcode not ended, or to come

prevVars == <<video, proxy, dlg, abandoned>>

Video == [unsupported : BOOLEAN, ffmpeg : BOOLEAN]
Verdicts == {"playable", "unsupported"}
Dialog ==
  [st : {"none", "shown", "hidden", "closing", "closed"},
   src : {"source", "proxy"}, playing : BOOLEAN, frames : BOOLEAN,
   timer : BOOLEAN, tried : BOOLEAN,          \* _proxy_timer, _proxy_tried
   probing : BOOLEAN,                         \* the thread of the codec check
   work : {"none", "starting", "writing"},    \* the thread of the transcode
   encoder : 1 .. Encoders,
   cancel : SUBSET {"check", "transcode"},    \* the threads asked to stop
   posted : SUBSET (Verdicts \cup {"ready", "failed"})]   \* signals not yet handled

NoDialog ==
  [st |-> "none", src |-> "source", playing |-> FALSE, frames |-> FALSE, timer |-> FALSE,
   tried |-> FALSE, probing |-> FALSE, work |-> "none", encoder |-> 1, cancel |-> {},
   posted |-> {}]

PreviewTypeOK ==
  /\ video \in Video /\ proxy \in {"none", "part", "whole", "mixed"}
  /\ dlg \in [Dialogs -> Dialog] /\ abandoned \in BOOLEAN

-----------------------------------------------------------------------------
(* Handlers, in the thread of the windows: it stands still while a close event *)
(* waits for the threads                                                       *)

GuiFree == \A d \in Dialogs : dlg[d].st # "closing"
Becomes(d, r) == dlg' = [dlg EXCEPT ![d] = r]

\* Any file that is not empty
Cached == proxy # "none"
UseProxy(r) == [r EXCEPT !.src = "proxy", !.playing = TRUE]

\* Nothing of the dialog is at work, or will be
AtRest(r) ==
  /\ ~r.timer /\ ~r.probing /\ r.work = "none"
  /\ "unsupported" \in r.posted => r.tried \/ r.frames

\* A dialog is made and shown; one that is no longer at work is forgotten
Open(d) ==
  /\ \A e \in Dialogs : dlg[e].st \notin {"shown", "closing"}
  /\ dlg[d].st = "none" \/ (AtRest(dlg[d]) /\ dlg[d].posted = {})
  /\ LET new == [NoDialog EXCEPT !.st = "shown"]
     IN Becomes(d, IF Cached THEN UseProxy(new)
                   ELSE [new EXCEPT !.probing = TRUE, !.timer = TRUE])
  /\ UNCHANGED <<video, proxy, abandoned>>

\* Once, and not if a frame was seen: the file in the cache, or a transcode, or
\* word that there is no ffmpeg
Build(r) ==
  LET once == [r EXCEPT !.tried = TRUE, !.timer = FALSE] IN
  IF r.frames \/ r.tried THEN r
  ELSE IF Cached THEN UseProxy(once)
  ELSE IF video.ffmpeg
       THEN [once EXCEPT !.work = "starting", !.cancel = @ \ {"transcode"}]
       ELSE once

Watchdog(d) ==
  /\ GuiFree /\ dlg[d].timer
  /\ Becomes(d, Build([dlg[d] EXCEPT !.timer = FALSE]))
  /\ UNCHANGED <<video, proxy, abandoned>>

\* A signal is handled, the dialog shown, hidden or closed; the player plays
\* whatever source it has
HearSignal(d, s) ==
  /\ GuiFree /\ s \in dlg[d].posted
  /\ LET r == [dlg[d] EXCEPT !.posted = @ \ {s}]
     IN Becomes(d, CASE s = "unsupported" -> Build(r)
                     [] s = "playable" -> [r EXCEPT !.playing = TRUE]
                     [] s = "ready" -> UseProxy(r)
                     [] s = "failed" -> r)
  /\ UNCHANGED <<video, proxy, abandoned>>

\* A frame comes, of a codec Qt can decode; Play, Pause and Stop only change when
FrameShown(d) ==
  /\ dlg[d].playing /\ ~dlg[d].frames
  /\ dlg[d].src = "proxy" => Cached
  /\ Becomes(d, [dlg[d] EXCEPT !.frames = TRUE])
  /\ UNCHANGED <<video, proxy, abandoned>>

\* The Close button, or Escape
Hide(d) ==
  /\ dlg[d].st = "shown" /\ Becomes(d, [dlg[d] EXCEPT !.st = "hidden"])
  /\ abandoned' = (abandoned \/ ~AtRest(dlg[d]))
  /\ UNCHANGED <<video, proxy>>

\* The window's own button: the close event stops the player and the timer and
\* asks the threads to stop
CloseEvent(d) ==
  /\ dlg[d].st = "shown"
  /\ Becomes(d, [dlg[d] EXCEPT !.st = "closing", !.playing = FALSE, !.timer = FALSE,
                               !.cancel = {"check", "transcode"}])
  /\ UNCHANGED <<video, proxy, abandoned>>

\* They have ended, or three seconds were waited for each
CloseDone(d) ==
  /\ dlg[d].st = "closing" /\ Becomes(d, [dlg[d] EXCEPT !.st = "closed"])
  /\ abandoned' = (abandoned \/ ~AtRest(dlg[d]))
  /\ UNCHANGED <<video, proxy>>

-----------------------------------------------------------------------------
(* The threads *)

\* The codec, or that it could not be had, which lets the player try.  A check that
\* was cancelled says nothing, unless it failed
ProbeDone(d) ==
  /\ dlg[d].probing
  /\ \E s \in {{"playable"}, IF "check" \in dlg[d].cancel THEN {}
                             ELSE {IF video.unsupported THEN "unsupported" ELSE "playable"}} :
       Becomes(d, [dlg[d] EXCEPT !.probing = FALSE, !.posted = @ \cup s])
  /\ UNCHANGED <<video, proxy, abandoned>>

\* ffmpeg writes the file in the cache itself, over what is there
StartEncoder(d) ==
  /\ dlg[d].work = "starting" /\ Becomes(d, [dlg[d] EXCEPT !.work = "writing"])
  /\ proxy' = IF \E e \in Dialogs \ {d} : dlg[e].work = "writing" THEN "mixed" ELSE "part"
  /\ UNCHANGED <<video, abandoned>>

\* It ends well, and there is a file
Encoded(d) ==
  /\ dlg[d].work = "writing" /\ proxy # "none"
  /\ proxy' = IF proxy = "part" THEN "whole" ELSE proxy
  /\ Becomes(d, [dlg[d] EXCEPT !.work = "none",
                               !.posted = IF "transcode" \in dlg[d].cancel THEN @
                                          ELSE @ \cup {"ready"}])
  /\ UNCHANGED <<video, abandoned>>

\* A bug in Remains: an encoder that fails leaves what it wrote
LeftThere == proxy
\* What a transcode that failed or was cancelled leaves in the cache
Remains == "none"

\* It fails, or is killed when its progress is next read after a cancel
EncoderFails(d) ==
  /\ dlg[d].work # "none" /\ proxy' = Remains
  /\ Becomes(d,
       IF "transcode" \in dlg[d].cancel THEN [dlg[d] EXCEPT !.work = "none"]
       ELSE IF dlg[d].encoder < Encoders
            THEN [dlg[d] EXCEPT !.work = "starting", !.encoder = @ + 1]
            ELSE [dlg[d] EXCEPT !.work = "none", !.posted = @ \cup {"failed"}])
  /\ UNCHANGED <<video, abandoned>>

\* The process ends, and is started again
Restart ==
  /\ dlg' = [d \in Dialogs |-> NoDialog]
  /\ abandoned' = (abandoned \/ \E d \in Dialogs : dlg[d].work # "none")
  /\ UNCHANGED <<video, proxy>>

-----------------------------------------------------------------------------
PreviewInit ==
  /\ video \in Video /\ proxy = "none" /\ abandoned = FALSE
  /\ dlg = [d \in Dialogs |-> NoDialog]

PreviewNext ==
  \/ \E d \in Dialogs :
       \/ Open(d) \/ Watchdog(d) \/ FrameShown(d) \/ Hide(d) \/ CloseEvent(d) \/ CloseDone(d)
       \/ \E s \in Verdicts \cup {"ready", "failed"} : HearSignal(d, s)
       \/ ProbeDone(d) \/ StartEncoder(d) \/ Encoded(d) \/ EncoderFails(d)
  \/ Restart

PreviewSpec == PreviewInit /\ [][PreviewNext]_prevVars

-----------------------------------------------------------------------------
\* The cache says nothing of what it holds but that it is not empty.  Still, as long
\* as no dialog and no process was left before its transcode had ended, the proxy a
\* dialog plays is whole, whichever encoder failed before, and whether a dialog
\* that was closed made it.
ProxyPlayedWhole ==
  ~abandoned => \A d \in Dialogs : dlg[d].src = "proxy" => proxy = "whole"
=============================================================================
