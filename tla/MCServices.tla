------------------------------ MODULE MCServices ------------------------------
(***************************************************************************)
(* The services around the downloads in one run: the library, the page of  *)
(* downloads, the torrent session, the YouTube dialogs, the speed test,    *)
(* the processes of the application and its updates, the settings and the  *)
(* dashboard, and the previews.  They share no state that is modelled,     *)
(* except that updates act on the processes; each behaviour exercises one  *)
(* of them and the others stand still.                                     *)
(***************************************************************************)
EXTENDS Library, DownloadsPage, TorrentSession, QualityDialog, SpeedTest, Updates,
        RemoteControl, Preview

VARIABLE part

\* The parts that stand still all start from one state of theirs
ServicesInit ==
  /\ part \in {"library", "page", "session", "dialog", "speed", "app", "updates",
              "remote", "preview"}
  /\ LibraryInit /\ (part = "library" \/ policy = "off")
  /\ PageInit
  /\ SessionInit /\ (part = "session" \/ \A t \in Torrents : hashOf[t] = 1)
  /\ QualityInit /\ (part = "dialog" \/ (kind = "playlist" /\ ~ffmpeg))
  /\ SpeedInit /\ (part = "speed" \/ ~wanted)
  /\ UpdatesInit /\ (part = "updates" \/ ~windows)
  /\ RemoteInit
  /\ PreviewInit /\ (part = "preview" \/ ~(video.unsupported \/ video.ffmpeg))
  /\ IF part = "updates" THEN Running ELSE AppInit /\ (part = "app" \/ licence = "off")

LibraryRuns ==
  /\ part = "library" /\ LibraryNext
  /\ UNCHANGED <<part, pageVars, sessVars, qdVars, speedVars, appVars, updVars, remVars, prevVars>>
PageRuns ==
  /\ part = "page" /\ PageNext
  /\ UNCHANGED <<part, libVars, sessVars, qdVars, speedVars, appVars, updVars, remVars, prevVars>>
SessionRuns ==
  /\ part = "session" /\ SessionNext
  /\ UNCHANGED <<part, libVars, pageVars, qdVars, speedVars, appVars, updVars, remVars, prevVars>>
DialogRuns ==
  /\ part = "dialog" /\ QualityNext
  /\ UNCHANGED <<part, libVars, pageVars, sessVars, speedVars, appVars, updVars, remVars, prevVars>>
SpeedRuns ==
  /\ part = "speed" /\ SpeedNext
  /\ UNCHANGED <<part, libVars, pageVars, sessVars, qdVars, appVars, updVars, remVars, prevVars>>
AppRuns ==
  /\ part = "app" /\ AppNext
  /\ UNCHANGED <<part, libVars, pageVars, sessVars, qdVars, speedVars, updVars, remVars, prevVars>>
UpdatesRuns ==
  /\ part = "updates" /\ UpdatesNext
  /\ UNCHANGED <<part, libVars, pageVars, sessVars, qdVars, speedVars, remVars, prevVars>>
RemoteRuns ==
  /\ part = "remote" /\ RemoteNext
  /\ UNCHANGED <<part, libVars, pageVars, sessVars, qdVars, speedVars, appVars, updVars, prevVars>>
PreviewRuns ==
  /\ part = "preview" /\ PreviewNext
  /\ UNCHANGED <<part, libVars, pageVars, sessVars, qdVars, speedVars, appVars, updVars, remVars>>
ServicesNext ==
  LibraryRuns \/ PageRuns \/ SessionRuns \/ DialogRuns \/ SpeedRuns \/ AppRuns \/ UpdatesRuns
  \/ RemoteRuns \/ PreviewRuns

ServicesSpec ==
  ServicesInit
  /\ [][ServicesNext]_<<part, libVars, pageVars, sessVars, qdVars, speedVars, appVars, updVars,
                       remVars, prevVars>>

\* Every variable of the part that moves has its type.
ServicesTypeOK ==
  CASE part = "library" -> LibraryTypeOK
    [] part = "page" -> PageTypeOK
    [] part = "session" -> SessionTypeOK
    [] part = "dialog" -> QualityTypeOK
    [] part = "speed" -> SpeedTypeOK
    [] part = "app" -> AppTypeOK
    [] part = "updates" -> AppTypeOK /\ UpdatesTypeOK
    [] part = "remote" -> RemoteTypeOK
    [] part = "preview" -> PreviewTypeOK
=============================================================================
