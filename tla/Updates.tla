------------------------------- MODULE Updates -------------------------------
(***************************************************************************)
(* Updates: the check, the download to the temporary folder, and the       *)
(* installation.  On Windows a batch file swaps the installation once the  *)
(* process that launched it is gone, and starts the application again;     *)
(* elsewhere that process swaps it itself.                                 *)
(*                                                                         *)
(* The processes are those of AppProcess: closing the window is what lets  *)
(* the batch go on.  Versions are numbers; the application that runs at    *)
(* first is version 0.                                                     *)
(***************************************************************************)
EXTENDS AppProcess, Sequences

CONSTANTS
  Releases,      \* versions the manifest may name: 1..n
  MaxBatches,    \* bound: batch files launched
  MaxSwaps       \* attempts of the batch at the swap: 10 in the code

ASSUME UpdatesAssumption ==
  /\ 1 \in Launches
  /\ Releases \subseteq Nat \ {0} /\ MaxBatches \in Nat /\ MaxSwaps \in Nat \ {0}

VARIABLES
  windows,       \* the platform is
  offered,       \* _pending_update_info: the version on offer, 0 for none
  busy,          \* what the page waits for: "", "check" or "download"
  zip,           \* the file in the temporary folder: its version, and whether whole
  ready,         \* _downloaded_installer is set, and the Install button shown
  installed,     \* what the installation folder holds
  batches        \* the batch files at work

updVars == <<windows, offered, busy, zip, ready, installed, batches>>

Version == Releases \cup {0}
NoFile == [version |-> 0, whole |-> FALSE]
Content == [version : Version, whole : BOOLEAN]
\* A folder renamed, emptied or half copied
Broken == [version |-> 0, whole |-> FALSE]

UpdatesTypeOK ==
  /\ windows \in BOOLEAN /\ offered \in Version /\ busy \in {"", "check", "download"}
  /\ zip \in Content /\ ready \in BOOLEAN /\ installed \in Content
  /\ Len(batches) <= MaxBatches
  /\ \A b \in DOMAIN batches :
       batches[b] \in [by : Launches, st : {"waiting", "stopping", "swapping", "done", "failed"},
                       staged : Version, tries : 0 .. MaxSwaps]

-----------------------------------------------------------------------------
(* The settings page; p is the process it belongs to *)

\* Check Now: whatever was offered or downloaded before is forgotten
CheckForUpdates(p) ==
  /\ ph[p] = "open" /\ busy = ""
  /\ busy' = "check" /\ offered' = 0 /\ ready' = FALSE
  /\ UNCHANGED <<appVars, windows, zip, installed, batches>>

\* What comes of a manifest that names version v; 0 is one that names none, or that
\* cannot be had or read
CheckSync(v) == IF v > installed.version THEN v ELSE 0

\* The check is over
CheckDone(p, v) ==
  /\ ph[p] \in Looping /\ busy = "check" /\ busy' = ""
  /\ offered' = CheckSync(v)
  /\ UNCHANGED <<appVars, windows, zip, ready, installed, batches>>

\* Download, a second time too: the file is written over.  What was ready before
\* stays ready
DownloadUpdate(p) ==
  /\ ph[p] = "open" /\ busy = "" /\ offered # 0
  /\ busy' = "download"
  /\ zip' = [version |-> offered, whole |-> FALSE]
  /\ UNCHANGED <<appVars, windows, offered, ready, installed, batches>>

\* The file it leaves: all received and with the digest, or with another, which
\* removes it; a connection that broke leaves what came
DownloadSync(how) ==
  CASE how = "whole" -> [zip EXCEPT !.whole = TRUE]
    [] how = "other" -> NoFile
    [] OTHER -> zip

\* The download is over
DownloadDone(p, how) ==
  /\ ph[p] \in Looping /\ busy = "download" /\ busy' = ""
  /\ zip' = DownloadSync(how)
  /\ ready' = (ready \/ how = "whole")
  /\ UNCHANGED <<appVars, windows, offered, installed, batches>>

\* Only a whole archive can be unpacked; then the batch is launched, or the folders
\* are swapped here
Unpack(p) ==
  \/ ~zip.whole /\ UNCHANGED <<installed, batches>>
  \/ /\ zip.whole /\ windows /\ Len(batches) < MaxBatches
     /\ batches' = Append(batches, [by |-> p, st |-> "waiting",
                                    staged |-> zip.version, tries |-> 0])
     /\ UNCHANGED installed
  \/ /\ zip.whole /\ ~windows
     /\ installed' \in {zip, Broken, installed} /\ UNCHANGED batches

\* Install.  If it went well the window is closed 300 ms later; the user may press
\* Install again first, or close it
Install(p) ==
  /\ ph[p] = "open" /\ ready /\ visible[p]
  /\ IF zip.version = 0
     THEN ready' = FALSE /\ UNCHANGED <<installed, batches>>
     ELSE Unpack(p) /\ UNCHANGED ready
  /\ UNCHANGED <<appVars, windows, offered, busy, zip>>

-----------------------------------------------------------------------------
(* The batch file *)

\* A bug in Gone: an image of that name is looked for, not this process
NotLooked(p) == TRUE

\* Process p no longer runs
Gone(p) == ph[p] \notin Alive

Goes(b, to) == batches' = [batches EXCEPT ![b].st = to]

\* The process is gone; the helpers are stopped, whoever is running by now
WaitDone(b) ==
  /\ batches[b].st = "waiting" /\ Gone(batches[b].by) /\ Goes(b, "stopping")
  /\ UNCHANGED <<appVars, windows, offered, busy, zip, ready, installed>>

\* It is not after 90 seconds, and is killed
ForceKill(b) ==
  /\ batches[b].st = "waiting" /\ ~Gone(batches[b].by) /\ Kill(batches[b].by)
  /\ UNCHANGED updVars

\* Every process of that image name is killed: native hosts, and an application
\* the user has started again meanwhile
StopHelpers(b) ==
  /\ batches[b].st = "stopping"
  /\ IF \E p \in Launches : ~Gone(p) /\ ph[p] # "none"
     THEN (\E p \in Launches : Kill(p)) /\ UNCHANGED batches
     ELSE Goes(b, "swapping") /\ UNCHANGED appVars
  /\ UNCHANGED <<windows, offered, busy, zip, ready, installed>>

\* The old files are removed and the new ones copied, if nothing holds them: else
\* once more, and in the end what is there is left as it is
Swap(b) ==
  /\ batches[b].st = "swapping" /\ batches[b].tries < MaxSwaps
  /\ \/ /\ \A p \in Launches : Gone(p)
        /\ installed' = [version |-> batches[b].staged, whole |-> TRUE]
        /\ Goes(b, "done")
     \/ /\ installed' \in {Broken, installed}
        /\ batches' = [batches EXCEPT ![b].tries = @ + 1,
                                      ![b].st = IF batches[b].tries + 1 = MaxSwaps
                                                THEN "failed" ELSE "swapping"]
  /\ UNCHANGED <<appVars, windows, offered, busy, zip, ready>>

\* The application is started again, by the batch or by the user: a page of its
\* own.  A broken installation cannot be
StartAgain(p) ==
  /\ \A q \in Launches : q < p => Gone(q)
  /\ installed.whole /\ Launch(p, FALSE)
  /\ offered' = 0 /\ busy' = "" /\ ready' = FALSE
  /\ UNCHANGED <<windows, zip, installed, batches>>

-----------------------------------------------------------------------------
\* A process that runs, its window open; nobody is asked for a licence
UpdatesInit ==
  /\ windows \in BOOLEAN /\ offered = 0 /\ busy = "" /\ zip = NoFile /\ ready = FALSE
  /\ installed = [version |-> 0, whole |-> TRUE] /\ batches = <<>>

Running ==
  /\ licence = "off" /\ lock = 1 /\ server = 1 /\ stage = 0
  /\ ph = [p \in Launches |-> IF p = 1 THEN "open" ELSE "none"]
  /\ visible = [p \in Launches |-> p = 1]
  /\ where = [p \in Launches |-> [st |-> "none", at |-> 0]]

\* The other steps of a process
AppGoesOn(p) ==
  /\ \/ TryLock(p) \/ PassGate(p) \/ ShowWindow(p) \/ CloseWindow(p)
     \/ SeeClosed(p) \/ StopPart(p) \/ LoopEnds(p) \/ Unlock(p) \/ Exit(p)
  /\ UNCHANGED updVars

UpdatesNext ==
  \/ \E p \in Launches :
       \/ CheckForUpdates(p) \/ \E v \in Version : CheckDone(p, v)
       \/ DownloadUpdate(p) \/ \E how \in {"whole", "other", "broken"} : DownloadDone(p, how)
       \/ Install(p) \/ StartAgain(p) \/ AppGoesOn(p)
  \/ \E b \in DOMAIN batches : WaitDone(b) \/ ForceKill(b) \/ StopHelpers(b) \/ Swap(b)

UpdatesSpec == UpdatesInit /\ Running /\ [][UpdatesNext]_<<appVars, updVars>>

-----------------------------------------------------------------------------
\* A batch that goes on has seen the process that launched it end, by itself or
\* killed after its 90 seconds: what that process has to write while it goes down
\* (the torrents' resume data, the sidecars, the database) is not cut short by the
\* batch's next step, which kills every process of the name.
SwapAfterExit ==
  \A b \in DOMAIN batches :
    batches[b].st # "waiting" => ph[batches[b].by] \notin Alive
=============================================================================
