------------------------------ MODULE AppProcess ------------------------------
(***************************************************************************)
(* The processes of the application: the lock that lets one of them run,   *)
(* what the others forward to it, the licence gate, the window, and the    *)
(* order in which a process goes down.                                     *)
(*                                                                         *)
(* A process that finds the lock taken hands the magnet link, the torrent  *)
(* file or the command it was started with to the server of the name they  *)
(* share, and ends.  The server belongs to the last process that listened: *)
(* listening removes the server there was.                                 *)
(***************************************************************************)
EXTENDS Integers, FiniteSets

CONSTANT Launches      \* the processes, in the order they are started: 1..n

ASSUME AppAssumption == Launches \subseteq Nat \ {0}

VARIABLES
  ph,            \* how far each process has come
  stage,         \* parts that take time stopped by the one that goes down
  visible,       \* its window is
  lock,          \* the process that holds the single-instance lock, 0 for none
  server,        \* the process whose server has the shared name, 0 for none
  where,         \* what each process was started with: how far it got, and where
  licence        \* what the gate finds: "off", "trial", "serial" or "over"

appVars == <<ph, stage, visible, lock, server, where, licence>>

\* remote control, torrent client and manager: the others stop at once
Awaited == 3

Gated == {"trial", "trying", "enter", "retry", "checking", "accepted"}
Looping == {"splash", "open", "closing"}
Windowed == Looping \cup {"stopped"}
Alive == {"building", "refused", "passed"} \cup Gated \cup Windowed

AppTypeOK ==
  /\ ph \in [Launches -> Alive \cup {"none", "turned", "done"}]
  /\ stage \in 0 .. Awaited
  /\ visible \in [Launches -> BOOLEAN]
  /\ lock \in Launches \cup {0} /\ server \in Launches \cup {0}
  /\ \A p \in Launches : where[p].st \in {"none", "argv", "sent", "timed", "opened"}
                         /\ where[p].at \in Launches \cup {0}
  /\ licence \in {"off", "trial", "serial", "over"}

Moves(p, to) == ph' = [ph EXCEPT ![p] = to]

-----------------------------------------------------------------------------
(* Starting *)

\* A bug in Listens: the server is up before the lock is had
ListensAtOnce(p, at) == p

\* Who hears what is sent to the shared name from now on, once p is ready for it
Listens(p, at) == IF at = "window" THEN p ELSE server

\* Somebody starts the application, with something to open or without
Launch(p, given) ==
  /\ ph[p] = "none" /\ \A q \in Launches : q < p => ph[q] # "none"
  /\ Moves(p, "building")
  /\ where' = [where EXCEPT ![p] = [st |-> IF given THEN "argv" ELSE "none", at |-> 0]]
  /\ UNCHANGED <<stage, visible, lock, server, licence>>

\* The context is built, by the second process too; then the lock is tried
TryLock(p) ==
  /\ ph[p] = "building"
  /\ IF lock = 0 THEN lock' = p /\ Moves(p, "passed")
                 ELSE Moves(p, "refused") /\ UNCHANGED lock
  /\ server' = Listens(p, "start")
  /\ UNCHANGED <<stage, visible, where, licence>>

\* A server is reached as long as its process lives, whether it still listens to
\* its sockets or not: what is written there counts as delivered
Reached == server # 0 /\ ph[server] \in Alive

\* Instead of running: what was given is forwarded, or the user is told
Forward(p) ==
  /\ ph[p] = "refused" /\ Moves(p, "turned")
  /\ IF where[p].st = "argv" /\ Reached
     THEN where' = [where EXCEPT ![p] = [st |-> "sent", at |-> server]]
     ELSE UNCHANGED where
  /\ UNCHANGED <<stage, visible, lock, server, licence>>

-----------------------------------------------------------------------------
(* The licence gate *)

\* A stored serial is validated even during the trial; the trial needs none
Gate(p) ==
  /\ ph[p] = "passed" /\ licence # "off"
  /\ Moves(p, CASE licence = "serial" -> "checking"
                [] licence = "trial" -> "trial"
                [] OTHER -> "enter")
  /\ UNCHANGED <<stage, visible, lock, server, where, licence>>

\* The trial's last day passes
TrialEnds ==
  /\ licence = "trial" /\ licence' = "over"
  /\ UNCHANGED <<ph, stage, visible, lock, server, where>>

\* A serial is entered, or tried again
Submit(p) ==
  /\ ph[p] \in {"trial", "enter", "retry"} /\ (ph[p] = "trial" => licence # "serial")
  /\ Moves(p, IF ph[p] = "trial" THEN "trying" ELSE "checking")
  /\ UNCHANGED <<stage, visible, lock, server, where, licence>>

\* The licence server has answered.  Without a network the field stays closed,
\* for a serial just entered too
Answered(p, how) ==
  /\ ph[p] \in {"checking", "trying"}
  /\ Moves(p, IF ph[p] = "trying" THEN "trial"
              ELSE CASE how = "valid" -> "accepted"
                     [] how = "network" -> "retry"
                     [] OTHER -> "enter")
  /\ licence' = IF how = "valid" THEN "serial" ELSE licence
  /\ UNCHANGED <<stage, visible, lock, server, where>>

\* Quit, also while the server is asked: the process ends
QuitGate(p) ==
  /\ ph[p] \in {"enter", "retry", "checking", "accepted"}
  /\ Moves(p, "turned") /\ lock' = 0
  /\ UNCHANGED <<stage, visible, server, where, licence>>

\* The gate is passed, or was never there: the window is built and listens
PassGate(p) ==
  /\ \/ ph[p] \in {"accepted", "trial", "trying"}
     \/ ph[p] = "passed" /\ licence = "off"
  /\ Moves(p, "splash")
  /\ server' = Listens(p, "window")
  /\ UNCHANGED <<stage, visible, lock, where, licence>>

-----------------------------------------------------------------------------
(* Running *)

\* The splash screen has been up for its least time
ShowWindow(p) ==
  /\ ph[p] = "splash" /\ Moves(p, "open")
  /\ visible' = [visible EXCEPT ![p] = TRUE]
  /\ where' = IF where[p].st = "argv" THEN [where EXCEPT ![p] = [st |-> "timed", at |-> p]]
              ELSE where
  /\ UNCHANGED <<stage, lock, server, licence>>

\* The server's slot takes every connection that waits; each is opened later
TakeConnections(p) ==
  /\ ph[p] \in Looping
  /\ \E q \in Launches : where[q] = [st |-> "sent", at |-> p]
  /\ where' = [q \in Launches |-> IF where[q] = [st |-> "sent", at |-> p]
                                  THEN [st |-> "timed", at |-> p] ELSE where[q]]
  /\ UNCHANGED <<ph, stage, visible, lock, server, licence>>

\* A timer of 100 or 500 ms fires: the window is shown, whatever became of it
OpenPayload(p, q) ==
  /\ ph[p] \in Looping /\ where[q] = [st |-> "timed", at |-> p]
  /\ where' = [where EXCEPT ![q].st = "opened"]
  /\ visible' = [visible EXCEPT ![p] = TRUE]
  /\ UNCHANGED <<ph, stage, lock, server, licence>>

\* The window is opened from the tray
OpenFromTray(p) ==
  /\ ph[p] \in Looping /\ ~visible[p] /\ ph[p] # "splash"
  /\ visible' = [visible EXCEPT ![p] = TRUE]
  /\ UNCHANGED <<ph, stage, lock, server, where, licence>>

\* It is closed, by the user or by an installation
CloseWindow(p) ==
  /\ ph[p] \in {"open", "closing"} /\ visible[p]
  /\ visible' = [visible EXCEPT ![p] = FALSE]
  /\ UNCHANGED <<ph, stage, lock, server, where, licence>>

-----------------------------------------------------------------------------
(* Going down *)

\* The run loop looks at the window every 50 ms.  A window that was shown again
\* in between goes on, without the capture watcher its closing stopped
SeeClosed(p) ==
  /\ ph[p] = "open" /\ ~visible[p]
  /\ Moves(p, "closing") /\ stage' = 0
  /\ UNCHANGED <<visible, lock, server, where, licence>>

\* The next part that takes time is stopped, failing or not: the remote control,
\* the torrent client, the manager.  The rest, the database last, follows at once
StopPart(p) ==
  /\ ph[p] = "closing" /\ stage < Awaited
  /\ stage' = stage + 1
  /\ ph' = IF stage' = Awaited THEN [ph EXCEPT ![p] = "stopped"] ELSE ph
  /\ UNCHANGED <<visible, lock, server, where, licence>>

\* Qt ends the loop of an application whose last window is closed: whether the
\* run loop has looked by then, or is in the middle of stopping, is up to it
LoopEnds(p) ==
  /\ ph[p] \in {"open", "closing"} /\ ~visible[p]
  /\ Moves(p, "stopped")
  /\ UNCHANGED <<stage, visible, lock, server, where, licence>>

\* The lock is released, then the process ends; its server goes with it
Unlock(p) ==
  /\ ph[p] = "stopped" /\ lock = p /\ lock' = 0
  /\ UNCHANGED <<ph, stage, visible, server, where, licence>>

Exit(p) ==
  /\ ph[p] = "stopped" /\ lock # p /\ Moves(p, "done")
  /\ visible' = [visible EXCEPT ![p] = FALSE]
  /\ UNCHANGED <<stage, lock, server, where, licence>>

\* It is killed: a lock whose process is gone is stale and can be had
Kill(p) ==
  /\ ph[p] \in Alive /\ Moves(p, IF ph[p] \in Windowed THEN "done" ELSE "turned")
  /\ visible' = [visible EXCEPT ![p] = FALSE]
  /\ lock' = IF lock = p THEN 0 ELSE lock
  /\ UNCHANGED <<stage, server, where, licence>>

AppInit ==
  /\ ph = [p \in Launches |-> "none"] /\ stage = 0
  /\ visible = [p \in Launches |-> FALSE]
  /\ lock = 0 /\ server = 0
  /\ where = [p \in Launches |-> [st |-> "none", at |-> 0]]
  /\ licence \in {"off", "trial", "serial", "over"}

AppStep(p) ==
  \/ \E given \in BOOLEAN : Launch(p, given)
  \/ TryLock(p) \/ Forward(p)
  \/ Gate(p) \/ Submit(p) \/ QuitGate(p) \/ PassGate(p)
  \/ \E how \in {"valid", "network", "refused"} : Answered(p, how)
  \/ ShowWindow(p) \/ TakeConnections(p) \/ OpenFromTray(p) \/ CloseWindow(p)
  \/ \E q \in Launches : OpenPayload(p, q)
  \/ SeeClosed(p) \/ StopPart(p) \/ LoopEnds(p) \/ Unlock(p) \/ Exit(p) \/ Kill(p)

AppNext == TrialEnds \/ \E p \in Launches : AppStep(p)

AppSpec == AppInit /\ [][AppNext]_appVars

-----------------------------------------------------------------------------
\* What a second process reported as delivered has been opened, or is with a
\* process that got as far as its window, whether it runs or goes down.  It never
\* went to a process that was turned away itself, or to one that has yet to pass
\* the gate and may never listen.
DeliveredToWindow ==
  \A p \in Launches : where[p].st \in {"sent", "timed"} =>
    ph[where[p].at] \in Windowed \cup {"done"}
=============================================================================
