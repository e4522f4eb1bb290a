--------------------------- MODULE PauseController ---------------------------
(***************************************************************************)
(* The pause switch of the application (core/pause/manager.py): one toggle *)
(* for every download, with a timer that flips it back.  Its three values  *)
(* are settings and survive a restart.  Time is abstracted: a timer that   *)
(* is set may fire at any moment.                                          *)
(***************************************************************************)
EXTENDS Integers

CONSTANT Hours  \* the lengths the user may choose, 0 is no timer

ASSUME HoursAssumption == Hours \subseteq Nat /\ 0 \in Hours

VARIABLES
    enabled, \* pause.enabled
    hours,   \* pause.auto_resume_hours
    timer    \* pause.resume_at is set

pauseVars == <<enabled, hours, timer>>

PauseInit == enabled = FALSE /\ hours = 0 /\ timer = FALSE

(* pause() *)
SwitchOn == /\ enabled' = TRUE
            /\ timer' = (hours > 0)
            /\ UNCHANGED hours

(* resume() *)
SwitchOff == /\ enabled' = FALSE
             /\ timer' = FALSE
             /\ UNCHANGED hours

(* set_auto_resume_hours: a timer of a paused program is set anew, but not *)
(* cleared when the user chooses 0.                                        *)
SetHours(h) == /\ hours' = h
               /\ timer' = (enabled /\ (timer \/ h > 0))
               /\ UNCHANGED enabled

(* _check_resume, every 15 seconds.                                        *)
Tick == enabled /\ timer /\ SwitchOff

PauseTypeOK == enabled \in BOOLEAN /\ hours \in Hours /\ timer \in BOOLEAN

=============================================================================
