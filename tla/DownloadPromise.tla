-------------------------- MODULE DownloadPromise --------------------------
(***************************************************************************)
(* What one download promises to the rest of the program: the states that  *)
(* its task reports (DownloadTask.result_state and the state it posts), in *)
(* the order they may follow one another, and what each says of the file.  *)
(* Nothing here knows of segments, workers or sidecars.                    *)
(***************************************************************************)

VARIABLES
    status, \* the reported state, "idle" when no task runs
    file    \* what the final path holds

vars == <<status, file>>

Files == {"absent", "partial", "whole", "damaged"}

(* From every state but completed a new attempt may begin, and a transfer  *)
(* that falls back to one connection may connect again.                    *)
Follows ==
    [idle                |-> {"connecting"},
     failed              |-> {"connecting"},
     stopped             |-> {"connecting"},
     verification_failed |-> {"connecting"},
     completed           |-> {},
     connecting  |-> {"paused", "downloading", "failed", "idle"},
     downloading |-> {"paused", "verifying", "completed", "failed", "stopped",
                      "connecting", "idle"},
     paused      |-> {"downloading", "verifying", "completed", "failed",
                      "stopped", "connecting", "idle"},
     verifying   |-> {"completed", "verification_failed", "idle"}]

Init == status = "idle" /\ file = "absent"

(* A report never contradicts the file: completed means whole, a failed    *)
(* verification means that it is not.                                      *)
Report ==
    /\ status' \in Follows[status]
    /\ file' \in Files
    /\ status' = "completed" => file' = "whole"
    /\ status' = "verification_failed" => file' = "damaged"
    /\ file = "whole" => file' = "whole"

(* The file is written while a task is at work on it, and a file that was  *)
(* once whole is never damaged.                                            *)
Write ==
    /\ status \in {"downloading", "paused"}
    /\ file' \in Files
    /\ file = "whole" => file' = "whole"
    /\ UNCHANGED status

Next == Report \/ Write
Spec == Init /\ [][Next]_vars
=============================================================================
