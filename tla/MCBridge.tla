------------------------------- MODULE MCBridge -------------------------------
(***************************************************************************)
(* The three parts of the browser bridge in one run.  They share a         *)
(* database and no state, so each behaviour exercises one of them and the  *)
(* others stand still.                                                     *)
(***************************************************************************)
EXTENDS BrowserRequests, CaptureQueue, DetectionQueue

VARIABLE part

BridgeInit ==
  /\ part \in {"requests", "captures", "detections"}
  /\ RequestsInit /\ CapturesInit /\ DetectionsInit
  /\ part = "captures" \/ skipAll = FALSE

InRequests == part = "requests" /\ RequestsNext /\ UNCHANGED <<part, capVars, detVars>>
InCaptures == part = "captures" /\ CapturesNext /\ UNCHANGED <<part, reqVars, detVars>>
InDetections == part = "detections" /\ DetectionsNext /\ UNCHANGED <<part, reqVars, capVars>>
BridgeNext == InRequests \/ InCaptures \/ InDetections

BridgeSpec == BridgeInit /\ [][BridgeNext]_<<part, reqVars, capVars, detVars>>

\* Every variable of the three parts has its type.
BridgeTypeOK == RequestsTypeOK /\ CapturesTypeOK /\ DetectionsTypeOK
=============================================================================
