---- MODULE SessionIds ----
(***************************************************************************)
(* SessionId: createInstance() numbers sessions from 1 and never reuses a  *)
(* number, so a connection is named by the session it becomes.             *)
(***************************************************************************)
CONSTANTS
  Sessions,   \* connections that may be made
  NoSession   \* not a session

ASSUME NoSessionAssumption == NoSession \notin Sessions

====
