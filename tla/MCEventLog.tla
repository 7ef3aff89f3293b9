------------------------------- MODULE MCEventLog -------------------------------
(* The instance of EventLog for TLC; the values are in the .cfg files.         *)
EXTENDS EventLog
=============================================================================
