------------------------------ MODULE MCApprovals ------------------------------
(* Instances of Approvals for TLC; the values are in the .cfg files.          *)
EXTENDS Approvals
=============================================================================
