---------------------------- MODULE MCChatSessions ----------------------------
(* Instances of ChatSessions for TLC; the values are in the .cfg files.       *)
EXTENDS ChatSessions, TLC

Symmetry == Permutations(Sessions)
=============================================================================
