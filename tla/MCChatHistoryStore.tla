-------------------------- MODULE MCChatHistoryStore --------------------------
(***************************************************************************)
(* Small instances of ChatHistoryStore for TLC.                            *)
(***************************************************************************)
EXTENDS ChatHistoryStore, TLC

IdSymmetry == Permutations(Ids) \cup Permutations(Sessions)
===============================================================================
