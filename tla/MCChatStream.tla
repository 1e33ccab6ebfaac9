----------------------------- MODULE MCChatStream -----------------------------
(***************************************************************************)
(* Small instances of ChatStream for TLC.                                  *)
(***************************************************************************)
EXTENDS ChatStream, TLC
===============================================================================
