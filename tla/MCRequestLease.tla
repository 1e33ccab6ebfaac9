---------------------------- MODULE MCRequestLease ----------------------------
(***************************************************************************)
(* Small instances of RequestLease for TLC.                                *)
(***************************************************************************)
EXTENDS RequestLease, TLC

CONSTANTS a1, a2

AnyOrFirst == {NoAccount, a1}
===============================================================================
