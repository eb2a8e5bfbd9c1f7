---------------------------- MODULE MCRequestPath ----------------------------
(***************************************************************************)
(* Small instances of RequestPath for TLC.                                  *)
(***************************************************************************)
EXTENDS RequestPath

CONSTANTS q1, q2, b1, b2, b3

\* A pool that a change empties, and pools that a request walks.
OneOrTwo == [http |-> {<<b1>>, <<b1, b2>>}, lambda |-> {<<b1, b2>>}]
=============================================================================
