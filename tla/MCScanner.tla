------------------------------ MODULE MCScanner ------------------------------
(***************************************************************************)
(* A small instance of Scanner for TLC: a book the lookup finds and one it *)
(* does not.                                                               *)
(***************************************************************************)
EXTENDS Scanner, TLC

CONSTANTS known, unknown
=============================================================================
