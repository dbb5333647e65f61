----------------------------- MODULE MCBackends -----------------------------
(***************************************************************************)
(* A small instance of Backends for TLC: two accounts, one of which may    *)
(* stand in the other's way, a seed book and one that is none, a work with *)
(* a number beyond int4 and details with a garbled text.                   *)
(***************************************************************************)
EXTENDS Backends, TLC

Symmetry == Permutations(Ids) \cup Permutations(Emails) \cup Permutations(Isbns \ Seeds)
=============================================================================
