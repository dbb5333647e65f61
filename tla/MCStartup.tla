------------------------------ MODULE MCStartup ------------------------------
(***************************************************************************)
(* Small instances of Startup for TLC: a rolling deploy of one old and one *)
(* new version, and a machine without a database.                          *)
(***************************************************************************)
EXTENDS Startup

CONSTANTS old, new, local

Deploy == [m \in Machines |-> IF m = old THEN 1 ELSE IF m = new THEN 3 ELSE 2]
=============================================================================
