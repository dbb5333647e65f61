------------------------------ MODULE MCSession ------------------------------
(***************************************************************************)
(* Small instances of Session for TLC.                                     *)
(***************************************************************************)
EXTENDS Session, TLC

Symmetry ==
    Permutations(Users)
        \cup Permutations(Reuse) \cup Permutations(Grants \ Reuse)
        \cup Permutations(Faulty) \cup Permutations(Requests \ Faulty)
=============================================================================
