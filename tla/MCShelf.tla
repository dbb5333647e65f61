------------------------------- MODULE MCShelf -------------------------------
(***************************************************************************)
(* Small instances of Shelf for TLC.                                       *)
(***************************************************************************)
EXTENDS Shelf, TLC

CONSTANTS u1, u2, i1, i2, meta, bare, huge, unread, read, latin, garbled

FileRow(i, m, d) == [isbn |-> i, meta |-> m, details |-> d]

\* One row to import, one that is unusable.
OneFile == {[rows |-> <<FileRow(i1, meta, read)>>, unusable |-> 1]}

\* Two rows of the same ISBN, one of another that has a year beyond int4, one
\* with notes in another encoding than UTF-8, one unusable row; an empty file.
MixedFiles ==
    {[rows |-> <<FileRow(i1, meta, read), FileRow(i2, huge, unread),
                 FileRow(i1, meta, unread), FileRow(i2, meta, latin)>>,
      unusable |-> 1],
     [rows |-> <<>>, unusable |-> 2]}

Symmetry ==
    Permutations(Users) \cup Permutations(EntryIds)
        \cup Permutations(Faulty) \cup Permutations(Requests \ Faulty)

=============================================================================
