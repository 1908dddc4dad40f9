--------------------------- MODULE MCFileIndexing ---------------------------
(* A small instance of FileIndexing for TLC. *)
EXTENDS FileIndexing, TLC

CONSTANTS j1, j2

\* A batch with a record that JSON cannot hold, and a last batch of one.
Sample == <<"i", "a", "u", "b", "x">>
Kinds == [i |-> "invalid", a |-> "good", u |-> "unencodable", b |-> "good", x |-> "deleted"]

Symmetry == Permutations(Job)
=============================================================================
