--------------------------- MODULE MCPagedEngine ---------------------------
EXTENDS PagedEngine

\* Sequences differ only by the requests they carry.
Symmetric == Permutations(Seqs)
=============================================================================
