------------------------------ MODULE MCEngine ------------------------------
EXTENDS LLMEngine

\* Sequences differ only by the requests they carry.
Symmetric == Permutations(Seqs)
=============================================================================
