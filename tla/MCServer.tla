------------------------------ MODULE MCServer ------------------------------
EXTENDS Server

\* Clients differ only by what they do.
Symmetric == Permutations(Requests)
=============================================================================
