-------------------------- MODULE MCMemorySessions --------------------------
\* Instances of MemorySessions for TLC.
EXTENDS MemorySessions, TLC

\* Clients and tokens are interchangeable.
Symmetry == Permutations(Client) \cup Permutations(Token)
=============================================================================
