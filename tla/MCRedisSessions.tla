--------------------------- MODULE MCRedisSessions ---------------------------
\* Instances of RedisSessions for TLC.
EXTENDS RedisSessions, TLC

\* Clients and tokens are interchangeable.
Symmetry == Permutations(Client) \cup Permutations(Token)
=============================================================================
