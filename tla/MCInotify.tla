------------------------------ MODULE MCInotify ------------------------------
\* Instances of Inotify for TLC: a parent directory, a nested one and a sibling.
EXTENDS Inotify, TLC

CONSTANTS top, nested, other

MCBelow == (top :> {top, nested, other}) @@ (nested :> {nested}) @@ (other :> {other})

\* The filter of top rejects the sibling.
MCExcluded == (top :> {other}) @@ (nested :> {})

Symmetry == Permutations(Worker)
=============================================================================
