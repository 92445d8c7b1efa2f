------------------------------- MODULE MCGates -------------------------------
\* One clip project for TLC; the requests of the pages are interchangeable.
EXTENDS ClipGates, TLC

Symmetry == Permutations(Pages)
=============================================================================
