------------------------------ MODULE MCProject ------------------------------
\* One project for TLC; the requests of the pages are interchangeable.
EXTENDS ProjectChain, TLC

Symmetry == Permutations(Pages)
=============================================================================
