------------------------------- MODULE MCGpu -------------------------------
EXTENDS GpuDispatcher, TLC

\* The engines differ: a script starts h3 and not ltx.
Symmetry == Permutations(Client) \cup Permutations(Pid)
=============================================================================
