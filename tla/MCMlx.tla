------------------------------- MODULE MCMlx -------------------------------
EXTENDS MlxWorker

MCJob == {1}
MCStem == {"a"}
MCFolder == [s \in MCStem |-> s]
=============================================================================
