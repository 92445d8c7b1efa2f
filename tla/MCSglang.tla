------------------------------ MODULE MCSglang ------------------------------
EXTENDS SglangWorker

MCJob == {1, 2}
MCStem == {"a", "b"}
MCFolder == [s \in {"a", "b"} |-> s]

MCOne == {1}
MCOneStem == {"a"}
MCOneFolder == [s \in {"a"} |-> s]
=============================================================================
