------------------------------- MODULE MCFiles --------------------------------
\* The files of jobs, or those of a library card: nothing is shared by the two but
\* the server's threads, so each is looked at with the other at rest.
EXTENDS JobFiles, Library, TLC

BothInit == FilesInit /\ CardInit
BothNext ==
    \/ cardCalls = 0 /\ FilesNext /\ UNCHANGED cardVars
    \/ calls = 0 /\ CardNext /\ UNCHANGED fileVars
BothSpec == BothInit /\ [][BothNext]_<<fileVars, cardVars>>

Home == <<0, <<"home">>>>
\* Out of the server's own choosing, and shaped like a job's.
MCOutdirs == { <<Home, <<1, <<"y">>>>>> }
MCSlugOf == [w \in {"x", "X"} |-> "x"]
Symmetry == Permutations(Requests)
=============================================================================
