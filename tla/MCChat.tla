------------------------------- MODULE MCChat --------------------------------
\* Streams of up to two halves and two more lines; answers that name a project in
\* every way, or no project at all.
EXTENDS ChatTurns, TLC

Symmetry == Permutations(Thread)

Wire(shape, lines, form, project) ==
    [shape |-> shape, lines |-> lines, form |-> form, project |-> project]
Project(kind, scenes) == [kind |-> kind, scenes |-> scenes, given |-> TRUE]

Halves == {<<>>, <<"half">>, <<"half", "half">>}
Marks == {"half", "think", "finish", "length", "error", "junk", "cut", "done"}
Endings == {<<>>} \cup {<<a>> : a \in Marks} \cup {<<a, b>> : a \in Marks, b \in Marks}

MCWires ==
    { Wire("none", <<>>, "prose", NoProject), Wire("status", <<>>, "prose", NoProject) }
    \cup { Wire("plain", <<b>>, f, NoProject) :
             b \in {"junk", "error", "stop", "length"}, f \in {"prose", "list", "number", "turn"} }
    \cup { Wire("stream", h \o e, "turn", NoProject) : h \in Halves, e \in Endings }
    \cup { Wire("plain", <<"stop">>, "turn", p) :
             p \in {Project("video", "a"), Project("odd", Nul), Project(Nul, "b"), Project(Nul, Nul)} }
=============================================================================
