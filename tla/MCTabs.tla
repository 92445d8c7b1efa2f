------------------------------- MODULE MCTabs --------------------------------
\* A project of two scenes, the second of which names the first as its source.
EXTENDS StudioTabs, TLC

Scene(kind, from, auto) ==
    [text |-> "blank", wish |-> "blank", kind |-> kind, from |-> from, auto |-> auto, edit |-> 0]

MCProjects ==
    { [seq |-> 0, revision |-> 0, order |-> <<1, 2>>,
       scenes |-> (1 :> Scene("none", 0, FALSE) @@ 2 :> Scene("prev", 1, FALSE))] }

MCInputs == {<<2, "wish">>}
=============================================================================
