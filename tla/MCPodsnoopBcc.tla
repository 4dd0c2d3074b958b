--------------------------- MODULE MCPodsnoopBcc ---------------------------
(* PodsnoopBcc with a small set of annotations.                             *)
EXTENDS PodsnoopBcc

CONSTANT c1

Make   == [json |-> TRUE, cname |-> c1, array |-> TRUE, commands |-> <<"make", "gcc">>, resize |-> "5Gi"]
Falsy  == [Make EXCEPT !.commands = <<"gcc">>, !.resize = Empty]
Broken == [Make EXCEPT !.json = FALSE]

AnnsBcc == {Make, Falsy, Broken}

\* Two cgroups that keep their keys, and two of which the second is cut to the
\* key of the first (KeyMod is 4).
IdMapsBcc == {<<1, 2>>, <<1, 5>>}

\* Nothing tells the pods apart.
PodSymmetry == Permutations(Pods)

\* No action and no property looks at the history of annotations.
WithoutHistory == <<pods, ctrs, alive, task, used, edits, ids, status, agent>>
=============================================================================
