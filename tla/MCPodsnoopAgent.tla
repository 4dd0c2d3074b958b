-------------------------- MODULE MCPodsnoopAgent --------------------------
(* PodsnoopAgent with small sets of annotations.                            *)
EXTENDS PodsnoopAgent

CONSTANTS c1, c2

Ann(cname, commands, resize) ==
    [json |-> TRUE, cname |-> cname, array |-> TRUE, commands |-> commands, resize |-> resize]

Make  == Ann(c1, <<"make">>, "5Gi")
Both  == Ann(c1, <<"make", "gcc">>, "1Gi")
Moved == Ann(c2, <<"gcc">>, "2Gi")

NotJson   == [Make EXCEPT !.json = FALSE]
NoCname   == [Make EXCEPT !.cname = Missing]
NotArray  == [Make EXCEPT !.array = FALSE]
NoCommand == [Make EXCEPT !.commands = <<>>, !.resize = "1Gi"]
NoResize  == [Make EXCEPT !.resize = Missing]
TooLong   == [Make EXCEPT !.commands = <<"make", "too long">>]

AnnsMake   == {Make}
AnnsUsual  == {Make, Both}
AnnsMoving == {Make, Moved}
AnnsBad    == {Make, NotJson, NoCname, NotArray, NoCommand, NoResize, TooLong}

\* Sound where every pod is local: nothing tells pods or process ids apart.
NamesSymmetry == Permutations(Pods) \cup Permutations(Pids)

\* Sound also with pods of another node: these keep their names.
LocalSymmetry == Permutations(Local)

TooLongCommands == {"too long"}
=============================================================================
