---- MODULE MCProjectState ----
(* One project, two agents' requests at a time; every reference matches    *)
(* every row of the project.                                                *)
EXTENDS ProjectState, TLC
MCMatches(r) == Feature \cup Blocker
Sym == UNION {Permutations(S) : S \in {User, Call, FeatureStatus}}
====
