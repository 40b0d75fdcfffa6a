----------------------------- MODULE MCRagIndex -----------------------------
(* A text of two chunks at two access levels, and one of one chunk. *)
EXTENDS RagIndex, TLC

CONSTANTS j1, j2, p1, s1, s2

Public   == [text |-> "a", access |-> "public"]
Internal == [text |-> "a", access |-> "internal"]
Other    == [text |-> "b", access |-> "public"]

TwoTexts == {Public, Other}
TwoLevels == {Public, Internal}

Counts == [t \in Texts |-> IF t = "a" THEN 2 ELSE 1]

OneJob == {j1}
TwoJobs == {j1, j2}
OnePurge == {p1}
NoSearch == {}
OneSearch == {s1}

Symmetry == Permutations(Jobs)
=============================================================================
