----------------------------- MODULE MCApiGate -----------------------------
(* Two users with a token each, two requests at a time. *)
EXTENDS ApiGate

CONSTANTS u1, u2, t1, t2, r1, r2

MCUsers == {u1, u2}
MCTokens == {t1, t2}
MCOwner == [t \in MCTokens |-> IF t = t1 THEN u1 ELSE u2]

\* Requests are alike, and so are the users with their tokens.
Symmetry ==
    Permutations({r1, r2}) \cup
    {[v \in {u1, u2, t1, t2} |->
        CASE v = u1 -> u2 [] v = u2 -> u1 [] v = t1 -> t2 [] v = t2 -> t1]}
============================================================================
