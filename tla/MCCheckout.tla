----------------------------- MODULE MCCheckout -----------------------------
(* One user with two tabs, which are interchangeable.                      *)
EXTENDS Checkout, TLC

CONSTANTS u1, t1, t2

MCUsers == {u1}
MCIds == 1 .. MaxSessions
TwoTabs == {t1, t2}

Symmetry == Permutations(TwoTabs)

\* Both properties are about the time before a race, and none is ever undone.
NotYetDoubled == ~doubled
=============================================================================
