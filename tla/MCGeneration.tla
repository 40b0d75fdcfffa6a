---------------------------- MODULE MCGeneration ----------------------------
(* Two requests of a user at a time, on a pool of one thread. *)
EXTENDS Generation

CONSTANTS u1, s1, s2

OneUser == {u1}
TwoSlots == {s1, s2}
=============================================================================
