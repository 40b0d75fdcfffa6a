---------------------------- MODULE MCListCache ----------------------------
(* Two requests and two writers for ListCache. *)
EXTENDS ListCache

CONSTANTS r1, r2, w1, w2

MCRequests == {r1, r2}
MCWriters == {w1, w2}
============================================================================
