---------------------------- MODULE MCUploadFlow ----------------------------
(* Requests of UploadFlow are interchangeable.                             *)
EXTENDS UploadFlow, TLC

Symmetry == Permutations(Requests)
=============================================================================
