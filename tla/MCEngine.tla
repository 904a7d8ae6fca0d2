------------------------------ MODULE MCEngine ------------------------------
(* Two quotes farther apart than the threshold.                             *)
EXTENDS Engine

MCFar == {1, 4}
=============================================================================
