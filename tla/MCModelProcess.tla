---------------------------- MODULE MCModelProcess ----------------------------
(* A budget of one unit, two to hang, pauses of one and two, and four faults. *)
EXTENDS ModelProcess
=============================================================================
