------------------------------ MODULE MCServo -------------------------------
(***************************************************************************)
(* Small instances of Servo for TLC.                                       *)
(***************************************************************************)
EXTENDS Servo, TLC

CONSTANTS a1, a2, q1, q2

Always == 0..MaxTime
AtStart == {0}

(* Apps and queries are interchangeable. *)
Symmetric == Permutations({a1, a2}) \cup Permutations({q1, q2})
=============================================================================
