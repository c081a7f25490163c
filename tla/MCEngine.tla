------------------------------ MODULE MCEngine ------------------------------
(***************************************************************************)
(* Small instances of Engine for TLC.                                      *)
(***************************************************************************)
EXTENDS Engine

CONSTANTS r1, r2, s1, s2, d1, d2, c1, c2, g1, g2

To(r, s) == [valid |-> TRUE, root |-> r, sub |-> s]
Broken == [valid |-> FALSE, root |-> r1, sub |-> s1]

(* One query, and a batch of two or three with one that does not parse.    *)
Batches == {<<To(r1, s1)>>, <<To(r1, s1), To(r1, s1)>>,
            <<To(r1, s1), Broken, To(r1, s1)>>}
=============================================================================
