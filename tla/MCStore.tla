------------------------------ MODULE MCStore -------------------------------
(***************************************************************************)
(* Small instances of Store for TLC.                                       *)
(***************************************************************************)
EXTENDS Store

CONSTANTS g1, g2, k1, k2, p1, v1

With(ref) == [props |-> {p1}, ref |-> ref]
Ask(op, k, ref) == [op |-> op, key |-> k, with |-> With(ref)]

(* Every operation on one key, and the two that store it of a record       *)
(* without the reference key.                                              *)
OneReference ==
  {Ask(op, k1, v1) : op \in Operation} \cup {Ask(op, k1, NoRef) : op \in {"Add", "AddRef"}}

(* What gives a record its life and takes it; every key but k1 is stored   *)
(* with the reference, so that GetByRef has several records to touch.      *)
AroundExpiry ==
  {Ask("Add", k, IF k = k1 THEN NoRef ELSE v1) : k \in Key} \cup {Ask("Get", k, NoRef) : k \in Key}
    \cup {Ask("ModRef", k1, v1), Ask("GetByRef", k1, v1), Ask("Remove", k1, NoRef)}
=============================================================================
