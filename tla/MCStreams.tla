----------------------------- MODULE MCStreams ------------------------------
(* Small constants for TLC. *)
EXTENDS Streams

(* Two queries under one id, and one query of two steps. *)
MCQueries == {<<1, 1>>, <<2>>}
=============================================================================
