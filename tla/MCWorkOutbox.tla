---------------------------- MODULE MCWorkOutbox ----------------------------
(* Instance of WorkOutbox: two events, two handlers, two processes. *)
EXTENDS WorkOutbox, TLC

CONSTANTS c1, c2

MCConsumer == {c1, c2}
=============================================================================
