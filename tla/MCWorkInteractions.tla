------------------------- MODULE MCWorkInteractions -------------------------
(* Instance of WorkInteractions: two questions, two possible answers, two  *)
(* crashes of the host.                                                    *)
EXTENDS WorkInteractions

CONSTANTS q1, q2, a1, a2

MCQuestion == {q1, q2}
MCAnswer == {a1, a2}
=============================================================================
