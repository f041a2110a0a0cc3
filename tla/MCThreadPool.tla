---------------------------- MODULE MCThreadPool ----------------------------
(* ThreadPool for model checking: clients and descriptors are model values
   of the configurations, workers numbers; c1 sends more than one request. *)
EXTENDS ThreadPool

CONSTANTS c1, c2

OneEach == [c \in Client |-> 1]
OneTalks == [c \in Client |-> IF c = c1 THEN 2 ELSE 1]
=============================================================================
