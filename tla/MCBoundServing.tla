--------------------------- MODULE MCBoundServing ---------------------------
(* BoundServing with threads that are model values: two or three clients at
   the near end, a thread in serve_all at the far end, a name for a worker of each. *)
EXTENDS BoundServing

CONSTANTS c1, c2, c3, s1, nearWorker, farWorker

Sides == [t \in Thread |-> IF t \in {c1, c2, c3, nearWorker} THEN "near" ELSE "far"]
=============================================================================
