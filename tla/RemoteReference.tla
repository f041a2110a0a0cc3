--------------------------- MODULE RemoteReference ---------------------------
(***************************************************************************)
(* What the reference counting of a connection promises about one object,  *)
(* in the words of Connection's documentation: "This class retains a       *)
(* strong reference to local objects that is deleted when the reference    *)
(* count is zero" (rpyc/core/protocol.py).                                 *)
(***************************************************************************)
EXTENDS Naturals

VARIABLES
    kept, \* the owner holds the object for the peer
    out   \* references granted to the peer and not given back

Init == kept = FALSE /\ out = 0

(* the object is boxed: the peer is granted one more reference *)
Grant == out' = out + 1 /\ kept' = TRUE

(* the peer gives back n of its references at once *)
GiveBack(n) ==
    /\ out' = out - n
    /\ kept' = (out' # 0)

Next == Grant \/ \E n \in 1 .. out : GiveBack(n)

Spec == Init /\ [][Next]_<<kept, out>>
=============================================================================
