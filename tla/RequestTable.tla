---------------------------- MODULE RequestTable ----------------------------
(***************************************************************************)
(* What a connection promises of the requests made on it, in the words of  *)
(* neither threads, locks, queues nor handlers (rpyc/core/protocol.py and  *)
(* rpyc/core/async_.py): each one is numbered in its turn and ends at most *)
(* once, with the answer of the peer, with the failure of its send, or     *)
(* without either: when its deadline has passed or the stream is gone.     *)
(***************************************************************************)
EXTENDS Integers

CONSTANT Request \* the numbers of the requests

VARIABLES
    status,    \* what has become of each request
    late,      \* the requests whose deadline has passed
    sent,      \* the requests given to the peer
    connected  \* the stream to the peer is still there

vars == <<status, late, sent, connected>>

Init ==
    /\ status = [s \in Request |-> "unused"]
    /\ late = {} /\ sent = {} /\ connected = TRUE

Used(s) == status[s] # "unused"
Open    == {s \in Request : status[s] = "open"}

(* The next number is taken. *)
Make(s) ==
    /\ ~Used(s)
    /\ \A r \in Request : r < s => Used(r)
    /\ status' = [status EXCEPT ![s] = "open"]
    /\ UNCHANGED <<late, sent, connected>>

(* The request is given to the peer, whether or not somebody still waits for it. *)
Transmit(s) ==
    /\ Used(s) /\ connected
    /\ sent' = sent \cup {s}
    /\ UNCHANGED <<status, late, connected>>

(* An outcome that comes after the deadline is of no use. *)
End(s, outcome) ==
    /\ s \in Open
    /\ status' = [status EXCEPT ![s] = IF s \in late THEN "dropped" ELSE outcome]
    /\ UNCHANGED <<late, sent, connected>>

Answer(s) == s \in sent /\ End(s, "answered")
Fail(s)   == ~connected /\ End(s, "failed")

(* Requests that nobody can answer any more are forgotten. *)
Drop(S) ==
    /\ ~connected
    /\ S \subseteq Open
    /\ status' = [s \in Request |-> IF s \in S THEN "dropped" ELSE status[s]]
    /\ UNCHANGED <<late, sent, connected>>

Expire(s) ==
    /\ Used(s)
    /\ late' = late \cup {s}
    /\ UNCHANGED <<status, sent, connected>>

(* The stream is closed or lost, and never comes back. *)
Disconnect ==
    /\ connected' = FALSE
    /\ UNCHANGED <<status, late, sent>>

Next ==
    \/ \E s \in Request : Make(s) \/ Transmit(s) \/ Answer(s) \/ Fail(s) \/ Expire(s)
    \/ \E S \in SUBSET Request : Drop(S)
    \/ Disconnect

Spec == Init /\ [][Next]_vars
=============================================================================
