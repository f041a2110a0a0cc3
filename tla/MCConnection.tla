---------------------------- MODULE MCConnection ----------------------------
(* Connection for model checking: threads are model values of the
   configuration; seq numbers of the peer are numbers, as ours are, so that they
   can be equal.

   A behaviour takes the steps of one of three scenarios.  In "serving" two clients
   share a connection that stays open, with nested calls, timeouts and a request
   of the peer.  In "ending" a client and a thread in serve_all share one that
   either party closes at any moment, and replies need not be readable.  In
   "spoiling" they need not be for two clients on a connection that stays open. *)
EXTENDS Connection

CONSTANTS c1, c2, s1

VARIABLE scenario

mcVars == <<scenario, vars>>

Serving(step) == scenario = "serving" /\ step /\ UNCHANGED scenario
Ending(step)  == scenario = "ending" /\ step /\ UNCHANGED scenario
Spoiling(step) == scenario = "spoiling" /\ step /\ UNCHANGED scenario

ServingStep ==
    \/ \E t \in Client : ThreadStep(t) \/ ClientCalls(t) \/ HandlerCalls(t)
    \/ \E s \in SeqNo : Expire(s) \/ PeerAnswers(s)
    \/ \E r \in PeerRequest : PeerAsks(r)
    \/ SenderStep \/ PeerReceives

(* bound: a peer that has sent a request ends on its own while we close or it owes
   us a reply; one that has not, at any moment *)
PeerMayShut == ~sockOpen \/ closed \/ peerSent = {} \/ peerPending # {}

EndingStep ==
    \/ \E t \in {c1, s1} : ThreadStep(t) \/ UnboxFails(t)
    \/ seqcounter = 0 /\ ClientCalls(c1)
    \/ ClientCloses(c1)
    \/ \E s \in SeqNo : PeerAnswers(s)
    \/ \E r \in PeerRequest : PeerAsks(r) \/ PeerAsksClose(r)
    \/ SenderStep \/ PeerReceives \/ (PeerMayShut /\ PeerShuts)

SpoilingStep ==
    \/ \E t \in Client : ThreadStep(t) \/ ClientCalls(t) \/ UnboxFails(t)
    \/ \E s \in SeqNo : PeerAnswers(s)
    \/ SenderStep \/ PeerReceives

MCInit == Init /\ scenario \in {"serving", "ending", "spoiling"}
MCNext == Serving(ServingStep) \/ Ending(EndingStep) \/ Spoiling(SpoilingStep)

(* Threads are scheduled; the network delivers; the peer answers what it has
   received and closes once it is told to or sees our end closed. *)
MCFairness ==
    /\ \A t \in Client : WF_mcVars(Serving(ThreadStep(t)))
    /\ \A t \in {c1, s1} : WF_mcVars(Ending(ThreadStep(t) \/ UnboxFails(t)))
    /\ \A t \in Client : WF_mcVars(Spoiling(ThreadStep(t) \/ UnboxFails(t)))
    /\ WF_mcVars(SenderStep /\ UNCHANGED scenario)
    /\ WF_mcVars(PeerReceives /\ UNCHANGED scenario)
    /\ \A s \in SeqNo : WF_mcVars(PeerAnswers(s) /\ UNCHANGED scenario)
    /\ WF_mcVars(~sockOpen /\ PeerShuts /\ UNCHANGED scenario)

MCSpec == MCInit /\ [][MCNext]_mcVars /\ MCFairness
=============================================================================
