--------------------------- MODULE MCAsyncClient ---------------------------
(* The two objects an asynchronous client works with, an AsyncResult and a
   BgServingThread, for model checking.  They share the connection only, of
   which each module has what it needs, so the initial state chooses the one a
   behaviour is about and the other stays as it was made. *)
EXTENDS AsyncResult, BgServing

VARIABLE object

mcVars == <<object, resultVars, vars>>

TwoCallers == {"caller", "other"}
Everything == {"pause", "resume", "stop"}

Result(step)     == object = "AsyncResult" /\ step /\ UNCHANGED <<object, vars>>
Background(step) == object = "BgServingThread" /\ step /\ UNCHANGED <<object, resultVars>>

MCInit ==
    /\ ResultInit /\ Init
    /\ \/ object = "AsyncResult"
       \/ object = "BgServingThread" /\ arg = "value" /\ ttl = "none"

MCNext == Result(ResultNext) \/ Background(Next)

MCFairness ==
    /\ WF_mcVars(Result(at[Dispatch] # "start" /\ Call))
    /\ \A w \in Waiter : WF_mcVars(Result(WaiterStep(w)))
    /\ WF_mcVars(Background(BgStep))
    /\ \A u \in User : WF_mcVars(Background(UserStep(u)))

MCSpec == MCInit /\ [][MCNext]_mcVars /\ MCFairness
=============================================================================
