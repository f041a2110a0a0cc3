------------------------------ MODULE MCStream ------------------------------
(* Model-checking instances of Stream and PipeStream: two ends and how much
   each one does.  The initial state chooses what the two ends are; the other
   kind stays as it was made. *)
EXTENDS Stream, PipeStream

CONSTANTS a, b,
          Kinds  \* "socket", or pipes: both ends write, or b may close and be notified

VARIABLE kind

mcVars == <<kind, vars, pipeVars>>

NoFrame == [x \in Side |-> 0]
OneFrame == [x \in Side |-> IF x = a THEN 1 ELSE 0]
OneEach == [x \in Side |-> 1]
OneWait == [x \in Side |-> IF x = b THEN 1 ELSE 0]

Socket(step) == kind = "socket" /\ step /\ UNCHANGED <<kind, pipeVars>>

Pipe(step) ==
    /\ kind # "socket" /\ step /\ UNCHANGED <<kind, vars>>
    /\ kind = "duplex" => want'[b] = "no" /\ at'[PipeCloser(b)] = "idle"
    /\ kind = "simplex" => at'[PipeWriter(b)] \notin {"write", "in_write"}

MCInit == Init /\ PipeInit /\ kind \in Kinds

MCNext == Socket(Next) \/ Pipe(PipeNext)

(* Every thread that can run is scheduled. *)
MCFairness ==
    /\ \A x \in Side : /\ WF_mcVars(Socket(WriterStep(x))) /\ WF_mcVars(Socket(Notify(x)))
                       /\ WF_mcVars(Socket(ReceiverStep(x)))
    /\ \A t \in Thread : WF_mcVars(Socket(CloseStep(t)))
    /\ \A x \in End : /\ WF_mcVars(Pipe(PipeWriterStep(x))) /\ WF_mcVars(Pipe(PipeNotify(x)))
                      /\ WF_mcVars(Pipe(ReadThreadStep(x))) /\ WF_mcVars(Pipe(PipeReceiverStep(x)))
    /\ \A t \in PipeThread : WF_mcVars(Pipe(PipeCloseStep(t)))

MCSpec == MCInit /\ [][MCNext]_mcVars /\ MCFairness
=============================================================================
