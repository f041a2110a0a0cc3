------------------------------- MODULE Stream -------------------------------
(***************************************************************************)
(* The two ends of one SocketStream connection (rpyc/core/stream.py) and   *)
(* the frames that Channel.send and Channel.recv move over it.             *)
(*                                                                         *)
(* At each end a writer (the send thread of the Connection) sends frames,  *)
(* a receiver polls and reads them, a closer may close the stream and a    *)
(* third party may make the receiver's predicate true and call notify().   *)
(* They share the stream's condition variable: a write pauses reading, so  *)
(* that the socket is never sent to and received from in parallel.         *)
(*                                                                         *)
(* A frame is Chunks pieces, each what one send() or recv() moves; the     *)
(* kernel buffers Capacity of them in each direction.  A socket blocks,    *)
(* unless connect() made it: that one keeps the timeout of connecting.     *)
(***************************************************************************)
EXTENDS Integers, Sequences

CONSTANTS Side,       \* the two ends
          Writes,     \* [Side -> Nat], bound: frames the writer of an end sends
          Chunks,     \* pieces of a frame
          Capacity,   \* pieces the kernel holds in each direction
          MayClose,   \* the ends whose closer may call close()
          Waits,      \* bound: times the receiver polls with a predicate
          Timed       \* the ends whose socket has a timeout

ASSUME StreamAssumption ==
    /\ \E x, y \in Side : x # y /\ Side = {x, y}
    /\ Writes \in [Side -> Nat]
    /\ Chunks \in Nat \ {0} /\ Capacity \in Nat \ {0}
    /\ MayClose \subseteq Side
    /\ Waits \in [Side -> Nat]
    /\ Timed \subseteq Side

Other(x) == CHOOSE y \in Side : y # x

Writer(x)   == <<x, "writer">>
Receiver(x) == <<x, "receiver">>
Closer(x)   == <<x, "closer">>
Thread == Side \X {"writer", "receiver", "closer"}

VARIABLES
    pc,        \* where each thread is
    asleep,    \* threads waiting on __cond that have not been notified
    depth,     \* __read_pause_depth
    reading,   \* __reading
    polling,   \* __polling
    listening, \* __listening
    armed,     \* __predicate is not None
    pair,      \* bytes on the socket pair: "P", "N" and "C"
    pairOpen,  \* __socket_w is not None
    pairFreed, \* the two sockets of the pair have been closed
    sockOpen,  \* self.sock is not ClosedFile
    shut,      \* the socket is shut down for writing
    fdClosed,  \* the socket has been closed
    watched,   \* poll: wfd is not None
    result,    \* poll: the value about to be returned
    got,       \* recv: the pieces of the frame being read
    left,      \* write: data that has not been sent yet
    frames,    \* frames begun by the writer
    failed,    \* how a thread's call is failing: "os" closes the stream first
    wanted,    \* the predicate of the receiver has become true
    notifying, \* the result is there, and notify() has not been called yet
    waits,     \* predicates used so far
    pipe       \* pieces on their way from an end to the other one

condVars == <<asleep, depth, reading, polling, listening, armed>>
pairVars == <<pair, pairOpen, pairFreed>>
sockVars == <<sockOpen, shut, fdClosed>>
recvVars == <<watched, result, got>>
sendVars == <<left, frames>>
predVars == <<wanted, notifying, waits>>
vars == <<pc, condVars, pairVars, sockVars, recvVars, sendVars, predVars, failed, pipe>>

Init ==
    /\ pc = [t \in Thread |-> "idle"]
    /\ asleep = {}
    /\ depth = [x \in Side |-> 0]
    /\ reading = [x \in Side |-> FALSE] /\ polling = [x \in Side |-> FALSE]
    /\ listening = [x \in Side |-> FALSE] /\ armed = [x \in Side |-> FALSE]
    /\ pair = [x \in Side |-> <<>>]
    /\ pairOpen = [x \in Side |-> TRUE] /\ pairFreed = [x \in Side |-> FALSE]
    /\ sockOpen = [x \in Side |-> TRUE] /\ shut = [x \in Side |-> FALSE]
    /\ fdClosed = [x \in Side |-> FALSE]
    /\ watched = [x \in Side |-> FALSE] /\ result = [x \in Side |-> FALSE]
    /\ got = [x \in Side |-> <<>>]
    /\ left = [x \in Side |-> 0] /\ frames = [x \in Side |-> 0]
    /\ failed = [t \in Thread |-> "no"]
    /\ wanted = [x \in Side |-> FALSE] /\ notifying = [x \in Side |-> FALSE]
    /\ waits = [x \in Side |-> 0]
    /\ pipe = [x \in Side |-> <<>>]

-----------------------------------------------------------------------------
Goto(t, l) == pc' = [pc EXCEPT ![t] = l]

(* __cond.notify_all() *)
NotifyAll(x) == asleep' = {t \in asleep : t[1] # x}

(* a turn of wait_for: on to label l with effect, or asleep until notified *)
Sleep(t, l) == Goto(t, l) /\ asleep' = asleep \cup {t}

(* nothing more will come from the other end *)
AtEnd(x) == pipe[Other(x)] = <<>> /\ shut[Other(x)]

-----------------------------------------------------------------------------
(* Channel.send and SocketStream.write *)

WriteStarts(x) ==
    /\ pc[Writer(x)] = "idle" /\ frames[x] < Writes[x]
    /\ frames' = [frames EXCEPT ![x] = @ + 1]
    /\ left' = [left EXCEPT ![x] = Chunks]
    /\ Goto(Writer(x), "pause")
    /\ UNCHANGED <<condVars, pairVars, sockVars, recvVars, predVars, failed, pipe>>

(* mutant: reading is not waited for *)
PauseReadNoWait(x) ==
    /\ pc[Writer(x)] = "pause"
    /\ depth' = [depth EXCEPT ![x] = @ + 1]
    /\ pair' = IF polling[x] /\ pairOpen[x]
                 THEN [pair EXCEPT ![x] = Append(@, "P")] ELSE pair
    /\ Goto(Writer(x), "send") /\ UNCHANGED asleep
    /\ UNCHANGED <<reading, polling, listening, armed, pairOpen, pairFreed, sockVars,
                   recvVars, sendVars, predVars, failed, pipe>>

(* mutant: the poll is not woken *)
PauseReadSilently(x) ==
    /\ pc[Writer(x)] = "pause"
    /\ depth' = [depth EXCEPT ![x] = @ + 1]
    /\ IF reading[x] \/ polling[x]
         THEN Sleep(Writer(x), "pausing")
         ELSE Goto(Writer(x), "send") /\ UNCHANGED asleep
    /\ UNCHANGED <<reading, polling, listening, armed, pairVars, sockVars,
                   recvVars, sendVars, predVars, failed, pipe>>

PauseRead(x) ==
    /\ pc[Writer(x)] = "pause"
    /\ depth' = [depth EXCEPT ![x] = @ + 1]
    /\ pair' = IF polling[x] /\ pairOpen[x]
                 THEN [pair EXCEPT ![x] = Append(@, "P")] ELSE pair
    /\ IF reading[x] \/ polling[x]
         THEN Sleep(Writer(x), "pausing")
         ELSE Goto(Writer(x), "send") /\ UNCHANGED asleep
    /\ UNCHANGED <<reading, polling, listening, armed, pairOpen, pairFreed, sockVars,
                   recvVars, sendVars, predVars, failed, pipe>>

PauseWoken(x) ==
    /\ pc[Writer(x)] = "pausing" /\ Writer(x) \notin asleep
    /\ IF reading[x] \/ polling[x]
         THEN Sleep(Writer(x), "pausing")
         ELSE Goto(Writer(x), "send") /\ UNCHANGED asleep
    /\ UNCHANGED <<depth, reading, polling, listening, armed, pairVars, sockVars,
                   recvVars, sendVars, predVars, failed, pipe>>

(* mutant: data = data[count:] is forgotten *)
SockSendsAgain(x) ==
    /\ pc[Writer(x)] = "send" /\ ~shut[x] /\ ~fdClosed[Other(x)]
    /\ Len(pipe[x]) < Capacity
    /\ pipe' = [pipe EXCEPT ![x] = Append(@,
                    [frame |-> frames[x], part |-> Chunks + 1 - left[x]])]
    /\ Goto(Writer(x), "resume")
    /\ UNCHANGED <<condVars, pairVars, sockVars, recvVars, sendVars, predVars, failed>>

(* self.sock.send: waits while the kernel's buffer is full *)
SockSends(x) ==
    /\ pc[Writer(x)] = "send" /\ ~shut[x] /\ ~fdClosed[Other(x)]
    /\ Len(pipe[x]) < Capacity
    /\ pipe' = [pipe EXCEPT ![x] = Append(@,
                    [frame |-> frames[x], part |-> Chunks + 1 - left[x]])]
    /\ left' = [left EXCEPT ![x] = @ - 1]
    /\ Goto(Writer(x), "resume")
    /\ UNCHANGED <<condVars, pairVars, sockVars, recvVars, frames, predVars, failed>>

(* EOFError of ClosedFile, or OSError: shut down by close() or reset by the other end *)
SockSendFails(x) ==
    /\ pc[Writer(x)] = "send"
    /\ \/ ~sockOpen[x] /\ failed' = [failed EXCEPT ![Writer(x)] = "eof"]
       \/ (shut[x] \/ fdClosed[Other(x)]) /\ failed' = [failed EXCEPT ![Writer(x)] = "os"]
    /\ Goto(Writer(x), "resume")
    /\ UNCHANGED <<condVars, pairVars, sockVars, recvVars, sendVars, predVars, pipe>>

(* TimeoutError, which is an OSError, when the buffer has been full for too long *)
SendTimesOut(x) ==
    /\ x \in Timed /\ pc[Writer(x)] = "send" /\ Len(pipe[x]) >= Capacity
    /\ failed' = [failed EXCEPT ![Writer(x)] = "os"]
    /\ Goto(Writer(x), "resume")
    /\ UNCHANGED <<condVars, pairVars, sockVars, recvVars, sendVars, predVars, pipe>>

(* after an OSError close() comes next; EOFError goes straight to the caller *)
AfterWrite(x) ==
    CASE failed[Writer(x)] = "os"  -> "swap"
      [] failed[Writer(x)] = "eof" -> "end"
      [] OTHER -> IF left[x] > 0 THEN "pause" ELSE "idle"

(* finally: resume_read() *)
ResumeRead(x) ==
    /\ pc[Writer(x)] = "resume"
    /\ depth' = [depth EXCEPT ![x] = @ - 1]
    /\ IF depth[x] = 1 THEN NotifyAll(x) ELSE UNCHANGED asleep
    /\ Goto(Writer(x), AfterWrite(x))
    /\ UNCHANGED <<reading, polling, listening, armed, pairVars, sockVars, recvVars,
                   sendVars, predVars, failed, pipe>>

-----------------------------------------------------------------------------
(* Stream.poll *)

PollStarts(x) ==
    /\ polling' = [polling EXCEPT ![x] = TRUE]
    /\ armed' = [armed EXCEPT ![x] = TRUE]
    /\ listening' = [listening EXCEPT ![x] = pairOpen[x]]
    /\ watched' = [watched EXCEPT ![x] = pairOpen[x]]
    /\ Goto(Receiver(x), "register")
    /\ UNCHANGED <<asleep, wanted>>

(* the predicate is true: poll returns False and the wait it was for is over *)
PollRefuses(x) ==
    /\ wanted' = [wanted EXCEPT ![x] = FALSE]
    /\ Goto(Receiver(x), "idle")
    /\ UNCHANGED <<asleep, polling, armed, listening, watched>>

(* a turn of wait_for(polling_or_predicate) *)
PollTurn(x) ==
    /\ CASE wanted[x] -> PollRefuses(x)
         [] ~wanted[x] /\ depth[x] <= 0 /\ ~polling[x] -> PollStarts(x)
         [] OTHER -> /\ Sleep(Receiver(x), "polling_wait")
                     /\ UNCHANGED <<polling, armed, listening, watched, wanted>>
    /\ UNCHANGED <<depth, reading, pairVars, sockVars, result, got, sendVars,
                   notifying, waits, failed, pipe>>

PollEnter(x) == pc[Receiver(x)] = "idle" /\ PollTurn(x)

PollWoken(x) ==
    /\ pc[Receiver(x)] = "polling_wait" /\ Receiver(x) \notin asleep
    /\ PollTurn(x)

(* fileno() raises EOFError on ClosedFile; otherwise both are registered *)
PollRegisters(x) ==
    /\ pc[Receiver(x)] = "register"
    /\ IF sockOpen[x]
         THEN Goto(Receiver(x), "select") /\ UNCHANGED failed
         ELSE /\ Goto(Receiver(x), "poll_end")
              /\ failed' = [failed EXCEPT ![Receiver(x)] = "eof"]
    /\ UNCHANGED <<condVars, pairVars, sockVars, recvVars, sendVars, predVars, pipe>>

(* a byte on the pair is looked at first, whatever else is readable *)
PollWakeup(x) ==
    /\ pc[Receiver(x)] = "select" /\ watched[x] /\ pair[x] # <<>>
    /\ pair' = [pair EXCEPT ![x] = Tail(@)]
    /\ IF Head(pair[x]) = "C"
         THEN /\ watched' = [watched EXCEPT ![x] = FALSE]
              /\ Goto(Receiver(x), "unlisten")
              /\ UNCHANGED result
         ELSE /\ result' = [result EXCEPT ![x] = FALSE]
              /\ Goto(Receiver(x), "poll_end")
              /\ UNCHANGED watched
    /\ UNCHANGED <<condVars, pairOpen, pairFreed, sockVars, got, sendVars, predVars,
                   failed, pipe>>

(* with __cond: __listening = False, notify_all; the poll goes on *)
Unlisten(x) ==
    /\ pc[Receiver(x)] = "unlisten"
    /\ listening' = [listening EXCEPT ![x] = FALSE]
    /\ NotifyAll(x)
    /\ Goto(Receiver(x), "select")
    /\ UNCHANGED <<depth, reading, polling, armed, pairVars, sockVars, recvVars, sendVars,
                   predVars, failed, pipe>>

(* data, the end of the stream or a descriptor that is closed *)
PollReadable(x) ==
    /\ pc[Receiver(x)] = "select" /\ ~(watched[x] /\ pair[x] # <<>>)
    /\ pipe[Other(x)] # <<>> \/ AtEnd(x) \/ fdClosed[x]
    /\ result' = [result EXCEPT ![x] = TRUE]
    /\ Goto(Receiver(x), "poll_end")
    /\ UNCHANGED <<condVars, pairVars, sockVars, watched, got, sendVars, predVars, failed, pipe>>

(* serve() closes the connection on EOFError, unless that has been done *)
AfterError(x) == IF failed[Receiver(x)] = "os" THEN {"swap"} ELSE {"swap", "end"}

(* the finally of poll *)
PollEnds(x) ==
    /\ pc[Receiver(x)] = "poll_end"
    /\ armed' = [armed EXCEPT ![x] = FALSE]
    /\ polling' = [polling EXCEPT ![x] = FALSE]
    /\ listening' = [listening EXCEPT ![x] = FALSE]
    /\ watched' = [watched EXCEPT ![x] = FALSE]
    /\ NotifyAll(x)
    /\ \E l \in IF failed[Receiver(x)] # "no" THEN AfterError(x)
               ELSE IF result[x] THEN {"acquire"} ELSE {"idle"} : Goto(Receiver(x), l)
    /\ UNCHANGED <<depth, reading, pairVars, sockVars, result, got, sendVars, predVars,
                   failed, pipe>>

-----------------------------------------------------------------------------
(* Channel.recv and SocketStream.read *)

AcquireRead(x) ==
    /\ pc[Receiver(x)] = "acquire" /\ Receiver(x) \notin asleep
    /\ IF depth[x] <= 0 /\ ~reading[x]
         THEN /\ reading' = [reading EXCEPT ![x] = TRUE]
              /\ Goto(Receiver(x), "recv")
              /\ UNCHANGED asleep
         ELSE Sleep(Receiver(x), "acquire") /\ UNCHANGED reading
    /\ UNCHANGED <<depth, polling, listening, armed, pairVars, sockVars, recvVars, sendVars,
                   predVars, failed, pipe>>

(* self.sock.recv: waits while there is nothing; a recv that has begun goes
   on with the socket that close() takes away *)
SockReceives(x) ==
    /\ pc[Receiver(x)] = "recv" /\ pipe[Other(x)] # <<>> /\ ~fdClosed[x]
    /\ got' = [got EXCEPT ![x] = Append(@, Head(pipe[Other(x)]))]
    /\ pipe' = [pipe EXCEPT ![Other(x)] = Tail(@)]
    /\ Goto(Receiver(x), "release")
    /\ UNCHANGED <<condVars, pairVars, sockVars, watched, result, sendVars, predVars, failed>>

(* b"" at the end of the stream, or EOFError of ClosedFile *)
SockRecvFails(x) ==
    /\ pc[Receiver(x)] = "recv"
    /\ \/ AtEnd(x) /\ failed' = [failed EXCEPT ![Receiver(x)] = "os"]
       \/ ~sockOpen[x] /\ failed' = [failed EXCEPT ![Receiver(x)] = "eof"]
    /\ Goto(Receiver(x), "release")
    /\ UNCHANGED <<condVars, pairVars, sockVars, recvVars, sendVars, predVars, pipe>>

(* TimeoutError: read releases the lock and tries again *)
RecvTimesOut(x) ==
    /\ x \in Timed /\ pc[Receiver(x)] = "recv" /\ pipe[Other(x)] = <<>> /\ ~AtEnd(x)
    /\ Goto(Receiver(x), "release")
    /\ UNCHANGED <<condVars, pairVars, sockVars, recvVars, sendVars, predVars, failed, pipe>>

(* release_read(); a complete frame is returned, EOFError closes the stream *)
ReleaseRead(x) ==
    /\ pc[Receiver(x)] = "release"
    /\ reading' = [reading EXCEPT ![x] = FALSE]
    /\ NotifyAll(x)
    /\ CASE failed[Receiver(x)] # "no" ->
               (\E l \in AfterError(x) : Goto(Receiver(x), l)) /\ UNCHANGED got
         [] failed[Receiver(x)] = "no" /\ Len(got[x]) = Chunks ->
               Goto(Receiver(x), "idle") /\ got' = [got EXCEPT ![x] = <<>>]
         [] OTHER -> Goto(Receiver(x), "acquire") /\ UNCHANGED got
    /\ UNCHANGED <<depth, polling, listening, armed, pairVars, sockVars, watched, result,
                   sendVars, predVars, failed, pipe>>

-----------------------------------------------------------------------------
(* the result a receiver waits for arrives by another thread, which calls notify() *)

ResultArrives(x) ==
    /\ waits[x] < Waits[x] /\ ~wanted[x] /\ ~notifying[x]
    /\ waits' = [waits EXCEPT ![x] = @ + 1]
    /\ wanted' = [wanted EXCEPT ![x] = TRUE]
    /\ notifying' = [notifying EXCEPT ![x] = TRUE]
    /\ UNCHANGED <<pc, condVars, pairVars, sockVars, recvVars, sendVars, failed, pipe>>

Notify(x) ==
    /\ notifying[x]
    /\ notifying' = [notifying EXCEPT ![x] = FALSE]
    /\ pair' = IF pairOpen[x] /\ armed[x] /\ wanted[x]
                 THEN [pair EXCEPT ![x] = Append(@, "N")] ELSE pair
    /\ NotifyAll(x)
    /\ UNCHANGED <<pc, depth, reading, polling, listening, armed, pairOpen, pairFreed, sockVars,
                   recvVars, sendVars, wanted, waits, failed, pipe>>

-----------------------------------------------------------------------------
(* SocketStream.close and Stream.close, of any thread *)

CloseStarts(x) ==
    /\ x \in MayClose /\ pc[Closer(x)] = "idle"
    /\ Goto(Closer(x), "swap")
    /\ UNCHANGED <<condVars, pairVars, sockVars, recvVars, sendVars, predVars, failed, pipe>>

(* sock, self.sock = self.sock, ClosedFile *)
CloseSwaps(t) ==
    /\ pc[t] = "swap"
    /\ sockOpen' = [sockOpen EXCEPT ![t[1]] = FALSE]
    /\ Goto(t, IF sockOpen[t[1]] THEN "shutdown" ELSE "close_pair")
    /\ UNCHANGED <<condVars, pairVars, shut, fdClosed, recvVars, sendVars, predVars, failed, pipe>>

(* mutant: the other end is not told that nothing more will be sent *)
CloseWithoutShut(t) ==
    /\ pc[t] = "shutdown"
    /\ Goto(t, "drain")
    /\ UNCHANGED <<condVars, pairVars, sockVars, recvVars, sendVars, predVars, failed, pipe>>

CloseShuts(t) ==
    /\ pc[t] = "shutdown"
    /\ shut' = [shut EXCEPT ![t[1]] = TRUE]
    /\ Goto(t, "drain")
    /\ UNCHANGED <<condVars, pairVars, sockOpen, fdClosed, recvVars, sendVars, predVars,
                   failed, pipe>>

(* what still arrives is read away until the other end is shut down as well *)
CloseDrains(t) ==
    LET y == Other(t[1]) IN
    /\ pc[t] = "drain"
    /\ IF pipe[y] # <<>>
         THEN pipe' = [pipe EXCEPT ![y] = Tail(@)] /\ UNCHANGED <<pc, fdClosed>>
         ELSE /\ AtEnd(t[1])
              /\ fdClosed' = [fdClosed EXCEPT ![t[1]] = TRUE]
              /\ Goto(t, "close_pair")
              /\ UNCHANGED pipe
    /\ UNCHANGED <<condVars, pairVars, sockOpen, shut, recvVars, sendVars, predVars, failed>>

(* mutant: the pair is closed at once *)
ClosePairAtOnce(t) ==
    /\ pc[t] = "close_pair"
    /\ pairOpen' = [pairOpen EXCEPT ![t[1]] = FALSE]
    /\ pairFreed' = [pairFreed EXCEPT ![t[1]] = TRUE]
    /\ Goto(t, "end")
    /\ UNCHANGED <<asleep, depth, reading, polling, listening, armed, pair, sockVars, recvVars,
                   sendVars, predVars, failed, pipe>>

(* Stream.close: whoever finds __socket_w wakes the poll and waits for it *)
ClosePair(t) ==
    LET x == t[1] IN
    /\ pc[t] = "close_pair"
    /\ pairOpen' = [pairOpen EXCEPT ![x] = FALSE]
    /\ CASE ~pairOpen[x] -> Goto(t, "end") /\ UNCHANGED <<pair, pairFreed, asleep>>
         [] pairOpen[x] /\ listening[x] ->
              /\ pair' = [pair EXCEPT ![x] = Append(@, "C")]
              /\ Sleep(t, "free_pair")
              /\ UNCHANGED pairFreed
         [] OTHER -> /\ pairFreed' = [pairFreed EXCEPT ![x] = TRUE]
                     /\ Goto(t, "end")
                     /\ UNCHANGED <<pair, asleep>>
    /\ UNCHANGED <<depth, reading, polling, listening, armed, sockVars, recvVars, sendVars,
                   predVars, failed, pipe>>

ClosePairWoken(t) ==
    LET x == t[1] IN
    /\ pc[t] = "free_pair" /\ t \notin asleep
    /\ IF listening[x]
         THEN Sleep(t, "free_pair") /\ UNCHANGED pairFreed
         ELSE /\ pairFreed' = [pairFreed EXCEPT ![x] = TRUE]
              /\ Goto(t, "end") /\ UNCHANGED asleep
    /\ UNCHANGED <<depth, reading, polling, listening, armed, pair, pairOpen, sockVars,
                   recvVars, sendVars, predVars, failed, pipe>>

-----------------------------------------------------------------------------
WriterStep(x) ==
    PauseRead(x) \/ PauseWoken(x) \/ SockSends(x) \/ SockSendFails(x) \/ ResumeRead(x)

ReceiverStep(x) ==
    \/ PollEnter(x) \/ PollWoken(x) \/ PollRegisters(x) \/ PollWakeup(x) \/ Unlisten(x)
    \/ PollReadable(x) \/ PollEnds(x)
    \/ AcquireRead(x) \/ SockReceives(x) \/ SockRecvFails(x) \/ ReleaseRead(x)

CloseStep(t) ==
    \/ CloseSwaps(t) \/ CloseShuts(t) \/ CloseDrains(t) \/ ClosePair(t) \/ ClosePairWoken(t)

Next ==
    \/ \E x \in Side : \/ WriteStarts(x) \/ WriterStep(x) \/ ReceiverStep(x)
                       \/ SendTimesOut(x) \/ RecvTimesOut(x)
                       \/ ResultArrives(x) \/ Notify(x) \/ CloseStarts(x)
    \/ \E t \in Thread : CloseStep(t)

-----------------------------------------------------------------------------
(* "send and recv must not be done in parallel on TLS sockets": while the
   writer is in send() the receiver neither polls nor receives. *)
SendRecvExclusive ==
    \A x \in Side : pc[Writer(x)] = "send" =>
        pc[Receiver(x)] \notin {"register", "select", "unlisten", "recv"}

(* The socket pair is not closed under a poll that still has it registered. *)
PairNotFreedInUse ==
    \A x \in Side : pairFreed[x] =>
        ~(watched[x] /\ pc[Receiver(x)] \in {"register", "select"})

(* No wakeup is lost: once notify() has returned, a poll whose predicate is true
   has a byte to read; and while a writer waits for the poll to end there is one. *)
PollIsWoken ==
    \A x \in Side :
        /\ pc[Receiver(x)] \in {"register", "select"} /\ watched[x]
        /\ (wanted[x] /\ ~notifying[x]) \/ pc[Writer(x)] = "pausing"
        => pair[x] # <<>>

(* A receiver assembles a frame from consecutive pieces of one frame, whatever
   the writers do and whenever the other end closes.  (A close() at its own end
   may take pieces away from a recv() that has already begun.) *)
FramesIntact ==
    \A x \in Side : sockOpen[x] =>
        \A i \in DOMAIN got[x] : got[x][i] = [frame |-> got[x][1].frame, part |-> i]

(* "writes the entire data, or raise EOFError": a send that has begun ends, with a
   timeout or without. *)
WritesEnd ==
    \A x \in Side : pc[Writer(x)] # "idle" ~> pc[Writer(x)] \in {"idle", "end"}

(* Every call comes back when only one end writes, so that in the end none is
   under way: the write, a poll whose predicate has become true, and a close(),
   which waits until the other end's receiver has seen the end of the stream and
   closed its side, whatever its writer is doing. *)
StreamCallsReturn ==
    <>[](\A x \in Side : /\ pc[Writer(x)] \in {"idle", "end"}
                         /\ pc[Closer(x)] \in {"idle", "end"}
                         /\ wanted[x] => ~sockOpen[x])
=============================================================================
