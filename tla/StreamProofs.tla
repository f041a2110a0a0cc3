---------------------------- MODULE StreamProofs ----------------------------
(* For any number of frames of any length, any capacity of the kernel's
   buffers and any closer, an end of a socket stream never sends while it polls
   or receives: the pause and the lock of Stream exclude each other. A poll finds
   its socket pair open as long as it has it registered, and a byte there when it
   must end; a frame is put together from the pieces of one frame. The pieces of a
   pipe arrive in the order in which they were written, for messages of any number of
   pieces and pipes of any size. *)
EXTENDS Stream, PipeStream, TLAPS

StreamSpec == Init /\ [][Next]_vars

Receives == {"recv", "release"}
Polls    == {"register", "select", "unlisten", "poll_end"}
Pauses   == {"pausing", "send", "resume"}

(* where neither the flags nor the depth matter *)
Outside == {"idle", "swap", "shutdown", "drain", "close_pair", "free_pair", "end", "pause",
            "polling_wait", "acquire"}

Labels == Receives \cup Polls \cup Pauses \cup Outside

(* The flags of the condition say where the receiver and the writer are. *)
FlagsAgree(x) ==
    /\ reading[x] <=> pc[Receiver(x)] \in Receives
    /\ polling[x] <=> pc[Receiver(x)] \in Polls
    /\ depth[x] = IF pc[Writer(x)] \in Pauses THEN 1 ELSE 0

(* A writer that sends has seen both flags down, and its pause keeps them down. *)
PauseHolds(x) == pc[Writer(x)] = "send" => ~reading[x] /\ ~polling[x]

LockTypes ==
    /\ pc \in [Thread -> Labels]
    /\ reading \in [Side -> BOOLEAN] /\ polling \in [Side -> BOOLEAN] /\ depth \in [Side -> Int]

LockInv == LockTypes /\ \A x \in Side : FlagsAgree(x) /\ PauseHolds(x)

flags == <<reading, polling, depth>>

(* the threads, and no two with one name *)
LEMMA ThreadsDiffer ==
    ASSUME NEW x \in Side, NEW y \in Side
    PROVE  /\ Writer(x) \in Thread /\ Receiver(x) \in Thread /\ Closer(x) \in Thread
           /\ Writer(x) # Receiver(y)
           /\ Writer(x) = Writer(y) => x = y
           /\ Receiver(x) = Receiver(y) => x = y
<1>1. \A r \in {"writer", "receiver", "closer"} : <<x, r>> \in Thread
  BY DEF Thread
<1>2. \A r, s : <<x, r>> = <<y, s>> => x = y /\ r = s
  OBVIOUS
<1>3. "writer" # "receiver"
  OBVIOUS
<1> QED
  BY <1>1, <1>2, <1>3 DEF Writer, Receiver, Closer

(* nobody holds anything at first *)
LEMMA LockInit == Init => LockInv
<1> SUFFICES ASSUME Init PROVE LockInv
  OBVIOUS
<1>1. LockTypes
  BY DEF Init, LockTypes, Labels, Outside
<1>2. ASSUME NEW x \in Side PROVE FlagsAgree(x) /\ PauseHolds(x)
  <2>1. pc[Writer(x)] = "idle" /\ pc[Receiver(x)] = "idle"
    BY ThreadsDiffer DEF Init
  <2> QED
    BY <2>1 DEF Init, FlagsAgree, PauseHolds, Receives, Polls, Pauses
<1> QED
  BY <1>1, <1>2 DEF LockInv

(* the lock sees only pc and its flags *)
LEMMA LockStutters == LockInv /\ UNCHANGED <<pc, flags>> => LockInv'
  BY DEF LockInv, LockTypes, FlagsAgree, PauseHolds, flags

(* a thread goes on, and to the lock it is where it was *)
LEMMA MoveKeeps ==
    ASSUME LockInv, UNCHANGED flags, NEW t \in Thread, NEW l \in Labels, Goto(t, l),
           l \in Receives <=> pc[t] \in Receives,
           l \in Polls <=> pc[t] \in Polls,
           l \in Pauses <=> pc[t] \in Pauses,
           l = "send" => pc[t] = "send"
    PROVE  LockInv'
<1>1. pc' \in [Thread -> Labels] /\ \A u \in Thread : pc'[u] = IF u = t THEN l ELSE pc[u]
  BY DEF LockInv, LockTypes, Goto
<1> QED
  BY <1>1, ThreadsDiffer DEF LockInv, LockTypes, FlagsAgree, PauseHolds, flags

(* a thread goes on outside the lock *)
LEMMA OutsideKeeps ==
    ASSUME LockInv, UNCHANGED flags, NEW t \in Thread, pc[t] \in Outside,
           NEW l \in Outside, Goto(t, l)
    PROVE  LockInv'
<1>1. \A k \in Outside : k \in Labels /\ k \notin Receives
  BY DEF Outside, Receives, Labels
<1>2. \A k \in Outside : k \notin Polls
  BY DEF Outside, Polls
<1>3. \A k \in Outside : k \notin Pauses /\ k # "send"
  BY DEF Outside, Pauses
<1> QED
  BY <1>1, <1>2, <1>3, MoveKeeps

(* the closing thread: it takes nothing from the lock *)
LEMMA CloserKeeps ==
    ASSUME LockInv, NEW t \in Thread, CloseStep(t)
    PROVE  LockInv'
<1> SUFFICES UNCHANGED flags /\ pc[t] \in Outside /\ \E l \in Outside : Goto(t, l)
  BY OutsideKeeps
<1>1. CASE CloseSwaps(t)
  BY <1>1, Zenon DEF CloseSwaps, condVars, flags, Outside
<1>2. CASE CloseShuts(t)
  BY <1>2 DEF CloseShuts, condVars, flags, Outside
<1>3. CASE CloseDrains(t)
  <2>1. \E l \in Outside : Goto(t, l)
    <3>1. CASE pipe[Other(t[1])] # <<>>
      BY <1>3, <3>1 DEF CloseDrains, Goto, Outside, LockInv, LockTypes
    <3>2. CASE pipe[Other(t[1])] = <<>>
      BY <1>3, <3>2 DEF CloseDrains, Outside
    <3> QED
      BY <3>1, <3>2
  <2> QED
    BY <1>3, <2>1 DEF CloseDrains, condVars, flags, Outside
<1>4. CASE ClosePair(t)
  BY <1>4 DEF ClosePair, Sleep, condVars, flags, Outside
<1>5. CASE ClosePairWoken(t)
  BY <1>5 DEF ClosePairWoken, Sleep, condVars, flags, Outside
<1> QED
  BY <1>1, <1>2, <1>3, <1>4, <1>5 DEF CloseStep

-----------------------------------------------------------------------------
(* the writer: its pause is counted where it has one *)
LEMMA WriterKeeps ==
    ASSUME LockInv, NEW x \in Side, NEW l \in Labels, Goto(Writer(x), l),
           UNCHANGED <<reading, polling>>,
           depth' = [depth EXCEPT ![x] = IF l \in Pauses THEN 1 ELSE 0],
           l = "send" => ~reading[x] /\ ~polling[x]
    PROVE  LockInv'
<1>1. pc' \in [Thread -> Labels] /\ \A u \in Thread : pc'[u] = IF u = Writer(x) THEN l ELSE pc[u]
  BY DEF LockInv, LockTypes, Goto
<1>2. LockTypes'
  BY <1>1 DEF LockInv, LockTypes
<1>3. ASSUME NEW y \in Side PROVE FlagsAgree(y)' /\ PauseHolds(y)'
  <2>1. pc'[Receiver(y)] = pc[Receiver(y)]
    BY <1>1, ThreadsDiffer
  <2>2. CASE y = x
    <3>1. pc'[Writer(y)] = l /\ depth'[y] = IF l \in Pauses THEN 1 ELSE 0
      BY <1>1, <2>2, ThreadsDiffer DEF LockInv, LockTypes
    <3> QED
      BY <2>1, <2>2, <3>1 DEF LockInv, FlagsAgree, PauseHolds
  <2>3. CASE y # x
    <3>1. pc'[Writer(y)] = pc[Writer(y)] /\ depth'[y] = depth[y]
      BY <1>1, <2>3, ThreadsDiffer DEF LockInv, LockTypes
    <3> QED
      BY <2>1, <3>1 DEF LockInv, FlagsAgree, PauseHolds
  <2> QED
    BY <2>2, <2>3
<1> QED
  BY <1>2, <1>3 DEF LockInv

(* the receiver: it raises a flag only where nobody pauses it *)
LEMMA ReceiverKeeps ==
    ASSUME LockInv, NEW x \in Side, NEW l \in Labels, Goto(Receiver(x), l),
           depth' = depth,
           reading' \in [Side -> BOOLEAN], polling' \in [Side -> BOOLEAN],
           \A y \in Side \ {x} : reading'[y] = reading[y] /\ polling'[y] = polling[y],
           reading'[x] <=> l \in Receives, polling'[x] <=> l \in Polls,
           l \in Outside \/ reading[x] \/ polling[x] \/ depth[x] <= 0
    PROVE  LockInv'
<1>1. pc' \in [Thread -> Labels] /\ \A u \in Thread : pc'[u] = IF u = Receiver(x) THEN l ELSE pc[u]
  BY DEF LockInv, LockTypes, Goto
<1>2. LockTypes'
  BY <1>1 DEF LockInv, LockTypes
<1>3. l \in Outside => l \notin Receives /\ l \notin Polls
  BY DEF Outside, Receives, Polls
<1>4. depth[x] <= 0 => pc[Writer(x)] # "send"
  BY DEF LockInv, FlagsAgree, Pauses
<1>5. ASSUME NEW y \in Side PROVE FlagsAgree(y)' /\ PauseHolds(y)'
  <2>1. pc'[Writer(y)] = pc[Writer(y)]
    BY <1>1, ThreadsDiffer
  <2>2. CASE y = x
    <3>1. pc'[Receiver(y)] = l
      BY <1>1, <2>2, ThreadsDiffer
    <3> QED
      BY <1>3, <1>4, <2>1, <2>2, <3>1 DEF LockInv, FlagsAgree, PauseHolds
  <2>3. CASE y # x
    <3>1. pc'[Receiver(y)] = pc[Receiver(y)] /\ reading'[y] = reading[y] /\ polling'[y] = polling[y]
      BY <1>1, <2>3, ThreadsDiffer
    <3> QED
      BY <2>1, <3>1 DEF LockInv, FlagsAgree, PauseHolds
  <2> QED
    BY <2>2, <2>3
<1> QED
  BY <1>2, <1>5 DEF LockInv

-----------------------------------------------------------------------------
(* each step of the writer *)
LEMMA WriterStepKeeps ==
    ASSUME LockInv, NEW x \in Side, WriteStarts(x) \/ WriterStep(x)
    PROVE  LockInv'
<1> DEFINE w == Writer(x)
<1>0. /\ w \in Thread
      /\ depth[x] = IF pc[w] \in Pauses THEN 1 ELSE 0
      /\ depth \in [Side -> Int]
  BY ThreadsDiffer DEF LockInv, LockTypes, FlagsAgree
<1>1. CASE WriteStarts(x)
  BY <1>1, <1>0, OutsideKeeps DEF WriteStarts, condVars, flags, Outside
<1>2. CASE PauseRead(x)
  <2>1. pc[w] = "pause" /\ UNCHANGED <<reading, polling>> /\ depth' = [depth EXCEPT ![x] = @ + 1]
    BY <1>2 DEF PauseRead
  <2>0. depth[x] = 0
    BY <1>0, <2>1 DEF Pauses
  <2>2. depth' = [depth EXCEPT ![x] = 1]
    BY <2>0, <2>1
  <2>3. CASE reading[x] \/ polling[x]
    BY <1>2, <2>1, <2>2, <2>3, WriterKeeps DEF PauseRead, Sleep, Pauses, Labels
  <2>4. CASE ~(reading[x] \/ polling[x])
    BY <1>2, <2>1, <2>2, <2>4, WriterKeeps DEF PauseRead, Pauses, Labels
  <2> QED
    BY <2>3, <2>4
<1>3. CASE PauseWoken(x)
  <2>1. pc[w] = "pausing" /\ UNCHANGED <<reading, polling>> /\ depth' = [depth EXCEPT ![x] = 1]
    BY <1>3, <1>0 DEF PauseWoken, Pauses
  <2>2. CASE reading[x] \/ polling[x]
    BY <1>3, <2>1, <2>2, WriterKeeps DEF PauseWoken, Sleep, Pauses, Labels
  <2>3. CASE ~(reading[x] \/ polling[x])
    BY <1>3, <2>1, <2>3, WriterKeeps DEF PauseWoken, Pauses, Labels
  <2> QED
    BY <2>2, <2>3
<1>4. CASE SockSends(x) \/ SockSendFails(x)
  <2>1. pc[w] = "send" /\ UNCHANGED <<reading, polling, depth>> /\ Goto(w, "resume")
    BY <1>4 DEF SockSends, SockSendFails, condVars
  <2>2. depth' = [depth EXCEPT ![x] = 1]
    BY <1>0, <2>1 DEF Pauses
  <2> QED
    BY <2>1, <2>2, WriterKeeps DEF Pauses, Labels
<1>5. CASE ResumeRead(x)
  <2>1. pc[w] = "resume" /\ UNCHANGED <<reading, polling>> /\ depth' = [depth EXCEPT ![x] = @ - 1]
    BY <1>5 DEF ResumeRead
  <2>0. depth[x] = 1
    BY <1>0, <2>1 DEF Pauses
  <2>2. depth' = [depth EXCEPT ![x] = 0]
    BY <2>0, <2>1
  <2>3. Goto(w, AfterWrite(x)) /\ AfterWrite(x) \in {"swap", "end", "pause", "idle"}
    BY <1>5 DEF ResumeRead, AfterWrite
  <2> QED
    BY <2>1, <2>2, <2>3, WriterKeeps DEF Pauses, Labels, Outside
<1> QED
  BY <1>1, <1>2, <1>3, <1>4, <1>5 DEF WriterStep

(* a turn of wait_for in poll: PollEnter and PollWoken *)
LEMMA PollTurnKeeps ==
    ASSUME LockInv, NEW x \in Side, pc[Receiver(x)] \in {"idle", "polling_wait"}, PollTurn(x)
    PROVE  LockInv'
<1>1. /\ Receiver(x) \in Thread /\ UNCHANGED <<depth, reading>>
      /\ ~reading[x] /\ pc[Receiver(x)] \in Outside
      /\ reading \in [Side -> BOOLEAN] /\ polling \in [Side -> BOOLEAN]
  BY ThreadsDiffer DEF PollTurn, LockInv, LockTypes, FlagsAgree, Receives, Outside
<1>2. CASE wanted[x]
  BY <1>1, <1>2, OutsideKeeps DEF PollTurn, PollRefuses, flags, Outside
<1>3. CASE ~wanted[x] /\ depth[x] <= 0 /\ ~polling[x]
  <2>1. polling' = [polling EXCEPT ![x] = TRUE] /\ Goto(Receiver(x), "register")
    BY <1>3 DEF PollTurn, PollStarts
  <2> QED
    BY <1>1, <1>3, <2>1, ReceiverKeeps DEF Receives, Polls, Labels
<1>4. CASE ~wanted[x] /\ ~(depth[x] <= 0 /\ ~polling[x])
  BY <1>1, <1>4, OutsideKeeps DEF PollTurn, Sleep, flags, Outside
<1> QED
  BY <1>2, <1>3, <1>4

(* each step of the receiver *)
LEMMA ReceiverStepKeeps ==
    ASSUME LockInv, NEW x \in Side, ReceiverStep(x)
    PROVE  LockInv'
<1> DEFINE r == Receiver(x)
<1>0. /\ r \in Thread
      /\ reading[x] <=> pc[r] \in Receives
      /\ polling[x] <=> pc[r] \in Polls
      /\ reading \in [Side -> BOOLEAN] /\ polling \in [Side -> BOOLEAN]
  BY ThreadsDiffer DEF LockInv, LockTypes, FlagsAgree
<1>1. CASE PollEnter(x)
  BY <1>1, PollTurnKeeps DEF PollEnter
<1>2. CASE PollWoken(x)
  BY <1>2, PollTurnKeeps DEF PollWoken
<1>3. CASE PollRegisters(x) \/ PollWakeup(x) \/ Unlisten(x) \/ PollReadable(x)
  <2>1. pc[r] \in Polls /\ UNCHANGED flags /\ \E l \in Polls : Goto(r, l)
    BY <1>3 DEF PollRegisters, PollWakeup, Unlisten, PollReadable, condVars, flags, Polls
  <2>2. \A l \in Polls : l \in Labels /\ l \notin Receives /\ l \notin Pauses /\ l # "send"
    BY DEF Polls, Receives, Pauses, Labels
  <2> QED
    BY <1>0, <2>1, <2>2, MoveKeeps
<1>4. CASE PollEnds(x)
  <2>1. /\ pc[r] = "poll_end"
        /\ UNCHANGED <<depth, reading>>
        /\ polling' = [polling EXCEPT ![x] = FALSE]
    BY <1>4 DEF PollEnds
  <2>2. \E l \in {"swap", "end", "acquire", "idle"} : Goto(r, l)
    BY <1>4 DEF PollEnds, AfterError
  <2>3. ~reading[x]
    BY <1>0, <2>1 DEF Receives
  <2> QED
    BY <1>0, <2>1, <2>2, <2>3, ReceiverKeeps DEF Receives, Polls, Outside, Labels
<1>5. CASE AcquireRead(x)
  <2>1. pc[r] = "acquire" /\ UNCHANGED <<depth, polling>> /\ ~polling[x] /\ ~reading[x]
    BY <1>0, <1>5 DEF AcquireRead, Polls, Receives
  <2>2. CASE depth[x] <= 0
    <3>1. reading' = [reading EXCEPT ![x] = TRUE] /\ Goto(r, "recv")
      BY <1>5, <2>1, <2>2 DEF AcquireRead
    <3> QED
      BY <1>0, <2>1, <2>2, <3>1, ReceiverKeeps DEF Receives, Polls, Labels
  <2>3. CASE ~(depth[x] <= 0)
    BY <1>0, <1>5, <2>1, <2>3, OutsideKeeps DEF AcquireRead, Sleep, flags, Outside
  <2> QED
    BY <2>2, <2>3
<1>6. CASE SockReceives(x) \/ SockRecvFails(x)
  <2>1. pc[r] = "recv" /\ UNCHANGED flags /\ Goto(r, "release")
    BY <1>6 DEF SockReceives, SockRecvFails, condVars, flags
  <2> QED
    BY <1>0, <2>1, MoveKeeps DEF Receives, Polls, Pauses, Labels
<1>7. CASE ReleaseRead(x)
  <2>1. /\ pc[r] = "release"
        /\ UNCHANGED <<depth, polling>>
        /\ reading' = [reading EXCEPT ![x] = FALSE]
    BY <1>7 DEF ReleaseRead
  <2>2. \E l \in {"swap", "end", "acquire", "idle"} : Goto(r, l)
    BY <1>7 DEF ReleaseRead, AfterError
  <2>3. ~polling[x]
    BY <1>0, <2>1 DEF Polls
  <2> QED
    BY <1>0, <2>1, <2>2, <2>3, ReceiverKeeps DEF Receives, Polls, Outside, Labels
<1> QED
  BY <1>1, <1>2, <1>3, <1>4, <1>5, <1>6, <1>7 DEF ReceiverStep

(* a timeout of the socket ends a send or a recv, as its failure does *)
LEMMA TimeoutKeeps ==
    ASSUME LockInv, NEW x \in Side, SendTimesOut(x) \/ RecvTimesOut(x)
    PROVE  LockInv'
<1>1. UNCHANGED flags
  BY DEF SendTimesOut, RecvTimesOut, condVars, flags
<1>2. CASE SendTimesOut(x)
  <2>1. pc[Writer(x)] = "send" /\ Goto(Writer(x), "resume")
    BY <1>2 DEF SendTimesOut
  <2> QED
    BY <1>1, <2>1, MoveKeeps, ThreadsDiffer DEF Receives, Polls, Pauses, Labels
<1>3. CASE RecvTimesOut(x)
  <2>1. pc[Receiver(x)] = "recv" /\ Goto(Receiver(x), "release")
    BY <1>3 DEF RecvTimesOut
  <2> QED
    BY <1>1, <2>1, MoveKeeps, ThreadsDiffer DEF Receives, Polls, Pauses, Labels
<1> QED
  BY <1>2, <1>3

-----------------------------------------------------------------------------
(* LockInv is inductive *)
LEMMA LockNext == LockInv /\ [Next]_vars => LockInv'
<1> SUFFICES ASSUME LockInv, [Next]_vars PROVE LockInv'
  OBVIOUS
<1>1. CASE UNCHANGED vars
  BY <1>1, LockStutters DEF vars, condVars, flags
<1>2. ASSUME NEW x \in Side, ResultArrives(x) \/ Notify(x) PROVE LockInv'
  BY <1>2, LockStutters DEF ResultArrives, Notify, condVars, flags
<1>3. ASSUME NEW x \in Side, CloseStarts(x) PROVE LockInv'
  BY <1>3, OutsideKeeps, ThreadsDiffer DEF CloseStarts, condVars, flags, Outside
<1> QED
  BY <1>1, <1>2, <1>3, WriterStepKeeps, ReceiverStepKeeps, TimeoutKeeps, CloserKeeps DEF Next

(* "send and recv must not be done in parallel on TLS sockets": the writer's
   pause and the receiver's flags exclude each other at both ends. *)
THEOREM NeverBothWays == StreamSpec => []SendRecvExclusive
<1>1. LockInv => SendRecvExclusive
  BY DEF LockInv, FlagsAgree, PauseHolds, SendRecvExclusive, Receives, Polls
<1> QED
  BY LockInit, LockNext, <1>1, PTL DEF StreamSpec

-----------------------------------------------------------------------------
(* The socket pair: PairNotFreedInUse and PollIsWoken. *)

Roles == {"writer", "receiver", "closer"}

PairTypes ==
    /\ pair \in [Side -> Seq({"P", "N", "C"})]
    /\ pairOpen \in [Side -> BOOLEAN] /\ pairFreed \in [Side -> BOOLEAN]
    /\ listening \in [Side -> BOOLEAN] /\ armed \in [Side -> BOOLEAN]
    /\ watched \in [Side -> BOOLEAN] /\ wanted \in [Side -> BOOLEAN]
    /\ notifying \in [Side -> BOOLEAN]

(* the receiver's poll has the pair registered *)
PollsPair(x) == watched[x] /\ pc[Receiver(x)] \in {"register", "select"}

(* While the pair is polled it is listened to; who takes it away leaves a byte, and
   waits until it is not listened to any more. *)
PairAgrees(x) ==
    /\ PollsPair(x) => listening[x] /\ armed[x] /\ (~pairOpen[x] => pair[x] # <<>>)
    /\ pc[Receiver(x)] = "unlisten" => ~watched[x]
    /\ pairFreed[x] => ~pairOpen[x] /\ ~PollsPair(x)
    /\ \A r \in Roles : pc[<<x, r>>] = "free_pair" => ~pairOpen[x]

Woken(x) ==
    PollsPair(x) /\ ((wanted[x] /\ ~notifying[x]) \/ pc[Writer(x)] = "pausing") => pair[x] # <<>>

PairInv == PairTypes /\ \A x \in Side : PairAgrees(x) /\ Woken(x)

(* a step leaves a side alone *)
SameSide(y) ==
    /\ \A r \in Roles : pc'[<<y, r>>] = pc[<<y, r>>]
    /\ pair'[y] = pair[y] /\ pairOpen'[y] = pairOpen[y] /\ pairFreed'[y] = pairFreed[y]
    /\ listening'[y] = listening[y] /\ armed'[y] = armed[y] /\ watched'[y] = watched[y]
    /\ wanted'[y] = wanted[y] /\ notifying'[y] = notifying[y]

(* the clauses of a side speak of that side only *)
LEMMA SameSideKeeps ==
    ASSUME PairInv, NEW y \in Side, SameSide(y)
    PROVE  PairAgrees(y)' /\ Woken(y)'
<1>1. pc'[Receiver(y)] = pc[Receiver(y)] /\ pc'[Writer(y)] = pc[Writer(y)]
  BY DEF SameSide, Roles, Receiver, Writer
<1> QED
  BY <1>1 DEF PairInv, PairAgrees, Woken, PollsPair, SameSide

(* a thread goes on: the threads of the other side are where they were *)
LEMMA ThreadMoves ==
    ASSUME LockTypes, NEW t \in Thread, NEW l, Goto(t, l)
    PROVE  /\ t[1] \in Side /\ t[2] \in Roles /\ t = <<t[1], t[2]>>
           /\ \A u \in Thread : pc'[u] = IF u = t THEN l ELSE pc[u]
           /\ \A x \in Side, r \in Roles : <<x, r>> \in Thread
           /\ \A y \in Side : y # t[1] => \A r \in Roles : pc'[<<y, r>>] = pc[<<y, r>>]
<1>1. t[1] \in Side /\ t[2] \in Roles /\ t = <<t[1], t[2]>>
  BY DEF Thread, Roles
<1>2. \A u \in Thread : pc'[u] = IF u = t THEN l ELSE pc[u]
  BY DEF LockTypes, Goto
<1>3. \A x \in Side, r \in Roles : <<x, r>> \in Thread
  BY DEF Thread, Roles
<1>4. \A y \in Side, r \in Roles : <<y, r>> = t => y = t[1]
  BY <1>1
<1> QED
  BY <1>1, <1>2, <1>3, <1>4

(* a thread goes on, and to the pair it is where it was *)
LEMMA PairMoveKeeps ==
    ASSUME LockTypes, PairInv, NEW t \in Thread, NEW l, Goto(t, l),
           UNCHANGED <<pair, pairOpen, pairFreed, listening, armed, watched, notifying>>,
           wanted' \in [Side -> BOOLEAN], \A x \in Side : wanted'[x] => wanted[x],
           l \in {"register", "select"} => pc[t] \in {"register", "select"},
           l \in {"unlisten", "free_pair", "pausing"} => pc[t] = l
    PROVE  PairInv'
<1>1. PairTypes'
  BY DEF PairInv, PairTypes
<1>2. ASSUME NEW x \in Side
      PROVE  PairAgrees(x)' /\ Woken(x)'
  <2>1. \A r \in Roles :
           /\ pc'[<<x, r>>] \in {"register", "select"} => pc[<<x, r>>] \in {"register", "select"}
           /\ pc'[<<x, r>>] \in {"unlisten", "free_pair", "pausing"} => pc[<<x, r>>] = pc'[<<x, r>>]
    BY ThreadMoves
  <2>2. /\ pc'[Receiver(x)] \in {"register", "select"} => pc[Receiver(x)] \in {"register", "select"}
        /\ pc'[Receiver(x)] = "unlisten" => pc[Receiver(x)] = "unlisten"
        /\ pc'[Writer(x)] = "pausing" => pc[Writer(x)] = "pausing"
    BY <2>1 DEF Roles, Receiver, Writer
  <2>3. \A r \in Roles : pc'[<<x, r>>] = "free_pair" => pc[<<x, r>>] = "free_pair"
    BY <2>1
  <2>4. PollsPair(x)' => PollsPair(x)
    BY <2>2 DEF PollsPair
  <2>5. PairAgrees(x)'
    BY <2>2, <2>3, <2>4 DEF PairInv, PairAgrees
  <2>6. Woken(x)'
    BY <2>2, <2>4 DEF PairInv, Woken
  <2> QED
    BY <2>5, <2>6
<1> QED
  BY <1>1, <1>2 DEF PairInv

(* a thread of side x goes on, and what it does is to this side *)
LEMMA PairStepKeeps ==
    ASSUME LockTypes, PairInv, PairTypes', NEW t \in Thread, NEW l, Goto(t, l),
           \A y \in Side \ {t[1]} :
              /\ pair'[y] = pair[y] /\ pairOpen'[y] = pairOpen[y] /\ pairFreed'[y] = pairFreed[y]
              /\ listening'[y] = listening[y] /\ armed'[y] = armed[y] /\ watched'[y] = watched[y]
              /\ wanted'[y] = wanted[y] /\ notifying'[y] = notifying[y],
           PairAgrees(t[1])' /\ Woken(t[1])'
    PROVE  PairInv'
<1>1. ASSUME NEW y \in Side, y # t[1]
      PROVE  PairAgrees(y)' /\ Woken(y)'
  <2>1. SameSide(y)
    BY <1>1, ThreadMoves DEF SameSide
  <2> QED
    BY <2>1, SameSideKeeps
<1> QED
  BY <1>1 DEF PairInv

(* a byte is written to the pair *)
LEMMA PairAppend ==
    ASSUME NEW q \in Seq({"P", "N", "C"}), NEW b \in {"P", "N", "C"}
    PROVE  Append(q, b) \in Seq({"P", "N", "C"}) /\ Append(q, b) # <<>>
<1>1. Append(q, b) \in Seq({"P", "N", "C"}) /\ Len(Append(q, b)) = Len(q) + 1 /\ Len(q) \in Nat
  OBVIOUS
<1>2. Len(Append(q, b)) # 0 /\ Len(<<>>) = 0
  BY <1>1
<1> QED
  BY <1>1, <1>2

(* a thread of a side is a thread *)
LEMMA SideOf ==
    ASSUME NEW x \in Side
    PROVE  /\ Writer(x)[1] = x /\ Receiver(x)[1] = x /\ Closer(x)[1] = x
           /\ \A r \in Roles : <<x, r>> # Receiver(x) => r # "receiver"
           /\ Receiver(x) # Writer(x)
BY ThreadsDiffer DEF Writer, Receiver, Closer

-----------------------------------------------------------------------------
(* the writer: its pause leaves a byte *)
LEMMA PairWriter ==
    ASSUME LockInv, PairInv, NEW x \in Side, WriteStarts(x) \/ WriterStep(x)
    PROVE  PairInv'
<1> DEFINE w == Writer(x)
<1>0. w \in Thread /\ w[1] = x /\ LockTypes /\ PairTypes
  BY ThreadsDiffer, SideOf DEF LockInv, PairInv
<1>1. CASE PauseRead(x)
  <2>1. /\ pc[w] = "pause" /\ UNCHANGED <<pairOpen, pairFreed,
                                          listening, armed, watched, wanted, notifying>>
        /\ pair' = IF polling[x] /\ pairOpen[x] THEN [pair EXCEPT ![x] = Append(@, "P")] ELSE pair
    BY <1>1 DEF PauseRead, recvVars, predVars
  <2>2. PICK l \in {"pausing", "send"} : Goto(w, l) /\ (l = "pausing" => reading[x] \/ polling[x])
    BY <1>1 DEF PauseRead, Sleep
  <2>3. /\ pair[x] \in Seq({"P", "N", "C"}) /\ Append(pair[x], "P") \in Seq({"P", "N", "C"})
        /\ Append(pair[x], "P") # <<>>
    BY <1>0, PairAppend DEF PairTypes
  <2>4. pair' \in [Side -> Seq({"P", "N", "C"})] /\ \A y \in Side \ {x} : pair'[y] = pair[y]
    BY <1>0, <2>1, <2>3 DEF PairTypes
  <2>5. PairTypes'
    BY <1>0, <2>1, <2>4 DEF PairTypes
  <2>6. /\ pair[x] # <<>> => pair'[x] # <<>>
        /\ polling[x] /\ pairOpen[x] => pair'[x] # <<>>
    BY <1>0, <2>1, <2>3 DEF PairTypes
  <2>7. /\ pc'[Receiver(x)] = pc[Receiver(x)]
        /\ \A r \in Roles : pc'[<<x, r>>] = "free_pair" => pc[<<x, r>>] = "free_pair"
    BY <1>0, <2>2, ThreadMoves, SideOf, ThreadsDiffer
  <2>8. PairAgrees(x)'
    BY <2>1, <2>6, <2>7 DEF PairInv, PairAgrees, PollsPair
  <2>9. PollsPair(x) => polling[x]
    BY DEF PollsPair, LockInv, FlagsAgree, Polls
  <2>10. Woken(x)'
    BY <2>1, <2>6, <2>7, <2>9 DEF PairInv, PairAgrees, Woken, PollsPair
  <2> QED
    BY <1>0, <2>1, <2>2, <2>4, <2>5, <2>8, <2>10, PairStepKeeps
<1>2. CASE PauseWoken(x)
  <2>1. pc[w] = "pausing" /\ \E l \in {"pausing", "send"} : Goto(w, l)
    BY <1>2 DEF PauseWoken, Sleep
  <2>2. UNCHANGED <<pair, pairOpen, pairFreed, listening, armed, watched, notifying, wanted>>
    BY <1>2 DEF PauseWoken, pairVars, recvVars, predVars
  <2> QED
    BY <1>0, <2>1, <2>2, PairMoveKeeps DEF PairTypes
<1>3. CASE WriteStarts(x) \/ SockSends(x) \/ SockSendFails(x) \/ ResumeRead(x)
  <2>1. \E l \in {"pause", "resume", "swap", "end", "idle"} : Goto(w, l)
    BY <1>3 DEF WriteStarts, SockSends, SockSendFails, ResumeRead, AfterWrite
  <2>2. UNCHANGED <<pair, pairOpen, pairFreed, listening, armed, watched, notifying, wanted>>
    BY <1>3 DEF WriteStarts, SockSends, SockSendFails, ResumeRead, condVars, pairVars, recvVars,
                predVars
  <2> QED
    BY <1>0, <2>1, <2>2, PairMoveKeeps DEF PairTypes
<1> QED
  BY <1>1, <1>2, <1>3 DEF WriterStep

(* poll() starts to listen only where the pair is open *)
LEMMA PairPollTurn ==
    ASSUME LockInv, PairInv, NEW x \in Side, pc[Receiver(x)] \in {"idle", "polling_wait"},
           PollTurn(x)
    PROVE  PairInv'
<1> DEFINE r == Receiver(x)
<1>0. r \in Thread /\ r[1] = x /\ LockTypes /\ PairTypes
  BY ThreadsDiffer, SideOf DEF LockInv, PairInv
<1>1. UNCHANGED <<pair, pairOpen, pairFreed, notifying>>
  BY DEF PollTurn, pairVars
<1>2. CASE ~wanted[x] /\ depth[x] <= 0 /\ ~polling[x]
  <2>1. /\ armed' = [armed EXCEPT ![x] = TRUE] /\ listening' = [listening EXCEPT ![x] = pairOpen[x]]
        /\ watched' = [watched EXCEPT ![x] = pairOpen[x]]
        /\ Goto(r, "register") /\ wanted' = wanted
    BY <1>2 DEF PollTurn, PollStarts
  <2>2. PairTypes'
    BY <1>0, <1>1, <2>1 DEF PairTypes
  <2>3. /\ pc'[r] = "register" /\ pc'[Writer(x)] = pc[Writer(x)]
        /\ \A k \in Roles : pc'[<<x, k>>] = "free_pair" => pc[<<x, k>>] = "free_pair"
    BY <1>0, <2>1, ThreadMoves, SideOf, ThreadsDiffer
  <2>4. armed'[x] /\ (listening'[x] <=> pairOpen[x]) /\ (watched'[x] <=> pairOpen[x]) /\ ~wanted'[x]
    BY <1>0, <1>2, <2>1 DEF PairTypes
  <2>5. PairAgrees(x)'
    BY <1>1, <2>3, <2>4 DEF PairInv, PairAgrees, PollsPair
  <2>6. pc[Writer(x)] # "pausing"
    BY <1>2 DEF LockInv, FlagsAgree, Pauses
  <2>7. Woken(x)'
    BY <2>3, <2>4, <2>6 DEF Woken
  <2>8. \A y \in Side \ {x} :
             /\ listening'[y] = listening[y]
             /\ armed'[y] = armed[y]
             /\ watched'[y] = watched[y]
    BY <1>0, <2>1 DEF PairTypes
  <2> QED
    BY <1>0, <1>1, <2>1, <2>2, <2>5, <2>7, <2>8, PairStepKeeps
<1>3. CASE ~(~wanted[x] /\ depth[x] <= 0 /\ ~polling[x])
  <2>1. \E l \in {"idle", "polling_wait"} : Goto(r, l)
    BY <1>3 DEF PollTurn, PollRefuses, Sleep
  <2>2. /\ UNCHANGED <<listening, armed, watched>>
        /\ wanted' = wanted \/ wanted' = [wanted EXCEPT ![x] = FALSE]
    BY <1>3 DEF PollTurn, PollRefuses, Sleep
  <2>3. wanted' \in [Side -> BOOLEAN] /\ \A y \in Side : wanted'[y] => wanted[y]
    BY <1>0, <2>2 DEF PairTypes
  <2> QED
    BY <1>0, <1>1, <2>1, <2>2, <2>3, PairMoveKeeps
<1> QED
  BY <1>2, <1>3

(* each step of the receiver *)
LEMMA PairReceiver ==
    ASSUME LockInv, PairInv, NEW x \in Side, ReceiverStep(x)
    PROVE  PairInv'
<1> DEFINE r == Receiver(x)
<1>0. r \in Thread /\ r[1] = x /\ LockTypes /\ PairTypes
  BY ThreadsDiffer, SideOf DEF LockInv, PairInv
<1>1. CASE PollEnter(x) \/ PollWoken(x)
  BY <1>1, PairPollTurn DEF PollEnter, PollWoken
<1>2. CASE PollRegisters(x) \/ PollReadable(x)
  <2>1. pc[r] \in {"register", "select"} /\ \E l \in {"select", "poll_end"} : Goto(r, l)
    BY <1>2 DEF PollRegisters, PollReadable
  <2>2. UNCHANGED <<pair, pairOpen, pairFreed, listening, armed, watched, notifying, wanted>>
    BY <1>2 DEF PollRegisters, PollReadable, condVars, pairVars, recvVars, predVars
  <2> QED
    BY <1>0, <2>1, <2>2, PairMoveKeeps DEF PairTypes
<1>3. CASE AcquireRead(x) \/ SockReceives(x) \/ SockRecvFails(x) \/ ReleaseRead(x)
  <2>1. \E l \in {"recv", "acquire", "release", "idle", "swap", "end"} : Goto(r, l)
    BY <1>3 DEF AcquireRead, Sleep, SockReceives, SockRecvFails, ReleaseRead, AfterError
  <2>2. UNCHANGED <<pair, pairOpen, pairFreed, listening, armed, watched, notifying, wanted>>
    BY <1>3 DEF AcquireRead, SockReceives, SockRecvFails, ReleaseRead, condVars, pairVars,
                recvVars, predVars
  <2> QED
    BY <1>0, <2>1, <2>2, PairMoveKeeps DEF PairTypes
<1>4. CASE PollWakeup(x)
  <2>1. /\ pair' = [pair EXCEPT ![x] = Tail(@)] /\ pair[x] # <<>>
        /\ UNCHANGED <<pairOpen, pairFreed, listening, armed, notifying, wanted>>
    BY <1>4 DEF PollWakeup, condVars, predVars
  <2>2. PICK l \in {"unlisten", "poll_end"} :
           /\ Goto(r, l)
           /\ l = "unlisten" => watched' = [watched EXCEPT ![x] = FALSE]
           /\ l = "poll_end" => watched' = watched
    BY <1>4 DEF PollWakeup
  <2>3. pair[x] \in Seq({"P", "N", "C"}) /\ Tail(pair[x]) \in Seq({"P", "N", "C"})
    BY <1>0, <2>1 DEF PairTypes
  <2>4. PairTypes'
    BY <1>0, <2>1, <2>2, <2>3 DEF PairTypes
  <2>5. \A y \in Side \ {x} : pair'[y] = pair[y] /\ watched'[y] = watched[y]
    BY <1>0, <2>1, <2>2 DEF PairTypes
  <2>6. /\ pc'[r] = l /\ pc'[Writer(x)] = pc[Writer(x)]
        /\ \A k \in Roles : pc'[<<x, k>>] = "free_pair" => pc[<<x, k>>] = "free_pair"
    BY <1>0, <2>2, ThreadMoves, SideOf, ThreadsDiffer
  <2>7. l = "unlisten" => ~watched'[x]
    BY <1>0, <2>2 DEF PairTypes
  <2>8. ~PollsPair(x)'
    BY <2>6 DEF PollsPair
  <2>9. PairAgrees(x)' /\ Woken(x)'
    BY <2>1, <2>6, <2>7, <2>8 DEF PairInv, PairAgrees, Woken
  <2> QED
    BY <1>0, <2>1, <2>2, <2>4, <2>5, <2>9, PairStepKeeps
<1>5. CASE Unlisten(x)
  <2>1. /\ listening' = [listening EXCEPT ![x] = FALSE] /\ Goto(r, "select") /\ pc[r] = "unlisten"
        /\ UNCHANGED <<pair, pairOpen, pairFreed, watched, armed, notifying, wanted>>
    BY <1>5 DEF Unlisten, pairVars, recvVars, predVars
  <2>2. PairTypes' /\ \A y \in Side \ {x} : listening'[y] = listening[y]
    BY <1>0, <2>1 DEF PairTypes
  <2>3. \A k \in Roles : pc'[<<x, k>>] = "free_pair" => pc[<<x, k>>] = "free_pair"
    BY <1>0, <2>1, ThreadMoves
  <2>4. ~watched[x] /\ pc'[r] = "select"
    BY <1>0, <2>1, ThreadMoves DEF PairInv, PairAgrees
  <2>5. PairAgrees(x)' /\ Woken(x)'
    BY <2>1, <2>3, <2>4 DEF PairInv, PairAgrees, Woken, PollsPair
  <2> QED
    BY <1>0, <2>1, <2>2, <2>5, PairStepKeeps
<1>6. CASE PollEnds(x)
  <2>1. /\ armed' = [armed EXCEPT ![x] = FALSE] /\ listening' = [listening EXCEPT ![x] = FALSE]
        /\ watched' = [watched EXCEPT ![x] = FALSE]
        /\ UNCHANGED <<pair, pairOpen, pairFreed, notifying, wanted>>
    BY <1>6 DEF PollEnds, pairVars, predVars
  <2>2. PICK l \in {"swap", "end", "acquire", "idle"} : Goto(r, l)
    BY <1>6 DEF PollEnds, AfterError
  <2>3. /\ PairTypes' /\ ~watched'[x]
        /\ \A y \in Side \ {x} :
                /\ listening'[y] = listening[y]
                /\ armed'[y] = armed[y]
                /\ watched'[y] = watched[y]
    BY <1>0, <2>1 DEF PairTypes
  <2>4. \A k \in Roles : pc'[<<x, k>>] = "free_pair" => pc[<<x, k>>] = "free_pair"
    BY <1>0, <2>2, ThreadMoves
  <2>5. PairAgrees(x)' /\ Woken(x)'
    BY <2>1, <2>3, <2>4 DEF PairInv, PairAgrees, Woken, PollsPair
  <2> QED
    BY <1>0, <2>1, <2>2, <2>3, <2>5, PairStepKeeps
<1> QED
  BY <1>1, <1>2, <1>3, <1>4, <1>5, <1>6 DEF ReceiverStep

(* close(): it waits until the pair is not listened to, and leaves a byte *)
LEMMA PairCloser ==
    ASSUME LockInv, PairInv, NEW t \in Thread, CloseStep(t)
    PROVE  PairInv'
<1> DEFINE x == t[1]
<1>0. /\ x \in Side /\ t[2] \in Roles /\ t = <<x, t[2]>> /\ LockTypes /\ PairTypes
      /\ Receiver(x) \in Thread /\ Writer(x) \in Thread
  BY ThreadsDiffer DEF LockInv, PairInv, Thread, Roles
<1>1. CASE CloseSwaps(t) \/ CloseShuts(t) \/ CloseDrains(t)
  <2>1. UNCHANGED <<pair, pairOpen, pairFreed, listening, armed, watched, notifying, wanted>>
    BY <1>1 DEF CloseSwaps, CloseShuts, CloseDrains, condVars, pairVars, recvVars, predVars
  <2>2. (\E l \in {"shutdown", "close_pair", "drain"} : Goto(t, l)) \/ pc' = pc
    BY <1>1 DEF CloseSwaps, CloseShuts, CloseDrains
  <2>3. CASE \E l \in {"shutdown", "close_pair", "drain"} : Goto(t, l)
    BY <1>0, <2>1, <2>3, PairMoveKeeps DEF PairTypes
  <2>4. CASE pc' = pc
    BY <2>1, <2>4 DEF PairInv, PairTypes, PairAgrees, Woken, PollsPair
  <2> QED
    BY <2>2, <2>3, <2>4
<1>2. CASE ClosePair(t)
  <2>1. /\ pairOpen' = [pairOpen EXCEPT ![x] = FALSE] /\ pc[t] = "close_pair"
        /\ UNCHANGED <<listening, armed, watched, notifying, wanted>>
    BY <1>2 DEF ClosePair, recvVars, predVars
  <2>2. PICK l \in {"end", "free_pair"} : Goto(t, l)
    BY <1>2 DEF ClosePair, Sleep
  <2>3. /\ pair[x] \in Seq({"P", "N", "C"}) /\ Append(pair[x], "C") \in Seq({"P", "N", "C"})
        /\ Append(pair[x], "C") # <<>>
    BY <1>0, PairAppend DEF PairTypes
  <2>4. /\ pair' = pair \/ pair' = [pair EXCEPT ![x] = Append(@, "C")]
        /\ pairFreed' = pairFreed \/ (pairFreed' = [pairFreed EXCEPT ![x] = TRUE] /\ ~listening[x])
        /\ pairOpen[x] /\ listening[x] => pair' = [pair EXCEPT ![x] = Append(@, "C")]
    BY <1>2 DEF ClosePair
  <2>5. PairTypes'
    <3>1. pair' \in [Side -> Seq({"P", "N", "C"})]
      BY <1>0, <2>3, <2>4 DEF PairTypes
    <3>2. pairOpen' \in [Side -> BOOLEAN] /\ pairFreed' \in [Side -> BOOLEAN]
      BY <1>0, <2>1, <2>4 DEF PairTypes
    <3> QED
      BY <1>0, <2>1, <3>1, <3>2 DEF PairTypes
  <2>6. /\ pair[x] # <<>> => pair'[x] # <<>>
        /\ pairOpen[x] /\ listening[x] => pair'[x] # <<>>
        /\ ~pairOpen'[x]
        /\ pairFreed'[x] => pairFreed[x] \/ ~listening[x]
    BY <1>0, <2>1, <2>3, <2>4 DEF PairTypes
  <2>7. \A y \in Side \ {x} :
             /\ pair'[y] = pair[y]
             /\ pairOpen'[y] = pairOpen[y]
             /\ pairFreed'[y] = pairFreed[y]
    BY <1>0, <2>1, <2>4 DEF PairTypes
  <2>8. /\ \/ pc'[Receiver(x)] \notin {"register", "select", "unlisten"}
           \/ pc'[Receiver(x)] = pc[Receiver(x)]
        /\ pc'[Writer(x)] = "pausing" => pc[Writer(x)] = "pausing"
    BY <1>0, <2>2, ThreadMoves
  <2>9. PollsPair(x)' => PollsPair(x)
    BY <2>1, <2>8 DEF PollsPair
  <2>10. PairAgrees(x)'
    <3>1. PairAgrees(x)
      BY <1>0 DEF PairInv
    <3>2. PollsPair(x)' => listening'[x] /\ armed'[x] /\ pair'[x] # <<>>
      BY <2>1, <2>6, <2>9, <3>1 DEF PairAgrees
    <3>3. ~pairOpen'[x] /\ (pc'[Receiver(x)] = "unlisten" => ~watched'[x])
      BY <2>1, <2>6, <2>8, <3>1 DEF PairAgrees
    <3>4. pairFreed'[x] => ~PollsPair(x)'
      BY <2>6, <2>9, <3>1 DEF PairAgrees
    <3> QED
      BY <3>2, <3>3, <3>4 DEF PairAgrees
  <2>11. Woken(x)'
    BY <1>0, <2>1, <2>6, <2>8, <2>9 DEF PairInv, Woken
  <2> QED
    BY <1>0, <2>1, <2>2, <2>5, <2>7, <2>10, <2>11, PairStepKeeps
<1>3. CASE ClosePairWoken(t)
  <2>1. /\ pc[t] = "free_pair"
        /\ UNCHANGED <<pair, pairOpen, listening, armed, watched, notifying, wanted>>
    BY <1>3 DEF ClosePairWoken, recvVars, predVars
  <2>2. CASE listening[x]
    <3>1. Goto(t, "free_pair") /\ UNCHANGED pairFreed
      BY <1>3, <2>2 DEF ClosePairWoken, Sleep
    <3> QED
      BY <1>0, <2>1, <3>1, PairMoveKeeps DEF PairTypes
  <2>3. CASE ~listening[x]
    <3>1. Goto(t, "end") /\ pairFreed' = [pairFreed EXCEPT ![x] = TRUE]
      BY <1>3, <2>3 DEF ClosePairWoken
    <3>2. PairTypes' /\ \A y \in Side \ {x} : pairFreed'[y] = pairFreed[y]
      BY <1>0, <2>1, <3>1 DEF PairTypes
    <3>3. /\ \/ pc'[Receiver(x)] \notin {"register", "select", "unlisten"}
             \/ pc'[Receiver(x)] = pc[Receiver(x)]
          /\ pc'[Writer(x)] = "pausing" => pc[Writer(x)] = "pausing"
          /\ \A k \in Roles : pc'[<<x, k>>] = "free_pair" => pc[<<x, k>>] = "free_pair"
      BY <1>0, <3>1, ThreadMoves
    <3>4. (PollsPair(x)' => PollsPair(x)) /\ ~PollsPair(x) /\ ~pairOpen[x]
      BY <1>0, <2>1, <2>3, <3>3 DEF PollsPair, PairInv, PairAgrees
    <3>5. PairAgrees(x)' /\ Woken(x)'
      BY <1>0, <2>1, <3>3, <3>4 DEF PairInv, PairAgrees, Woken
    <3> QED
      BY <1>0, <2>1, <3>1, <3>2, <3>5, PairStepKeeps
  <2> QED
    BY <2>2, <2>3
<1> QED
  BY <1>1, <1>2, <1>3 DEF CloseStep

(* the result arrives, and notify() leaves a byte for the poll *)
LEMMA PairNotify ==
    ASSUME LockInv, PairInv, NEW x \in Side, ResultArrives(x) \/ Notify(x)
    PROVE  PairInv'
<1>0. PairTypes /\ pc' = pc /\ UNCHANGED <<pairOpen, pairFreed, listening, armed, watched>>
  BY DEF PairInv, ResultArrives, Notify, condVars, pairVars, recvVars
<1>1. CASE ResultArrives(x)
  <2>1. /\ wanted' = [wanted EXCEPT ![x] = TRUE] /\ notifying' = [notifying EXCEPT ![x] = TRUE]
        /\ pair' = pair
    BY <1>1 DEF ResultArrives, pairVars
  <2>2. PairTypes' /\ \A y \in Side : wanted'[y] /\ ~notifying'[y] => wanted[y] /\ ~notifying[y]
    BY <1>0, <2>1 DEF PairTypes
  <2> QED
    BY <1>0, <2>1, <2>2 DEF PairInv, PairAgrees, Woken, PollsPair
<1>2. CASE Notify(x)
  <2>1. /\ wanted' = wanted /\ notifying' = [notifying EXCEPT ![x] = FALSE]
        /\ pair' = IF pairOpen[x] /\ armed[x] /\ wanted[x]
                     THEN [pair EXCEPT ![x] = Append(@, "N")] ELSE pair
    BY <1>2 DEF Notify
  <2>2. /\ pair[x] \in Seq({"P", "N", "C"}) /\ Append(pair[x], "N") \in Seq({"P", "N", "C"})
        /\ Append(pair[x], "N") # <<>>
    BY <1>0, PairAppend DEF PairTypes
  <2>3. PairTypes'
    BY <1>0, <2>1, <2>2 DEF PairTypes
  <2>4. /\ \A y \in Side : pair[y] # <<>> => pair'[y] # <<>>
        /\ pairOpen[x] /\ armed[x] /\ wanted[x] => pair'[x] # <<>>
        /\ \A y \in Side \ {x} : notifying'[y] = notifying[y]
    BY <1>0, <2>1, <2>2 DEF PairTypes
  <2>5. ASSUME NEW y \in Side PROVE PairAgrees(y)' /\ Woken(y)'
    <3>1. PollsPair(y)' = PollsPair(y)
      BY <1>0 DEF PollsPair
    <3>2. PairAgrees(y)'
      BY <1>0, <2>4, <3>1 DEF PairInv, PairAgrees
    <3>3. CASE y = x
      BY <1>0, <2>1, <2>4, <3>1, <3>3 DEF PairInv, PairAgrees, Woken
    <3>4. CASE y # x
      <4>1. /\ Woken(y) /\ wanted'[y] = wanted[y] /\ notifying'[y] = notifying[y]
            /\ pair[y] # <<>> => pair'[y] # <<>>
        BY <2>1, <2>4, <3>4 DEF PairInv
      <4> QED
        BY <1>0, <3>2, <4>1 DEF Woken, PollsPair
    <3> QED
      BY <3>2, <3>3, <3>4
  <2> QED
    BY <2>3, <2>5 DEF PairInv
<1> QED
  BY <1>1, <1>2

(* PairInv is inductive relative to LockInv *)
LEMMA PairNext == LockInv /\ PairInv /\ [Next]_vars => PairInv'
<1> SUFFICES ASSUME LockInv, PairInv, [Next]_vars PROVE PairInv'
  OBVIOUS
<1>1. CASE UNCHANGED vars
  BY <1>1 DEF vars, condVars, pairVars, recvVars, predVars, PairInv, PairTypes, PairAgrees, Woken,
              PollsPair
<1>2. ASSUME NEW x \in Side, CloseStarts(x) PROVE PairInv'
  <2>1. Goto(Closer(x), "swap") /\ Closer(x) \in Thread
    BY <1>2, ThreadsDiffer DEF CloseStarts
  <2>2. UNCHANGED <<pair, pairOpen, pairFreed, listening, armed, watched, notifying, wanted>>
    BY <1>2 DEF CloseStarts, condVars, pairVars, recvVars, predVars
  <2> QED
    BY <2>1, <2>2, PairMoveKeeps DEF LockInv, PairInv, PairTypes
<1>3. ASSUME NEW x \in Side, SendTimesOut(x) \/ RecvTimesOut(x) PROVE PairInv'
  <2>1. UNCHANGED <<pair, pairOpen, pairFreed, listening, armed, watched, notifying, wanted>>
    BY <1>3 DEF SendTimesOut, RecvTimesOut, condVars, pairVars, recvVars, predVars
  <2>2. CASE SendTimesOut(x)
    <3>1. Goto(Writer(x), "resume") /\ Writer(x) \in Thread
      BY <2>2, ThreadsDiffer DEF SendTimesOut
    <3> QED
      BY <2>1, <3>1, PairMoveKeeps DEF LockInv, PairInv, PairTypes
  <2>3. CASE RecvTimesOut(x)
    <3>1. Goto(Receiver(x), "release") /\ Receiver(x) \in Thread
      BY <2>3, ThreadsDiffer DEF RecvTimesOut
    <3> QED
      BY <2>1, <3>1, PairMoveKeeps DEF LockInv, PairInv, PairTypes
  <2> QED
    BY <1>3, <2>2, <2>3
<1> QED
  BY <1>1, <1>2, <1>3, PairWriter, PairReceiver, PairCloser, PairNotify DEF Next

(* nobody polls at first *)
LEMMA PairInit == Init => PairInv
<1> SUFFICES ASSUME Init PROVE PairInv
  OBVIOUS
<1>1. PairTypes
  BY DEF Init, PairTypes
<1>2. ASSUME NEW x \in Side PROVE PairAgrees(x) /\ Woken(x)
  <2>1. \A r \in Roles : <<x, r>> \in Thread /\ pc[<<x, r>>] = "idle"
    BY DEF Init, Thread, Roles
  <2>2. pc[Receiver(x)] = "idle"
    BY ThreadsDiffer DEF Init
  <2> QED
    BY <2>1, <2>2 DEF Init, PairAgrees, Woken, PollsPair
<1> QED
  BY <1>1, <1>2 DEF PairInv

(* Stream.close waits: the socket pair is never closed under a poll that still
   has it registered, whichever thread closes and whenever. *)
THEOREM PairOutlivesPoll == StreamSpec => []PairNotFreedInUse
<1>1. PairInv => PairNotFreedInUse
  BY DEF PairInv, PairAgrees, PollsPair, PairNotFreedInUse
<1> QED
  BY LockInit, LockNext, PairInit, PairNext, <1>1, PTL DEF StreamSpec

(* No wakeup of a poll is lost: notify() and a pausing writer leave a byte, unless
   a close() has left one. *)
THEOREM NoWakeupIsLost == StreamSpec => []PollIsWoken
<1>1. PairInv => PollIsWoken
  BY DEF PairInv, Woken, PollsPair, PollIsWoken
<1> QED
  BY LockInit, LockNext, PairInit, PairNext, <1>1, PTL DEF StreamSpec

-----------------------------------------------------------------------------
(* Frames: FramesIntact. *)

Piece == [frame : Nat, part : 1 .. Chunks]

(* the piece the writer of end y sends next *)
NextPiece(y) == IF left[y] = 0 THEN [frame |-> frames[y] + 1, part |-> 1]
                               ELSE [frame |-> frames[y], part |-> Chunks + 1 - left[y]]

(* piece q comes after piece p *)
Comes(p, q) ==
    IF p.part = Chunks THEN q.frame = p.frame + 1 /\ q.part = 1
                       ELSE q.frame = p.frame /\ q.part = p.part + 1

InOrder(s) == \A i \in 1 .. Len(s) - 1 : Comes(s[i], s[i + 1])

(* g is the beginning of a frame, or a frame *)
Assembled(g) ==
    Len(g) <= Chunks /\ \A i \in 1 .. Len(g) : g[i].frame = g[1].frame /\ g[i].part = i

(* piece p goes on with what g is the beginning of *)
Continues(g, p) ==
    IF Len(g) = 0 \/ Len(g) = Chunks THEN p.part = 1
                                     ELSE p.frame = g[1].frame /\ p.part = Len(g) + 1

FrameTypes ==
    /\ sockOpen \in [Side -> BOOLEAN]
    /\ got \in [Side -> Seq(Piece)] /\ pipe \in [Side -> Seq(Piece)]
    /\ left \in [Side -> 0 .. Chunks] /\ frames \in [Side -> Nat]

Over == {"release", "swap", "shutdown", "drain", "close_pair", "free_pair", "end"}

(* A frame has been sent when the writer is idle, and not while it sends; it has not been
   received before the receiver lets go of the read lock. *)
PlaceInv(x) ==
    /\ pc[Writer(x)] = "idle" => left[x] = 0
    /\ pc[Writer(x)] \in {"pause", "pausing", "send"} => left[x] > 0
    /\ Len(got[x]) <= Chunks
    /\ pc[Receiver(x)] \in Over \/ Len(got[x]) < Chunks

(* only a close() that has taken the socket reads pieces away *)
DrainInv(t) == pc[t] \in {"shutdown", "drain"} => ~sockOpen[t[1]]

(* what is on its way to x, and then the next piece of the other end's writer, goes on with
   what x has received *)
JoinedInv(x) ==
    LET y == Other(x)
        s == Append(pipe[y], NextPiece(y))
    IN  Assembled(got[x]) /\ InOrder(s) /\ Continues(got[x], s[1])

FrameInv ==
    /\ FrameTypes
    /\ \A x \in Side : PlaceInv(x) /\ (sockOpen[x] => JoinedInv(x))
    /\ \A t \in Thread : DrainInv(t)

(* there are two sides, and each is the other one's other side *)
LEMMA TwoSides ==
    ASSUME NEW x \in Side
    PROVE  Other(x) \in Side /\ Other(x) # x /\ Other(Other(x)) = x /\ Side = {x, Other(x)}
<1>1. PICK a, b \in Side : a # b /\ Side = {a, b}
  BY StreamAssumption
<1>2. \A z \in Side : Other(z) \in Side /\ Other(z) # z
  BY <1>1 DEF Other
<1> QED
  BY <1>1, <1>2

(* the writer's next piece is one *)
LEMMA NextPieceIs ==
    ASSUME FrameTypes, NEW y \in Side
    PROVE  NextPiece(y) \in Piece
<1>1. Chunks \in Nat /\ Chunks > 0 /\ left[y] \in 0 .. Chunks /\ frames[y] \in Nat
  BY StreamAssumption DEF FrameTypes
<1>2. CASE left[y] = 0
  BY <1>1, <1>2 DEF NextPiece, Piece
<1>3. CASE left[y] # 0
  <2>1. Chunks + 1 - left[y] \in 1 .. Chunks
    BY <1>1, <1>3
  <2> QED
    BY <1>1, <1>3, <2>1 DEF NextPiece, Piece
<1> QED
  BY <1>2, <1>3

(* one more piece at the end *)
LEMMA InOrderAppend ==
    ASSUME NEW s \in Seq(Piece), NEW n \in Piece, NEW m \in Piece,
           InOrder(Append(s, n)), Comes(n, m)
    PROVE  /\ InOrder(Append(Append(s, n), m))
           /\ Append(Append(s, n), m)[1] = Append(s, n)[1]
<1> DEFINE u == Append(s, n)
           v == Append(u, m)
<1>1. u \in Seq(Piece) /\ Len(u) = Len(s) + 1 /\ Len(s) \in Nat /\ u[Len(s) + 1] = n
  OBVIOUS
<1> HIDE DEF u
<1>2. /\ Len(v) = Len(u) + 1
      /\ \A i \in 1 .. Len(u) + 1 : v[i] = IF i = Len(u) + 1 THEN m ELSE u[i]
  BY <1>1
<1>3. ASSUME NEW i \in 1 .. Len(v) - 1 PROVE Comes(v[i], v[i + 1])
  <2>1. i \in Int /\ 1 <= i /\ i <= Len(u)
    BY <1>1, <1>2
  <2>2. CASE i = Len(u)
    <3>1. v[i] = n /\ v[i + 1] = m
      BY <1>1, <1>2, <2>2
    <3> QED
      BY <3>1
  <2>3. CASE i < Len(u)
    <3>1. v[i] = u[i] /\ v[i + 1] = u[i + 1] /\ i \in 1 .. Len(u) - 1
      BY <1>1, <1>2, <2>1, <2>3
    <3> QED
      BY <3>1 DEF InOrder, u
  <2> QED
    BY <1>1, <2>1, <2>2, <2>3
<1>4. v[1] = u[1]
  BY <1>1, <1>2
<1> QED
  BY <1>3, <1>4 DEF InOrder, u

(* one piece less at the beginning *)
LEMMA InOrderTail ==
    ASSUME NEW s \in Seq(Piece), s # <<>>, NEW n \in Piece, InOrder(Append(s, n))
    PROVE  /\ Tail(s) \in Seq(Piece) /\ Head(s) \in Piece
           /\ InOrder(Append(Tail(s), n)) /\ Append(s, n)[1] = Head(s)
           /\ Comes(Head(s), Append(Tail(s), n)[1])
           /\ Append(Tail(s), n)[1] \in Piece
<1> DEFINE u == Append(s, n)
           r == Tail(s)
           v == Append(r, n)
<1>1. /\ Len(s) \in Nat /\ Len(s) > 0 /\ r \in Seq(Piece) /\ Len(r) = Len(s) - 1
      /\ Head(s) = s[1] /\ s[1] \in Piece
      /\ \A i \in 1 .. Len(r) : r[i] = s[i + 1]
  OBVIOUS
<1>2. /\ Len(u) = Len(s) + 1
      /\ \A i \in 1 .. Len(s) + 1 : u[i] = IF i = Len(s) + 1 THEN n ELSE s[i]
  OBVIOUS
<1> HIDE DEF u, r
<1>3. /\ v \in Seq(Piece) /\ Len(v) = Len(r) + 1
      /\ \A i \in 1 .. Len(r) + 1 : v[i] = IF i = Len(r) + 1 THEN n ELSE r[i]
  BY <1>1
<1> HIDE DEF v
<1>4. ASSUME NEW i \in 1 .. Len(s) PROVE v[i] = u[i + 1]
  <2>1. i + 1 \in 1 .. Len(s) + 1 /\ i \in 1 .. Len(r) + 1
    BY <1>1
  <2>2. u[i + 1] = IF i = Len(s) THEN n ELSE s[i + 1]
    BY <1>1, <1>2, <2>1
  <2>3. v[i] = IF i = Len(s) THEN n ELSE r[i]
    BY <1>1, <1>3, <2>1
  <2>4. i # Len(s) => i \in 1 .. Len(r)
    BY <1>1
  <2> QED
    BY <1>1, <2>2, <2>3, <2>4
<1>5. \A i \in 1 .. Len(s) : Comes(u[i], u[i + 1])
  BY <1>1, <1>2 DEF InOrder, u
<1>6. ASSUME NEW i \in 1 .. Len(v) - 1 PROVE Comes(v[i], v[i + 1])
  <2>1. i \in 1 .. Len(s) /\ i + 1 \in 1 .. Len(s)
    BY <1>1, <1>3
  <2>2. v[i] = u[i + 1] /\ v[i + 1] = u[i + 1 + 1]
    BY <1>4, <2>1
  <2> QED
    BY <1>5, <2>1, <2>2
<1>7. u[1] = Head(s) /\ v[1] = u[1 + 1] /\ Comes(u[1], u[1 + 1]) /\ v[1] \in Piece
  <2>1. 1 \in 1 .. Len(s) /\ 1 \in 1 .. Len(s) + 1 /\ 1 # Len(s) + 1 /\ 1 \in 1 .. Len(v)
    BY <1>1, <1>3
  <2> QED
    BY <1>1, <1>2, <1>3, <1>4, <1>5, <2>1
<1> QED
  BY <1>1, <1>6, <1>7 DEF InOrder, u, v, r

(* a piece is received *)
LEMMA ReceivedContinues ==
    ASSUME NEW g \in Seq(Piece), Assembled(g), Len(g) < Chunks, NEW p \in Piece,
           Continues(g, p), NEW q \in Piece, Comes(p, q)
    PROVE  Assembled(Append(g, p)) /\ Continues(Append(g, p), q)
<1> DEFINE h == Append(g, p)
<1>1. /\ Len(g) \in Nat /\ Len(h) = Len(g) + 1
      /\ \A i \in 1 .. Len(g) + 1 : h[i] = IF i = Len(g) + 1 THEN p ELSE g[i]
  OBVIOUS
<1> HIDE DEF h
<1>2. Chunks \in Nat /\ Len(g) # Chunks /\ Len(h) <= Chunks /\ Len(h) # 0
  BY <1>1, StreamAssumption
<1>3. p.part = Len(h)
  BY <1>1, <1>2 DEF Continues
<1>4. p.frame = h[1].frame
  <2>1. CASE Len(g) = 0
    BY <1>1, <2>1
  <2>2. CASE Len(g) # 0
    <3>1. h[1] = g[1]
      BY <1>1, <2>2
    <3> QED
      BY <1>2, <2>2, <3>1 DEF Continues
  <2> QED
    BY <2>1, <2>2
<1>5. ASSUME NEW i \in 1 .. Len(h) PROVE h[i].frame = h[1].frame /\ h[i].part = i
  <2>1. CASE i = Len(h)
    BY <1>1, <1>3, <1>4, <2>1
  <2>2. CASE i # Len(h)
    <3>1. i \in 1 .. Len(g) /\ 1 \in 1 .. Len(g) /\ h[i] = g[i] /\ h[1] = g[1]
      BY <1>1, <2>2
    <3> QED
      BY <3>1 DEF Assembled
  <2> QED
    BY <2>1, <2>2
<1>6. Continues(h, q)
  BY <1>2, <1>3, <1>4 DEF Continues, Comes
<1> QED
  BY <1>2, <1>5, <1>6 DEF Assembled, h

(* a thread goes on and the pieces stay where they are *)
LEMMA FramesMove ==
    ASSUME LockInv, FrameInv, NEW t \in Thread, NEW l, Goto(t, l),
           UNCHANGED <<got, pipe, left, frames>>,
           sockOpen' \in [Side -> BOOLEAN], \A x \in Side : sockOpen'[x] => sockOpen[x],
           t[2] = "writer" => /\ l = "idle" => left[t[1]] = 0
                              /\ l \in {"pause", "pausing", "send"} => left[t[1]] > 0,
           t[2] = "receiver" => l \in Over \/ Len(got[t[1]]) < Chunks,
           l \in {"shutdown", "drain"} => ~sockOpen'[t[1]]
    PROVE  FrameInv'
<1>1. \A u \in Thread : pc'[u] = IF u = t THEN l ELSE pc[u]
  BY ThreadMoves DEF LockInv
<1>2. FrameTypes'
  BY DEF FrameInv, FrameTypes
<1>3. ASSUME NEW x \in Side PROVE PlaceInv(x)'
  <2>1. PlaceInv(x)
    BY DEF FrameInv
  <2>2. Writer(x) = t => t[1] = x /\ t[2] = "writer"
    BY DEF Writer
  <2>3. Receiver(x) = t => t[1] = x /\ t[2] = "receiver"
    BY DEF Receiver
  <2>4. /\ pc'[Writer(x)] = IF Writer(x) = t THEN l ELSE pc[Writer(x)]
        /\ pc'[Receiver(x)] = IF Receiver(x) = t THEN l ELSE pc[Receiver(x)]
    BY <1>1, ThreadsDiffer
  <2> QED
    BY <2>1, <2>2, <2>3, <2>4 DEF PlaceInv
<1>4. ASSUME NEW x \in Side, sockOpen'[x] PROVE JoinedInv(x)'
  <2>1. JoinedInv(x)
    BY <1>4 DEF FrameInv
  <2> QED
    BY <2>1 DEF JoinedInv, NextPiece
<1>5. ASSUME NEW u \in Thread PROVE DrainInv(u)'
  <2>1. DrainInv(u) /\ u[1] \in Side
    BY DEF FrameInv, Thread
  <2> QED
    BY <1>1, <2>1 DEF DrainInv
<1> QED
  BY <1>2, <1>3, <1>4, <1>5 DEF FrameInv

(* nor does this move them *)
LEMMA FramesStutter ==
    ASSUME FrameInv, UNCHANGED <<pc, got, pipe, left, frames, sockOpen>>
    PROVE  FrameInv'
BY DEF FrameInv, FrameTypes, PlaceInv, JoinedInv, NextPiece, DrainInv

(* Channel.send *)
LEMMA FramesWriter ==
    ASSUME LockInv, FrameInv, NEW x \in Side,
           PauseRead(x) \/ PauseWoken(x) \/ SockSendFails(x) \/ SendTimesOut(x) \/ ResumeRead(x)
    PROVE  FrameInv'
<1> DEFINE t == Writer(x)
<1>1. t \in Thread /\ t[1] = x /\ t[2] = "writer"
  BY ThreadsDiffer DEF Writer
<1>2. PlaceInv(x) /\ sockOpen \in [Side -> BOOLEAN]
  BY DEF FrameInv, FrameTypes
<1>3. UNCHANGED <<got, pipe, left, frames, sockOpen>>
  BY DEF PauseRead, PauseWoken, SockSendFails, SendTimesOut, ResumeRead, recvVars, sendVars, sockVars
<1>4. CASE PauseRead(x) \/ PauseWoken(x)
  <2>1. PICK l \in {"pausing", "send"} : Goto(t, l)
    BY <1>4 DEF PauseRead, PauseWoken, Sleep
  <2>2. left[x] > 0
    BY <1>2, <1>4 DEF PlaceInv, PauseRead, PauseWoken
  <2> QED
    BY <1>1, <1>2, <1>3, <2>1, <2>2, FramesMove
<1>5. CASE SockSendFails(x) \/ SendTimesOut(x)
  <2>1. Goto(t, "resume")
    BY <1>5 DEF SockSendFails, SendTimesOut
  <2> QED
    BY <1>1, <1>2, <1>3, <2>1, FramesMove
<1>6. CASE ResumeRead(x)
  <2>1. Goto(t, AfterWrite(x))
    BY <1>6 DEF ResumeRead
  <2>2. left[x] \in 0 .. Chunks
    BY DEF FrameInv, FrameTypes
  <2>3. /\ AfterWrite(x) \in {"swap", "end", "pause", "idle"}
        /\ AfterWrite(x) = "pause" => left[x] > 0
        /\ AfterWrite(x) = "idle" => left[x] = 0
    BY <2>2, StreamAssumption DEF AfterWrite
  <2> QED
    BY <1>1, <1>2, <1>3, <2>1, <2>3, FramesMove
<1> QED
  BY <1>4, <1>5, <1>6

(* the next frame is begun: the next piece stays its first one *)
LEMMA FramesBegin ==
    ASSUME LockInv, FrameInv, NEW x \in Side, WriteStarts(x)
    PROVE  FrameInv'
<1> DEFINE t == Writer(x)
<1>1. t \in Thread /\ t[1] = x /\ t[2] = "writer"
  BY ThreadsDiffer DEF Writer
<1>2. /\ pc[t] = "idle" /\ Goto(t, "pause") /\ UNCHANGED <<got, pipe, sockOpen>>
      /\ frames' = [frames EXCEPT ![x] = frames[x] + 1]
      /\ left' = [left EXCEPT ![x] = Chunks]
  BY DEF WriteStarts, recvVars, sockVars
<1>3. FrameTypes /\ PlaceInv(x) /\ left[x] = 0 /\ frames[x] \in Nat
  BY <1>2 DEF FrameInv, FrameTypes, PlaceInv
<1>4. Chunks \in Nat /\ Chunks > 0 /\ Chunks \in 0 .. Chunks
  BY StreamAssumption
<1>5. /\ left' \in [Side -> 0 .. Chunks] /\ frames' \in [Side -> Nat]
      /\ \A y \in Side : left'[y] = IF y = x THEN Chunks ELSE left[y]
      /\ \A y \in Side : frames'[y] = IF y = x THEN frames[x] + 1 ELSE frames[y]
  BY <1>2, <1>3, <1>4 DEF FrameTypes
<1>6. \A u \in Thread : pc'[u] = IF u = t THEN "pause" ELSE pc[u]
  BY <1>1, <1>2, ThreadMoves DEF LockInv
<1>7. ASSUME NEW y \in Side PROVE NextPiece(y)' = NextPiece(y)
  <2>1. CASE y = x
    <3>1. NextPiece(x) = [frame |-> frames[x] + 1, part |-> 1]
      BY <1>3 DEF NextPiece
    <3>2. NextPiece(x)' = [frame |-> frames[x] + 1, part |-> Chunks + 1 - Chunks]
      BY <1>4, <1>5 DEF NextPiece
    <3>3. Chunks + 1 - Chunks = 1
      BY <1>4
    <3> QED
      BY <2>1, <3>1, <3>2, <3>3
  <2>2. CASE y # x
    BY <1>5, <2>2 DEF NextPiece
  <2> QED
    BY <2>1, <2>2
<1>8. FrameTypes'
  BY <1>2, <1>3, <1>5 DEF FrameTypes
<1>9. ASSUME NEW y \in Side PROVE PlaceInv(y)' /\ (sockOpen'[y] => JoinedInv(y)')
  <2>1. PlaceInv(y) /\ (sockOpen[y] => JoinedInv(y))
    BY DEF FrameInv
  <2>2. pc'[Writer(y)] = (IF y = x THEN "pause" ELSE pc[Writer(y)])
        /\ pc'[Receiver(y)] = pc[Receiver(y)]
    BY <1>1, <1>6, ThreadsDiffer
  <2>3. PlaceInv(y)'
    BY <1>2, <1>4, <1>5, <2>1, <2>2 DEF PlaceInv
  <2>4. JoinedInv(y) => JoinedInv(y)'
    BY <1>2, <1>7, TwoSides DEF JoinedInv
  <2> QED
    BY <1>2, <2>1, <2>3, <2>4
<1>10. ASSUME NEW u \in Thread PROVE DrainInv(u)'
  BY <1>2, <1>6 DEF DrainInv, FrameInv
<1> QED
  BY <1>8, <1>9, <1>10 DEF FrameInv

(* a piece is sent *)
LEMMA FramesSend ==
    ASSUME LockInv, FrameInv, NEW x \in Side, SockSends(x)
    PROVE  FrameInv'
<1> DEFINE t == Writer(x)
           n == NextPiece(x)
<1>1. t \in Thread /\ t[1] = x /\ t[2] = "writer"
  BY ThreadsDiffer DEF Writer
<1>2. /\ pc[t] = "send" /\ Goto(t, "resume") /\ UNCHANGED <<got, frames, sockOpen>>
      /\ left' = [left EXCEPT ![x] = left[x] - 1]
      /\ pipe' = [pipe EXCEPT ![x] =
                   Append(pipe[x], [frame |-> frames[x], part |-> Chunks + 1 - left[x]])]
  BY DEF SockSends, recvVars, sockVars
<1>3. FrameTypes /\ left[x] > 0 /\ left[x] \in 0 .. Chunks /\ frames[x] \in Nat
  BY <1>2 DEF FrameInv, FrameTypes, PlaceInv
<1>4. Chunks \in Nat /\ Chunks > 0 /\ left[x] - 1 \in 0 .. Chunks /\ left[x] # 0
  BY <1>3, StreamAssumption
<1>5. n = [frame |-> frames[x], part |-> Chunks + 1 - left[x]] /\ n \in Piece
  BY <1>3, <1>4, NextPieceIs DEF NextPiece
<1>6. /\ left' \in [Side -> 0 .. Chunks] /\ pipe' \in [Side -> Seq(Piece)]
      /\ \A y \in Side : left'[y] = IF y = x THEN left[x] - 1 ELSE left[y]
      /\ \A y \in Side : pipe'[y] = IF y = x THEN Append(pipe[x], n) ELSE pipe[y]
  BY <1>2, <1>3, <1>4, <1>5 DEF FrameTypes
<1>7. \A u \in Thread : pc'[u] = IF u = t THEN "resume" ELSE pc[u]
  BY <1>1, <1>2, ThreadMoves DEF LockInv
<1>8. FrameTypes'
  BY <1>2, <1>3, <1>6 DEF FrameTypes
<1>9. NextPiece(x)' \in Piece /\ Comes(n, NextPiece(x)')
  <2>1. /\ NextPiece(x)' = IF left[x] - 1 = 0
                             THEN [frame |-> frames[x] + 1, part |-> 1]
                             ELSE [frame |-> frames[x], part |-> Chunks + 1 - (left[x] - 1)]
    BY <1>2, <1>6 DEF NextPiece
  <2>2. CASE left[x] = 1
    BY <1>3, <1>4, <1>5, <2>1, <2>2 DEF Piece, Comes
  <2>3. CASE left[x] # 1
    <3>1. /\ Chunks + 1 - (left[x] - 1) \in 1 .. Chunks
          /\ Chunks + 1 - (left[x] - 1) = Chunks + 1 - left[x] + 1
          /\ Chunks + 1 - left[x] # Chunks /\ left[x] - 1 # 0
      BY <1>3, <1>4, <2>3
    <3> QED
      BY <1>3, <1>5, <2>1, <3>1 DEF Piece, Comes
  <2> QED
    BY <2>2, <2>3
<1>10. ASSUME NEW y \in Side PROVE PlaceInv(y)' /\ (sockOpen'[y] => JoinedInv(y)')
  <2>1. PlaceInv(y) /\ (sockOpen[y] => JoinedInv(y))
    BY DEF FrameInv
  <2>2. pc'[Writer(y)] = (IF y = x THEN "resume" ELSE pc[Writer(y)])
        /\ pc'[Receiver(y)] = pc[Receiver(y)]
    BY <1>1, <1>7, ThreadsDiffer
  <2>3. PlaceInv(y)'
    BY <1>2, <1>6, <2>1, <2>2 DEF PlaceInv
  <2>4. ASSUME JoinedInv(y) PROVE JoinedInv(y)'
    <3>1. CASE Other(y) = x
      <4>1. /\ Assembled(got[y]) /\ InOrder(Append(pipe[x], n))
            /\ Continues(got[y], Append(pipe[x], n)[1])
        BY <2>4, <3>1 DEF JoinedInv
      <4>2. pipe'[x] = Append(pipe[x], n) /\ pipe[x] \in Seq(Piece)
        BY <1>3, <1>6 DEF FrameTypes
      <4> DEFINE m == NextPiece(x)'
      <4>3. m \in Piece /\ Comes(n, m)
        BY <1>9
      <4> HIDE DEF n, m
      <4>4. /\ InOrder(Append(pipe'[x], m))
            /\ Append(pipe'[x], m)[1] = Append(pipe[x], n)[1]
        BY <1>5, <4>1, <4>2, <4>3, InOrderAppend
      <4> USE DEF m
      <4> QED
        BY <1>2, <3>1, <4>1, <4>4 DEF JoinedInv
    <3>2. CASE Other(y) # x
      <4>1. pipe'[Other(y)] = pipe[Other(y)] /\ NextPiece(Other(y))' = NextPiece(Other(y))
        BY <1>2, <1>6, <3>2, TwoSides DEF NextPiece
      <4> QED
        BY <1>2, <2>4, <4>1 DEF JoinedInv
    <3> QED
      BY <3>1, <3>2
  <2> QED
    BY <1>2, <2>1, <2>3, <2>4
<1>11. ASSUME NEW u \in Thread PROVE DrainInv(u)'
  BY <1>2, <1>7 DEF DrainInv, FrameInv
<1> QED
  BY <1>8, <1>10, <1>11 DEF FrameInv

(* the receiver's steps that take nothing from the socket *)
LEMMA FramesReceiver ==
    ASSUME LockInv, FrameInv, NEW x \in Side,
           \/ PollEnter(x) \/ PollWoken(x) \/ PollRegisters(x) \/ PollWakeup(x)
           \/ Unlisten(x) \/ PollReadable(x) \/ PollEnds(x)
           \/ AcquireRead(x) \/ SockRecvFails(x) \/ RecvTimesOut(x)
    PROVE  FrameInv'
<1> DEFINE t == Receiver(x)
<1>1. t \in Thread /\ t[1] = x /\ t[2] = "receiver"
  BY ThreadsDiffer DEF Receiver
<1>2. PlaceInv(x) /\ sockOpen \in [Side -> BOOLEAN]
  BY DEF FrameInv, FrameTypes
<1>3. CASE PollEnter(x) \/ PollWoken(x)
  <2>1. /\ pc[t] \in {"idle", "polling_wait"}
        /\ UNCHANGED <<got, pipe, left, frames, sockOpen>>
        /\ \E l \in {"register", "idle", "polling_wait"} : Goto(t, l)
    BY <1>3 DEF PollEnter, PollWoken, PollTurn, PollStarts, PollRefuses, Sleep, sockVars, sendVars
  <2>2. Len(got[x]) < Chunks
    BY <1>2, <2>1 DEF PlaceInv, Over
  <2> QED
    BY <1>1, <1>2, <2>1, <2>2, FramesMove
<1>4. CASE PollRegisters(x) \/ PollWakeup(x) \/ Unlisten(x) \/ PollReadable(x)
  <2>1. /\ pc[t] \in {"register", "select", "unlisten"}
        /\ UNCHANGED <<got, pipe, left, frames, sockOpen>>
        /\ \E l \in {"select", "poll_end", "unlisten"} : Goto(t, l)
    BY <1>4 DEF PollRegisters, PollWakeup, Unlisten, PollReadable, recvVars, sockVars, sendVars
  <2>2. Len(got[x]) < Chunks
    BY <1>2, <2>1 DEF PlaceInv, Over
  <2> QED
    BY <1>1, <1>2, <2>1, <2>2, FramesMove
<1>5. CASE PollEnds(x)
  <2>1. /\ pc[t] = "poll_end"
        /\ UNCHANGED <<got, pipe, left, frames, sockOpen>>
        /\ \E l \in {"swap", "end", "acquire", "idle"} : Goto(t, l)
    BY <1>5 DEF PollEnds, AfterError, sockVars, sendVars
  <2>2. Len(got[x]) < Chunks
    BY <1>2, <2>1 DEF PlaceInv, Over
  <2> QED
    BY <1>1, <1>2, <2>1, <2>2, FramesMove
<1>6. CASE AcquireRead(x) \/ SockRecvFails(x) \/ RecvTimesOut(x)
  <2>1. /\ pc[t] \in {"acquire", "recv"}
        /\ UNCHANGED <<got, pipe, left, frames, sockOpen>>
        /\ \E l \in {"recv", "acquire", "release"} : Goto(t, l)
    BY <1>6 DEF AcquireRead, SockRecvFails, RecvTimesOut, Sleep, recvVars, sockVars, sendVars
  <2>2. Len(got[x]) < Chunks
    BY <1>2, <2>1 DEF PlaceInv, Over
  <2> QED
    BY <1>1, <1>2, <2>1, <2>2, FramesMove
<1> QED
  BY <1>3, <1>4, <1>5, <1>6

(* a piece is received *)
LEMMA FramesReceive ==
    ASSUME LockInv, FrameInv, NEW x \in Side, SockReceives(x)
    PROVE  FrameInv'
<1> DEFINE t == Receiver(x)
           y == Other(x)
           n == NextPiece(y)
<1>1. /\ t \in Thread /\ t[1] = x /\ t[2] = "receiver"
      /\ y \in Side /\ y # x /\ Other(y) = x /\ Side = {x, y}
  BY ThreadsDiffer, TwoSides DEF Receiver
<1>2. /\ pc[t] = "recv" /\ pipe[y] # <<>> /\ Goto(t, "release")
      /\ got' = [got EXCEPT ![x] = Append(got[x], Head(pipe[y]))]
      /\ pipe' = [pipe EXCEPT ![y] = Tail(pipe[y])]
      /\ UNCHANGED <<left, frames, sockOpen>>
  BY DEF SockReceives, sendVars, sockVars
<1>3. FrameTypes /\ PlaceInv(x) /\ Len(got[x]) < Chunks
      /\ got[x] \in Seq(Piece) /\ pipe[y] \in Seq(Piece)
  BY <1>1, <1>2 DEF FrameInv, FrameTypes, PlaceInv, Over
<1>4. Head(pipe[y]) \in Piece /\ Tail(pipe[y]) \in Seq(Piece)
      /\ Append(got[x], Head(pipe[y])) \in Seq(Piece)
  BY <1>2, <1>3
<1>5. /\ got' \in [Side -> Seq(Piece)] /\ pipe' \in [Side -> Seq(Piece)]
      /\ got'[x] = Append(got[x], Head(pipe[y])) /\ got'[y] = got[y]
      /\ pipe'[y] = Tail(pipe[y]) /\ pipe'[x] = pipe[x]
  BY <1>1, <1>2, <1>3, <1>4 DEF FrameTypes
<1>6. \A u \in Thread : pc'[u] = IF u = t THEN "release" ELSE pc[u]
  BY <1>1, <1>2, ThreadMoves DEF LockInv
<1>7. FrameTypes'
  BY <1>2, <1>3, <1>5 DEF FrameTypes
<1>8. ASSUME NEW z \in Side PROVE PlaceInv(z)'
  <2>1. pc'[Receiver(z)] = (IF z = x THEN "release" ELSE pc[Receiver(z)])
        /\ pc'[Writer(z)] = pc[Writer(z)]
    BY <1>1, <1>6, ThreadsDiffer
  <2>2. PlaceInv(z) /\ (z # x => got'[z] = got[z])
    BY <1>1, <1>5 DEF FrameInv
  <2>3. Len(got'[x]) <= Chunks
    <3>1. Len(got'[x]) = Len(got[x]) + 1 /\ Len(got[x]) \in Nat
      BY <1>3, <1>4, <1>5
    <3> QED
      BY <1>3, <3>1, StreamAssumption
  <2> QED
    BY <1>2, <2>1, <2>2, <2>3 DEF PlaceInv, Over
<1>9. ASSUME JoinedInv(x) PROVE JoinedInv(x)'
  <2>1. /\ Assembled(got[x]) /\ InOrder(Append(pipe[y], n))
        /\ Continues(got[x], Append(pipe[y], n)[1])
    BY <1>9 DEF JoinedInv
  <2>2. n \in Piece /\ NextPiece(y)' = n
    BY <1>1, <1>2, <1>3, NextPieceIs DEF NextPiece
  <2> HIDE DEF n
  <2>3. /\ InOrder(Append(Tail(pipe[y]), n)) /\ Append(pipe[y], n)[1] = Head(pipe[y])
        /\ Comes(Head(pipe[y]), Append(Tail(pipe[y]), n)[1])
        /\ Append(Tail(pipe[y]), n)[1] \in Piece
    BY <1>2, <1>3, <2>1, <2>2, InOrderTail
  <2>4. /\ Assembled(Append(got[x], Head(pipe[y])))
        /\ Continues(Append(got[x], Head(pipe[y])), Append(Tail(pipe[y]), n)[1])
    BY <1>3, <1>4, <2>1, <2>3, ReceivedContinues
  <2> QED
    BY <1>5, <2>2, <2>3, <2>4 DEF JoinedInv
<1>10. ASSUME JoinedInv(y) PROVE JoinedInv(y)'
  BY <1>1, <1>2, <1>5, <1>10 DEF JoinedInv, NextPiece
<1>11. ASSUME NEW z \in Side, sockOpen'[z] PROVE JoinedInv(z)'
  BY <1>1, <1>2, <1>9, <1>10, <1>11 DEF FrameInv
<1>12. ASSUME NEW u \in Thread PROVE DrainInv(u)'
  BY <1>2, <1>6 DEF DrainInv, FrameInv
<1> QED
  BY <1>7, <1>8, <1>11, <1>12 DEF FrameInv

(* a frame that is complete is returned, or the call fails *)
LEMMA FramesRelease ==
    ASSUME LockInv, FrameInv, NEW x \in Side, ReleaseRead(x)
    PROVE  FrameInv'
<1> DEFINE t == Receiver(x)
<1>1. t \in Thread /\ t[1] = x /\ t[2] = "receiver"
  BY ThreadsDiffer DEF Receiver
<1>2. /\ FrameTypes /\ PlaceInv(x) /\ sockOpen \in [Side -> BOOLEAN] /\ got[x] \in Seq(Piece)
      /\ Chunks \in Nat /\ Chunks > 0
  BY StreamAssumption DEF FrameInv, FrameTypes
<1>3. UNCHANGED <<pipe, left, frames, sockOpen>>
  BY DEF ReleaseRead, sockVars, sendVars
<1>4. CASE failed[t] # "no"
  <2>1. got' = got /\ \E l \in {"swap", "end"} : Goto(t, l)
    BY <1>4 DEF ReleaseRead, AfterError
  <2> QED
    BY <1>1, <1>2, <1>3, <2>1, FramesMove DEF Over
<1>5. CASE failed[t] = "no" /\ Len(got[x]) # Chunks
  <2>1. got' = got /\ Goto(t, "acquire")
    BY <1>5 DEF ReleaseRead
  <2>2. Len(got[x]) < Chunks
    <3>1. Len(got[x]) \in Nat /\ Len(got[x]) <= Chunks
      BY <1>2 DEF PlaceInv
    <3> QED
      BY <1>2, <1>5, <3>1
  <2> QED
    BY <1>1, <1>2, <1>3, <2>1, <2>2, FramesMove
<1>6. CASE failed[t] = "no" /\ Len(got[x]) = Chunks
  <2>1. Goto(t, "idle") /\ got' = [got EXCEPT ![x] = <<>>]
    BY <1>6 DEF ReleaseRead
  <2>2. /\ \A z \in Side : got'[z] = IF z = x THEN <<>> ELSE got[z]
        /\ got' \in [Side -> Seq(Piece)]
    <3>1. <<>> \in Seq(Piece)
      OBVIOUS
    <3> QED
      BY <1>2, <2>1, <3>1 DEF FrameTypes
  <2>3. Len(<<>>) = 0
    OBVIOUS
  <2>4. \A u \in Thread : pc'[u] = IF u = t THEN "idle" ELSE pc[u]
    BY <1>1, <2>1, ThreadMoves DEF LockInv
  <2>5. FrameTypes'
    BY <1>2, <1>3, <2>2 DEF FrameTypes
  <2>6. ASSUME NEW z \in Side PROVE PlaceInv(z)'
    <3>1. pc'[Receiver(z)] = (IF z = x THEN "idle" ELSE pc[Receiver(z)])
          /\ pc'[Writer(z)] = pc[Writer(z)]
      BY <1>1, <2>4, ThreadsDiffer
    <3>2. PlaceInv(z)
      BY DEF FrameInv
    <3> QED
      BY <1>2, <1>3, <2>2, <2>3, <3>1, <3>2 DEF PlaceInv
  <2>7. ASSUME NEW z \in Side, JoinedInv(z) PROVE JoinedInv(z)'
    <3> DEFINE s == Append(pipe[Other(z)], NextPiece(Other(z)))
    <3>1. Assembled(got[z]) /\ InOrder(s) /\ Continues(got[z], s[1])
      BY <2>7 DEF JoinedInv
    <3>2. s' = s
      BY <1>3 DEF NextPiece
    <3> HIDE DEF s
    <3>3. CASE z = x
      <4>1. s[1].part = 1
        BY <1>6, <3>1, <3>3 DEF Continues
      <4>2. Assembled(<<>>) /\ Continues(<<>>, s[1])
        BY <1>2, <2>3, <4>1 DEF Assembled, Continues
      <4>3. got'[z] = <<>>
        BY <2>2, <3>3
      <4>4. JoinedInv(z)' <=> Assembled(got'[z]) /\ InOrder(s') /\ Continues(got'[z], s'[1])
        BY DEF JoinedInv, s
      <4> QED
        BY <3>1, <3>2, <4>2, <4>3, <4>4
    <3>4. CASE z # x
      <4>1. got'[z] = got[z]
        BY <2>2, <3>4
      <4>2. JoinedInv(z)' <=> Assembled(got'[z]) /\ InOrder(s') /\ Continues(got'[z], s'[1])
        BY DEF JoinedInv, s
      <4> QED
        BY <3>1, <3>2, <4>1, <4>2
    <3> QED
      BY <3>3, <3>4
  <2>8. ASSUME NEW z \in Side, sockOpen'[z] PROVE JoinedInv(z)'
    BY <1>3, <2>7, <2>8 DEF FrameInv
  <2>9. ASSUME NEW u \in Thread PROVE DrainInv(u)'
    BY <1>3, <2>4 DEF DrainInv, FrameInv
  <2> QED
    BY <2>5, <2>6, <2>8, <2>9 DEF FrameInv
<1> QED
  BY <1>4, <1>5, <1>6

(* close() takes the socket before it reads anything away *)
LEMMA FramesClose ==
    ASSUME LockInv, FrameInv, NEW t \in Thread, CloseStep(t)
    PROVE  FrameInv'
<1> DEFINE x == t[1]
           y == Other(x)
<1>1. x \in Side /\ y \in Side /\ y # x /\ Side = {x, y} /\ Other(y) = x
  BY TwoSides DEF Thread
<1>2. FrameTypes /\ sockOpen \in [Side -> BOOLEAN] /\ DrainInv(t)
  BY DEF FrameInv, FrameTypes
<1>3. UNCHANGED <<got, left, frames>>
  BY DEF CloseStep, CloseSwaps, CloseShuts, CloseDrains, ClosePair, ClosePairWoken, recvVars,
         sendVars
<1>4. CASE CloseSwaps(t)
  <2>1. /\ sockOpen' = [sockOpen EXCEPT ![x] = FALSE] /\ pipe' = pipe
        /\ \E l \in {"shutdown", "close_pair"} : Goto(t, l)
    BY <1>4 DEF CloseSwaps
  <2>2. /\ sockOpen' \in [Side -> BOOLEAN] /\ ~sockOpen'[x]
        /\ \A z \in Side : sockOpen'[z] => sockOpen[z]
    BY <1>1, <1>2, <2>1
  <2> QED
    BY <1>3, <2>1, <2>2, FramesMove DEF Over
<1>5. CASE CloseShuts(t)
  <2>1. pc[t] = "shutdown" /\ Goto(t, "drain") /\ sockOpen' = sockOpen /\ pipe' = pipe
    BY <1>5 DEF CloseShuts
  <2>2. ~sockOpen[x]
    BY <1>2, <2>1 DEF DrainInv
  <2> QED
    BY <1>2, <1>3, <2>1, <2>2, FramesMove DEF Over
<1>6. CASE ClosePair(t) \/ ClosePairWoken(t)
  <2>1. /\ sockOpen' = sockOpen /\ pipe' = pipe
        /\ \E l \in {"end", "free_pair"} : Goto(t, l)
    BY <1>6 DEF ClosePair, ClosePairWoken, Sleep, sockVars
  <2> QED
    BY <1>2, <1>3, <2>1, FramesMove DEF Over
<1>7. CASE CloseDrains(t) /\ pipe[y] = <<>>
  <2>1. Goto(t, "close_pair") /\ sockOpen' = sockOpen /\ pipe' = pipe
    BY <1>7 DEF CloseDrains
  <2> QED
    BY <1>2, <1>3, <2>1, FramesMove DEF Over
<1>8. CASE CloseDrains(t) /\ pipe[y] # <<>>
  <2>1. /\ pc[t] = "drain" /\ pc' = pc /\ sockOpen' = sockOpen
        /\ pipe' = [pipe EXCEPT ![y] = Tail(pipe[y])]
    BY <1>8 DEF CloseDrains
  <2>2. ~sockOpen[x]
    BY <1>2, <2>1 DEF DrainInv
  <2>3. pipe' \in [Side -> Seq(Piece)] /\ pipe'[x] = pipe[x]
    <3>1. Tail(pipe[y]) \in Seq(Piece)
      BY <1>1, <1>2, <1>8 DEF FrameTypes
    <3> QED
      BY <1>1, <1>2, <2>1, <3>1 DEF FrameTypes
  <2>4. FrameTypes'
    BY <1>2, <1>3, <2>1, <2>3 DEF FrameTypes
  <2>5. \A z \in Side : PlaceInv(z)'
    BY <1>3, <2>1 DEF FrameInv, PlaceInv
  <2>6. JoinedInv(y) => JoinedInv(y)'
    BY <1>1, <1>3, <2>3 DEF JoinedInv, NextPiece
  <2>7. \A z \in Side : sockOpen'[z] => JoinedInv(z)'
    BY <1>1, <2>1, <2>2, <2>6 DEF FrameInv
  <2>8. \A u \in Thread : DrainInv(u)'
    BY <2>1 DEF FrameInv, DrainInv
  <2> QED
    BY <2>4, <2>5, <2>7, <2>8 DEF FrameInv
<1> QED
  BY <1>4, <1>5, <1>6, <1>7, <1>8 DEF CloseStep

(* FrameInv is inductive, beside LockInv *)
LEMMA FrameNext == LockInv /\ FrameInv /\ [Next]_vars => FrameInv'
<1> SUFFICES ASSUME LockInv, FrameInv, [Next]_vars PROVE FrameInv'
  OBVIOUS
<1>1. CASE UNCHANGED vars
  BY <1>1, FramesStutter DEF vars, recvVars, sendVars, sockVars
<1>2. ASSUME NEW x \in Side, WriteStarts(x) \/ WriterStep(x) PROVE FrameInv'
  BY <1>2, FramesBegin, FramesSend, FramesWriter DEF WriterStep
<1>3. ASSUME NEW x \in Side, ReceiverStep(x) \/ SendTimesOut(x) \/ RecvTimesOut(x) PROVE FrameInv'
  BY <1>3, FramesWriter, FramesReceiver, FramesReceive, FramesRelease DEF ReceiverStep
<1>4. ASSUME NEW x \in Side, ResultArrives(x) \/ Notify(x) PROVE FrameInv'
  <2>1. UNCHANGED <<pc, got, pipe, left, frames, sockOpen>>
    BY <1>4 DEF ResultArrives, Notify, recvVars, sendVars, sockVars
  <2> QED
    BY <2>1, FramesStutter
<1>5. ASSUME NEW x \in Side, CloseStarts(x) PROVE FrameInv'
  <2>1. /\ Closer(x) \in Thread /\ Closer(x)[2] = "closer"
        /\ Goto(Closer(x), "swap") /\ UNCHANGED <<got, pipe, left, frames, sockOpen>>
    BY <1>5, ThreadsDiffer DEF CloseStarts, Closer, recvVars, sendVars, sockVars
  <2>2. sockOpen \in [Side -> BOOLEAN] /\ "closer" # "writer" /\ "closer" # "receiver"
    BY DEF FrameInv, FrameTypes
  <2> QED
    BY <2>1, <2>2, FramesMove
<1>6. ASSUME NEW t \in Thread, CloseStep(t) PROVE FrameInv'
  BY <1>6, FramesClose
<1> QED
  BY <1>1, <1>2, <1>3, <1>4, <1>5, <1>6 DEF Next

(* nothing has been sent *)
LEMMA FrameInit == Init => FrameInv
<1> SUFFICES ASSUME Init PROVE FrameInv
  OBVIOUS
<1>1. /\ Chunks \in Nat /\ Chunks > 0 /\ 0 \in 0 .. Chunks /\ <<>> \in Seq(Piece)
      /\ Len(<<>>) = 0
  BY StreamAssumption
<1>2. FrameTypes
  BY <1>1 DEF Init, FrameTypes
<1>3. ASSUME NEW x \in Side PROVE PlaceInv(x) /\ JoinedInv(x)
  <2>1. /\ pc[Writer(x)] = "idle" /\ pc[Receiver(x)] = "idle"
        /\ got[x] = <<>> /\ left[x] = 0 /\ Other(x) \in Side
    BY ThreadsDiffer, TwoSides DEF Init
  <2>2. PlaceInv(x)
    BY <1>1, <2>1 DEF PlaceInv
  <2> DEFINE n == NextPiece(Other(x))
  <2>3. pipe[Other(x)] = <<>> /\ n.part = 1
    BY <2>1 DEF Init, NextPiece
  <2> HIDE DEF n
  <2>4. Append(<<>>, n)[1] = n /\ Len(Append(<<>>, n)) = 1
    OBVIOUS
  <2>5. Assembled(<<>>) /\ InOrder(Append(<<>>, n)) /\ Continues(<<>>, n)
    BY <1>1, <2>3, <2>4 DEF Assembled, InOrder, Continues
  <2>6. JoinedInv(x)
    BY <2>1, <2>3, <2>4, <2>5 DEF JoinedInv, n
  <2> QED
    BY <2>2, <2>6
<1>4. \A t \in Thread : DrainInv(t)
  BY DEF Init, DrainInv
<1> QED
  BY <1>2, <1>3, <1>4 DEF FrameInv

(* Channel.recv assembles a frame from consecutive pieces of one frame, in any number of
   frames of any length, whatever the writers do and whenever the other end closes. *)
THEOREM FramesAreWhole == StreamSpec => []FramesIntact
<1>1. FrameInv => FramesIntact
  <2> SUFFICES ASSUME FrameInv, NEW x \in Side, sockOpen[x], NEW i \in DOMAIN got[x]
               PROVE  got[x][i] = [frame |-> got[x][1].frame, part |-> i]
    BY DEF FramesIntact
  <2>1. Assembled(got[x]) /\ got[x] \in Seq(Piece)
    BY DEF FrameInv, JoinedInv, FrameTypes
  <2>2. i \in 1 .. Len(got[x]) /\ got[x][i] \in Piece
    BY <2>1
  <2>3. got[x][i].frame = got[x][1].frame /\ got[x][i].part = i
    BY <2>1, <2>2 DEF Assembled
  <2> QED
    BY <2>2, <2>3 DEF Piece
<1> QED
  BY LockInit, LockNext, FrameInit, FrameNext, <1>1, PTL DEF StreamSpec

-----------------------------------------------------------------------------
(* Pipes. *)

PipeSpec == PipeInit /\ [][PipeNext]_pipeVars

PipePlaces == {"idle", "write", "in_write", "poll", "os_read", "store", "header", "body",
               "swap", "close_out", "join", "clear", "end"}

PipeTypes ==
    /\ at \in [PipeThread -> PipePlaces]
    /\ incoming \in [End -> BOOLEAN] /\ outgoing \in [End -> BOOLEAN]
    /\ readFd \in [End -> BOOLEAN] /\ writeFd \in [End -> BOOLEAN]
    /\ ready \in [End -> Seq(Nat)] /\ buf \in [End -> Seq(Nat)] /\ inPipe \in [End -> Seq(Nat)]
    /\ last \in [End -> Nat] /\ written \in [End -> Nat]

(* The files are closed by whoever has taken them over. *)
FileInv ==
    /\ \A x \in End : outgoing[x] => writeFd[x]
    /\ \A t \in PipeThread : at[t] \in {"close_out", "join", "clear"} => ~outgoing[t[1]]

(* As long as close() has not been called the read thread ends when, and only when, the
   other end has closed the pipe and everything that was in it has been read. *)
ReaderInv(x) ==
    /\ at[ReadThread(x)] \in {"poll", "os_read", "store", "end"}
    /\ at[ReadThread(x)] # "end" => readFd[x] /\ incoming[x]
    /\ at[ReadThread(x)] # "store" => buf[x] = <<>>
    /\ \/ at[ReadThread(x)] = "os_read" /\ inPipe[Peer(x)] = <<>>
       \/ at[ReadThread(x)] = "store" /\ buf[x] = <<>>
       \/ at[ReadThread(x)] = "end"
       => NoMoreData(Peer(x))

(* the pieces of q follow piece n *)
Follow(q, n) == \A i \in 1 .. Len(q) : q[i] = n + i

(* everything between the other end's writer and what read() has returned *)
Arriving(x) == last[x] + Len(ready[x]) + Len(buf[x]) + Len(inPipe[Peer(x)])

(* complete messages have been read, or those and a header *)
Whole(n)     == \E k \in Nat : n = k * Parts
WithHeader(n) == \E k \in Nat : n = k * Parts + 1

(* The receiver has dropped what was left of a message that will never be complete. *)
Dropped(x) ==
    /\ at[PipeReceiver(x)] = "swap" /\ at[ReadThread(x)] = "end" /\ ready[x] = <<>>
    /\ written[Peer(x)] \div Parts = last[x] \div Parts

PieceInv(x) ==
    /\ Follow(ready[x], last[x])
    /\ Follow(buf[x], last[x] + Len(ready[x]))
    /\ Follow(inPipe[Peer(x)], last[x] + Len(ready[x]) + Len(buf[x]))
    /\ written[Peer(x)] = Arriving(x) \/ Dropped(x)
    /\ at[PipeReceiver(x)] \in {"poll", "header"} => Whole(last[x])
    /\ at[PipeReceiver(x)] = "body" => WithHeader(last[x])

EndInv(x) == outgoing[x] => ReaderInv(x) /\ PieceInv(x)

PipeInv == PipeTypes /\ FileInv /\ \A x \in End : EndInv(x)

(* sequences of pieces that follow one another *)
LEMMA FollowAppend ==
    ASSUME NEW q \in Seq(Nat), NEW n \in Nat, Follow(q, n)
    PROVE  /\ Follow(Append(q, n + Len(q) + 1), n)
           /\ n + Len(Append(q, n + Len(q) + 1)) = n + Len(q) + 1
<1>1. Len(Append(q, n + Len(q) + 1)) = Len(q) + 1 /\ Len(q) \in Nat
  OBVIOUS
<1>2. \A i \in 1 .. Len(q) + 1 :
         Append(q, n + Len(q) + 1)[i] = IF i = Len(q) + 1 THEN n + Len(q) + 1 ELSE q[i]
  OBVIOUS
<1>3. \A i \in 1 .. Len(q) + 1 : i # Len(q) + 1 => i \in 1 .. Len(q)
  BY <1>1
<1>4. \A i \in 1 .. Len(q) + 1 : Append(q, n + Len(q) + 1)[i] = n + i
  BY <1>1, <1>2, <1>3 DEF Follow
<1> QED
  BY <1>1, <1>4 DEF Follow

(* what follows what follows *)
LEMMA FollowConcat ==
    ASSUME NEW p \in Seq(Nat), NEW q \in Seq(Nat), NEW n \in Int,
           NEW m, m = n + Len(p), Follow(p, n), Follow(q, m)
    PROVE  Follow(p \o q, n) /\ Len(p \o q) = Len(p) + Len(q)
<1>1. Len(p \o q) = Len(p) + Len(q) /\ Len(p) \in Nat /\ Len(q) \in Nat
  OBVIOUS
<1>2. ASSUME NEW i \in 1 .. Len(p) + Len(q) PROVE (p \o q)[i] = n + i
  <2>1. CASE i \in 1 .. Len(p)
    BY <1>1, <2>1 DEF Follow
  <2>2. CASE i - Len(p) \in 1 .. Len(q)
    <3>1. (p \o q)[i] = q[i - Len(p)]
      BY <1>1, <2>2
    <3>2. q[i - Len(p)] = n + Len(p) + (i - Len(p))
      BY <2>2 DEF Follow
    <3> QED
      BY <1>1, <3>1, <3>2
  <2> QED
    BY <1>1, <2>1, <2>2
<1> QED
  BY <1>1, <1>2 DEF Follow

(* what is left when the first k pieces have been taken *)
LEMMA FollowRest ==
    ASSUME NEW q \in Seq(Nat), NEW n \in Nat, Follow(q, n), NEW k \in 1 .. Len(q)
    PROVE  /\ q[k] = n + k
           /\ SubSeq(q, k + 1, Len(q)) \in Seq(Nat)
           /\ Follow(SubSeq(q, k + 1, Len(q)), n + k)
           /\ Len(SubSeq(q, k + 1, Len(q))) = Len(q) - k
<1>1. Len(q) \in Nat /\ k \in Nat
  OBVIOUS
<1>2. SubSeq(q, k + 1, Len(q)) \in Seq(Nat) /\ Len(SubSeq(q, k + 1, Len(q))) = Len(q) - k
  BY <1>1
<1>3. ASSUME NEW i \in 1 .. Len(q) - k PROVE SubSeq(q, k + 1, Len(q))[i] = n + k + i
  <2>1. SubSeq(q, k + 1, Len(q))[i] = q[k + i] /\ k + i \in 1 .. Len(q)
    BY <1>1
  <2> QED
    BY <1>1, <2>1 DEF Follow
<1> QED
  BY <1>1, <1>2, <1>3 DEF Follow

(* the pieces of a message, counted *)
LEMMA PartsOfMessage ==
    ASSUME NEW n \in Nat
    PROVE  /\ Whole(n) => WithHeader(n + 1)
           /\ WithHeader(n) => Whole(n + (Parts - 1))
           /\ WithHeader(n) => \A r \in 0 .. Parts - 2 : (n + r) \div Parts = n \div Parts
<1>1. Parts \in Nat /\ Parts > 1
  BY PipeAssumption
<1>2. Whole(n) => WithHeader(n + 1)
  BY DEF Whole, WithHeader
<1>3. ASSUME NEW k \in Nat, n = k * Parts + 1
      PROVE  /\ n + (Parts - 1) = (k + 1) * Parts
             /\ \A r \in 0 .. Parts - 2 : (n + r) \div Parts = n \div Parts
  <2>1. \A P \in Nat : k * P + 1 + (P - 1) = (k + 1) * P
    OBVIOUS
  <2>2. \A P \in Nat : \A s \in 0 .. P - 1 : P > 0 => (k * P + s) \div P = k
    OBVIOUS
  <2>3. ASSUME NEW r \in 0 .. Parts - 2 PROVE (n + r) \div Parts = n \div Parts
    <3>1. 1 + r \in 0 .. Parts - 1 /\ 1 \in 0 .. Parts - 1
      BY <1>1
    <3>2. (k * Parts + (1 + r)) \div Parts = k /\ (k * Parts + 1) \div Parts = k
      BY <1>1, <2>2, <3>1
    <3>3. n + r = k * Parts + (1 + r)
      <4> DEFINE m == k * Parts
      <4>1. m \in Nat
        BY <1>1
      <4> HIDE DEF m
      <4>2. m + 1 + r = m + (1 + r)
        BY <4>1
      <4> QED
        BY <1>3, <4>2 DEF m
    <3> QED
      BY <1>3, <3>2, <3>3
  <2> QED
    BY <1>1, <1>3, <2>1, <2>3
<1>4. \A k \in Nat : k + 1 \in Nat
  OBVIOUS
<1> QED
  BY <1>2, <1>3, <1>4 DEF Whole, WithHeader

(* there are two ends, and each is the other one's peer *)
LEMMA TwoEnds ==
    ASSUME NEW x \in End
    PROVE  Peer(x) \in End /\ Peer(x) # x /\ Peer(Peer(x)) = x /\ End = {x, Peer(x)}
<1>1. PICK a, b \in End : a # b /\ End = {a, b}
  BY PipeAssumption
<1>2. \A z \in End : Peer(z) \in End /\ Peer(z) # z
  BY <1>1 DEF Peer
<1> QED
  BY <1>1, <1>2

(* the threads of the two ends, and no two with one name *)
LEMMA PipeThreadsDiffer ==
    ASSUME NEW x \in End, NEW y \in End
    PROVE  /\ {PipeWriter(x), PipeReceiver(x), PipeCloser(x), ReadThread(x)} \subseteq PipeThread
           /\ PipeWriter(x)[1] = x /\ PipeReceiver(x)[1] = x /\ ReadThread(x)[1] = x
           /\ PipeWriter(x) # PipeReceiver(y) /\ PipeWriter(x) # ReadThread(y)
           /\ PipeReceiver(x) # ReadThread(y)
           /\ PipeCloser(x) \notin {PipeWriter(y), PipeReceiver(y), ReadThread(y)}
<1>1. \A r \in {"writer", "receiver", "closer", "readthread"} : <<x, r>> \in PipeThread
  BY DEF PipeThread
<1>2. \A r, s : <<x, r>> = <<y, s>> => x = y /\ r = s
  OBVIOUS
<1> QED
  BY <1>1, <1>2 DEF PipeWriter, PipeReceiver, PipeCloser, ReadThread

(* what EndInv(x) says is about these, and about the end of the other writer *)
View(x) == <<at[ReadThread(x)], at[PipeReceiver(x)], outgoing[x], incoming[x], readFd[x],
             ready[x], buf[x], last[x], inPipe[Peer(x)], written[Peer(x)]>>

(* a step that changes nothing of this, and after which a pipe that had ended still has *)
LEMMA UnseenKeeps ==
    ASSUME NEW x \in End, EndInv(x), UNCHANGED View(x),
           NoMoreData(Peer(x)) => NoMoreData(Peer(x))'
    PROVE  EndInv(x)'
<1>1. outgoing'[x] = outgoing[x]
  BY DEF View
<1>2. ASSUME ReaderInv(x) PROVE ReaderInv(x)'
  BY <1>2 DEF ReaderInv, View
<1>3. ASSUME PieceInv(x) PROVE PieceInv(x)'
  BY <1>3 DEF PieceInv, Dropped, Arriving, View
<1> QED
  BY <1>1, <1>2, <1>3 DEF EndInv

-----------------------------------------------------------------------------
(* a thread that is neither the receiver nor the read thread goes on *)
LEMMA BystanderKeeps ==
    ASSUME PipeInv, NEW z \in End, NEW t \in {PipeWriter(z), PipeCloser(z)},
           NEW l \in {"idle", "write", "in_write", "swap", "end"}, Move(t, l),
           l = "in_write" => writeFd[z],
           UNCHANGED <<fileVars, dataVars>>
    PROVE  PipeInv'
<1> USE DEF PipeInv
<1>1. t \in PipeThread
  BY PipeThreadsDiffer
<1>2. PipeTypes' /\ \A u \in PipeThread : at'[u] = IF u = t THEN l ELSE at[u]
  BY <1>1 DEF PipeTypes, PipePlaces, Move, fileVars, dataVars
<1>3. FileInv'
  BY <1>2 DEF FileInv, fileVars
<1>4. ASSUME NEW x \in End PROVE EndInv(x)'
  <2>1. UNCHANGED View(x)
    BY <1>2, PipeThreadsDiffer DEF View, fileVars, dataVars
  <2>2. ASSUME NEW y \in End, NoMoreData(y) PROVE NoMoreData(y)'
    <3>1. PipeWriter(y) = PipeWriter(z) => y = z
      BY DEF PipeWriter
    <3>2. at'[PipeWriter(y)] = at[PipeWriter(y)] \/ (y = z /\ at'[PipeWriter(y)] = l)
      BY <1>2, <3>1, PipeThreadsDiffer
    <3> QED
      BY <2>2, <3>2 DEF NoMoreData, fileVars, dataVars
  <2> QED
    BY <2>1, <2>2, UnseenKeeps, TwoEnds
<1> QED
  BY <1>2, <1>3, <1>4

(* the writer's calls, and the beginning of close() *)
LEMMA PipeWriterStepKeeps ==
    ASSUME PipeInv, NEW z \in End, PipeWrite(z) \/ OsWriteStarts(z) \/ OsWriteFails(z) \/ HangUp(z)
    PROVE  PipeInv'
<1>1. outgoing[z] => writeFd[z]
  BY DEF PipeInv, FileInv
<1>2. CASE PipeWrite(z) \/ OsWriteFails(z) \/ HangUp(z)
  BY <1>2, BystanderKeeps DEF PipeWrite, OsWriteFails, HangUp
<1>3. CASE OsWriteStarts(z)
  <2>1. \E l \in {"in_write", "end", "swap"} :
           Move(PipeWriter(z), l) /\ (l = "in_write" => writeFd[z])
    BY <1>1, <1>3 DEF OsWriteStarts
  <2> QED
    BY <1>3, <2>1, BystanderKeeps DEF OsWriteStarts
<1> QED
  BY <1>2, <1>3

(* a piece gets into the pipe *)
LEMMA OsWritesKeeps ==
    ASSUME PipeInv, NEW z \in End, OsWrites(z)
    PROVE  PipeInv'
<1> USE DEF PipeInv
<1> DEFINE x == Peer(z)
<1>1. x \in End /\ x # z /\ Peer(x) = z /\ End = {x, z}
  BY TwoEnds
<1>2. PipeWriter(z) \in PipeThread
  BY PipeThreadsDiffer
<1>3. /\ at[PipeWriter(z)] = "in_write"
      /\ written[z] \in Nat /\ written' = [written EXCEPT ![z] = written[z] + 1]
      /\ inPipe' = [inPipe EXCEPT ![z] = Append(inPipe[z], written[z] + 1)]
      /\ UNCHANGED <<incoming, outgoing, reader, readFd, writeFd, ready, buf, last>>
      /\ \E l \in {"idle", "write"} : Move(PipeWriter(z), l)
  BY DEF OsWrites, PipeTypes, fileVars
<1>4. PICK l \in {"idle", "write"} :
        \A u \in PipeThread : at'[u] = IF u = PipeWriter(z) THEN l ELSE at[u]
  BY <1>2, <1>3 DEF Move, PipeTypes
<1>5. PipeTypes'
  <2>1. at' \in [PipeThread -> PipePlaces]
    BY <1>3 DEF Move, PipeTypes, PipePlaces
  <2>2. inPipe' \in [End -> Seq(Nat)] /\ written' \in [End -> Nat]
    BY <1>3 DEF PipeTypes
  <2> QED
    BY <1>3, <2>1, <2>2 DEF PipeTypes
<1>6. FileInv'
  BY <1>3, <1>4 DEF FileInv
<1>7. EndInv(z)'
  <2>1. UNCHANGED View(z)
    BY <1>1, <1>3, <1>4, PipeThreadsDiffer DEF View, PipeTypes
  <2>2. NoMoreData(Peer(z)) => NoMoreData(Peer(z))'
    <3>1. PipeWriter(x) # PipeWriter(z)
      BY <1>1 DEF PipeWriter
    <3> QED
      BY <1>1, <1>3, <1>4, <3>1, PipeThreadsDiffer DEF NoMoreData, PipeTypes
  <2> QED
    BY <2>1, <2>2, UnseenKeeps
<1>8. EndInv(x)'
  <2> SUFFICES ASSUME outgoing[x] PROVE ReaderInv(x)' /\ PieceInv(x)'
    BY <1>3 DEF EndInv
  <2>1. ReaderInv(x) /\ PieceInv(x)
    BY <1>1 DEF EndInv
  <2>2. ~NoMoreData(z)
    BY <1>3 DEF NoMoreData
  <2>3. /\ at'[ReadThread(x)] = at[ReadThread(x)] /\ at'[PipeReceiver(x)] = at[PipeReceiver(x)]
        /\ inPipe'[z] = Append(inPipe[z], written[z] + 1) /\ written'[z] = written[z] + 1
        /\ inPipe[z] \in Seq(Nat)
    BY <1>1, <1>3, <1>4, PipeThreadsDiffer DEF PipeTypes
  <2>4. ReaderInv(x)'
    <3>1. inPipe'[z] # <<>>
      BY <2>3
    <3> QED
      BY <1>1, <1>3, <2>1, <2>2, <2>3, <3>1 DEF ReaderInv
  <2>5. written[z] = last[x] + Len(ready[x]) + Len(buf[x]) + Len(inPipe[z])
    BY <1>1, <2>1, <2>2 DEF ReaderInv, PieceInv, Dropped, Arriving
  <2>6. last[x] \in Nat /\ Len(ready[x]) \in Nat /\ Len(buf[x]) \in Nat /\ Len(inPipe[z]) \in Nat
    BY <1>1 DEF PipeTypes
  <2> DEFINE n == last[x] + Len(ready[x]) + Len(buf[x])
  <2>7. n \in Nat /\ written[z] = n + Len(inPipe[z])
    BY <2>5, <2>6
  <2>8. Follow(inPipe[z], n)
    BY <1>1, <2>1 DEF PieceInv
  <2>9. Follow(inPipe'[z], n) /\ written'[z] = n + Len(inPipe'[z])
    <3> HIDE DEF n
    <3>1. inPipe'[z] = Append(inPipe[z], n + Len(inPipe[z]) + 1)
      BY <2>3, <2>7
    <3> QED
      BY <2>3, <2>6, <2>7, <2>8, <3>1, FollowAppend
  <2>10. PieceInv(x)'
    <3>1. Arriving(x)' = n + Len(inPipe'[z])
      BY <1>1, <1>3 DEF Arriving
    <3> QED
      BY <1>1, <1>3, <2>1, <2>3, <2>9, <3>1 DEF PieceInv
  <2> QED
    BY <2>4, <2>10
<1> QED
  BY <1>1, <1>5, <1>6, <1>7, <1>8

-----------------------------------------------------------------------------
(* for arithmetic on lengths *)
LEMMA LenNat == ASSUME NEW q \in Seq(Nat) PROVE Len(q) \in Nat
OBVIOUS

(* the head of what follows, and the rest *)
LEMMA FollowTail ==
    ASSUME NEW q \in Seq(Nat), q # <<>>, NEW n \in Nat, Follow(q, n)
    PROVE  /\ <<Head(q)>> \in Seq(Nat) /\ Tail(q) \in Seq(Nat)
           /\ Follow(<<Head(q)>>, n) /\ Len(<<Head(q)>>) = 1
           /\ Follow(Tail(q), n + 1) /\ Len(q) = 1 + Len(Tail(q))
<1>1. Len(q) \in Nat /\ Len(q) > 0 /\ Tail(q) \in Seq(Nat) /\ Len(Tail(q)) = Len(q) - 1
      /\ Head(q) = q[1] /\ Head(q) \in Nat
  OBVIOUS
<1>2. Head(q) = n + 1
  BY <1>1 DEF Follow
<1>3. Len(<<Head(q)>>) = 1 /\ <<Head(q)>>[1] = Head(q) /\ <<Head(q)>> \in Seq(Nat)
  BY <1>1
<1>4. ASSUME NEW i \in 1 .. Len(Tail(q)) PROVE Tail(q)[i] = n + 1 + i
  <2>1. Tail(q)[i] = q[i + 1] /\ i + 1 \in 1 .. Len(q)
    BY <1>1
  <2> QED
    BY <1>1, <2>1 DEF Follow
<1>5. Follow(<<Head(q)>>, n)
  BY <1>2, <1>3 DEF Follow
<1> QED
  BY <1>1, <1>3, <1>4, <1>5 DEF Follow

(* What a thread of one end does to its own end, to what it reads and to its file is not
   seen at the other end. *)
LEMMA OtherEndKeeps ==
    ASSUME PipeInv, NEW z \in End, NEW t \in PipeThread, t[1] = z,
           \A u \in PipeThread : u # t => at'[u] = at[u],
           at'[t] # "in_write",
           inPipe'[z] = inPipe[z], written' = written,
           writeFd' = writeFd \/ writeFd' = [writeFd EXCEPT ![z] = FALSE],
           NEW y, y = Peer(z),
           outgoing'[y] = outgoing[y], incoming'[y] = incoming[y], readFd'[y] = readFd[y],
           ready'[y] = ready[y], buf'[y] = buf[y], last'[y] = last[y]
    PROVE  EndInv(y)'
<1>1. y \in End /\ y # z /\ Peer(y) = z
  BY TwoEnds
<1>2. at'[ReadThread(y)] = at[ReadThread(y)] /\ at'[PipeReceiver(y)] = at[PipeReceiver(y)]
  BY <1>1, PipeThreadsDiffer
<1>3. UNCHANGED View(y)
  BY <1>1, <1>2 DEF View
<1>4. PipeWriter(z) \in PipeThread
  BY PipeThreadsDiffer
<1>5. NoMoreData(z) => NoMoreData(z)'
  <2>1. writeFd'[z] = writeFd[z] \/ ~writeFd'[z]
    BY DEF PipeInv, PipeTypes
  <2> QED
    BY <1>4, <2>1 DEF NoMoreData
<1>6. EndInv(y)
  BY <1>1 DEF PipeInv
<1> QED
  BY <1>1, <1>3, <1>5, <1>6, UnseenKeeps

(* the read thread and the receiver never close the outgoing pipe *)
LEMMA FilesKept ==
    ASSUME PipeInv, NEW t \in PipeThread, UNCHANGED <<outgoing, writeFd>>,
           \A u \in PipeThread : u # t => at'[u] = at[u],
           at'[t] \notin {"close_out", "join", "clear"}
    PROVE  FileInv'
BY DEF FileInv, PipeInv

(* the read thread finds something to read *)
LEMMA ReaderWakesKeeps ==
    ASSUME PipeInv, NEW z \in End, ReaderWakes(z) \/ ReaderFindsClosed(z)
    PROVE  PipeInv'
<1> DEFINE t == ReadThread(z)
           y == Peer(z)
<1>1. y \in End /\ y # z /\ End = {z, y}
  BY TwoEnds
<1>2. t \in PipeThread /\ t[1] = z /\ PipeReceiver(z) \in PipeThread /\ PipeReceiver(z) # t
      /\ PipeWriter(y) \in PipeThread /\ PipeWriter(y) # t
  BY <1>1, PipeThreadsDiffer
<1>3. /\ at[t] = "poll" /\ at' = [at EXCEPT ![t] = "os_read"]
      /\ UNCHANGED <<incoming, outgoing, readFd, writeFd, ready, buf, last, written, inPipe>>
  BY DEF ReaderWakes, ReaderFindsClosed, Move, fileVars, dataVars
<1>4. PipeTypes /\ EndInv(z)
  BY DEF PipeInv
<1>5. /\ PipeTypes' /\ at'[t] = "os_read"
      /\ \A u \in PipeThread : u # t => at'[u] = at[u]
  BY <1>2, <1>3, <1>4 DEF PipeTypes, PipePlaces
<1>6. FileInv'
  BY <1>2, <1>3, <1>5, FilesKept
<1>7. EndInv(y)'
  BY <1>2, <1>3, <1>5, OtherEndKeeps
<1>8. EndInv(z)'
  <2> SUFFICES ASSUME outgoing[z] PROVE ReaderInv(z)' /\ PieceInv(z)'
    BY <1>3 DEF EndInv
  <2>1. ReaderInv(z) /\ PieceInv(z)
    BY <1>4 DEF EndInv
  <2>2. readFd[z] /\ incoming[z] /\ ReaderWakes(z)
    BY <1>3, <2>1 DEF ReaderInv, ReaderFindsClosed
  <2>3. inPipe[y] = <<>> => NoMoreData(y)
    BY <2>2 DEF ReaderWakes
  <2>4. NoMoreData(y) => NoMoreData(y)'
    BY <1>2, <1>3, <1>5 DEF NoMoreData
  <2>5. ReaderInv(z)'
    BY <1>3, <1>5, <2>1, <2>2, <2>3, <2>4 DEF ReaderInv
  <2>6. PieceInv(z)'
    BY <1>2, <1>3, <1>5, <2>1 DEF PieceInv, Dropped, Arriving
  <2> QED
    BY <2>5, <2>6
<1> QED
  BY <1>1, <1>5, <1>6, <1>7, <1>8 DEF PipeInv

(* a piece leaves the pipe *)
LEMMA OsReadsKeeps ==
    ASSUME PipeInv, NEW z \in End, OsReads(z)
    PROVE  PipeInv'
<1> DEFINE t == ReadThread(z)
           y == Peer(z)
           n == last[z] + Len(ready[z])
<1>1. y \in End /\ y # z /\ End = {z, y}
  BY TwoEnds
<1>2. t \in PipeThread /\ t[1] = z /\ PipeReceiver(z) \in PipeThread /\ PipeReceiver(z) # t
      /\ PipeWriter(y) \in PipeThread /\ PipeWriter(y) # t
  BY <1>1, PipeThreadsDiffer
<1>3. PipeTypes /\ EndInv(z)
  BY DEF PipeInv
<1>4. /\ at[t] = "os_read" /\ at' = [at EXCEPT ![t] = "store"]
      /\ UNCHANGED <<incoming, outgoing, readFd, writeFd, ready, last, written>>
      /\ IF readFd[z] /\ inPipe[y] # <<>>
           THEN /\ buf' = [buf EXCEPT ![z] = <<Head(inPipe[y])>>]
                /\ inPipe' = [inPipe EXCEPT ![y] = Tail(inPipe[y])]
           ELSE buf' = buf /\ inPipe' = inPipe
  BY DEF OsReads, Move, fileVars
<1>5. at' \in [PipeThread -> PipePlaces] /\ at'[t] = "store"
      /\ \A u \in PipeThread : u # t => at'[u] = at[u]
  BY <1>2, <1>3, <1>4 DEF PipeTypes, PipePlaces
<1>6. inPipe[y] \in Seq(Nat) /\ n \in Nat /\ Len(ready[z]) \in Nat /\ last[z] \in Nat
  BY <1>1, <1>3 DEF PipeTypes
<1>7. CASE readFd[z] /\ inPipe[y] # <<>>
  <2>1. /\ <<Head(inPipe[y])>> \in Seq(Nat) /\ Tail(inPipe[y]) \in Seq(Nat)
        /\ Len(<<Head(inPipe[y])>>) = 1 /\ Len(inPipe[y]) = 1 + Len(Tail(inPipe[y]))
    BY <1>6, <1>7 
  <2>2. /\ \A x \in End : buf'[x] = IF x = z THEN <<Head(inPipe[y])>> ELSE buf[x]
        /\ \A x \in End : inPipe'[x] = IF x = y THEN Tail(inPipe[y]) ELSE inPipe[x]
        /\ buf' \in [End -> Seq(Nat)] /\ inPipe' \in [End -> Seq(Nat)]
    BY <1>1, <1>3, <1>4, <1>7, <2>1 DEF PipeTypes
  <2>3. PipeTypes'
    BY <1>3, <1>4, <1>5, <2>2 DEF PipeTypes
  <2>4. FileInv'
    BY <1>2, <1>4, <1>5, FilesKept
  <2>5. EndInv(y)'
    BY <1>1, <1>2, <1>4, <1>5, <2>2, OtherEndKeeps
  <2>6. EndInv(z)'
    <3> SUFFICES ASSUME outgoing[z] PROVE ReaderInv(z)' /\ PieceInv(z)'
      BY <1>4 DEF EndInv
    <3>1. ReaderInv(z) /\ PieceInv(z)
      BY <1>3 DEF EndInv
    <3>2. buf[z] = <<>> /\ readFd[z] /\ incoming[z] /\ Len(buf[z]) = 0
      BY <1>4, <3>1 DEF ReaderInv
    <3>3. buf'[z] = <<Head(inPipe[y])>> /\ inPipe'[y] = Tail(inPipe[y]) /\ buf'[z] # <<>>
      <4>1. \A h : <<h>> # <<>>
        OBVIOUS
      <4> QED
        BY <1>1, <2>2, <4>1
    <3>4. ReaderInv(z)'
      BY <1>4, <1>5, <3>2, <3>3 DEF ReaderInv
    <3>5. Follow(inPipe[y], n)
      <4>1. n + Len(buf[z]) = n
        BY <1>6, <3>2
      <4> QED
        BY <3>1, <4>1 DEF PieceInv
    <3>6. Follow(buf'[z], n) /\ Follow(inPipe'[y], n + Len(buf'[z])) /\ Len(buf'[z]) = 1
      <4> HIDE DEF n
      <4> QED
        BY <1>6, <1>7, <3>3, <3>5, FollowTail
    <3>7. Arriving(z)' = Arriving(z)
      <4>1. Arriving(z) = n + 0 + Len(inPipe[y]) /\ Arriving(z)' = n + 1 + Len(inPipe'[y])
        BY <1>4, <3>2, <3>6 DEF Arriving
      <4>2. Len(Tail(inPipe[y])) \in Nat
        BY <2>1
      <4>3. \A k, a, b \in Nat : a = 1 + b => k + 0 + a = k + 1 + b
        OBVIOUS
      <4>4. Len(inPipe[y]) \in Nat /\ Len(inPipe'[y]) = Len(Tail(inPipe[y]))
        BY <1>6, <3>3
      <4> HIDE DEF n
      <4>5. n + 0 + Len(inPipe[y]) = n + 1 + Len(Tail(inPipe[y]))
        BY <1>6, <2>1, <4>2, <4>3, <4>4, Zenon
      <4> QED
        BY <4>1, <4>4, <4>5, Zenon
    <3>8. written[y] = Arriving(z)
      BY <1>4, <3>1 DEF PieceInv, Dropped
    <3>9. PieceInv(z)'
      BY <1>2, <1>4, <1>5, <3>1, <3>6, <3>7, <3>8 DEF PieceInv
    <3> QED
      BY <3>4, <3>9
  <2> QED
    BY <1>1, <2>3, <2>4, <2>5, <2>6 DEF PipeInv
<1>8. CASE ~(readFd[z] /\ inPipe[y] # <<>>)
  <2>1. buf' = buf /\ inPipe' = inPipe
    BY <1>4, <1>8
  <2>3. PipeTypes'
    BY <1>3, <1>4, <1>5, <2>1 DEF PipeTypes
  <2>4. FileInv'
    BY <1>2, <1>4, <1>5, FilesKept
  <2>5. EndInv(y)'
    BY <1>1, <1>2, <1>4, <1>5, <2>1, OtherEndKeeps
  <2>6. EndInv(z)'
    <3> SUFFICES ASSUME outgoing[z] PROVE ReaderInv(z)' /\ PieceInv(z)'
      BY <1>4 DEF EndInv
    <3>1. ReaderInv(z) /\ PieceInv(z)
      BY <1>3 DEF EndInv
    <3>2. readFd[z] /\ incoming[z] /\ NoMoreData(y)
      BY <1>4, <1>8, <3>1 DEF ReaderInv
    <3>3. NoMoreData(y)'
      BY <1>2, <1>4, <1>5, <2>1, <3>2 DEF NoMoreData
    <3>4. ReaderInv(z)'
      BY <1>4, <1>5, <2>1, <3>2, <3>3 DEF ReaderInv
    <3>5. PieceInv(z)'
      BY <1>2, <1>4, <1>5, <2>1, <3>1 DEF PieceInv, Dropped, Arriving
    <3> QED
      BY <3>4, <3>5
  <2> QED
    BY <1>1, <2>3, <2>4, <2>5, <2>6 DEF PipeInv
<1> QED
  BY <1>7, <1>8

(* the piece is appended to __ready, or the read thread ends *)
LEMMA ReaderStoresKeeps ==
    ASSUME PipeInv, NEW z \in End, ReaderStores(z)
    PROVE  PipeInv'
<1> DEFINE t == ReadThread(z)
           y == Peer(z)
<1>1. y \in End /\ y # z /\ End = {z, y}
  BY TwoEnds
<1>2. t \in PipeThread /\ t[1] = z /\ PipeReceiver(z) \in PipeThread /\ PipeReceiver(z) # t
      /\ PipeWriter(y) \in PipeThread /\ PipeWriter(y) # t
  BY <1>1, PipeThreadsDiffer
<1>3. PipeTypes /\ EndInv(z)
  BY DEF PipeInv
<1>4. at[t] = "store" /\ UNCHANGED <<outgoing, writeFd, last, written, inPipe>>
  BY DEF ReaderStores
<1>5. ready[z] \in Seq(Nat) /\ buf[z] \in Seq(Nat) /\ last[z] \in Nat
      /\ Len(ready[z]) \in Nat /\ Len(buf[z]) \in Nat /\ Len(inPipe[y]) \in Nat
  BY <1>1, <1>3 DEF PipeTypes
<1>6. CASE buf[z] # <<>>
  <2>1. /\ ready' = [ready EXCEPT ![z] = ready[z] \o buf[z]]
        /\ buf' = [buf EXCEPT ![z] = <<>>] /\ at' = [at EXCEPT ![t] = "poll"]
        /\ incoming' = incoming /\ readFd' = readFd
    BY <1>6 DEF ReaderStores, Move
  <2>2. at' \in [PipeThread -> PipePlaces] /\ at'[t] = "poll"
        /\ \A u \in PipeThread : u # t => at'[u] = at[u]
    BY <1>2, <1>3, <2>1 DEF PipeTypes, PipePlaces
  <2>3. /\ ready' \in [End -> Seq(Nat)] /\ buf' \in [End -> Seq(Nat)]
        /\ ready'[z] = ready[z] \o buf[z] /\ ready'[y] = ready[y]
        /\ buf'[z] = <<>> /\ buf'[y] = buf[y]
    <3>1. ready[z] \o buf[z] \in Seq(Nat) /\ <<>> \in Seq(Nat)
      BY <1>5
    <3> QED
      BY <1>1, <1>3, <2>1, <3>1 DEF PipeTypes
  <2>4. PipeTypes'
    BY <1>3, <1>4, <2>1, <2>2, <2>3 DEF PipeTypes
  <2>5. FileInv'
    BY <1>2, <1>4, <2>2, FilesKept
  <2>6. EndInv(y)'
    BY <1>1, <1>2, <1>4, <2>1, <2>2, <2>3, OtherEndKeeps
  <2>7. EndInv(z)'
    <3> SUFFICES ASSUME outgoing[z] PROVE ReaderInv(z)' /\ PieceInv(z)'
      BY <1>4 DEF EndInv
    <3>1. ReaderInv(z) /\ PieceInv(z)
      BY <1>3 DEF EndInv
    <3>2. readFd[z] /\ incoming[z]
      BY <1>4, <3>1 DEF ReaderInv
    <3>3. ReaderInv(z)'
      BY <1>4, <2>1, <2>2, <2>3, <3>2 DEF ReaderInv
    <3>4. Follow(ready'[z], last[z]) /\ Len(ready'[z]) = Len(ready[z]) + Len(buf[z])
      <4>1. last[z] \in Int /\ last[z] + Len(ready[z]) = last[z] + Len(ready[z])
        BY <1>5
      <4>2. Follow(ready[z], last[z]) /\ Follow(buf[z], last[z] + Len(ready[z]))
        BY <3>1 DEF PieceInv
      <4> QED
        BY <1>5, <2>3, <4>1, <4>2, FollowConcat, Zenon
    <3>5. Len(buf'[z]) = 0 /\ \A k \in Nat : Follow(buf'[z], k)
      BY <2>3 DEF Follow
    <3>6. last[z] + Len(ready'[z]) = last[z] + Len(ready[z]) + Len(buf[z])
          /\ last[z] + Len(ready'[z]) \in Nat
      <4>1. \A k, a, b \in Nat : \A c : c = a + b => k + c = k + a + b /\ k + c \in Nat
        OBVIOUS
      <4> QED
        BY <1>5, <3>4, <4>1, Zenon
    <3>7. last[z] + Len(ready'[z]) + Len(buf'[z]) = last[z] + Len(ready[z]) + Len(buf[z])
      <4> DEFINE m == last[z] + Len(ready'[z])
      <4> HIDE DEF m
      <4>1. m \in Nat => m + 0 = m
        OBVIOUS
      <4> QED
        BY <3>5, <3>6, <4>1 DEF m
    <3>8. Arriving(z)' = Arriving(z)
      BY <1>4, <3>7 DEF Arriving
    <3>9. Follow(inPipe'[y], last[z] + Len(ready'[z]) + Len(buf'[z]))
      BY <1>4, <3>1, <3>7 DEF PieceInv
    <3>10. written[y] = Arriving(z)
      BY <1>4, <3>1 DEF PieceInv, Dropped
    <3>11. PieceInv(z)'
      BY <1>2, <1>4, <2>2, <3>1, <3>4, <3>5, <3>6, <3>8, <3>9, <3>10 DEF PieceInv
    <3> QED
      BY <3>3, <3>11
  <2> QED
    BY <1>1, <2>4, <2>5, <2>6, <2>7 DEF PipeInv
<1>7. CASE buf[z] = <<>>
  <2>1. /\ incoming' = [incoming EXCEPT ![z] = FALSE]
        /\ readFd' = [readFd EXCEPT ![z] = FALSE]
        /\ at' = [at EXCEPT ![t] = "end"] /\ ready' = ready /\ buf' = buf
    BY <1>7 DEF ReaderStores, Move
  <2>2. at' \in [PipeThread -> PipePlaces] /\ at'[t] = "end"
        /\ \A u \in PipeThread : u # t => at'[u] = at[u]
    BY <1>2, <1>3, <2>1 DEF PipeTypes, PipePlaces
  <2>3. incoming' \in [End -> BOOLEAN] /\ readFd' \in [End -> BOOLEAN]
        /\ incoming'[y] = incoming[y] /\ readFd'[y] = readFd[y]
    BY <1>1, <1>3, <2>1 DEF PipeTypes
  <2>4. PipeTypes'
    BY <1>3, <1>4, <2>1, <2>2, <2>3 DEF PipeTypes
  <2>5. FileInv'
    BY <1>2, <1>4, <2>2, FilesKept
  <2>6. EndInv(y)'
    BY <1>1, <1>2, <1>4, <2>1, <2>2, <2>3, OtherEndKeeps
  <2>7. EndInv(z)'
    <3> SUFFICES ASSUME outgoing[z] PROVE ReaderInv(z)' /\ PieceInv(z)'
      BY <1>4 DEF EndInv
    <3>1. ReaderInv(z) /\ PieceInv(z)
      BY <1>3 DEF EndInv
    <3>2. NoMoreData(y)
      BY <1>4, <1>7, <3>1 DEF ReaderInv
    <3>3. NoMoreData(y)'
      BY <1>2, <1>4, <2>2, <3>2 DEF NoMoreData
    <3>4. ReaderInv(z)'
      BY <1>7, <2>1, <2>2, <3>3 DEF ReaderInv
    <3>5. PieceInv(z)'
      BY <1>2, <1>4, <2>1, <2>2, <3>1 DEF PieceInv, Dropped, Arriving
    <3> QED
      BY <3>4, <3>5
  <2> QED
    BY <1>1, <2>4, <2>5, <2>6, <2>7 DEF PipeInv
<1> QED
  BY <1>6, <1>7

-----------------------------------------------------------------------------
(* the receiver's poll: nothing is taken from __ready *)
LEMMA PipePollKeeps ==
    ASSUME PipeInv, NEW z \in End, PipePoll(z)
    PROVE  PipeInv'
<1> DEFINE t == PipeReceiver(z)
           y == Peer(z)
<1>1. y \in End /\ y # z /\ End = {z, y}
  BY TwoEnds
<1>2. t \in PipeThread /\ t[1] = z /\ ReadThread(z) \in PipeThread /\ ReadThread(z) # t
      /\ PipeWriter(y) \in PipeThread /\ PipeWriter(y) # t
  BY <1>1, PipeThreadsDiffer
<1>3. PipeTypes /\ EndInv(z)
  BY DEF PipeInv
<1>4. /\ at[t] = "poll"
      /\ UNCHANGED <<incoming, outgoing, readFd, writeFd, ready, buf, last, written, inPipe>>
  BY DEF PipePoll, fileVars, dataVars
<1>5. at' = at \/ \E l \in {"header", "swap", "end"} : Move(t, l)
  BY DEF PipePoll, AfterEOF
<1>6. PICK l \in {"poll", "header", "swap", "end"} :
        /\ at' \in [PipeThread -> PipePlaces] /\ at'[t] = l
        /\ \A u \in PipeThread : u # t => at'[u] = at[u]
  BY <1>2, <1>3, <1>4, <1>5 DEF Move, PipeTypes, PipePlaces
<1>7. PipeTypes'
  BY <1>3, <1>4, <1>6 DEF PipeTypes
<1>8. FileInv'
  BY <1>2, <1>4, <1>6, FilesKept
<1>9. EndInv(y)'
  BY <1>2, <1>4, <1>6, OtherEndKeeps
<1>10. EndInv(z)'
  <2> SUFFICES ASSUME outgoing[z] PROVE ReaderInv(z)' /\ PieceInv(z)'
    BY <1>4 DEF EndInv
  <2>1. ReaderInv(z) /\ PieceInv(z)
    BY <1>3, <1>4 DEF EndInv
  <2>2. NoMoreData(y) => NoMoreData(y)'
    BY <1>2, <1>4, <1>6 DEF NoMoreData
  <2>3. ReaderInv(z)'
    BY <1>2, <1>4, <1>6, <2>1, <2>2 DEF ReaderInv
  <2>4. written[y] = Arriving(z) /\ Whole(last[z])
    BY <1>4, <2>1 DEF PieceInv, Dropped
  <2>5. PieceInv(z)'
    BY <1>2, <1>4, <1>6, <2>1, <2>4 DEF PieceInv, Arriving
  <2> QED
    BY <2>3, <2>5
<1> QED
  BY <1>1, <1>7, <1>8, <1>9, <1>10 DEF PipeInv

(* read(count) returns the next pieces *)
LEMMA ReadTakes ==
    ASSUME PipeInv, NEW z \in End, NEW count \in Nat \ {0},
           at[PipeReceiver(z)] \in {"header", "body"},
           Len(ready[z]) >= count,
           last' = [last EXCEPT ![z] = ready[z][count]],
           ready' = [ready EXCEPT ![z] = SubSeq(@, count + 1, Len(@))],
           NEW next \in {"body", "poll"}, Move(PipeReceiver(z), next),
           outgoing[z] /\ next = "body" => WithHeader(last[z] + count),
           outgoing[z] /\ next = "poll" => Whole(last[z] + count),
           UNCHANGED <<fileVars, buf, written, inPipe>>
    PROVE  PipeInv'
<1> DEFINE t == PipeReceiver(z)
           y == Peer(z)
<1>1. y \in End /\ y # z /\ End = {z, y}
  BY TwoEnds
<1>2. t \in PipeThread /\ t[1] = z /\ ReadThread(z) \in PipeThread /\ ReadThread(z) # t
      /\ PipeWriter(y) \in PipeThread /\ PipeWriter(y) # t
  BY <1>1, PipeThreadsDiffer
<1>3. PipeTypes /\ EndInv(z)
  BY DEF PipeInv
<1>4. UNCHANGED <<incoming, outgoing, readFd, writeFd, buf, written, inPipe>>
  BY DEF fileVars
<1>5. /\ at' \in [PipeThread -> PipePlaces] /\ at'[t] = next
      /\ \A u \in PipeThread : u # t => at'[u] = at[u]
  BY <1>2, <1>3 DEF Move, PipeTypes, PipePlaces
<1>6. /\ ready[z] \in Seq(Nat) /\ Len(ready[z]) \in Nat /\ last[z] \in Nat
      /\ count \in 1 .. Len(ready[z])
      /\ Len(buf[z]) \in Nat /\ Len(inPipe[y]) \in Nat
  BY <1>1, <1>3 DEF PipeTypes
<1>7. ready[z][count] \in Nat /\ SubSeq(ready[z], count + 1, Len(ready[z])) \in Seq(Nat)
  BY <1>6
<1>8. /\ last' \in [End -> Nat] /\ ready' \in [End -> Seq(Nat)]
      /\ last'[y] = last[y] /\ ready'[y] = ready[y] /\ last'[z] = ready[z][count]
      /\ ready'[z] = SubSeq(ready[z], count + 1, Len(ready[z]))
  BY <1>1, <1>3, <1>7 DEF PipeTypes
<1>9. PipeTypes'
  BY <1>3, <1>4, <1>5, <1>8 DEF PipeTypes
<1>10. FileInv'
  BY <1>2, <1>4, <1>5, FilesKept
<1>11. EndInv(y)'
  BY <1>2, <1>4, <1>5, <1>8, OtherEndKeeps
<1>12. EndInv(z)'
  <2> SUFFICES ASSUME outgoing[z] PROVE ReaderInv(z)' /\ PieceInv(z)'
    BY <1>4 DEF EndInv
  <2>1. ReaderInv(z) /\ PieceInv(z)
    BY <1>3, <1>4 DEF EndInv
  <2>2. NoMoreData(y) => NoMoreData(y)'
    BY <1>2, <1>4, <1>5 DEF NoMoreData
  <2>3. ReaderInv(z)'
    BY <1>2, <1>4, <1>5, <2>1, <2>2 DEF ReaderInv
  <2>4. Follow(ready[z], last[z]) /\ written[y] = Arriving(z)
    BY <2>1 DEF PieceInv, Dropped
  <2>5. /\ last'[z] = last[z] + count
        /\ Follow(ready'[z], last'[z])
        /\ Len(ready'[z]) = Len(ready[z]) - count
    BY <1>6, <1>8, <2>4, FollowRest
  <2>6. last'[z] + Len(ready'[z]) = last[z] + Len(ready[z])
    <3>1. count \in Nat
      OBVIOUS
    <3>2. last[z] + count + (Len(ready[z]) - count) = last[z] + Len(ready[z])
      BY <1>6, <3>1
    <3> QED
      BY <2>5, <3>2, Zenon
  <2>7. Arriving(z)' = Arriving(z)
    BY <1>4, <2>6 DEF Arriving
  <2>8. PieceInv(z)'
    BY <1>4, <1>5, <2>1, <2>4, <2>5, <2>6, <2>7 DEF PieceInv
  <2> QED
    BY <2>3, <2>8
<1> QED
  BY <1>1, <1>9, <1>10, <1>11, <1>12 DEF PipeInv

(* read(count) at the end of the pipe: what is left is not a complete message *)
LEMMA ReadDrops ==
    ASSUME PipeInv, NEW z \in End, NEW count \in Nat,
           \/ at[PipeReceiver(z)] = "header" /\ count = 1
           \/ at[PipeReceiver(z)] = "body" /\ count = Parts - 1,
           Len(ready[z]) < count, ~incoming[z],
           ready' = [ready EXCEPT ![z] = <<>>],
           Move(PipeReceiver(z), "swap"),
           UNCHANGED <<fileVars, buf, last, written, inPipe>>
    PROVE  PipeInv'
<1> DEFINE t == PipeReceiver(z)
           y == Peer(z)
<1>1. y \in End /\ y # z /\ End = {z, y}
  BY TwoEnds
<1>2. t \in PipeThread /\ t[1] = z /\ ReadThread(z) \in PipeThread /\ ReadThread(z) # t
      /\ PipeWriter(y) \in PipeThread /\ PipeWriter(y) # t
  BY <1>1, PipeThreadsDiffer
<1>3. PipeTypes /\ EndInv(z)
  BY DEF PipeInv
<1>4. UNCHANGED <<incoming, outgoing, readFd, writeFd, buf, last, written, inPipe>>
  BY DEF fileVars
<1>5. /\ at' \in [PipeThread -> PipePlaces] /\ at'[t] = "swap"
      /\ \A u \in PipeThread : u # t => at'[u] = at[u]
  BY <1>2, <1>3 DEF Move, PipeTypes, PipePlaces
<1>6. ready'[z] = <<>> /\ ready'[y] = ready[y] /\ ready' \in [End -> Seq(Nat)]
  <2>1. <<>> \in Seq(Nat)
    OBVIOUS
  <2> QED
    BY <1>1, <1>3, <2>1 DEF PipeTypes
<1>7. PipeTypes'
  BY <1>3, <1>4, <1>5, <1>6 DEF PipeTypes
<1>8. FileInv'
  BY <1>2, <1>4, <1>5, FilesKept
<1>9. EndInv(y)'
  BY <1>2, <1>4, <1>5, <1>6, OtherEndKeeps
<1>10. EndInv(z)'
  <2> SUFFICES ASSUME outgoing[z] PROVE ReaderInv(z)' /\ PieceInv(z)'
    BY <1>4 DEF EndInv
  <2>1. ReaderInv(z) /\ PieceInv(z)
    BY <1>3, <1>4 DEF EndInv
  <2>2. at[ReadThread(z)] = "end" /\ buf[z] = <<>> /\ NoMoreData(y) /\ inPipe[y] = <<>>
    BY <2>1 DEF ReaderInv, NoMoreData
  <2>3. NoMoreData(y)'
    BY <1>2, <1>4, <1>5, <2>2 DEF NoMoreData
  <2>4. ReaderInv(z)'
    BY <1>2, <1>4, <1>5, <2>2, <2>3 DEF ReaderInv
  <2>5. Len(ready[z]) \in Nat /\ last[z] \in Nat /\ Len(buf[z]) = 0 /\ Len(inPipe[y]) = 0
    BY <1>3, <2>2 DEF PipeTypes
  <2>6. written[y] = last[z] + Len(ready[z])
    <3>1. written[y] = Arriving(z)
      BY <2>1 DEF PieceInv, Dropped
    <3>2. \A a, b \in Nat : a + b + 0 + 0 = a + b
      OBVIOUS
    <3> QED
      BY <2>5, <3>1, <3>2, Zenon DEF Arriving
  <2>7. written[y] \div Parts = last[z] \div Parts
    <3>1. CASE at[t] = "header" /\ count = 1
      BY <2>5, <2>6, <3>1
    <3>2. CASE at[t] = "body" /\ count = Parts - 1
      <4>1. WithHeader(last[z])
        BY <2>1, <3>2 DEF PieceInv
      <4>2. Len(ready[z]) \in 0 .. Parts - 2
        BY <2>5, <3>2, PipeAssumption
      <4> QED
        BY <2>5, <2>6, <4>1, <4>2, PartsOfMessage
    <3> QED
      BY <3>1, <3>2
  <2>8. \A n : Follow(<<>>, n)
    BY DEF Follow
  <2>9. PieceInv(z)'
    BY <1>2, <1>4, <1>5, <1>6, <2>2, <2>7, <2>8 DEF PieceInv, Dropped
  <2> QED
    BY <2>4, <2>9
<1> QED
  BY <1>1, <1>7, <1>8, <1>9, <1>10 DEF PipeInv

(* steps that nothing above speaks of *)
LEMMA UnseenStepKeeps ==
    ASSUME PipeInv, UNCHANGED <<at, fileVars, dataVars>>
    PROVE  PipeInv'
<1>1. PipeTypes'
  BY DEF PipeInv, PipeTypes, fileVars, dataVars
<1>2. FileInv'
  BY DEF PipeInv, FileInv, fileVars
<1>3. ASSUME NEW x \in End PROVE EndInv(x)'
  <2>1. UNCHANGED View(x) /\ (NoMoreData(Peer(x)) => NoMoreData(Peer(x))')
    BY DEF View, NoMoreData, fileVars, dataVars
  <2> QED
    BY <2>1, UnseenKeeps DEF PipeInv
<1> QED
  BY <1>1, <1>2, <1>3 DEF PipeInv

(* the receiver's steps, and those of whoever wakes it *)
LEMMA PipeReceiverKeeps ==
    ASSUME PipeInv, NEW z \in End, PipeReceiverStep(z) \/ WantBecomesTrue(z) \/ PipeNotify(z)
    PROVE  PipeInv'
<1>1. Parts \in Nat /\ Parts > 1 /\ Parts - 1 \in Nat \ {0} /\ 1 \in Nat \ {0}
  BY PipeAssumption
<1>2. /\ outgoing[z] /\ at[PipeReceiver(z)] = "header" => Whole(last[z])
      /\ outgoing[z] /\ at[PipeReceiver(z)] = "body" => WithHeader(last[z])
  BY DEF PipeInv, EndInv, PieceInv
<1>3. last[z] \in Nat /\ Len(ready[z]) \in Nat
  BY DEF PipeInv, PipeTypes
<1>4. CASE PipePoll(z)
  BY <1>4, PipePollKeeps
<1>5. CASE WantBecomesTrue(z) \/ PipeNotify(z)
  <2>1. UNCHANGED <<at, fileVars, dataVars>>
    BY <1>5 DEF WantBecomesTrue, PipeNotify
  <2> QED
    BY <2>1, UnseenStepKeeps
<1>6. CASE ReadHeader(z) \/ ReadBody(z)
  <2>1. PICK label \in {"header", "body"}, count \in Nat \ {0}, next \in {"body", "poll"} :
           /\ PipeRead(z, label, count, next)
           /\ \/ label = "header" /\ count = 1 /\ next = "body"
              \/ label = "body" /\ count = Parts - 1 /\ next = "poll"
    BY <1>1, <1>6 DEF ReadHeader, ReadBody
  <2>2. at[PipeReceiver(z)] = label /\ UNCHANGED <<fileVars, buf, written, inPipe>>
    BY <2>1 DEF PipeRead
  <2>3. CASE Len(ready[z]) >= count
    <3>1. /\ last' = [last EXCEPT ![z] = ready[z][count]]
          /\ ready' = [ready EXCEPT ![z] = SubSeq(@, count + 1, Len(@))]
          /\ Move(PipeReceiver(z), next)
      BY <2>1, <2>3 DEF PipeRead
    <3>2. /\ outgoing[z] /\ next = "body" => WithHeader(last[z] + count)
          /\ outgoing[z] /\ next = "poll" => Whole(last[z] + count)
      BY <1>2, <1>3, <2>1, <2>2, PartsOfMessage
    <3> QED
      BY <2>2, <2>3, <3>1, <3>2, ReadTakes
  <2>4. CASE Len(ready[z]) < count /\ ~incoming[z]
    <3>1. /\ ready' = [ready EXCEPT ![z] = <<>>]
          /\ Move(PipeReceiver(z), "swap") /\ last' = last
      BY <1>3, <2>1, <2>4 DEF PipeRead
    <3> QED
      BY <2>1, <2>2, <2>4, <3>1, ReadDrops
  <2>5. CASE Len(ready[z]) < count /\ incoming[z]
    <3>1. at' = at /\ ready' = ready /\ last' = last
      BY <1>3, <2>1, <2>5 DEF PipeRead
    <3> QED
      BY <2>2, <3>1, UnseenStepKeeps DEF dataVars
  <2> QED
    BY <1>3, <2>3, <2>4, <2>5
<1> QED
  BY <1>4, <1>5, <1>6 DEF PipeReceiverStep

-----------------------------------------------------------------------------
(* close(), whoever calls it, leaves the other end's pieces alone *)
LEMMA PipeCloseKeeps ==
    ASSUME PipeInv, NEW t \in PipeThread, PipeCloseStep(t)
    PROVE  PipeInv'
<1> DEFINE x == t[1]
           y == Peer(x)
<1>1. x \in End
  BY DEF PipeThread
<1>2. y \in End /\ y # x /\ End = {x, y}
  BY <1>1, TwoEnds
<1>3. PipeTypes /\ FileInv
  BY DEF PipeInv
<1>4. PICK l \in {"close_out", "join", "clear", "end"} : Move(t, l)
  BY DEF PipeCloseStep, PipeSwap, CloseOutgoing, CloseIncoming, ClearReady
<1>5. /\ at' \in [PipeThread -> PipePlaces] /\ at'[t] = l
      /\ \A u \in PipeThread : u # t => at'[u] = at[u]
  BY <1>3, <1>4 DEF Move, PipeTypes, PipePlaces
<1>6. /\ outgoing' \in [End -> BOOLEAN] /\ ~outgoing'[x]
      /\ \A z \in End : z # x => outgoing'[z] = outgoing[z]
  <2>1. CASE PipeSwap(t)
    <3>1. outgoing' = [outgoing EXCEPT ![x] = FALSE]
      BY <2>1 DEF PipeSwap
    <3> QED
      BY <1>1, <1>3, <3>1 DEF PipeTypes
  <2>2. CASE CloseOutgoing(t) \/ CloseIncoming(t) \/ ClearReady(t)
    <3>1. at[t] \in {"close_out", "join", "clear"} /\ outgoing' = outgoing
      BY <2>2 DEF CloseOutgoing, CloseIncoming, ClearReady, fileVars
    <3> QED
      BY <1>3, <3>1 DEF FileInv, PipeTypes
  <2> QED
    BY <2>1, <2>2 DEF PipeCloseStep
<1>7. writeFd' = writeFd \/ writeFd' = [writeFd EXCEPT ![x] = FALSE]
  BY DEF PipeCloseStep, PipeSwap, CloseOutgoing, CloseIncoming, ClearReady, fileVars
<1>8. /\ writeFd' \in [End -> BOOLEAN]
      /\ \A z \in End : z # x => writeFd'[z] = writeFd[z]
  BY <1>1, <1>3, <1>7 DEF PipeTypes
<1>9. incoming' \in [End -> BOOLEAN] /\ incoming'[y] = incoming[y]
  <2>1. incoming' = incoming \/ incoming' = [incoming EXCEPT ![x] = FALSE]
    BY DEF PipeCloseStep, PipeSwap, CloseOutgoing, CloseIncoming, ClearReady, fileVars
  <2> QED
    BY <1>1, <1>2, <1>3, <2>1 DEF PipeTypes
<1>10. readFd' \in [End -> BOOLEAN] /\ readFd'[y] = readFd[y]
  <2>1. readFd' = readFd
        \/ readFd' = [readFd EXCEPT ![x] = readFd[x] /\ "incoming" \notin closing[t]]
    BY DEF PipeCloseStep, PipeSwap, CloseOutgoing, CloseIncoming, ClearReady, fileVars
  <2> QED
    BY <1>1, <1>2, <1>3, <2>1 DEF PipeTypes
<1>11. ready' \in [End -> Seq(Nat)] /\ ready'[y] = ready[y]
  <2>1. ready' = ready \/ ready' = [ready EXCEPT ![x] = <<>>]
    BY DEF PipeCloseStep, PipeSwap, CloseOutgoing, CloseIncoming, ClearReady, dataVars
  <2>2. <<>> \in Seq(Nat)
    OBVIOUS
  <2>3. CASE ready' = ready
    BY <1>3, <2>3 DEF PipeTypes
  <2>4. CASE ready' = [ready EXCEPT ![x] = <<>>]
    <3>1. \A z \in End : ready'[z] = IF z = x THEN <<>> ELSE ready[z]
      BY <1>1, <1>3, <2>4 DEF PipeTypes
    <3>2. ready' \in [End -> Seq(Nat)]
      BY <1>1, <1>3, <2>2, <2>4 DEF PipeTypes
    <3> QED
      BY <1>2, <3>1, <3>2
  <2> QED
    BY <2>1, <2>3, <2>4
<1>12. UNCHANGED <<buf, last, written, inPipe>>
  BY DEF PipeCloseStep, PipeSwap, CloseOutgoing, CloseIncoming, ClearReady, dataVars
<1>13. PipeTypes'
  <2>1. /\ buf' \in [End -> Seq(Nat)] /\ inPipe' \in [End -> Seq(Nat)]
        /\ last' \in [End -> Nat] /\ written' \in [End -> Nat]
    BY <1>3, <1>12 DEF PipeTypes
  <2>2. at' \in [PipeThread -> PipePlaces]
    BY <1>5
  <2>3. outgoing' \in [End -> BOOLEAN] /\ writeFd' \in [End -> BOOLEAN]
    BY <1>6, <1>8, Zenon
  <2>4. incoming' \in [End -> BOOLEAN] /\ readFd' \in [End -> BOOLEAN]
    BY <1>9, <1>10, Zenon
  <2>5. ready' \in [End -> Seq(Nat)]
    BY <1>11
  <2> QED
    BY <2>1, <2>2, <2>3, <2>4, <2>5 DEF PipeTypes
<1>14. FileInv'
  <2>1. \A z \in End : outgoing'[z] => writeFd'[z]
    BY <1>3, <1>6, <1>8 DEF FileInv
  <2>2. ASSUME NEW u \in PipeThread, at'[u] \in {"close_out", "join", "clear"}
        PROVE  ~outgoing'[u[1]]
    <3>1. u[1] \in End
      BY DEF PipeThread
    <3>2. u # t => ~outgoing[u[1]]
      BY <1>3, <1>5, <2>2 DEF FileInv
    <3> QED
      BY <1>6, <3>1, <3>2
  <2> QED
    BY <2>1, <2>2 DEF FileInv
<1>15. EndInv(x)'
  BY <1>6 DEF EndInv
<1>16. EndInv(y)'
  <2>1. outgoing'[y] = outgoing[y]
    BY <1>2, <1>6
  <2>2. /\ at'[t] # "in_write" /\ inPipe'[x] = inPipe[x] /\ written' = written
        /\ buf'[y] = buf[y] /\ last'[y] = last[y]
    BY <1>5, <1>12
  <2>3. t[1] = x /\ y = Peer(x)
    OBVIOUS
  <2>4. /\ incoming'[y] = incoming[y] /\ readFd'[y] = readFd[y] /\ ready'[y] = ready[y]
        /\ \A u \in PipeThread : u # t => at'[u] = at[u]
    BY <1>5, <1>9, <1>10, <1>11, Zenon
  <2> HIDE DEF x, y
  <2> QED
    BY <1>1, <1>7, <2>1, <2>2, <2>3, <2>4, OtherEndKeeps
<1> QED
  BY <1>2, <1>13, <1>14, <1>15, <1>16 DEF PipeInv

(* both ends open, and nothing written *)
LEMMA PipeInvInit == PipeInit => PipeInv
<1> SUFFICES ASSUME PipeInit PROVE PipeInv
  OBVIOUS
<1>1. <<>> \in Seq(Nat) /\ Len(<<>>) = 0
  OBVIOUS
<1>2. PipeTypes
  BY <1>1 DEF PipeInit, PipeTypes, PipePlaces
<1>3. FileInv
  BY DEF PipeInit, FileInv
<1>4. ASSUME NEW x \in End PROVE EndInv(x)
  <2>1. Peer(x) \in End /\ ReadThread(x) \in PipeThread /\ PipeReceiver(x) \in PipeThread
        /\ ReadThread(x)[2] = "readthread" /\ PipeReceiver(x)[2] = "receiver"
    BY TwoEnds, PipeThreadsDiffer DEF ReadThread, PipeReceiver
  <2>2. at[ReadThread(x)] = "poll" /\ at[PipeReceiver(x)] = "poll"
    BY <2>1 DEF PipeInit
  <2>3. /\ ready[x] = <<>> /\ buf[x] = <<>> /\ inPipe[Peer(x)] = <<>>
        /\ last[x] = 0 /\ written[Peer(x)] = 0 /\ readFd[x] /\ incoming[x]
    BY <2>1 DEF PipeInit
  <2>4. ReaderInv(x)
    BY <2>2, <2>3 DEF ReaderInv
  <2>5. Whole(0)
    <3>1. 0 = 0 * Parts /\ 0 \in Nat
      BY PipeAssumption
    <3> QED
      BY <3>1 DEF Whole
  <2>6. \A n : Follow(<<>>, n)
    BY DEF Follow
  <2>7. Arriving(x) = 0
    BY <1>1, <2>3 DEF Arriving
  <2>8. PieceInv(x)
    BY <2>2, <2>3, <2>5, <2>6, <2>7 DEF PieceInv
  <2> QED
    BY <2>4, <2>8 DEF EndInv
<1> QED
  BY <1>2, <1>3, <1>4 DEF PipeInv

(* every step of every thread *)
LEMMA PipeInvNext == PipeInv /\ [PipeNext]_pipeVars => PipeInv'
<1> SUFFICES ASSUME PipeInv, [PipeNext]_pipeVars PROVE PipeInv'
  OBVIOUS
<1>1. ASSUME NEW x \in End, PipeWrite(x) \/ PipeWriterStep(x) \/ HangUp(x) PROVE PipeInv'
  BY <1>1, PipeWriterStepKeeps, OsWritesKeeps DEF PipeWriterStep
<1>2. ASSUME NEW x \in End, ReadThreadStep(x) \/ ReaderFindsClosed(x) PROVE PipeInv'
  BY <1>2, ReaderWakesKeeps, OsReadsKeeps, ReaderStoresKeeps DEF ReadThreadStep
<1>3. ASSUME NEW x \in End, PipeReceiverStep(x) \/ WantBecomesTrue(x) \/ PipeNotify(x)
      PROVE  PipeInv'
  BY <1>3, PipeReceiverKeeps
<1>4. ASSUME NEW t \in PipeThread, PipeCloseStep(t) PROVE PipeInv'
  BY <1>4, PipeCloseKeeps
<1>5. CASE UNCHANGED pipeVars
  BY <1>5, UnseenStepKeeps DEF pipeVars
<1> QED
  BY <1>1, <1>2, <1>3, <1>4, <1>5 DEF PipeNext

(* the pieces of the invariant, one after the other *)
LEMMA PipeInvKeepsOrder == PipeInv => PipeKeepsOrder
<1> DEFINE Between(x) == <<last[x]>> \o ready[x] \o buf[x] \o inPipe[Peer(x)]
<1> SUFFICES ASSUME PipeInv, NEW x \in End, outgoing[x]
             PROVE  LET s == Between(x) IN
                    /\ \A i \in 1 .. Len(s) - 1 : s[i + 1] = s[i] + 1
                    /\ \/ s[Len(s)] = written[Peer(x)]
                       \/ /\ at[PipeReceiver(x)] = "swap"
                          /\ written[Peer(x)] \div Parts = last[x] \div Parts
  BY DEF PipeKeepsOrder
<1> DEFINE s == Between(x)
<1>1. PieceInv(x) /\ PipeTypes
  BY DEF PipeInv, EndInv
<1>2. /\ last[x] \in Nat /\ ready[x] \in Seq(Nat) /\ buf[x] \in Seq(Nat)
      /\ inPipe[Peer(x)] \in Seq(Nat)
  BY <1>1, TwoEnds DEF PipeTypes
<1>3. /\ \A i \in 1 .. Len(s) - 1 : s[i + 1] = s[i] + 1
      /\ s[Len(s)] = Arriving(x)
  <2>1. /\ Follow(ready[x], last[x]) /\ Follow(buf[x], last[x] + Len(ready[x]))
        /\ Follow(inPipe[Peer(x)], last[x] + Len(ready[x]) + Len(buf[x]))
    BY <1>1 DEF PieceInv
  <2>2. Arriving(x) = last[x] + Len(ready[x]) + Len(buf[x]) + Len(inPipe[Peer(x)])
    BY DEF Arriving
  <2> DEFINE l == last[x]
             r == ready[x]
             b == buf[x]
             q == inPipe[Peer(x)]
             h == <<l>>
             s1 == h \o r
             s2 == s1 \o b
             k == l - 1
  <2>3. /\ l \in Nat /\ r \in Seq(Nat) /\ b \in Seq(Nat) /\ q \in Seq(Nat)
        /\ Follow(r, l) /\ Follow(b, l + Len(r)) /\ Follow(q, l + Len(r) + Len(b))
        /\ Arriving(x) = l + Len(r) + Len(b) + Len(q)
    BY <1>2, <2>1, <2>2
  <2>4. /\ h \in Seq(Nat) /\ Len(h) = 1 /\ k \in Int /\ l = k + 1 /\ Follow(h, k)
        /\ s = s2 \o q
    <3>1. h \in Seq(Nat) /\ Len(h) = 1 /\ h[1] = l
      BY <1>2
    <3>2. k \in Int /\ l = k + 1
      BY <1>2
    <3>3. s = s2 \o q
      OBVIOUS
    <3> HIDE DEF h, k, l, s, s2, q
    <3>4. Follow(h, k)
      BY <3>1, <3>2 DEF Follow
    <3> QED
      BY <3>1, <3>2, <3>3, <3>4
  <2> HIDE DEF l, r, b, q, h, k, s
  <2>5. Len(r) \in Nat /\ Len(b) \in Nat /\ Len(q) \in Nat /\ l = k + Len(h)
    BY <2>3, <2>4
  <2>6. Follow(s1, k) /\ Len(s1) = Len(h) + Len(r) /\ s1 \in Seq(Nat)
    <3>1. s1 \in Seq(Nat)
      BY <2>3, <2>4
    <3> QED
      BY <2>3, <2>4, <2>5, <3>1, FollowConcat, Zenon
  <2> HIDE DEF s1
  <2>7. l + Len(r) = k + Len(s1)
    BY <2>4, <2>5, <2>6
  <2>8. Follow(s2, k) /\ Len(s2) = Len(s1) + Len(b) /\ s2 \in Seq(Nat)
    <3>1. s2 \in Seq(Nat)
      BY <2>3, <2>6
    <3> QED
      BY <2>3, <2>4, <2>6, <2>7, <3>1, FollowConcat, Zenon
  <2> HIDE DEF s2
  <2>9. l + Len(r) + Len(b) = k + Len(s2)
    BY <2>4, <2>5, <2>6, <2>8
  <2>10. Follow(s, k) /\ Len(s) = Len(s2) + Len(q)
    BY <2>3, <2>4, <2>8, <2>9, FollowConcat, Zenon
  <2>11. Len(s) \in Nat \ {0} /\ Len(s) = 1 + Len(r) + Len(b) + Len(q)
    BY <2>4, <2>5, <2>6, <2>8, <2>10
  <2>12. \A i \in 1 .. Len(s) : s[i] = k + i
    BY <2>10 DEF Follow
  <2>13. s[Len(s)] = Arriving(x)
    <3>1. s[Len(s)] = k + Len(s)
      BY <2>11, <2>12
    <3>2. k + Len(s) = l + Len(r) + Len(b) + Len(q)
      BY <2>4, <2>5, <2>11
    <3> QED
      BY <2>3, <3>1, <3>2
  <2>14. ASSUME NEW i \in 1 .. Len(s) - 1 PROVE s[i + 1] = s[i] + 1
    <3>1. i \in 1 .. Len(s) /\ i + 1 \in 1 .. Len(s)
      BY <2>11
    <3>2. s[i] = k + i /\ s[i + 1] = k + (i + 1)
      BY <2>12, <3>1
    <3>3. k + (i + 1) = k + i + 1
      BY <2>4
    <3> QED
      BY <3>2, <3>3
  <2> QED
    BY <2>13, <2>14
<1>4. written[Peer(x)] = Arriving(x) \/ Dropped(x)
  BY <1>1 DEF PieceInv
<1> HIDE DEF Between
<1> QED
  BY <1>3, <1>4 DEF Dropped

(* What read() returned, __ready, the piece under way and what is in the pipe are the pieces
   that the other end has written, one after the other, for messages of any number of
   pieces and pipes of any size. *)
THEOREM PiecesKeepOrder == PipeSpec => []PipeKeepsOrder
BY PipeInvInit, PipeInvNext, PipeInvKeepsOrder, PTL DEF PipeSpec
=============================================================================
