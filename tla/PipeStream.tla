----------------------------- MODULE PipeStream -----------------------------
(***************************************************************************)
(* The two ends of a pair of pipes, each a PipeStream (rpyc/core/          *)
(* stream.py), and the messages a Channel moves over them.                 *)
(*                                                                         *)
(* Unlike a SocketStream an end has a thread of its own that reads the     *)
(* incoming pipe into __ready, whether anybody wants to read or not; the   *)
(* receiver only ever waits for that buffer, on __condition.  Beside these *)
(* two an end has a writer, a closer and a third party that makes the      *)
(* predicate of the receiver's poll true and calls notify().               *)
(*                                                                         *)
(* A message is Parts pieces, each what one os.write or os.read moves, and *)
(* the pieces of a direction are numbered; a pipe holds PipeSize of them.  *)
(* A file that is closed while a thread is inside a system call on it      *)
(* stays open for that call.                                               *)
(***************************************************************************)
EXTENDS Integers, Sequences

CONSTANTS End,       \* the two ends
          Messages,  \* [End -> Nat], bound: messages the writer of an end sends
          Parts,     \* pieces of a message: the header, and the rest
          PipeSize,  \* pieces a pipe holds
          MayHangUp, \* the ends whose closer may call close()
          MayWant    \* the ends where the predicate of the poll may become true, once

ASSUME PipeAssumption ==
    /\ \E x, y \in End : x # y /\ End = {x, y}
    /\ Messages \in [End -> Nat]
    /\ Parts \in Nat /\ Parts > 1 /\ PipeSize \in Nat \ {0}
    /\ MayHangUp \subseteq End /\ MayWant \subseteq End

Peer(x) == CHOOSE y \in End : y # x

PipeWriter(x)   == <<x, "writer">>
PipeReceiver(x) == <<x, "receiver">>
PipeCloser(x)   == <<x, "closer">>
ReadThread(x)   == <<x, "readthread">>
PipeThread == End \X {"writer", "receiver", "closer", "readthread"}

VARIABLES
    at,        \* where each thread is
    sleeping,  \* threads waiting on __condition that have not been notified
    incoming,  \* self.incoming is not ClosedFile
    outgoing,  \* self.outgoing is not ClosedFile
    reader,    \* self.__reader is not None
    readFd,    \* the descriptor of the incoming pipe is open
    writeFd,   \* the descriptor of the outgoing pipe is open
    ready,     \* __ready
    buf,       \* __readthread: what os.read returned and __ready does not have yet
    last,      \* the last piece that read() has returned
    written,   \* pieces written so far
    closing,   \* close: the parts of the stream the thread has taken over
    want,      \* the predicate: "no", "true", "notified" or, the wait over, "over"
    inPipe     \* the pieces on their way from an end to the other one

fileVars == <<incoming, outgoing, reader, readFd, writeFd>>
dataVars == <<ready, buf, last, written, inPipe>>
pipeVars == <<at, sleeping, fileVars, dataVars, closing, want>>

PipeInit ==
    /\ at = [t \in PipeThread |-> IF t[2] \in {"receiver", "readthread"} THEN "poll" ELSE "idle"]
    /\ sleeping = {}
    /\ incoming = [x \in End |-> TRUE] /\ outgoing = [x \in End |-> TRUE]
    /\ reader = [x \in End |-> TRUE]
    /\ readFd = [x \in End |-> TRUE] /\ writeFd = [x \in End |-> TRUE]
    /\ ready = [x \in End |-> <<>>] /\ buf = [x \in End |-> <<>>]
    /\ last = [x \in End |-> 0] /\ written = [x \in End |-> 0]
    /\ closing = [t \in PipeThread |-> {}]
    /\ want = [x \in End |-> "no"]
    /\ inPipe = [x \in End |-> <<>>]

-----------------------------------------------------------------------------
Move(t, l) == at' = [at EXCEPT ![t] = l]

(* __condition.notify_all() *)
WakeAll(x) == sleeping' = {t \in sleeping : t[1] # x}

(* end x has no writer any more: reading the other end of the pipe gives b"" *)
NoMoreData(x) == inPipe[x] = <<>> /\ ~writeFd[x] /\ at[PipeWriter(x)] # "in_write"

(* nobody can read what is written to end x any more: EPIPE *)
NobodyReads(x) == ~readFd[x] /\ at[ReadThread(x)] # "poll"

-----------------------------------------------------------------------------
(* PipeStream.write *)

PipeWrite(x) ==
    /\ at[PipeWriter(x)] = "idle" /\ written[x] < Messages[x] * Parts
    /\ Move(PipeWriter(x), "write")
    /\ UNCHANGED <<sleeping, fileVars, dataVars, closing, want>>

(* os.write(self.outgoing.fileno(), chunk): ClosedFile raises EOFError, which is
   passed on; but the number may have been taken before close() took the file,
   and then the call begins in time or fails with EBADF *)
OsWriteStarts(x) ==
    /\ at[PipeWriter(x)] = "write"
    /\ \/ outgoing[x] /\ Move(PipeWriter(x), "in_write")
       \/ ~outgoing[x] /\ Move(PipeWriter(x), "end")
       \/ ~outgoing[x] /\ Move(PipeWriter(x), IF writeFd[x] THEN "in_write" ELSE "swap")
    /\ UNCHANGED <<sleeping, fileVars, dataVars, closing, want>>

(* it blocks while the pipe is full *)
OsWrites(x) ==
    /\ at[PipeWriter(x)] = "in_write"
    /\ ~NobodyReads(Peer(x)) /\ Len(inPipe[x]) < PipeSize
    /\ written' = [written EXCEPT ![x] = @ + 1]
    /\ inPipe' = [inPipe EXCEPT ![x] = Append(@, written'[x])]
    /\ Move(PipeWriter(x), IF written'[x] % Parts = 0 THEN "idle" ELSE "write")
    /\ UNCHANGED <<sleeping, fileVars, ready, buf, last, closing, want>>

(* EPIPE: the stream is closed and EOFError raised *)
OsWriteFails(x) ==
    /\ at[PipeWriter(x)] = "in_write" /\ NobodyReads(Peer(x))
    /\ Move(PipeWriter(x), "swap")
    /\ UNCHANGED <<sleeping, fileVars, dataVars, closing, want>>

-----------------------------------------------------------------------------
(* PipeStream.__readthread *)

(* p.poll() *)
ReaderWakes(x) ==
    /\ at[ReadThread(x)] = "poll"
    /\ inPipe[Peer(x)] # <<>> \/ NoMoreData(Peer(x))
    /\ Move(ReadThread(x), "os_read")
    /\ UNCHANGED <<sleeping, fileVars, dataVars, closing, want>>

(* the descriptor was closed before p.poll() began: it returns at once *)
ReaderFindsClosed(x) ==
    /\ at[ReadThread(x)] = "poll" /\ ~readFd[x]
    /\ Move(ReadThread(x), "os_read")
    /\ UNCHANGED <<sleeping, fileVars, dataVars, closing, want>>

(* os.read: a piece, b"" at the end, or OSError after close() *)
OsReads(x) ==
    LET y == Peer(x) IN
    /\ at[ReadThread(x)] = "os_read"
    /\ IF readFd[x] /\ inPipe[y] # <<>>
         THEN /\ buf' = [buf EXCEPT ![x] = <<Head(inPipe[y])>>]
              /\ inPipe' = [inPipe EXCEPT ![y] = Tail(@)]
         ELSE UNCHANGED <<buf, inPipe>>
    /\ Move(ReadThread(x), "store")
    /\ UNCHANGED <<sleeping, fileVars, ready, last, written, closing, want>>

(* mutant: what has not been read yet is thrown away *)
ReaderStoresLast(x) ==
    /\ at[ReadThread(x)] = "store"
    /\ WakeAll(x)
    /\ IF buf[x] # <<>>
         THEN /\ ready' = [ready EXCEPT ![x] = buf[x]]
              /\ buf' = [buf EXCEPT ![x] = <<>>]
              /\ Move(ReadThread(x), "poll")
              /\ UNCHANGED <<incoming, readFd>>
         ELSE /\ incoming' = [incoming EXCEPT ![x] = FALSE]
              /\ readFd' = [readFd EXCEPT ![x] = FALSE]
              /\ Move(ReadThread(x), "end")
              /\ UNCHANGED <<ready, buf>>
    /\ UNCHANGED <<outgoing, reader, writeFd, last, written, inPipe, closing, want>>

(* with __condition: the piece is appended, or incoming becomes ClosedFile and
   the file is closed when the thread ends *)
ReaderStores(x) ==
    /\ at[ReadThread(x)] = "store"
    /\ WakeAll(x)
    /\ IF buf[x] # <<>>
         THEN /\ ready' = [ready EXCEPT ![x] = @ \o buf[x]]
              /\ buf' = [buf EXCEPT ![x] = <<>>]
              /\ Move(ReadThread(x), "poll")
              /\ UNCHANGED <<incoming, readFd>>
         ELSE /\ incoming' = [incoming EXCEPT ![x] = FALSE]
              /\ readFd' = [readFd EXCEPT ![x] = FALSE]
              /\ Move(ReadThread(x), "end")
              /\ UNCHANGED <<ready, buf>>
    /\ UNCHANGED <<outgoing, reader, writeFd, last, written, inPipe, closing, want>>

-----------------------------------------------------------------------------
(* PipeStream.poll and Channel.recv with its two calls of PipeStream.read *)

(* serve() closes the connection on EOFError, unless somebody has begun to *)
AfterEOF(x) == IF outgoing[x] THEN {"swap"} ELSE {"swap", "end"}

Wanted(x) == want[x] \in {"true", "notified"}

(* a turn of wait_for(ready): a predicate that is true comes before the data; a
   poll that times out is begun again by serve *)
PipePoll(x) ==
    LET t == PipeReceiver(x) IN
    /\ at[t] = "poll" /\ t \notin sleeping
    /\ CASE Wanted(x) ->
              /\ want' = [want EXCEPT ![x] = "over"]
              /\ UNCHANGED <<at, sleeping>>
         [] ~Wanted(x) /\ ready[x] # <<>> ->
              Move(t, "header") /\ UNCHANGED <<sleeping, want>>
         [] ~Wanted(x) /\ ready[x] = <<>> /\ ~incoming[x] ->
              (\E l \in AfterEOF(x) : Move(t, l)) /\ UNCHANGED <<sleeping, want>>
         [] OTHER -> sleeping' = sleeping \cup {t} /\ UNCHANGED <<at, want>>
    /\ UNCHANGED <<fileVars, dataVars, closing>>

(* read(count): waits for count pieces; after the end what is left is dropped *)
PipeRead(x, label, count, next) ==
    LET t == PipeReceiver(x) IN
    /\ at[t] = label /\ t \notin sleeping
    /\ CASE Len(ready[x]) >= count ->
              /\ last' = [last EXCEPT ![x] = ready[x][count]]
              /\ ready' = [ready EXCEPT ![x] = SubSeq(@, count + 1, Len(@))]
              /\ Move(t, next)
              /\ UNCHANGED sleeping
         [] Len(ready[x]) < count /\ ~incoming[x] ->
              /\ ready' = [ready EXCEPT ![x] = <<>>]
              /\ WakeAll(x)
              /\ Move(t, "swap")
              /\ UNCHANGED last
         [] OTHER -> sleeping' = sleeping \cup {t} /\ UNCHANGED <<at, ready, last>>
    /\ UNCHANGED <<fileVars, buf, written, inPipe, closing, want>>

ReadHeader(x) == PipeRead(x, "header", 1, "body")
ReadBody(x)   == PipeRead(x, "body", Parts - 1, "poll")

(* the result a poll waits for arrives by another thread, which then calls notify() *)
WantBecomesTrue(x) ==
    /\ x \in MayWant /\ want[x] = "no" /\ at[PipeCloser(x)] = "idle"
    /\ want' = [want EXCEPT ![x] = "true"]
    /\ UNCHANGED <<at, sleeping, fileVars, dataVars, closing>>

(* __condition.notify(): one waiter *)
PipeNotify(x) ==
    /\ want[x] = "true"
    /\ want' = [want EXCEPT ![x] = "notified"]
    /\ LET here == {t \in sleeping : t[1] = x} IN
       IF here = {} THEN UNCHANGED sleeping
       ELSE \E t \in here : sleeping' = sleeping \ {t}
    /\ UNCHANGED <<at, fileVars, dataVars, closing>>

-----------------------------------------------------------------------------
(* PipeStream.close, of any thread *)

HangUp(x) ==
    /\ x \in MayHangUp /\ at[PipeCloser(x)] = "idle"
    /\ Move(PipeCloser(x), "swap")
    /\ UNCHANGED <<sleeping, fileVars, dataVars, closing, want>>

(* with __condition: the files and the reader are taken over *)
PipeSwap(t) ==
    LET x == t[1] IN
    /\ at[t] = "swap"
    /\ closing' = [closing EXCEPT ![t] =
            (IF incoming[x] THEN {"incoming"} ELSE {}) \cup (IF reader[x] THEN {"reader"} ELSE {})]
    /\ incoming' = [incoming EXCEPT ![x] = FALSE]
    /\ outgoing' = [outgoing EXCEPT ![x] = FALSE]
    /\ reader' = [reader EXCEPT ![x] = FALSE]
    /\ WakeAll(x)
    /\ Move(t, IF outgoing[x] THEN "close_out" ELSE "clear")
    /\ UNCHANGED <<readFd, writeFd, dataVars, want>>

(* mutant: the outgoing pipe is closed after the incoming one has ended *)
CloseOutgoingLater(t) ==
    /\ at[t] = "close_out"
    /\ at[ReadThread(t[1])] = "end"
    /\ writeFd' = [writeFd EXCEPT ![t[1]] = FALSE]
    /\ Move(t, "join")
    /\ UNCHANGED <<sleeping, incoming, outgoing, reader, readFd, dataVars, closing, want>>

CloseOutgoing(t) ==
    /\ at[t] = "close_out"
    /\ writeFd' = [writeFd EXCEPT ![t[1]] = FALSE]
    /\ Move(t, "join")
    /\ UNCHANGED <<sleeping, incoming, outgoing, reader, readFd, dataVars, closing, want>>

(* reader.join(5) returns in any case; then incoming.close() *)
CloseIncoming(t) ==
    /\ at[t] = "join"
    /\ readFd' = [readFd EXCEPT ![t[1]] = @ /\ "incoming" \notin closing[t]]
    /\ Move(t, "clear")
    /\ UNCHANGED <<sleeping, incoming, outgoing, reader, writeFd, dataVars, closing, want>>

(* reader.join() and the end of close(), of a second call too *)
ClearReady(t) ==
    /\ at[t] = "clear"
    /\ "reader" \in closing[t] => at[ReadThread(t[1])] = "end"
    /\ ready' = [ready EXCEPT ![t[1]] = <<>>]
    /\ closing' = [closing EXCEPT ![t] = {}]
    /\ WakeAll(t[1])
    /\ Move(t, "end")
    /\ UNCHANGED <<fileVars, buf, last, written, inPipe, want>>

-----------------------------------------------------------------------------
PipeWriterStep(x) == OsWriteStarts(x) \/ OsWrites(x) \/ OsWriteFails(x)

ReadThreadStep(x) ==
    ReaderWakes(x) \/ OsReads(x) \/ ReaderStores(x)

PipeReceiverStep(x) == PipePoll(x) \/ ReadHeader(x) \/ ReadBody(x)

PipeCloseStep(t) ==
    PipeSwap(t) \/ CloseOutgoing(t) \/ CloseIncoming(t) \/ ClearReady(t)

PipeNext ==
    \/ \E x \in End : \/ PipeWrite(x) \/ PipeWriterStep(x) \/ ReadThreadStep(x)
                      \/ PipeReceiverStep(x) \/ ReaderFindsClosed(x)
                      \/ WantBecomesTrue(x) \/ PipeNotify(x) \/ HangUp(x)
    \/ \E t \in PipeThread : PipeCloseStep(t)

-----------------------------------------------------------------------------
(* What read() returned, __ready, the piece the read thread holds and what is
   still in the pipe are the pieces written by the other end, one after the
   other, as long as close() has not been called at this end: the other end may
   write, and close, whenever it likes.  What is dropped when the other end has
   closed is never a complete message. *)
PipeKeepsOrder ==
    \A x \in End : outgoing[x] =>
        LET s == <<last[x]>> \o ready[x] \o buf[x] \o inPipe[Peer(x)]
        IN  /\ \A i \in 1 .. Len(s) - 1 : s[i + 1] = s[i] + 1
            /\ \/ s[Len(s)] = written[Peer(x)]
               \/ at[PipeReceiver(x)] = "swap" /\ written[Peer(x)] \div Parts = last[x] \div Parts

(* Every call comes back, so that in the end none is under way: a write although
   the other end may be writing too and nobody there reads (CHANGELOG.rst:109,
   "the sending side might block"), a poll whose predicate has become true, and
   a close() that waits for the read thread. *)
PipeCallsReturn ==
    <>[](\A x \in End : /\ at[PipeWriter(x)] \in {"idle", "end"}
                        /\ at[PipeCloser(x)] \in {"idle", "end"}
                        /\ want[x] = "notified" => ~outgoing[x])
=============================================================================
