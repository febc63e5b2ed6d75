------------------------------ MODULE SftpFile ------------------------------
(***************************************************************************)
(* src/sftp/SftpFS.ts, openRead and openWrite: a handle that keeps up to   *)
(* depth requests in flight.  A behaviour is the life of one handle: a     *)
(* reader that downloads a file, or a writer that uploads one and, after a *)
(* failure, is opened once more to resume (what the copy in                *)
(* src/transfer/engine.ts does with it).                                   *)
(*                                                                         *)
(* A byte is known by its place in the source: byte k of a complete file   *)
(* is k, and 0 is a byte that was never written.  A write of the model is  *)
(* one message of MAX_SFTP_PAYLOAD, its unit of length.                    *)
(***************************************************************************)
EXTENDS SftpClient

CONSTANTS SourceLength,
          Depths,      \* pipelineDepth
          ReadFrom,    \* initialOffset
          BufferSizes, \* of the buffers given to read()
          MaxPayload,  \* MAX_SFTP_PAYLOAD of a read
          ChunkSizes,  \* of the chunks given to write()
          MaxFailures, \* bound: requests that the server refuses
          MaxAttempts  \* bound: times the writer is opened

ASSUME FileAssumption ==
  /\ {SourceLength, MaxFailures, MaxAttempts} \subseteq Nat
  /\ ReadFrom \subseteq 0..SourceLength
  /\ Depths \subseteq 1..(IdModulus - 1)  \* 64 at most in the settings, of 2^32 - 1 ids
  /\ BufferSizes \cup ChunkSizes \cup {MaxPayload} \subseteq Nat \ {0}

VARIABLES
  depth,
  pc,        \* the call of the handle that is going on, and its await
  awaited,   \* the id it waits for
  inflight,  \* the requests [at, id] that are not abandoned
  offset,    \* reqOffset, or the writer's offset
  into, reqLen, eof, leftover,  \* of the reader
  delivered, \* history: the bytes that read() has returned
  startOffset,  \* where the handle began: initialOffset of a reader
  resuming, failure, remaining, \* of the writer
  uncaught,  \* writes whose .catch has not run yet
  attempts,
  exists, file,  \* the file at the server
  failures

reader == <<into, reqLen, eof, leftover, delivered>>
writer == <<resuming, startOffset, failure, remaining, uncaught, attempts>>
server == <<exists, file, failures>>
vars == <<client, depth, pc, awaited, inflight, offset, reader, writer, server>>

Source == [k \in 1..SourceLength |-> k]
Ids(seq) == {seq[k].id : k \in DOMAIN seq}

-----------------------------------------------------------------------------
(***************************************************************************)
(* Reading.                                                                *)
(***************************************************************************)

OpenRead ==
  /\ pc = "reader" /\ pc' = "openRead"
  /\ awaited' = NextId(0)
  /\ Issue(<<Asked("open", 0, 0)>>, {})
  /\ UNCHANGED <<depth, inflight, offset, reader, writer, server>>

ReaderOpened ==
  /\ pc = "openRead" /\ Settled(awaited)
  /\ pc' = IF Fulfilled(awaited, "handle") THEN "readerIdle" ELSE "closed"
  /\ Forget({awaited})
  /\ UNCHANGED <<depth, awaited, inflight, offset, reader, writer, server>>

\* The reads with which topUp() fills a pipeline that holds held, from offset from.
TopUp(held, from, length) ==
  [j \in 1..(depth - Len(held)) |-> [at |-> from + (j - 1) * length, id |-> NextId(j - 1)]]
Reads(items, length) == [j \in DOMAIN items |-> Asked("read", items[j].at, length)]

Deliver(at, n) == delivered' = delivered \o [k \in 1..n |-> at + k]

ReadLeftover(size) ==
  /\ pc = "readerIdle" /\ leftover.n > 0
  /\ LET n == Min({leftover.n, size})
     IN  /\ Deliver(leftover.at, n)
         /\ leftover' = [at |-> leftover.at + n, n |-> leftover.n - n]
  /\ UNCHANGED <<client, depth, pc, awaited, inflight, offset, into, reqLen, eof, writer, server>>

\* The first buffer fixes the length of every request.
Read(size) ==
  /\ pc = "readerIdle" /\ leftover.n = 0 /\ eof = "no"
  /\ pc' = "read" /\ into' = size
  /\ reqLen' = IF reqLen = 0 THEN Min({size, MaxPayload}) ELSE reqLen
  /\ LET more == TopUp(inflight, offset, reqLen')
         all  == inflight \o more
     IN  /\ Issue(Reads(more, reqLen'), {})
         /\ offset' = offset + Len(more) * reqLen'
         /\ inflight' = all  \* the head is shifted and awaited: it leaves when it settles
         /\ awaited' = all[1].id
  /\ UNCHANGED <<depth, eof, leftover, delivered, writer, server>>

ReadFails ==
  /\ pc = "read" /\ promise[awaited].kind \in Failed
  /\ eof' = "failed" /\ inflight' = <<>> /\ pc' = "readerIdle"
  /\ Forget(Ids(inflight))
  /\ UNCHANGED <<depth, awaited, offset, into, reqLen, leftover, delivered, writer, server>>

ReadEof ==
  /\ pc = "read" /\ Fulfilled(awaited, "eof")
  /\ eof' = "end" /\ inflight' = <<>> /\ pc' = "readerIdle"
  /\ Forget(Ids(inflight))
  /\ UNCHANGED <<depth, awaited, offset, into, reqLen, leftover, delivered, writer, server>>

\* What read() returns of a chunk, and what it keeps.
Returned(at, n) ==
  LET k == Min({n, into})
  IN  Deliver(at, k) /\ leftover' = [at |-> at + k, n |-> n - k]

\* Slip: the reads that were asked for after a short one are kept.
ReadShortKept ==
  /\ pc = "read" /\ Fulfilled(awaited, "data") /\ promise[awaited].n < reqLen
  /\ pc' = "readerIdle"
  /\ inflight' = Tail(inflight)
  /\ Returned(promise[awaited].at, promise[awaited].n)
  /\ Forget({awaited})
  /\ UNCHANGED <<depth, awaited, offset, into, reqLen, eof, writer, server>>

\* The reads in flight are at wrong offsets now: they are abandoned, not awaited.
ReadShort ==
  /\ pc = "read" /\ Fulfilled(awaited, "data") /\ promise[awaited].n < reqLen
  /\ pc' = "readerIdle"
  /\ inflight' = <<>> /\ offset' = inflight[1].at + promise[awaited].n
  /\ Returned(promise[awaited].at, promise[awaited].n)
  /\ Forget(Ids(inflight))
  /\ UNCHANGED <<depth, awaited, into, reqLen, eof, writer, server>>

ReadFull ==
  /\ pc = "read" /\ Fulfilled(awaited, "data") /\ promise[awaited].n = reqLen
  /\ pc' = "readerIdle"
  /\ LET rest == Tail(inflight)
         more == TopUp(rest, offset, reqLen)
     IN  /\ Issue(Reads(more, reqLen), {awaited})
         /\ offset' = offset + Len(more) * reqLen
         /\ inflight' = rest \o more
  /\ Returned(promise[awaited].at, promise[awaited].n)
  /\ UNCHANGED <<depth, awaited, into, reqLen, eof, writer, server>>

\* The caller may stop at any time: the copy was cancelled, or its other side failed.
CloseRead ==
  /\ pc = "readerIdle" /\ pc' = "settling"
  /\ UNCHANGED <<client, depth, awaited, inflight, offset, reader, writer, server>>

ReadsSettled ==
  /\ pc = "settling" /\ \A id \in Ids(inflight) : Settled(id)
  /\ pc' = "closeRead" /\ awaited' = NextId(0)
  /\ Issue(<<Asked("close", 0, 0)>>, Ids(inflight))
  /\ inflight' = <<>>
  /\ UNCHANGED <<depth, offset, reader, writer, server>>

ReaderClosed ==
  /\ pc = "closeRead" /\ Settled(awaited)
  /\ pc' = "closed"
  /\ Forget({awaited})
  /\ UNCHANGED <<depth, awaited, inflight, offset, reader, writer, server>>

-----------------------------------------------------------------------------
(***************************************************************************)
(* Writing.                                                                *)
(***************************************************************************)

OpenFlags == IF resuming' THEN "open" ELSE "truncate"

OpenWrite ==
  /\ pc = "writer" /\ attempts < MaxAttempts
  /\ attempts' = attempts + 1 /\ resuming' = (attempts > 0)
  /\ startOffset' = 0 /\ failure' = FALSE
  /\ awaited' = NextId(0)
  /\ IF resuming'
     THEN pc' = "stat" /\ Issue(<<Asked("stat", 0, 0)>>, {})
     ELSE pc' = "openWrite" /\ Issue(<<Asked(OpenFlags, 0, 0)>>, {})
  /\ UNCHANGED <<depth, inflight, offset, reader, remaining, uncaught, server>>

\* Every error but NO_SUCH_FILE is thrown.
Statted ==
  /\ pc = "stat" /\ Settled(awaited)
  /\ IF promise[awaited].kind \in {"attrs", "missing"}
     THEN /\ startOffset' = promise[awaited].n
          /\ pc' = "openWrite" /\ awaited' = NextId(0)
          /\ resuming' = resuming
          /\ Issue(<<Asked(OpenFlags, 0, 0)>>, {awaited})
     ELSE /\ pc' = "writer" /\ Forget({awaited})
          /\ UNCHANGED <<startOffset, resuming, awaited>>
  /\ UNCHANGED <<depth, inflight, offset, reader, failure, remaining, uncaught, attempts, server>>

WriterOpened ==
  /\ pc = "openWrite" /\ Settled(awaited)
  /\ offset' = startOffset
  /\ pc' = IF Fulfilled(awaited, "handle") THEN "writerIdle" ELSE "writer"
  /\ Forget({awaited})
  /\ UNCHANGED <<depth, awaited, inflight, reader, writer, server>>

Writes(n) == [j \in 1..n |-> [at |-> offset + j - 1, id |-> NextId(j - 1)]]

\* Slip: the whole chunk is issued at once.
WriteUnbounded(left) ==
  LET more == Writes(left)
  IN  /\ Issue([j \in 1..left |-> Asked("write", more[j].at, 1)], {})
      /\ offset' = offset + left /\ remaining' = 0
      /\ uncaught' = uncaught \cup Ids(more)
      /\ inflight' = inflight \o more
      /\ UNCHANGED awaited /\ pc' = "writerIdle"

\* write() with left messages of its chunk to go, up to its next await: it issues
\* until depth are in flight, and then waits for the oldest.
WriteOn(left) ==
  LET n    == Min({left, depth - Len(inflight)})
      more == Writes(n)
      all  == inflight \o more
      full == n > 0 /\ Len(all) = depth
  IN  /\ Issue([j \in 1..n |-> Asked("write", more[j].at, 1)], {})
      /\ offset' = offset + n /\ remaining' = left - n
      /\ uncaught' = uncaught \cup Ids(more)
      /\ inflight' = IF full THEN Tail(all) ELSE all
      /\ awaited' = IF full THEN Head(all).id ELSE awaited
      /\ pc' = IF full THEN "write" ELSE "writerIdle"

Write(size) ==
  /\ pc = "writerIdle" /\ ~failure /\ offset + size <= SourceLength
  /\ WriteOn(size)
  /\ UNCHANGED <<depth, reader, resuming, startOffset, failure, attempts, server>>

\* The catch of issue().
WriteCaught(id) ==
  /\ id \in uncaught /\ Settled(id)
  /\ uncaught' = uncaught \ {id}
  /\ failure' = (failure \/ ~Fulfilled(id, "ok"))
  /\ Forget({id})
  /\ UNCHANGED <<depth, pc, awaited, inflight, offset, reader, resuming, startOffset, remaining,
                 attempts, server>>

\* With a failure write() throws.
WriteResumes ==
  /\ pc = "write" /\ awaited \notin uncaught
  /\ IF failure
     THEN /\ pc' = "writerIdle" /\ remaining' = 0
          /\ UNCHANGED <<client, awaited, inflight, offset, uncaught>>
     ELSE WriteOn(remaining)
  /\ UNCHANGED <<depth, reader, resuming, startOffset, failure, attempts, server>>

\* The whole source is written.
CloseWrite ==
  /\ pc = "writerIdle" /\ offset >= SourceLength /\ pc' = "drain"
  /\ UNCHANGED <<client, depth, awaited, inflight, offset, reader, writer, server>>

\* A failed write() or a cancelled copy.
Abort ==
  /\ pc = "writerIdle" /\ pc' = "drainAborted"
  /\ UNCHANGED <<client, depth, awaited, inflight, offset, reader, writer, server>>

\* Slip: close() looks at what has failed before it waits for the rest.
DrainedUnchecked ==
  /\ pc \in {"drain", "drainAborted"} /\ Ids(inflight) \cap uncaught = {}
  /\ pc' = IF pc = "drainAborted" THEN "closeFailed" ELSE "closeWrite"
  /\ awaited' = NextId(0)
  /\ Issue(<<Asked("close", 0, 0)>>, {})
  /\ inflight' = <<>>
  /\ UNCHANGED <<depth, offset, reader, writer, server>>

\* Every write in flight has settled: the handle is closed.
Drained ==
  /\ pc \in {"drain", "drainAborted"} /\ Ids(inflight) \cap uncaught = {}
  /\ pc' = IF failure \/ pc = "drainAborted" THEN "closeFailed" ELSE "closeWrite"
  /\ awaited' = NextId(0)
  /\ Issue(<<Asked("close", 0, 0)>>, {})
  /\ inflight' = <<>>
  /\ UNCHANGED <<depth, offset, reader, writer, server>>

\* The user may retry what did not end well.
WriterClosed ==
  /\ pc \in {"closeWrite", "closeFailed"} /\ Settled(awaited)
  /\ pc' = IF pc = "closeWrite" /\ Fulfilled(awaited, "ok") THEN "done" ELSE "writer"
  /\ Forget({awaited})
  /\ UNCHANGED <<depth, awaited, inflight, offset, reader, writer, server>>

-----------------------------------------------------------------------------
(***************************************************************************)
(* The server: requests take effect in the order they were sent.           *)
(***************************************************************************)

Serves(op) == sent # <<>> /\ Head(sent).op = op
Others == <<depth, pc, awaited, inflight, offset, reader, writer>>

ServeOpen ==
  /\ \E op \in {"open", "truncate"} :
        Serves(op) /\ file' = (IF op = "truncate" THEN <<>> ELSE file)
  /\ exists' = TRUE
  /\ Replied(Answer("handle", 0, 0))
  /\ UNCHANGED <<Others, failures>>

ServeStat ==
  /\ Serves("stat")
  /\ Replied(IF exists THEN Answer("attrs", 0, Len(file)) ELSE Answer("missing", 0, 0))
  /\ UNCHANGED <<Others, server>>

\* A server may return less than it was asked for.
ServeRead ==
  /\ Serves("read")
  /\ LET q == Head(sent)
     IN  IF q.at >= Len(file) THEN Replied(Answer("eof", 0, 0))
         ELSE \E n \in 1..Min({q.n, Len(file) - q.at}) : Replied(Answer("data", q.at, n))
  /\ UNCHANGED <<Others, server>>

\* What lies between the old end of a file and a write past it is not written.
ServeWrite ==
  /\ Serves("write")
  /\ LET at == Head(sent).at + 1
         size == IF at > Len(file) THEN at ELSE Len(file)
     IN  file' = [k \in 1..size |-> IF k = at THEN at ELSE IF k <= Len(file) THEN file[k] ELSE 0]
  /\ Replied(Answer("ok", 0, 0))
  /\ UNCHANGED <<Others, exists, failures>>

ServeClose ==
  /\ Serves("close")
  /\ Replied(Answer("ok", 0, 0))
  /\ UNCHANGED <<Others, server>>

\* A refused request changes nothing.
Refuse ==
  /\ failures < MaxFailures /\ failures' = failures + 1
  /\ Replied(Answer("failure", 0, 0))
  /\ UNCHANGED <<Others, exists, file>>

-----------------------------------------------------------------------------
Init ==
  /\ ClientInit
  /\ depth \in Depths
  /\ \/ /\ pc = "reader" /\ offset \in ReadFrom
        /\ exists = TRUE /\ file = Source
     \/ /\ pc = "writer" /\ offset = 0
        /\ exists = FALSE /\ file = <<>>
  /\ awaited = nextRequestId /\ inflight = <<>>
  /\ into = 0 /\ reqLen = 0 /\ eof = "no" /\ leftover = [at |-> 0, n |-> 0]
  /\ delivered = <<>>
  /\ resuming = FALSE /\ startOffset = offset /\ failure = FALSE /\ remaining = 0
  /\ uncaught = {} /\ attempts = 0 /\ failures = 0

Reading == OpenRead \/ ReaderOpened \/ ReadFails \/ ReadEof \/ ReadShort \/ ReadFull
           \/ ReadsSettled \/ ReaderClosed
Writing == Statted \/ WriterOpened \/ WriteResumes \/ Drained \/ WriterClosed
Serving == ServeOpen \/ ServeStat \/ ServeRead \/ ServeWrite \/ ServeClose
Arrives == \E a \in answers : ReadLoop(a) /\ UNCHANGED <<Others, server>>
Expires(id) == Timeout(id) /\ UNCHANGED <<Others, server>>
ChannelEnds == LoopEnds /\ UNCHANGED <<Others, server>>

Next ==
  \/ Reading \/ CloseRead
  \/ \E size \in BufferSizes : Read(size) \/ ReadLeftover(size)
  \/ Writing \/ OpenWrite \/ CloseWrite \/ Abort
  \/ \E size \in ChunkSizes : Write(size)
  \/ \E id \in Id : WriteCaught(id) \/ Expires(id)
  \/ Serving \/ Refuse \/ Arrives \/ ChannelEnds

\* Settled promises resume their functions, and timers fire.  Nothing is assumed of
\* the server, the connection or the caller.
Spec ==
  /\ Init /\ [][Next]_vars
  /\ WF_vars(Reading) /\ WF_vars(Writing)
  /\ \A id \in Id : WF_vars(WriteCaught(id)) /\ WF_vars(Expires(id))

-----------------------------------------------------------------------------
(***************************************************************************)
(* Properties.                                                             *)
(***************************************************************************)

\* Types, and the pipeline holds at most depth requests (backpressure,
\* SftpFS.ts:279-280 and "never exceeds it" in SftpFS.test.ts:468).
TypeOK ==
  /\ ClientTypeOK
  /\ depth \in Depths
  /\ pc \in {"reader", "openRead", "readerIdle", "read", "settling", "closeRead", "closed",
             "writer", "stat", "openWrite", "writerIdle", "write", "drain", "drainAborted",
             "closeFailed", "closeWrite", "done"}
  /\ awaited \in Id
  /\ inflight \in Seq([at : Nat, id : Id]) /\ Len(inflight) <= depth
  /\ {offset, into, reqLen, startOffset, remaining} \subseteq Nat
  /\ eof \in {"no", "end", "failed"} /\ leftover \in [at : Nat, n : Nat]
  /\ delivered \in Seq(Nat)
  /\ {resuming, failure, exists} \subseteq BOOLEAN
  /\ uncaught \subseteq Id /\ Cardinality(uncaught) <= depth
  /\ attempts \in 0..MaxAttempts /\ failures \in 0..MaxFailures
  /\ file \in Seq(0..SourceLength)

\* What read() returns is the file from initialOffset on, every byte once and in
\* order, whatever the order of the answers and however short the reads; and it
\* returns 0 at the end of the file only (SftpFS.ts:164-175).
ReadsTheFile ==
  /\ \A k \in DOMAIN delivered : delivered[k] = startOffset + k
  /\ eof = "end" => startOffset + Len(delivered) = SourceLength

\* A close() that succeeds has left the whole file, although writes are answered
\* late, out of order, or not at all, and although this or an earlier attempt failed:
\* every byte from startOffset on ("the number of bytes already present",
\* FileSystem.ts:56-62) and, unless writes are pipelined, every byte before it.
ClosedIsWhole ==
  pc = "done" =>
    /\ Len(file) = SourceLength
    /\ \A k \in 1..SourceLength : file[k] = k \/ (k <= startOffset /\ depth > 1)

\* Every call of a handle returns, even if the server is silent or the connection is
\* lost while requests wait (SftpClient.ts:136-146).
Resting == {"reader", "readerIdle", "closed", "writer", "writerIdle", "done"}
CallsReturn == pc \notin Resting ~> pc \in Resting
=============================================================================
