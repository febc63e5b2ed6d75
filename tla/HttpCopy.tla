------------------------------ MODULE HttpCopy ------------------------------
(***************************************************************************)
(* The file handles of the file systems over HTTP (OneDriveFS, S3FS and    *)
(* WebDavFS), driven by transferFile of src/transfer/engine.ts.  Jobs copy *)
(* files of their own onto one path; a job that fails may be retried, and  *)
(* then resumes.  Only OneDrive keeps anything between two runs: its       *)
(* upload sessions, in a map by path.                                      *)
(*                                                                         *)
(* pc is the request that a run awaits; "queued", "failed" and "done" are  *)
(* the states of a job that does not run.  A byte is <<job, version,       *)
(* position>>, for a source may change while it is copied.                 *)
(***************************************************************************)
EXTENDS Integers, Sequences, FiniteSetsExt

CONSTANTS NumJobs,
          Lengths,      \* lengths of sources
          ALIGN, FLUSH_AT, SIMPLE_LIMIT,
          Buffer,       \* size of transferFile's buffer
          Pairs,        \* the kinds of the file systems copied from and to
          MaxRetries,   \* bound: retries of the jobs
          MaxFailures,  \* bound: requests that fail, and sessions that expire
          MaxChanges,   \* bound: changes of the sources
          NoFile, Unknown

ASSUME HttpAssumption ==
  /\ {NumJobs, ALIGN, FLUSH_AT, SIMPLE_LIMIT, Buffer} \subseteq Nat \ {0}
  /\ FLUSH_AT % ALIGN = 0 /\ Buffer < ALIGN /\ FLUSH_AT < SIMPLE_LIMIT
  /\ Lengths \subseteq Nat /\ Pairs \subseteq {"onedrive", "s3", "webdav"} \X {"onedrive", "s3", "webdav"}
  /\ {MaxRetries, MaxFailures, MaxChanges} \subseteq Nat /\ Unknown \notin Nat

Job == 1..NumJobs

VARIABLES
  from, to,        \* the kinds of the two file systems
  source,          \* of each job: the lengths of the versions of its source so far
  size,            \* of each job: as it was listed
  pc, attempted, resume,
  reading,         \* the open reader: the version it streams, its size, its offset
  pending, sent, url,  \* the open writer: bytes kept back, bytes sent, upload session
  uploadSessions,  \* of the path: a session or 0
  session,         \* the server's: the jobs that use it, what it has got, whether it is there
  dst,             \* the file at the path
  retries, failures, changes

job    == <<source, size, attempted, resume, retries, changes>>
handle == <<reading, pending, sent, url>>
drive  == <<uploadSessions, session, dst>>
copyVars   == <<from, to, pc, job, handle, drive, failures>>

Bytes(j, v, a, b) == [k \in 1..(b - a) |-> <<j, v, a + k>>]
Version(j) == Len(source[j])
Length(j)  == source[j][Version(j)]

-----------------------------------------------------------------------------
(***************************************************************************)
(* The external upload sessions.  A range is taken if it begins where the  *)
(* last one ended and is aligned or the last.                              *)
(***************************************************************************)
Live(id) == id # 0 /\ session[id].live

Fits(id, start, n, total) ==
  LET s == session[id] IN
  /\ Live(id) /\ start = Len(s.got) /\ n > 0
  /\ s.total \in {Unknown, total}
  /\ start + n = total \/ (start + n < total /\ n % ALIGN = 0)

Created(j) == [by |-> {j}, total |-> Unknown, got |-> <<>>, live |-> TRUE]

\* The last range makes the file, and the session is gone.
Receive(id, bytes, total) ==
  LET got == session[id].got \o bytes IN
  /\ session' = [session EXCEPT ![id] =
                   [@ EXCEPT !.total = total, !.got = got, !.live = Len(got) < total]]
  /\ dst' = IF Len(got) = total THEN got ELSE dst

Expire(id) ==
  /\ Live(id) /\ failures < MaxFailures /\ failures' = failures + 1
  /\ session' = [session EXCEPT ![id].live = FALSE]
  /\ UNCHANGED <<from, to, pc, job, handle, uploadSessions, dst>>

-----------------------------------------------------------------------------
(***************************************************************************)
(* openWrite.                                                              *)
(***************************************************************************)

\* A large file of known length is streamed to a session; all else is kept in memory.
Streams(j) == to = "onedrive" /\ size[j] # Unknown /\ size[j] > SIMPLE_LIMIT

\* transferFile() goes on with the handle.
Open(j, start) ==
  /\ sent' = [sent EXCEPT ![j] = start]
  /\ pc' = [pc EXCEPT ![j] = IF size[j] # Unknown /\ start >= size[j] THEN "close" ELSE "openRead"]

\* A run begins.  The conflict dialog, or the stat before it, may end it at once.
Start(j) ==
  /\ pc[j] = "queued"
  /\ attempted' = attempted \cup {j}
  /\ resume' = IF j \in attempted THEN resume \cup {j} ELSE resume \ {j}
  /\ pending' = [pending EXCEPT ![j] = <<>>]
  /\ \/ pc' = [pc EXCEPT ![j] = "failed"] /\ UNCHANGED <<sent, url>>
     \/ ~Streams(j) /\ Open(j, 0) /\ url' = [url EXCEPT ![j] = 0]
     \/ /\ Streams(j)
        /\ url' = [url EXCEPT ![j] = IF j \in attempted THEN uploadSessions ELSE 0]
        /\ pc' = [pc EXCEPT ![j] = IF url'[j] # 0 THEN "status" ELSE "create"]
        /\ sent' = sent
  /\ UNCHANGED <<from, to, source, size, retries, changes, reading, drive, failures>>

\* getUploadSessionStatus() finds the session, which says what it expects next.
Status(j) ==
  /\ pc[j] = "status" /\ Live(url[j])
  /\ Open(j, Len(session[url[j]].got))
  /\ session' = [session EXCEPT ![url[j]].by = @ \cup {j}]
  /\ UNCHANGED <<from, to, job, reading, pending, url, uploadSessions, dst, failures>>

\* It does not, or cannot tell: what is kept for the path is forgotten.
StatusGone(j) ==
  /\ pc[j] = "status"
  /\ \/ ~Live(url[j]) /\ failures' = failures
     \/ Live(url[j]) /\ failures < MaxFailures /\ failures' = failures + 1
  /\ uploadSessions' = 0 /\ pc' = [pc EXCEPT ![j] = "create"]
  /\ UNCHANGED <<from, to, job, handle, session, dst>>

Create(j) ==
  /\ pc[j] = "create"
  /\ session' = Append(session, Created(j))
  /\ uploadSessions' = Len(session') /\ url' = [url EXCEPT ![j] = Len(session')]
  /\ Open(j, 0)
  /\ UNCHANGED <<from, to, job, reading, pending, dst, failures>>

-----------------------------------------------------------------------------
(***************************************************************************)
(* Reading.                                                                *)
(***************************************************************************)

\* Slip: a body that begins at 0 is not skipped.
SkipNothing(start, honoured) == 0

\* WebDAV servers may ignore the range; "the first `offset` bytes" are discarded.
ToSkip(start, honoured) == IF honoured THEN 0 ELSE start

OpenRead(j) ==
  /\ pc[j] = "openRead"
  /\ \E honoured \in BOOLEAN :
       LET start == IF honoured THEN sent[j] ELSE 0 IN
       /\ honoured \/ from = "webdav"
       /\ honoured => sent[j] <= Length(j)
       /\ reading' = [reading EXCEPT ![j] =
            [version |-> Version(j), size |-> Length(j), at |-> start + ToSkip(sent[j], honoured)]]
  /\ pc' = [pc EXCEPT ![j] = "read"]
  /\ UNCHANGED <<from, to, job, pending, sent, url, drive, failures>>

\* What read() may return next.  S3 and WebDAV go on with one response, in pieces;
\* OneDrive asks for every range of the file as it is now.
NextBytes(j) ==
  LET r    == reading[j]
      most == Min({r.at + Buffer, r.size}) IN
  IF from = "onedrive"
  THEN {Bytes(j, Version(j), r.at, b) : b \in {Min({most, Length(j)})} \ 0..r.at}
  ELSE {Bytes(j, r.version, r.at, b) : b \in (r.at + 1)..most}

\* Slip: only whole blocks are flushed, and only when nothing is left over.
DueIfAligned(kept) == Len(kept) >= FLUSH_AT /\ Len(kept) % ALIGN = 0

Due(kept) == Len(kept) >= FLUSH_AT

\* "Never flush the block that would complete the session."
Flush(j, kept) ==
  LET blocks == (Len(kept) \div ALIGN) * ALIGN IN
  IF sent[j] + blocks < size[j] THEN blocks
  ELSE Max({0, ((size[j] - sent[j] - 1) \div ALIGN) * ALIGN})

\* read() returns bytes, and write() keeps them or begins to flush.
Read(j) ==
  /\ pc[j] = "read"
  /\ \E bytes \in NextBytes(j) :
       LET kept == pending[j] \o bytes IN
       /\ pending' = [pending EXCEPT ![j] = kept]
       /\ reading' = [reading EXCEPT ![j].at = @ + Len(bytes)]
       /\ pc' = [pc EXCEPT ![j] =
            IF Streams(j) /\ Due(kept) /\ Flush(j, kept) >= ALIGN THEN "put" ELSE "read"]
  /\ UNCHANGED <<from, to, job, sent, url, drive, failures>>

\* Slip: the last byte is taken for the end.
ReadEndsEarly(j) ==
  /\ pc[j] = "read" /\ reading[j].at >= reading[j].size - 1
  /\ pc' = [pc EXCEPT ![j] = "close"]
  /\ UNCHANGED <<from, to, job, handle, drive, failures>>

ReadEnds(j) ==
  /\ pc[j] = "read" /\ reading[j].at >= reading[j].size
  /\ pc' = [pc EXCEPT ![j] = "close"]
  /\ UNCHANGED <<from, to, job, handle, drive, failures>>

-----------------------------------------------------------------------------
(***************************************************************************)
(* Writing.                                                                *)
(***************************************************************************)

\* The range that the run is putting to its session: by write(), by close(), or by the
\* close() of a file whose length was not known.
Chunk(j) ==
  CASE pc[j] = "put"      -> SubSeq(pending[j], 1, Flush(j, pending[j]))
    [] pc[j] = "close"    -> pending[j]
    [] pc[j] = "closePut" -> SubSeq(pending[j], sent[j] + 1, Min({sent[j] + FLUSH_AT, Len(pending[j])}))
Total(j) == IF pc[j] = "closePut" THEN Len(pending[j]) ELSE size[j]

Puts(j) == pc[j] \in {"put", "closePut"} \/ (pc[j] = "close" /\ Streams(j))

PutFits(j) == Fits(url[j], sent[j], Len(Chunk(j)), Total(j))

Put(j) ==
  /\ Puts(j) /\ PutFits(j)
  /\ Receive(url[j], Chunk(j), Total(j))
  /\ IF pc[j] = "close"
     THEN /\ uploadSessions' = 0 /\ pc' = [pc EXCEPT ![j] = "done"]
          /\ UNCHANGED <<pending, sent>>
     ELSE /\ sent' = [sent EXCEPT ![j] = @ + Len(Chunk(j))]
          /\ IF pc[j] = "put"
             THEN /\ pending' = [pending EXCEPT ![j] = SubSeq(@, Len(Chunk(j)) + 1, Len(@))]
                  /\ pc' = [pc EXCEPT ![j] = "read"]
             ELSE /\ pending' = pending
                  /\ pc' = [pc EXCEPT ![j] = IF sent'[j] >= Len(pending[j]) THEN "done" ELSE @]
          /\ UNCHANGED uploadSessions
  /\ UNCHANGED <<from, to, job, reading, url, failures>>

\* close() of what was kept in memory: one request, or a session of its own.
CloseBuffered(j) ==
  /\ pc[j] = "close" /\ ~Streams(j)
  /\ IF to = "onedrive" /\ Len(pending[j]) > SIMPLE_LIMIT
     THEN pc' = [pc EXCEPT ![j] = "closeCreate"] /\ dst' = dst
     ELSE pc' = [pc EXCEPT ![j] = "done"] /\ dst' = pending[j]
  /\ UNCHANGED <<from, to, job, handle, uploadSessions, session, failures>>

CloseCreates(j) ==
  /\ pc[j] = "closeCreate"
  /\ session' = Append(session, Created(j))
  /\ url' = [url EXCEPT ![j] = Len(session')] /\ sent' = [sent EXCEPT ![j] = 0]
  /\ pc' = [pc EXCEPT ![j] = "closePut"]
  /\ UNCHANGED <<from, to, job, reading, pending, uploadSessions, dst, failures>>

-----------------------------------------------------------------------------
(***************************************************************************)
(* Failures.  abort() discards what is kept in memory and issues nothing.  *)
(***************************************************************************)

\* A request fails before the server has acted on it, or the loop has seen the abort
\* signal; or the server refuses what does not fit.
Fails(j) ==
  /\ pc[j] \notin {"queued", "status", "failed", "done"}
  /\ \/ failures < MaxFailures /\ failures' = failures + 1
     \/ failures' = failures
        /\ \/ Puts(j) /\ ~PutFits(j)
           \/ pc[j] = "openRead" /\ sent[j] > Length(j)
           \/ pc[j] = "read" /\ NextBytes(j) = {} /\ reading[j].at < reading[j].size
  /\ pc' = [pc EXCEPT ![j] = "failed"]
  /\ UNCHANGED <<from, to, job, handle, drive>>

\* The server has acted, and the answer is lost.
AnswerLost(j) ==
  /\ failures < MaxFailures /\ failures' = failures + 1
  /\ \/ Puts(j) /\ PutFits(j) /\ Receive(url[j], Chunk(j), Total(j))
     \/ /\ pc[j] = "close" /\ ~Streams(j)
        /\ to # "onedrive" \/ Len(pending[j]) <= SIMPLE_LIMIT
        /\ dst' = pending[j] /\ session' = session
  /\ pc' = [pc EXCEPT ![j] = "failed"]
  /\ UNCHANGED <<from, to, job, handle, uploadSessions>>

Retry(j) ==
  /\ pc[j] = "failed" /\ retries < MaxRetries /\ retries' = retries + 1
  /\ pc' = [pc EXCEPT ![j] = "queued"]
  /\ UNCHANGED <<from, to, source, size, attempted, resume, changes, handle, drive, failures>>

SourceChanges(j) ==
  /\ changes < MaxChanges /\ changes' = changes + 1
  /\ \E n \in Lengths : source' = [source EXCEPT ![j] = Append(@, n)]
  /\ UNCHANGED <<from, to, pc, size, attempted, resume, retries, handle, drive, failures>>

-----------------------------------------------------------------------------
CopyInit ==
  /\ \E pair \in Pairs : from = pair[1] /\ to = pair[2]
  /\ source \in [Job -> {<<n>> : n \in Lengths}]
  /\ size \in [Job -> Lengths \cup {Unknown}]
  /\ \A j \in Job : size[j] \in {Length(j), Unknown}
  /\ pc = [j \in Job |-> "queued"] /\ attempted = {} /\ resume = {}
  /\ reading = [j \in Job |-> [version |-> 1, size |-> 0, at |-> 0]]
  /\ pending = [j \in Job |-> <<>>] /\ sent = [j \in Job |-> 0] /\ url = sent
  /\ uploadSessions = 0 /\ session = <<>> /\ dst = NoFile
  /\ retries = 0 /\ failures = 0 /\ changes = 0

Run(j) ==
  \/ Start(j) \/ Status(j) \/ StatusGone(j) \/ Create(j)
  \/ OpenRead(j) \/ Read(j) \/ ReadEnds(j)
  \/ Put(j) \/ CloseBuffered(j) \/ CloseCreates(j) \/ Fails(j) \/ AnswerLost(j)

CopyNext ==
  \/ \E j \in Job : Run(j) \/ Retry(j) \/ SourceChanges(j)
  \/ \E id \in DOMAIN session : Expire(id)

CopySpec == CopyInit /\ [][CopyNext]_copyVars

-----------------------------------------------------------------------------
(***************************************************************************)
(* Properties.                                                             *)
(***************************************************************************)

\* Types; and "memory stays bounded to roughly one caller chunk + FLUSH_AT"
\* (OneDriveFS.ts:243-244), unless the source has grown since it was listed: what is
\* beyond the listed length is kept until close().
CopyTypeOK ==
  /\ <<from, to>> \in Pairs
  /\ source \in [Job -> Seq(Lengths)] /\ size \in [Job -> Lengths \cup {Unknown}]
  /\ pc \in [Job -> {"queued", "status", "create", "openRead", "read", "put", "close",
                     "closeCreate", "closePut", "done", "failed"}]
  /\ resume \subseteq attempted /\ attempted \subseteq Job
  /\ \A j \in Job : Streams(j) /\ reading[j].size <= size[j] => Len(pending[j]) < FLUSH_AT + Buffer
  /\ {uploadSessions} \cup {url[j] : j \in Job} \subseteq 0..Len(session)
  /\ sent \in [Job -> Nat]

\* Two jobs use one session: the map knows paths only.
Mixed(j) == url[j] # 0 /\ session[url[j]].by # {j}

\* Nothing that the handles rely on has changed: OneDrive serves a source range by
\* range, and an upload session goes on with the bytes and the size of an earlier run.
Undisturbed(j) ==
  /\ ~Mixed(j)
  /\ from = "onedrive" => reading[j].version = Version(j)
  /\ Streams(j) => Version(j) = 1

Whole(j, file) == \E v \in 1..Version(j) : file = Bytes(j, v, 0, source[j][v])

\* The file changes only to a whole version of a source, whatever fails, stops or is
\* retried, and a job that is done has left its own ("rolled back" otherwise,
\* engine.ts:46-48).
CopiesAreWhole ==
  [][ \A j \in Job : Undisturbed(j)' =>
        /\ pc[j] # "done" /\ pc'[j] = "done" => Whole(j, dst)'
        /\ dst' # dst /\ pc'[j] # pc[j] => Whole(j, dst)' ]_copyVars

\* Nobody completed it.
Expired(id) == ~session[id].live /\ Len(session[id].got) # session[id].total

\* "Graph requires upload chunks to be multiples of 320 KiB" (OneDriveFS.ts:26), in
\* order, and something is left for close(): every range put to a session that has
\* not expired fits it and carries the source's own bytes of that range, after a
\* resume, a lost answer and a range that the server ignored, too.
RangesFit ==
  \A j \in Job : Puts(j) /\ Undisturbed(j) =>
    /\ Expired(url[j]) \/ PutFits(j)
    /\ Chunk(j) = Bytes(j, reading[j].version, sent[j], sent[j] + Len(Chunk(j)))
=============================================================================
