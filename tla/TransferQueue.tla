--------------------------- MODULE TransferQueue ---------------------------
(***************************************************************************)
(* src/transfer/queue.ts (class TransferQueue) with the file copy of       *)
(* src/transfer/engine.ts (transferFile) that each job runs.               *)
(*                                                                         *)
(* Every call of run() is an asynchronous function; pc[j] is the await at  *)
(* which the run of job j is suspended.  An action is the code from one    *)
(* await to the next.  It includes the synchronous tail of a run, the      *)
(* `finally` block with its pump(), which starts other jobs up to their    *)
(* first await.                                                            *)
(*                                                                         *)
(* The k-th job ever enqueued is job k, so that jobsList is                *)
(* {j \in 1..enqueued : state[j] # "absent"} in increasing order.          *)
(***************************************************************************)
EXTENDS Integers, Sequences, FiniteSets

CONSTANTS NumJobs,      \* bound: jobs ever enqueued
          Concurrency,  \* opts.concurrency, 2 unless given
          Name,         \* file names in the destination directory
          Chunks,       \* read()/write() rounds in a source file
          MaxProbe,     \* uniqueName's MAX_ATTEMPTS, 1000 in the code
          Syncing,      \* the jobs that a synchronization may enqueue
          MaxRetry,     \* bound: retries by the user, over all jobs
          OldLengths,   \* lengths, in chunks, of files that were there before
          Depth,        \* opts.pipelineDepth, 64 unless set: WRITEs in flight at once
          Silent,       \* TRUE if the server may not say how long a file is
          InPlace,      \* the destinations considered: TRUE writes in place and can
                        \* resume (SFTP, and FTP as with Depth 1), FALSE commits on
                        \* close (S3, WebDAV)
          Old, Hole,    \* what a chunk holds that no job has written
          NoFile        \* there is no file of that name

Job  == 1..NumJobs
Path == Name \X (0..MaxProbe)    \* <<n, 0>> is n, <<n, k>> is "n (k)"
Tag  == Job \cup {Old, Hole}     \* which source a chunk of a file comes from

ASSUME QueueAssumption ==
  /\ NumJobs \in Nat /\ Concurrency \in Nat \ {0}
  /\ {Chunks, Depth} \subseteq Nat \ {0} /\ MaxProbe \in Nat /\ MaxRetry \in Nat
  /\ OldLengths \subseteq Nat /\ Syncing \subseteq Job
  /\ InPlace \subseteq BOOLEAN /\ Silent \in BOOLEAN /\ NoFile \notin Seq(Tag)
  /\ Old \notin Job \cup {Hole} /\ Hole \notin Job

Terminal == {"done", "skipped", "error", "cancelled"}
JobState == {"absent", "queued", "active", "conflict"} \cup Terminal

\* Awaits inside transferFile with the write handle open.
Writing == {"closeFull", "openRead", "read", "write", "abortError",
            "abortCancelled", "closeWrite", "closeRead"}
Suspended == {"off", "stat", "choose", "probe", "resumeStat", "openWrite"} \cup Writing

VARIABLES
  enqueued,     \* jobs 1..enqueued have been enqueued
  state,        \* job.state; "absent" when the job is not in jobsList
  attempted,    \* jobs with job.attempted
  restored,     \* jobs with job.restored
  overwrite,    \* jobs with job.overwrite, from their EnqueueEntry
  name,         \* the name in job.dstPath, from its EnqueueEntry
  activeCount,
  controllers,  \* the keys of the map controllers
  aborted,      \* jobs whose AbortSignal is aborted
  pc,           \* the await the run of the job is suspended at
  resume,       \* jobs whose run has resume = true
  choice,       \* choice of the conflict dialog in this run
  alt,          \* target of this run is Target(j) = <<name[j], alt[j]>>
  start,        \* w.startOffset
  offset,       \* chunks of the source this run has read, or skipped
  flight,       \* positions of its WRITEs that are not answered yet
  refused,      \* runs whose handle has a failure, of a WRITE that was refused
  inPlace,      \* which kind of destination it is
  dst,          \* the destination directory: what each path holds
  retries,      \* counts the user's retries, for the bound
  kept,         \* history: tags the run found in the file it resumes
  shared        \* history: running jobs that shared their target with another

jobVars  == <<enqueued, attempted, restored, overwrite, name, retries, inPlace>>
poolVars == <<state, activeCount, controllers, aborted>>
handle   == <<start, offset, flight, refused>>
runVars  == <<pc, resume, choice, alt, handle, kept, shared>>
vars     == <<jobVars, poolVars, runVars, dst>>

Running == {j \in Job : pc[j] # "off"}
Target(j) == <<name[j], alt[j]>>
Exists(p) == dst[p] # NoFile

(***************************************************************************)
(* What a write of one chunk at position k (from 0) leaves in a file.      *)
(***************************************************************************)
WriteAt(c, k, tag) ==
  [i \in 1..(IF Len(c) > k THEN Len(c) ELSE k + 1) |->
     IF i = k + 1 THEN tag ELSE IF i <= Len(c) THEN c[i] ELSE Hole]

Copy(j, n) == [i \in 1..n |-> j]

-----------------------------------------------------------------------------
(***************************************************************************)
(* The pool: pump(), the head of run() and its `finally`.                  *)
(***************************************************************************)

Queued(st) == {j \in Job : st[j] = "queued"}

\* Slip: the last queued job is taken, not the first.
PumpsLatest(st, n, S) ==
  LET free    == Concurrency - n
      waiting == Cardinality(Queued(st))
  IN  /\ S \subseteq Queued(st)
      /\ Cardinality(S) = IF free < waiting THEN free ELSE waiting
      /\ \A i \in S, k \in Queued(st) \ S : k < i

\* pump() takes the first queued job of jobsList while activeCount < concurrency:
\* S is what it has taken, from states st and count n, when it stops.
Pumps(st, n, S) ==
  LET free    == Concurrency - n
      waiting == Cardinality(Queued(st))
  IN  /\ S \subseteq Queued(st)
      /\ Cardinality(S) = IF free < waiting THEN free ELSE waiting
      /\ \A i \in S, k \in Queued(st) \ S : i < k

\* run() up to its first await: only a job that never ran and need not overwrite looks
\* for a conflict, and one that ran resumes, where the destination can.
FirstAwait(j) ==
  IF j \in attempted /\ inPlace THEN "resumeStat"
  ELSE IF j \in attempted \cup overwrite THEN "openWrite" ELSE "stat"

\* run() up to its first await for the jobs in S, where the runs in Ended are over:
\* their locals go out of scope.
StartRuns(st, n, Ended, S) ==
  /\ state' = [j \in Job |-> IF j \in S THEN "active" ELSE st[j]]
  /\ activeCount' = n + Cardinality(S)
  /\ controllers' = (controllers \ Ended) \cup S
  /\ aborted' = aborted \ Ended
  /\ attempted' = attempted \cup S
  /\ resume' = (resume \ Ended) \cup (S \cap attempted)
  /\ pc' = [j \in Job |-> IF j \in S THEN FirstAwait(j)
                          ELSE IF j \in Ended THEN "off" ELSE pc[j]]
  /\ choice' = [j \in Job |-> IF j \in Ended THEN "none" ELSE choice[j]]
  /\ alt' = [j \in Job |-> IF j \in Ended THEN 0 ELSE alt[j]]
  /\ start' = [j \in Job |-> IF j \in Ended THEN 0 ELSE start[j]]
  /\ offset' = [j \in Job |-> IF j \in Ended THEN 0 ELSE offset[j]]
  /\ refused' = refused \ Ended
  /\ UNCHANGED flight
  /\ kept' = [j \in Job |-> IF j \in Ended THEN {} ELSE kept[j]]

Pump(st, n, Ended) ==
  \E S \in SUBSET Job : Pumps(st, n, S) /\ StartRuns(st, n, Ended, S)

\* Slip: `finally` forgets pump().
EndRunWithoutPump(j, s) ==
  /\ StartRuns([state EXCEPT ![j] = s], activeCount - 1, {j}, {})
  /\ UNCHANGED <<enqueued, restored, overwrite, name, retries, inPlace>>

EndRun(j, s) ==
  /\ Pump([state EXCEPT ![j] = s], activeCount - 1, {j})
  /\ UNCHANGED <<enqueued, restored, overwrite, name, retries, inPlace>>

\* A run goes from one await to the next.
Await(j, from, to) ==
  /\ pc[j] = from
  /\ pc' = [pc EXCEPT ![j] = to]

-----------------------------------------------------------------------------
(***************************************************************************)
(* What the user does.                                                     *)
(***************************************************************************)

Enqueue(j) ==
  /\ j = enqueued + 1
  /\ enqueued' = j
  /\ Pump([state EXCEPT ![j] = "queued"], activeCount, {})
  /\ UNCHANGED <<restored, overwrite, name, retries, inPlace, shared, dst>>

\* cancel() on each job of C: one job, or all of them for cancelAll().
CancelAll(C) ==
  /\ \E j \in C : state[j] \in {"queued", "active", "conflict"}
  /\ state' = [j \in Job |-> IF j \in C /\ state[j] = "queued"
                               THEN "cancelled" ELSE state[j]]
  /\ aborted' = aborted \cup {j \in C \cap controllers :
                                state[j] \in {"active", "conflict"}}
  /\ UNCHANGED <<jobVars, runVars, dst, activeCount, controllers>>

Cancel(j) == CancelAll({j})

Retry(j) ==
  /\ state[j] \in {"error", "cancelled"}
  /\ j \notin restored
  /\ retries < MaxRetry
  /\ retries' = retries + 1
  /\ Pump([state EXCEPT ![j] = "queued"], activeCount, {})
  /\ UNCHANGED <<enqueued, restored, overwrite, name, inPlace, shared, dst>>

ClearFinished ==
  /\ \E j \in Job : state[j] \in Terminal
  /\ state' = [j \in Job |-> IF state[j] \in Terminal THEN "absent" ELSE state[j]]
  /\ UNCHANGED <<jobVars, runVars, dst, activeCount, controllers, aborted>>

\* The page is loaded again.  Every state change has been persisted, because each
\* is followed by emit(true) before the next await.
Reload ==
  /\ \E j \in Job : state[j] # "absent" /\ j \notin restored
  /\ state' = [j \in Job |-> IF state[j] \in Terminal \cup {"absent"}
                               THEN state[j] ELSE "error"]
  /\ restored' = {j \in Job : state[j] # "absent"}
  /\ attempted' = {}
  /\ resume' = {} /\ aborted' = {} /\ controllers' = {} /\ shared' = {}
  /\ activeCount' = 0
  /\ pc' = [j \in Job |-> "off"]
  /\ choice' = [j \in Job |-> "none"]
  /\ alt' = [j \in Job |-> 0]
  /\ start' = [j \in Job |-> 0] /\ offset' = start'
  /\ flight' = [j \in Job |-> {}] /\ refused' = {}
  /\ kept' = [j \in Job |-> {}]
  /\ UNCHANGED <<enqueued, overwrite, name, retries, inPlace, dst>>

-----------------------------------------------------------------------------
(***************************************************************************)
(* run(): is there a file already, and what does the user want?            *)
(***************************************************************************)

\* `await job.dst.stat(target)`, settled in one of three ways.
StatFound(j) ==
  /\ Await(j, "stat", "choose")
  /\ Exists(Target(j))
  /\ state' = [state EXCEPT ![j] = "conflict"]
  /\ UNCHANGED <<jobVars, activeCount, controllers, aborted, dst,
                 resume, choice, alt, handle, kept, shared>>

StatNotFound(j) ==
  /\ Await(j, "stat", "openWrite")
  /\ ~Exists(Target(j))
  /\ UNCHANGED <<jobVars, poolVars, dst, resume, choice, alt, handle, kept, shared>>

StatFails(j) ==
  /\ pc[j] = "stat"
  /\ EndRun(j, "error")
  /\ UNCHANGED <<shared, dst>>

\* The race between the resolver and the abort signal.
Choose(j, c) ==
  /\ pc[j] = "choose" /\ j \notin aborted
  /\ \/ /\ c = "skip"
        /\ EndRun(j, "skipped")
        /\ UNCHANGED <<shared, dst>>
     \/ /\ c = "overwrite"
        /\ Await(j, "choose", "openWrite")
        /\ state' = [state EXCEPT ![j] = "active"]
        /\ choice' = [choice EXCEPT ![j] = c]
        /\ UNCHANGED <<jobVars, activeCount, controllers, aborted, dst,
                       resume, alt, handle, kept, shared>>
     \/ /\ c = "rename"
        /\ Await(j, "choose", "probe")
        /\ choice' = [choice EXCEPT ![j] = c]
        /\ UNCHANGED <<jobVars, poolVars, dst, resume, alt, handle, kept, shared>>

ChooseCancelled(j) ==
  /\ pc[j] = "choose" /\ j \in aborted
  /\ EndRun(j, "cancelled")
  /\ UNCHANGED <<shared, dst>>

\* Slip: the candidate is taken without asking whether it is free.
ProbeUnasked(j) ==
  /\ Await(j, "probe", "openWrite")
  /\ state' = [state EXCEPT ![j] = "active"]
  /\ UNCHANGED <<jobVars, activeCount, controllers, aborted, dst,
                 resume, choice, alt, handle, kept, shared>>

\* uniqueName: stat the candidates <<name, 0>>, <<name, 1>>, ... until one is free.
ProbeFree(j) ==
  /\ Await(j, "probe", "openWrite")
  /\ ~Exists(Target(j))
  /\ state' = [state EXCEPT ![j] = "active"]
  /\ UNCHANGED <<jobVars, activeCount, controllers, aborted, dst,
                 resume, choice, alt, handle, kept, shared>>

\* Slip: one candidate too many.
ProbePastLimit(j) ==
  /\ pc[j] = "probe"
  /\ alt[j] > MaxProbe \/ Exists(Target(j))
  /\ alt' = [alt EXCEPT ![j] = @ + 1]
  /\ UNCHANGED <<jobVars, poolVars, dst, pc, resume, choice, handle, kept, shared>>

ProbeTaken(j) ==
  /\ pc[j] = "probe"
  /\ Exists(Target(j)) /\ alt[j] < MaxProbe
  /\ alt' = [alt EXCEPT ![j] = @ + 1]
  /\ UNCHANGED <<jobVars, poolVars, dst, pc, resume, choice, handle, kept, shared>>

\* A stat fails with another error than not-found, or every candidate is taken.
ProbeFails(j) ==
  /\ pc[j] = "probe"
  /\ EndRun(j, "error")
  /\ UNCHANGED <<shared, dst>>

-----------------------------------------------------------------------------
(***************************************************************************)
(* transferFile.                                                           *)
(***************************************************************************)

\* The other runs that write the same file, or have found in it where to resume.
HasFile(i) == pc[i] \in Writing \/ (pc[i] = "openWrite" /\ inPlace /\ i \in resume)
Sharing(j) == {i \in Job \ {j} : HasFile(i) /\ Target(i) = Target(j)}
Shares(j)  == IF Sharing(j) = {} THEN shared ELSE shared \cup Sharing(j) \cup {j}

\* openWrite asks how long the partial file is.
ResumeStat(j) ==
  /\ Await(j, "resumeStat", "openWrite")
  /\ LET found == IF Exists(Target(j)) THEN dst[Target(j)] ELSE << >>
     IN  /\ \/ start' = [start EXCEPT ![j] = Len(found)]
            \/ Silent /\ start' = [start EXCEPT ![j] = 0]
         /\ kept' = [kept EXCEPT ![j] = {found[k] : k \in 1..Len(found)}]
  /\ shared' = Shares(j)
  /\ UNCHANGED <<jobVars, poolVars, dst, resume, choice, alt, offset, flight, refused>>

ResumeStatFails(j) ==
  /\ pc[j] = "resumeStat"
  /\ EndRun(j, "error")
  /\ UNCHANGED <<shared, dst>>

\* openWrite as the server sees it: the file is created or truncated, unless the
\* write resumes; FTP truncates then too if there is nothing to resume from.
Opens(j) ==
  \/ ~inPlace /\ UNCHANGED dst
  \/ inPlace /\ start[j] = 0 /\ dst' = [dst EXCEPT ![Target(j)] = << >>]
  \/ inPlace /\ j \in resume /\ Exists(Target(j)) /\ UNCHANGED dst

OpenWrite(j) ==
  /\ Await(j, "openWrite", IF start[j] >= Chunks THEN "closeFull" ELSE "openRead")
  /\ Opens(j)
  /\ offset' = [offset EXCEPT ![j] = start[j]]
  /\ shared' = Shares(j)
  /\ UNCHANGED <<jobVars, poolVars, resume, choice, alt, start, flight, refused, kept>>

\* The call fails, before or after the server has acted on it.
OpenWriteFails(j) ==
  /\ pc[j] = "openWrite"
  /\ EndRun(j, "error")
  /\ \/ UNCHANGED dst /\ shared' = shared \ {j}
     \/ Opens(j) /\ shared' = (shared \cup Sharing(j)) \ {j}

\* The loop begins with a look at the abort signal.
LoopHead(j) == IF j \in aborted THEN "abortCancelled" ELSE "read"

OpenRead(j) ==
  /\ Await(j, "openRead", LoopHead(j))
  /\ UNCHANGED <<jobVars, poolVars, dst, resume, choice, alt, handle, kept, shared>>

\* read() returns 0 at the end of the source, or bytes that are written next: the WRITE
\* is issued, unless an earlier one was refused.
Read(j) ==
  /\ \/ /\ offset[j] = Chunks
        /\ Await(j, "read", "closeWrite")
        /\ UNCHANGED <<offset, flight>>
     \/ /\ offset[j] < Chunks /\ j \in refused
        /\ Await(j, "read", "abortError")
        /\ UNCHANGED <<offset, flight>>
     \/ /\ offset[j] < Chunks /\ j \notin refused
        /\ Await(j, "read", "write")
        /\ offset' = [offset EXCEPT ![j] = @ + 1]
        /\ flight' = IF inPlace THEN [flight EXCEPT ![j] = @ \cup {offset[j]}] ELSE flight
  /\ UNCHANGED <<jobVars, poolVars, dst, resume, choice, alt, start, refused, kept, shared>>

\* write() returns at once, or after the oldest WRITE when there are Depth of them.  A
\* backend that commits on close keeps the chunk in its buffer.
WriteReturns(j) ==
  /\ LET oldest == offset[j] - Depth
         waits  == inPlace /\ start[j] <= oldest
     IN  /\ waits => oldest \notin flight[j]
         /\ Await(j, "write", IF waits /\ j \in refused THEN "abortError" ELSE LoopHead(j))
  /\ UNCHANGED <<jobVars, poolVars, dst, resume, choice, alt, handle, kept, shared>>

\* A WRITE is answered, in any order, or its answer is given up; one that is refused may
\* have reached the file.
Settles(j, k) ==
  /\ k \in flight[j]
  /\ flight' = [flight EXCEPT ![j] = @ \ {k}]
  /\ \/ refused' = refused \cup {j} /\ UNCHANGED dst
     \/ /\ refused' \in {refused, refused \cup {j}}
        /\ dst' = [dst EXCEPT ![Target(j)] = WriteAt(@, k, j)]
  /\ UNCHANGED <<jobVars, poolVars, pc, resume, choice, alt, start, offset, kept, shared>>

\* openRead or read rejects, or write where nothing is in flight.
CopyFails(j) ==
  /\ pc[j] \in {"openRead", "read"} \/ (pc[j] = "write" /\ ~inPlace)
  /\ pc' = [pc EXCEPT ![j] = "abortError"]
  /\ UNCHANGED <<jobVars, poolVars, dst, resume, choice, alt, handle, kept, shared>>

\* w.abort(), after all WRITEs, and r.close(), whose failures are swallowed; then rethrow.
Aborted(j) ==
  /\ flight[j] = {}
  /\ \/ pc[j] = "abortError" /\ EndRun(j, "error")
     \/ pc[j] = "abortCancelled" /\ EndRun(j, "cancelled")
  /\ shared' = shared \ {j}
  /\ UNCHANGED dst

\* A backend that commits on close does so here.
Committed(j) ==
  IF inPlace THEN dst ELSE [dst EXCEPT ![Target(j)] = Copy(j, offset[j])]

\* Slip: a WRITE that was refused is forgotten.
CloseWriteUnchecked(j) ==
  /\ Await(j, "closeWrite", "closeRead")
  /\ flight[j] = {}
  /\ dst' = Committed(j)
  /\ UNCHANGED <<jobVars, poolVars, resume, choice, alt, handle, kept, shared>>

\* w.close() waits for all WRITEs.
CloseWrite(j) ==
  /\ Await(j, "closeWrite", "closeRead")
  /\ flight[j] = {} /\ j \notin refused
  /\ dst' = Committed(j)
  /\ UNCHANGED <<jobVars, poolVars, resume, choice, alt, handle, kept, shared>>

\* w.close() or r.close() rejects, as w.close() does after a refusal: nothing is aborted,
\* the run ends.
CloseFails(j) ==
  /\ pc[j] \in {"closeFull", "closeWrite", "closeRead"} /\ flight[j] = {}
  /\ EndRun(j, "error")
  /\ \/ UNCHANGED dst
     \/ pc[j] = "closeWrite" /\ dst' = Committed(j)
  /\ shared' = shared \ {j}

Done(j) ==
  /\ pc[j] \in {"closeFull", "closeRead"}
  /\ EndRun(j, "done")
  /\ shared' = shared \ {j}
  /\ UNCHANGED dst

-----------------------------------------------------------------------------
Init ==
  /\ enqueued = 0 /\ activeCount = 0 /\ retries = 0
  /\ state = [j \in Job |-> "absent"]
  /\ overwrite \in SUBSET Syncing /\ inPlace \in InPlace
  /\ name \in [Job -> Name]
  /\ attempted = {} /\ restored = {} /\ controllers = {} /\ aborted = {}
  /\ resume = {} /\ shared = {}
  /\ pc = [j \in Job |-> "off"]
  /\ choice = [j \in Job |-> "none"]
  /\ alt = [j \in Job |-> 0]
  /\ start = [j \in Job |-> 0] /\ offset = start
  /\ flight = [j \in Job |-> {}] /\ refused = {}
  /\ kept = [j \in Job |-> {}]
  /\ \E present \in SUBSET Name, len \in OldLengths :
       dst = [p \in Path |-> IF p[1] \in present /\ p[2] = 0
                               THEN Copy(Old, len) ELSE NoFile]

User ==
  \/ \E j \in Job : Enqueue(j) \/ Cancel(j) \/ Retry(j)
  \/ CancelAll(Job)
  \/ ClearFinished
  \/ Reload

\* The promises that the runtime and the servers settle (receive() gives up after
\* 30 s, so a call settles even when the server is silent).
Run(j) ==
  \/ StatFound(j) \/ StatNotFound(j) \/ StatFails(j)
  \/ ChooseCancelled(j)
  \/ ProbeFree(j) \/ ProbeTaken(j) \/ ProbeFails(j)
  \/ ResumeStat(j) \/ ResumeStatFails(j) \/ OpenWrite(j) \/ OpenWriteFails(j)
  \/ OpenRead(j) \/ Read(j) \/ WriteReturns(j) \/ CopyFails(j) \/ Aborted(j)
  \/ \E k \in flight[j] : Settles(j, k)
  \/ CloseWrite(j) \/ CloseFails(j) \/ Done(j)

Answer(j) == \E c \in {"skip", "overwrite", "rename"} : Choose(j, c)

Next == User \/ \E j \in Job : Run(j) \/ Answer(j)

Fairness == \A j \in Job : WF_vars(Run(j))

Spec == Init /\ [][Next]_vars /\ Fairness

-----------------------------------------------------------------------------
(***************************************************************************)
(* Properties.                                                             *)
(***************************************************************************)

TypeOK ==
  /\ enqueued \in 0..NumJobs /\ retries \in 0..MaxRetry /\ activeCount \in Int
  /\ state \in [Job -> JobState]
  /\ pc \in [Job -> Suspended]
  /\ attempted \subseteq Job /\ restored \subseteq Job /\ overwrite \subseteq Job
  /\ controllers \subseteq Job /\ aborted \subseteq Job
  /\ resume \subseteq Job /\ shared \subseteq Job /\ refused \subseteq Job
  /\ name \in [Job -> Name] /\ inPlace \in InPlace
  /\ choice \in [Job -> {"none", "overwrite", "rename"}]
  /\ alt \in [Job -> 0..MaxProbe]
  /\ start \in [Job -> Nat] /\ offset \in [Job -> Nat]
  /\ flight \in [Job -> SUBSET (0..(Chunks - 1))]
  /\ kept \in [Job -> SUBSET Tag]
  /\ dst \in [Path -> {NoFile} \cup Seq(Tag)]

\* activeCount is the number of runs in flight, each of which owns the controller
\* that cancel() would abort, and there are never more of them than `concurrency`:
\* no path out of run() releases a slot twice or keeps it.
SlotAccounting ==
  /\ activeCount = Cardinality(Running)
  /\ activeCount <= Concurrency
  /\ controllers = Running
  /\ aborted \subseteq Running

\* No slot idles while a job waits: every event that frees a slot or queues a job
\* is followed by a pump().
NoIdleSlot == Queued(state) # {} => activeCount = Concurrency

\* What the user sees is what runs: a job shown as active or in conflict has a run
\* (and only those do, so a job shown as cancelled or failed no longer writes), and
\* a restored job never has one.
ShownAsRunning ==
  \A j \in Job :
    /\ state[j] \in {"active", "conflict"} <=> pc[j] # "off"
    /\ state[j] = "conflict" <=> pc[j] \in {"choose", "probe"}
    /\ j \in restored => pc[j] = "off"

\* A file that was there before the queue changes only under a run that may change
\* it: the entry said to overwrite, or the user chose so in the conflict dialog of
\* this run, or this run resumes a retried job, which by design does not ask.
Consents(j) ==
  \/ j \in overwrite \/ j \in resume
  \/ choice[j] = "overwrite"
OldFileConsent ==
  [][ \A p \in Path :
        Exists(p) /\ Old \in {dst[p][k] : k \in 1..Len(dst[p])} /\ dst'[p] # dst[p]
          => \E j \in Job : Target(j) = p /\ Consents(j)
                            /\ pc[j] \in {"openWrite"} \cup Writing ]_vars

\* When a job is reported done the destination is a complete copy of its source, in
\* whatever order its WRITEs were answered, if no other run wrote the same file meanwhile
\* and all that the run found in a file it resumed had been written by this job.  Except:
\* a hole that it finds there, of a WRITE that was refused before later ones landed, stays
\* (SftpFS.ts:259-260 resumes behind it).
Complete(j) == dst'[Target(j)] = Copy(j, Chunks)
DoneIsCopyOfOwnPartial ==
  [][ \A j \in Job :
        state[j] = "active" /\ state'[j] = "done" /\ j \notin shared
          /\ kept[j] \subseteq {j}
          => Complete(j) ]_vars

\* When a job is reported done the destination is a complete copy of its source,
\* if no other run wrote the same file meanwhile.  docs/superpowers/plans/
\* 2026-08-28-resumable-transfers.md:37-38: "a stale/oversized partial -> restart
\* (truncate) rather than corrupt", "no accidental append onto an unrelated file".
DoneIsCopy ==
  [][ \A j \in Job :
        state[j] = "active" /\ state'[j] = "done" /\ j \notin shared
          => Complete(j) ]_vars

\* cancel() frees the slot: the run of a cancelled job ends, even if nobody ever
\* answers its conflict dialog.  And if the user answers those, a queued job does not
\* wait forever.
UserAnswers == \A j \in Job : WF_vars(Answer(j))
EveryJobGetsOn ==
  /\ \A j \in Job : j \in aborted ~> pc[j] = "off"
  /\ UserAnswers => \A j \in Job : state[j] = "queued" ~> state[j] # "queued"

(***************************************************************************)
(* The queue implements the pool: where each of its jobs stands there.     *)
(***************************************************************************)
PhaseOf(j) ==
  CASE state[j] = "absent" -> IF j > enqueued THEN "new" ELSE "dropped"
    [] state[j] = "queued" -> "waiting"
    [] state[j] \in {"active", "conflict"} -> "running"
    [] state[j] \in {"error", "cancelled"} /\ j \notin restored -> "stopped"
    [] OTHER -> "final"

Pool == INSTANCE JobPool WITH Capacity <- Concurrency,
                              phase <- [j \in Job |-> PhaseOf(j)]
ImplementsPool == Pool!PoolSpec
=============================================================================
