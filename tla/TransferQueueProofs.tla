------------------------ MODULE TransferQueueProofs ------------------------
(***************************************************************************)
(* The slots of the transfer queue, the files its runs change, and the     *)
(* pool that it implements, proved for every number of jobs, every         *)
(* concurrency and both kinds of destination.                              *)
(***************************************************************************)
EXTENDS TransferQueue, FiniteSetTheorems, SequenceTheorems, TLAPS

(***************************************************************************)
(* Which jobs can be where.  A job that was never enqueued is absent and   *)
(* has no run; a restored job is over.                                     *)
(***************************************************************************)
Listed ==
  \A j \in Job :
    /\ j > enqueued => state[j] = "absent" /\ j \notin restored
    /\ j \in restored => state[j] \in Terminal \cup {"absent"}

(***************************************************************************)
(* A run that writes in place has its file, and only such a run has WRITEs *)
(* in flight, or refused: before the handle is closed.                     *)
(***************************************************************************)
HasItsFile ==
  inPlace => \A j \in Job : pc[j] \in Writing => dst[Target(j)] # NoFile

Copying == {"read", "write", "closeWrite", "abortError", "abortCancelled"}
WritesOpen ==
  \A j \in Job : flight[j] # {} \/ j \in refused => inPlace /\ pc[j] \in Copying

IInv == /\ TypeOK /\ SlotAccounting /\ NoIdleSlot /\ ShownAsRunning /\ Listed
        /\ HasItsFile /\ WritesOpen

-----------------------------------------------------------------------------
LEMMA JobsFinite ==
  \A S \in SUBSET Job : IsFiniteSet(S) /\ Cardinality(S) \in Nat
<1>1. IsFiniteSet(Job)
  BY QueueAssumption, FS_Interval DEF Job
<1>2. QED
  BY <1>1, FS_Subset, FS_CardinalityType

(***************************************************************************)
(* What pump() leaves, called with the states st and the count n after the *)
(* runs in Ended are over.                                                 *)
(***************************************************************************)
LEMMA PumpLemma ==
  ASSUME TypeOK,
         NEW st \in [Job -> JobState], NEW n, NEW Ended \in SUBSET Running,
         n = Cardinality(Running \ Ended), n <= Concurrency,
         controllers = Running, aborted \subseteq Running,
         \A j \in Job : st[j] \in {"active", "conflict"} <=> j \in Running \ Ended,
         \A j \in Job : st[j] = "conflict"
                          <=> j \notin Ended /\ pc[j] \in {"choose", "probe"},
         Pump(st, n, Ended)
  PROVE  /\ state' \in [Job -> JobState] /\ pc' \in [Job -> Suspended]
         /\ activeCount' \in Int
         /\ attempted' \subseteq Job /\ controllers' \subseteq Job
         /\ aborted' \subseteq Job /\ resume' \subseteq Job
         /\ choice' \in [Job -> {"none", "overwrite", "rename"}]
         /\ alt' \in [Job -> 0..MaxProbe] /\ offset' \in [Job -> Nat]
         /\ start' \in [Job -> Nat] /\ refused' = refused \ Ended /\ flight' = flight
         /\ kept' \in [Job -> SUBSET Tag]
         /\ SlotAccounting' /\ NoIdleSlot'
         /\ \A j \in Job :
              /\ state'[j] \in {"active", "conflict"} <=> pc'[j] # "off"
              /\ state'[j] = "conflict" <=> pc'[j] \in {"choose", "probe"}
         /\ \A j \in Job : \/ pc'[j] = pc[j] /\ alt'[j] = alt[j]
                           \/ /\ pc'[j] \in {"off", "stat", "resumeStat", "openWrite"}
                              /\ pc[j] = "off" \/ j \in Ended
         /\ \A j \in Job : state'[j] = st[j] \/ (st[j] = "queued" /\ state'[j] = "active")
<1>1. PICK S \in SUBSET Job : Pumps(st, n, S) /\ StartRuns(st, n, Ended, S)
  BY DEF Pump
<1>2. S \subseteq Queued(st) /\ \A j \in S : j \in Job /\ st[j] = "queued"
  BY <1>1 DEF Pumps, Queued
<1>3. (Running \ Ended) \cap S = {}
  BY <1>2
<1>4. /\ state' \in [Job -> JobState] /\ pc' \in [Job -> Suspended]
      /\ attempted' \subseteq Job /\ controllers' \subseteq Job
      /\ aborted' \subseteq Job /\ resume' \subseteq Job
      /\ choice' \in [Job -> {"none", "overwrite", "rename"}]
      /\ alt' \in [Job -> 0..MaxProbe] /\ offset' \in [Job -> Nat]
      /\ start' \in [Job -> Nat] /\ refused' = refused \ Ended /\ flight' = flight
      /\ kept' \in [Job -> SUBSET Tag]
  <2>1. \A j \in Job : FirstAwait(j) \in Suspended
    BY DEF FirstAwait, Suspended
  <2>2. 0 \in 0..MaxProbe
    BY QueueAssumption
  <2>3. "active" \in JobState /\ "off" \in Suspended
    BY DEF JobState, Suspended
  <2>4. QED
    BY <1>1, <2>1, <2>2, <2>3 DEF StartRuns, TypeOK
<1>5. Running' = (Running \ Ended) \cup S
  BY <1>1, <1>2 DEF Running, StartRuns, FirstAwait
<1>6. Cardinality(Running') = n + Cardinality(S)
  <2>1. IsFiniteSet(Running \ Ended) /\ IsFiniteSet(S)
    BY JobsFinite DEF Running
  <2>2. Cardinality(Running') = Cardinality(Running \ Ended) + Cardinality(S)
                                  - Cardinality({})
    BY <1>3, <1>5, <2>1, FS_Union, Zenon
  <2>3. n \in Nat /\ Cardinality(S) \in Nat
    BY JobsFinite DEF Running
  <2>4. QED
    BY <2>2, <2>3, FS_EmptySet
<1>7. /\ Cardinality(S) \in Nat /\ n \in Nat /\ Concurrency \in Nat
      /\ Cardinality(Queued(st)) \in Nat
      /\ Cardinality(S) = IF Concurrency - n < Cardinality(Queued(st))
                            THEN Concurrency - n ELSE Cardinality(Queued(st))
  BY <1>1, JobsFinite, QueueAssumption DEF Pumps, Queued, Running
<1>8. SlotAccounting'
  <2>1. activeCount' = n + Cardinality(S) /\ activeCount' <= Concurrency
    BY <1>1, <1>7 DEF StartRuns
  <2>2. controllers' = Running' /\ aborted' \subseteq Running'
    BY <1>1, <1>5 DEF StartRuns
  <2>3. QED
    BY <1>6, <2>1, <2>2 DEF SlotAccounting
<1>9. Queued(state') = Queued(st) \ S
  BY <1>1, <1>2 DEF Queued, StartRuns
<1>10. NoIdleSlot'
  <2>1. CASE Concurrency - n < Cardinality(Queued(st))
    BY <1>1, <1>7, <2>1 DEF NoIdleSlot, StartRuns
  <2>2. CASE ~(Concurrency - n < Cardinality(Queued(st)))
    <3>1. Cardinality(S) = Cardinality(Queued(st))
      BY <1>7, <2>2
    <3>2. S = Queued(st)
      BY <1>2, <3>1, JobsFinite, FS_Subset DEF Queued
    <3>3. QED
      BY <1>9, <3>2 DEF NoIdleSlot, Queued
  <2>3. QED
    BY <2>1, <2>2
<1>11. \A j \in Job :
         /\ state'[j] \in {"active", "conflict"} <=> pc'[j] # "off"
         /\ state'[j] = "conflict" <=> pc'[j] \in {"choose", "probe"}
  BY <1>1, <1>2 DEF StartRuns, Running, FirstAwait
<1>12. \A j \in Job : \/ pc'[j] = pc[j] /\ alt'[j] = alt[j]
                      \/ /\ pc'[j] \in {"off", "stat", "resumeStat", "openWrite"}
                         /\ pc[j] = "off" \/ j \in Ended
  <2>1. \A j \in S : pc[j] = "off" \/ j \in Ended
    BY <1>2 DEF Running
  <2>2. \A j \in S : pc'[j] = FirstAwait(j)
    BY <1>1 DEF StartRuns
  <2>3. \A j \in Job \ S : \/ pc'[j] = pc[j] /\ alt'[j] = alt[j]
                           \/ pc'[j] = "off" /\ j \in Ended
    BY <1>1 DEF StartRuns
  <2>4. QED
    BY <2>1, <2>2, <2>3 DEF FirstAwait
<1>13. \A j \in Job : state'[j] = st[j] \/ (st[j] = "queued" /\ state'[j] = "active")
  BY <1>1, <1>2 DEF StartRuns
<1>14. activeCount' \in Int
  BY <1>1, <1>7 DEF StartRuns
<1>15. QED
  BY <1>4, <1>8, <1>10, <1>11, <1>12, <1>13, <1>14

(***************************************************************************)
(* A run ends: whatever the last call did to the files, it removed none.   *)
(***************************************************************************)
LEMMA EndRunLemma ==
  ASSUME IInv, NEW j \in Job, NEW s \in Terminal, pc[j] # "off", EndRun(j, s),
         flight[j] = {}, shared' \subseteq Job, dst' \in [Path -> {NoFile} \cup Seq(Tag)],
         \A p \in Path : dst[p] # NoFile => dst'[p] # NoFile
  PROVE  IInv'
<1> DEFINE st == [state EXCEPT ![j] = s]
           ended == {j}
<1> USE DEF IInv
<1>1. st \in [Job -> JobState] /\ st[j] = s /\ \A i \in Job : i # j => st[i] = state[i]
  BY DEF TypeOK, JobState, Terminal
<1>2. j \in Running /\ ended \in SUBSET Running
  BY DEF Running
<1>3. activeCount - 1 = Cardinality(Running \ ended)
  <2>1. IsFiniteSet(Running) /\ Cardinality(Running) \in Nat
    BY JobsFinite DEF Running
  <2>2. Cardinality(Running \ {j}) = Cardinality(Running) - 1
    BY <1>2, <2>1, FS_RemoveElement
  <2>3. QED
    BY <2>1, <2>2 DEF SlotAccounting
<1>4. activeCount - 1 <= Concurrency
  BY QueueAssumption DEF SlotAccounting, TypeOK
<1>5. \A i \in Job : st[i] \in {"active", "conflict"} <=> i \in Running \ ended
  BY <1>1 DEF ShownAsRunning, Running, Terminal
<1>6. \A i \in Job : st[i] = "conflict" <=> i \notin ended /\ pc[i] \in {"choose", "probe"}
  BY <1>1 DEF ShownAsRunning, Terminal
<1>7. Pump(st, activeCount - 1, ended)
  BY DEF EndRun
<1>8. controllers = Running /\ aborted \subseteq Running /\ TypeOK
  BY DEF SlotAccounting
<1> HIDE DEF st, ended
<1>9. /\ state' \in [Job -> JobState] /\ pc' \in [Job -> Suspended]
      /\ activeCount' \in Int
      /\ attempted' \subseteq Job /\ controllers' \subseteq Job
      /\ aborted' \subseteq Job /\ resume' \subseteq Job
      /\ choice' \in [Job -> {"none", "overwrite", "rename"}]
      /\ alt' \in [Job -> 0..MaxProbe] /\ offset' \in [Job -> Nat]
      /\ start' \in [Job -> Nat] /\ refused' = refused \ ended /\ flight' = flight
      /\ kept' \in [Job -> SUBSET Tag]
      /\ SlotAccounting' /\ NoIdleSlot'
      /\ \A i \in Job :
           /\ state'[i] \in {"active", "conflict"} <=> pc'[i] # "off"
           /\ state'[i] = "conflict" <=> pc'[i] \in {"choose", "probe"}
      /\ \A i \in Job : \/ pc'[i] = pc[i] /\ alt'[i] = alt[i]
                        \/ /\ pc'[i] \in {"off", "stat", "resumeStat", "openWrite"}
                           /\ pc[i] = "off" \/ i \in ended
      /\ \A i \in Job : state'[i] = st[i] \/ (st[i] = "queued" /\ state'[i] = "active")
  BY <1>1, <1>2, <1>3, <1>4, <1>5, <1>6, <1>7, <1>8, PumpLemma
<1>10. UNCHANGED <<enqueued, restored, overwrite, name, retries, inPlace>>
  BY DEF EndRun
<1>11. TypeOK'
  <2>1. refused' \subseteq Job /\ flight' \in [Job -> SUBSET (0..(Chunks - 1))]
    BY <1>9 DEF TypeOK
  <2>2. QED
    BY <1>9, <1>10, <2>1 DEF TypeOK
<1>12. Listed'
  <2>1. state[j] \in {"active", "conflict"}
    BY DEF ShownAsRunning
  <2>2. j \notin restored /\ ~(j > enqueued)
    BY <2>1 DEF Listed, Terminal
  <2>3. \A i \in Job : i > enqueued => state'[i] = "absent" /\ i \notin restored
    <3>1. \A i \in Job : i > enqueued => i # j /\ state[i] = "absent" /\ i \notin restored
      BY <2>2 DEF Listed
    <3>2. QED
      BY <1>1, <1>9, <3>1
  <2>4. \A i \in Job : i \in restored => state'[i] \in Terminal \cup {"absent"}
    <3>1. \A i \in Job : i \in restored =>
            i # j /\ state[i] # "queued" /\ state[i] \in Terminal \cup {"absent"}
      BY <2>2 DEF Listed, Terminal
    <3>2. \A i \in Job : state'[i] = st[i] \/ (st[i] = "queued" /\ state'[i] = "active")
      BY <1>9
    <3>3. \A i \in Job : i # j => state'[i] = state[i] \/ state[i] = "queued"
      BY <1>1, <3>2
    <3>4. QED
      BY <3>1, <3>3
  <2>5. QED
    BY <1>10, <2>3, <2>4 DEF Listed
<1>13. ShownAsRunning'
  <2>1. \A i \in Job : i \in restored' => state'[i] \notin {"active", "conflict"}
    BY <1>12 DEF Listed, Terminal
  <2>2. \A i \in Job : i \in restored' => pc'[i] = "off"
    BY <1>9, <2>1
  <2>3. QED
    BY <1>9, <2>2 DEF ShownAsRunning
<1>14. HasItsFile'
  <2> SUFFICES ASSUME inPlace', NEW i \in Job, pc'[i] \in Writing
               PROVE  (dst[Target(i)])' # NoFile
    BY DEF HasItsFile
  <2>1. pc'[i] = pc[i] /\ alt'[i] = alt[i]
    BY <1>9 DEF Writing
  <2>2. Target(i) \in Path /\ dst[Target(i)] # NoFile
    BY <1>10, <2>1 DEF HasItsFile, Target, Path, TypeOK
  <2>3. QED
    BY <1>10, <2>1, <2>2 DEF Target
<1>15. WritesOpen'
  <2> SUFFICES ASSUME NEW i \in Job, flight'[i] # {} \/ i \in refused'
               PROVE  inPlace' /\ pc'[i] \in Copying
    BY DEF WritesOpen
  <2>1. flight[i] # {} \/ (i \in refused /\ i # j)
    BY <1>9 DEF ended
  <2>2. inPlace /\ pc[i] \in Copying /\ i # j
    BY <2>1 DEF WritesOpen
  <2>3. pc'[i] = pc[i]
    BY <1>9, <2>2 DEF Copying, ended
  <2>4. QED
    BY <1>10, <2>2, <2>3
<1>16. QED
  BY <1>9, <1>11, <1>12, <1>13, <1>14, <1>15

(***************************************************************************)
(* A run goes on to its next await.                                        *)
(***************************************************************************)
LEMMA AwaitLemma ==
  ASSUME IInv, NEW j \in Job, NEW to \in Suspended \ {"off"}, pc[j] # "off",
         pc' = [pc EXCEPT ![j] = to],
         state' = [state EXCEPT ![j] =
                     IF to \in {"choose", "probe"} THEN "conflict" ELSE "active"],
         UNCHANGED <<jobVars, activeCount, controllers, aborted, resume>>,
         choice' \in [Job -> {"none", "overwrite", "rename"}],
         alt' \in [Job -> 0..MaxProbe], \A i \in Job : i # j => alt'[i] = alt[i],
         start' \in [Job -> Nat], offset' \in [Job -> Nat],
         flight' \in [Job -> SUBSET (0..(Chunks - 1))], refused' \subseteq Job,
         \A i \in Job : i # j => flight'[i] = flight[i] /\ (i \in refused' => i \in refused),
         flight'[j] # {} \/ j \in refused' => inPlace /\ to \in Copying,
         kept' \in [Job -> SUBSET Tag], shared' \subseteq Job,
         dst' \in [Path -> {NoFile} \cup Seq(Tag)],
         \A p \in Path : dst[p] # NoFile => dst'[p] # NoFile,
         inPlace /\ to \in Writing => dst'[<<name[j], alt'[j]>>] # NoFile
  PROVE  IInv'
<1> USE DEF IInv
<1>1. pc' \in [Job -> Suspended] /\ state' \in [Job -> JobState]
  BY DEF TypeOK, JobState
<1>2. TypeOK'
  BY <1>1 DEF TypeOK, jobVars
<1>3. Running' = Running
  BY DEF Running, TypeOK
<1>4. SlotAccounting'
  BY <1>3 DEF SlotAccounting
<1>5. state[j] \in {"active", "conflict"}
  BY DEF ShownAsRunning
<1>6. Queued(state') = Queued(state)
  BY <1>5 DEF Queued, TypeOK
<1>7. NoIdleSlot'
  BY <1>6 DEF NoIdleSlot, Queued
<1>8. ShownAsRunning'
  BY DEF ShownAsRunning, TypeOK, jobVars
<1>9. Listed'
  BY <1>5 DEF Listed, TypeOK, jobVars, Terminal
<1>10. HasItsFile'
  <2> SUFFICES ASSUME inPlace', NEW i \in Job, pc'[i] \in Writing
               PROVE  (dst[Target(i)])' # NoFile
    BY DEF HasItsFile
  <2>1. CASE i = j
    BY <2>1 DEF Target, TypeOK, jobVars
  <2>2. CASE i # j
    <3>1. pc'[i] = pc[i] /\ alt'[i] = alt[i] /\ name' = name /\ inPlace
      BY <2>2 DEF TypeOK, jobVars
    <3>2. Target(i) \in Path /\ dst[Target(i)] # NoFile
      BY <3>1 DEF HasItsFile, Target, Path, TypeOK
    <3>3. QED
      BY <3>1, <3>2 DEF Target
  <2>3. QED
    BY <2>1, <2>2
<1>11. WritesOpen'
  <2>1. ASSUME NEW i \in Job, i # j, flight'[i] # {} \/ i \in refused'
        PROVE  inPlace /\ pc'[i] \in Copying
    <3>1. inPlace /\ pc[i] \in Copying
      BY <2>1 DEF WritesOpen
    <3>2. QED
      BY <2>1, <3>1 DEF TypeOK
  <2>2. pc'[j] = to /\ inPlace' = inPlace
    BY DEF TypeOK, jobVars
  <2>3. QED
    BY <2>1, <2>2 DEF WritesOpen
<1>12. QED
  BY <1>2, <1>4, <1>7, <1>8, <1>9, <1>10, <1>11

(***************************************************************************)
(* A job is queued, new or again, and pump() follows.                      *)
(***************************************************************************)
LEMMA QueueLemma ==
  ASSUME IInv, NEW j \in Job, state[j] \notin {"active", "conflict"},
         enqueued' \in 0..NumJobs, enqueued <= enqueued', j <= enqueued',
         j \notin restored, retries' \in 0..MaxRetry,
         Pump([state EXCEPT ![j] = "queued"], activeCount, {}),
         UNCHANGED <<restored, overwrite, name, inPlace, shared, dst>>
  PROVE  IInv'
<1> DEFINE st == [state EXCEPT ![j] = "queued"]
           none == {}
<1> USE DEF IInv
<1>1. st \in [Job -> JobState] /\ st[j] = "queued" /\ \A i \in Job : i # j => st[i] = state[i]
  BY DEF TypeOK, JobState
<1>2. none \in SUBSET Running /\ Running \ none = Running
  OBVIOUS
<1>3. /\ activeCount = Cardinality(Running \ none) /\ activeCount <= Concurrency
      /\ controllers = Running /\ aborted \subseteq Running /\ TypeOK
  BY <1>2 DEF SlotAccounting
<1>4. \A i \in Job : st[i] \in {"active", "conflict"} <=> i \in Running \ none
  BY <1>1 DEF ShownAsRunning, Running
<1>5. \A i \in Job : st[i] = "conflict" <=> i \notin none /\ pc[i] \in {"choose", "probe"}
  BY <1>1 DEF ShownAsRunning
<1>6. Pump(st, activeCount, none)
  OBVIOUS
<1> HIDE DEF st, none
<1>7. /\ state' \in [Job -> JobState] /\ pc' \in [Job -> Suspended]
      /\ activeCount' \in Int
      /\ attempted' \subseteq Job /\ controllers' \subseteq Job
      /\ aborted' \subseteq Job /\ resume' \subseteq Job
      /\ choice' \in [Job -> {"none", "overwrite", "rename"}]
      /\ alt' \in [Job -> 0..MaxProbe] /\ offset' \in [Job -> Nat]
      /\ start' \in [Job -> Nat] /\ refused' = refused \ none /\ flight' = flight
      /\ kept' \in [Job -> SUBSET Tag]
      /\ SlotAccounting' /\ NoIdleSlot'
      /\ \A i \in Job :
           /\ state'[i] \in {"active", "conflict"} <=> pc'[i] # "off"
           /\ state'[i] = "conflict" <=> pc'[i] \in {"choose", "probe"}
      /\ \A i \in Job : \/ pc'[i] = pc[i] /\ alt'[i] = alt[i]
                        \/ /\ pc'[i] \in {"off", "stat", "resumeStat", "openWrite"}
                           /\ pc[i] = "off" \/ i \in none
      /\ \A i \in Job : state'[i] = st[i] \/ (st[i] = "queued" /\ state'[i] = "active")
  BY <1>1, <1>2, <1>3, <1>4, <1>5, <1>6, PumpLemma
<1>8. TypeOK'
  <2>1. refused' \subseteq Job /\ flight' \in [Job -> SUBSET (0..(Chunks - 1))]
    BY <1>7 DEF TypeOK
  <2>2. QED
    BY <1>7, <2>1 DEF TypeOK
<1>9. Listed'
  <2>1. \A i \in Job : i > enqueued' => i # j /\ i > enqueued
    BY DEF TypeOK, Job
  <2>2. \A i \in Job : i > enqueued' => state'[i] = "absent" /\ i \notin restored
    BY <1>1, <1>7, <2>1 DEF Listed
  <2>3. \A i \in Job : i \in restored => state'[i] \in Terminal \cup {"absent"}
    BY <1>1, <1>7 DEF Listed, Terminal
  <2>4. QED
    BY <2>2, <2>3 DEF Listed
<1>10. ShownAsRunning'
  <2>1. \A i \in Job : i \in restored' => state'[i] \notin {"active", "conflict"}
    BY <1>9 DEF Listed, Terminal
  <2>2. \A i \in Job : i \in restored' => pc'[i] = "off"
    BY <1>7, <2>1
  <2>3. QED
    BY <1>7, <2>2 DEF ShownAsRunning
<1>11. HasItsFile'
  <2> SUFFICES ASSUME inPlace', NEW i \in Job, pc'[i] \in Writing
               PROVE  (dst[Target(i)])' # NoFile
    BY DEF HasItsFile
  <2>1. pc'[i] = pc[i] /\ alt'[i] = alt[i]
    BY <1>7 DEF Writing
  <2>2. dst[Target(i)] # NoFile
    BY <2>1 DEF HasItsFile
  <2>3. QED
    BY <2>1, <2>2 DEF Target
<1>12. WritesOpen'
  <2> SUFFICES ASSUME NEW i \in Job, flight'[i] # {} \/ i \in refused'
               PROVE  inPlace' /\ pc'[i] \in Copying
    BY DEF WritesOpen
  <2>1. inPlace /\ pc[i] \in Copying
    BY <1>7 DEF WritesOpen
  <2>2. pc'[i] = pc[i]
    BY <1>7, <2>1 DEF Copying, none
  <2>3. QED
    BY <2>1, <2>2
<1>13. QED
  BY <1>7, <1>8, <1>9, <1>10, <1>11, <1>12

-----------------------------------------------------------------------------
LEMMA InitIInv == Init => IInv
<1> SUFFICES ASSUME Init PROVE IInv
  OBVIOUS
<1>1. 0 \in 0..NumJobs /\ 0 \in 0..MaxRetry /\ 0 \in 0..MaxProbe /\ 0 <= Concurrency
  BY QueueAssumption
<1>2. Running = {}
  BY DEF Init, Running
<1>3. SlotAccounting
  BY <1>1, <1>2, FS_EmptySet DEF Init, SlotAccounting
<1>4. dst \in [Path -> {NoFile} \cup Seq(Tag)]
  <2>1. PICK present \in SUBSET Name, len \in OldLengths :
          dst = [p \in Path |-> IF p[1] \in present /\ p[2] = 0
                                  THEN Copy(Old, len) ELSE NoFile]
    BY DEF Init
  <2>2. Copy(Old, len) \in Seq(Tag)
    <3>1. len \in Nat /\ Copy(Old, len) \in [1..len -> Tag]
      BY QueueAssumption DEF Copy, Tag
    <3>2. QED
      BY <3>1, SeqDef
  <2>3. QED
    BY <2>1, <2>2
<1>5. TypeOK
  <2>1. "absent" \in JobState /\ "off" \in Suspended
    BY DEF JobState, Suspended
  <2>2. overwrite \subseteq Job
    BY QueueAssumption DEF Init, Job
  <2>3. QED
    BY <1>1, <1>4, <2>1, <2>2 DEF Init, TypeOK
<1>6. NoIdleSlot /\ ShownAsRunning /\ Listed /\ HasItsFile /\ WritesOpen
  BY DEF Init, NoIdleSlot, Queued, ShownAsRunning, Listed, HasItsFile, WritesOpen, Writing
<1>7. QED
  BY <1>3, <1>5, <1>6 DEF IInv

(***************************************************************************)
(* The user's actions.                                                     *)
(***************************************************************************)
LEMMA EnqueueStep == ASSUME IInv, NEW j \in Job, Enqueue(j) PROVE IInv'
<1>1. j \in 1..NumJobs /\ enqueued \in 0..NumJobs /\ retries \in 0..MaxRetry
  BY DEF IInv, TypeOK, Job
<1>2. enqueued' \in 0..NumJobs /\ enqueued <= enqueued' /\ j <= enqueued' /\ j > enqueued
  BY <1>1, QueueAssumption DEF Enqueue
<1>3. state[j] = "absent" /\ j \notin restored
  BY <1>2 DEF IInv, Listed
<1>4. QED
  BY <1>1, <1>2, <1>3, QueueLemma DEF Enqueue

LEMMA RetryStep == ASSUME IInv, NEW j \in Job, Retry(j) PROVE IInv'
<1>1. /\ enqueued \in 0..NumJobs /\ retries \in Nat /\ MaxRetry \in Nat
      /\ j \in 1..NumJobs
  BY QueueAssumption DEF IInv, TypeOK, Job
<1>2. retries' \in 0..MaxRetry
  BY <1>1 DEF Retry
<1>3. enqueued' = enqueued /\ j <= enqueued
  BY <1>1 DEF Retry, IInv, Listed
<1>4. QED
  BY <1>1, <1>2, <1>3, QueueLemma DEF Retry

LEMMA CancelStep == ASSUME IInv, NEW C \in SUBSET Job, CancelAll(C) PROVE IInv'
<1> USE DEF IInv
<1>1. \A j \in Job : \/ state'[j] = state[j]
                     \/ state[j] = "queued" /\ state'[j] = "cancelled"
  BY DEF CancelAll
<1>2. UNCHANGED <<jobVars, runVars, dst, activeCount, controllers>>
  BY DEF CancelAll
<1>3. aborted' \subseteq Running
  BY DEF CancelAll, SlotAccounting
<1>4. TypeOK'
  <2>1. state' \in [Job -> JobState]
    BY DEF CancelAll, TypeOK, JobState, Terminal
  <2>2. aborted' \subseteq Job
    BY <1>3 DEF Running
  <2>3. QED
    BY <1>2, <2>1, <2>2 DEF TypeOK, jobVars, runVars, handle
<1>5. SlotAccounting'
  BY <1>2, <1>3 DEF SlotAccounting, Running, runVars
<1>6. NoIdleSlot'
  BY <1>1, <1>2 DEF NoIdleSlot, Queued
<1>7. ShownAsRunning'
  BY <1>1, <1>2 DEF ShownAsRunning, jobVars, runVars
<1>8. Listed'
  BY <1>1, <1>2 DEF Listed, Terminal, jobVars
<1>9. HasItsFile'
  BY <1>2 DEF HasItsFile, Target, jobVars, runVars
<1>10. WritesOpen'
  BY <1>2 DEF WritesOpen, jobVars, runVars, handle
<1>11. QED
  BY <1>4, <1>5, <1>6, <1>7, <1>8, <1>9, <1>10

LEMMA ClearStep == ASSUME IInv, ClearFinished PROVE IInv'
<1> USE DEF IInv
<1>1. \A j \in Job : state'[j] = IF state[j] \in Terminal THEN "absent" ELSE state[j]
  BY DEF ClearFinished
<1>2. UNCHANGED <<jobVars, runVars, dst, activeCount, controllers, aborted>>
  BY DEF ClearFinished
<1>3. TypeOK'
  <2>1. state' \in [Job -> JobState]
    BY DEF ClearFinished, TypeOK, JobState
  <2>2. QED
    BY <1>2, <2>1 DEF TypeOK, jobVars, runVars, handle
<1>4. SlotAccounting'
  BY <1>2 DEF SlotAccounting, Running, runVars
<1>5. NoIdleSlot'
  BY <1>1, <1>2 DEF NoIdleSlot, Queued
<1>6. ShownAsRunning'
  BY <1>1, <1>2 DEF ShownAsRunning, Terminal, jobVars, runVars
<1>7. Listed'
  BY <1>1, <1>2 DEF Listed, jobVars
<1>8. HasItsFile'
  BY <1>2 DEF HasItsFile, Target, jobVars, runVars
<1>9. WritesOpen'
  BY <1>2 DEF WritesOpen, jobVars, runVars, handle
<1>10. QED
  BY <1>3, <1>4, <1>5, <1>6, <1>7, <1>8, <1>9

LEMMA ReloadStep == ASSUME IInv, Reload PROVE IInv'
<1> USE DEF IInv
<1>1. \A j \in Job : state'[j] \in Terminal \cup {"absent"}
  BY DEF Reload, Terminal
<1>2. Running' = {} /\ \A j \in Job : pc'[j] = "off"
  BY DEF Reload, Running
<1>3. TypeOK'
  <2>1. state' \in [Job -> JobState] /\ pc' \in [Job -> Suspended]
    BY DEF Reload, TypeOK, JobState, Terminal, Suspended
  <2>2. 0 \in 0..MaxProbe
    BY QueueAssumption
  <2>3. QED
    BY <2>1, <2>2 DEF Reload, TypeOK
<1>4. SlotAccounting'
  BY <1>2, FS_EmptySet, QueueAssumption DEF SlotAccounting, Reload
<1>5. NoIdleSlot'
  BY <1>1 DEF NoIdleSlot, Queued, Terminal
<1>6. ShownAsRunning'
  BY <1>1, <1>2 DEF ShownAsRunning, Terminal
<1>7. Listed'
  BY <1>1 DEF Listed, Reload
<1>8. HasItsFile'
  BY <1>2 DEF HasItsFile, Writing
<1>9. WritesOpen'
  BY DEF Reload, WritesOpen
<1>10. QED
  BY <1>3, <1>4, <1>5, <1>6, <1>7, <1>8, <1>9

-----------------------------------------------------------------------------
(***************************************************************************)
(* What the calls of a run do to the files: none of them removes one.      *)
(***************************************************************************)
LEMMA WriteType ==
  ASSUME NEW c \in Seq(Tag), NEW k \in Nat, NEW j \in Job
  PROVE  WriteAt(c, k, j) \in Seq(Tag)
<1> DEFINE n == IF Len(c) > k THEN Len(c) ELSE k + 1
<1>1. n \in Nat
  OBVIOUS
<1>2. \A i \in 1..n : i <= Len(c) => c[i] \in Tag
  BY ElementOfSeq
<1>3. WriteAt(c, k, j) \in [1..n -> Tag]
  BY <1>2 DEF WriteAt, Tag
<1>4. QED
  BY <1>1, <1>3, SeqDef

LEMMA CopyType ==
  ASSUME NEW j \in Job, NEW n \in Nat
  PROVE  Copy(j, n) \in Seq(Tag)
<1>1. Copy(j, n) \in [1..n -> Tag]
  BY DEF Copy, Tag
<1>2. QED
  BY <1>1, SeqDef

File == {NoFile} \cup Seq(Tag)

LEMMA OpenedFile ==
  ASSUME TypeOK, NEW j \in Job, Opens(j)
  PROVE  /\ dst' \in [Path -> File]
         /\ \A p \in Path : dst[p] # NoFile => dst'[p] # NoFile
         /\ inPlace => dst'[Target(j)] # NoFile
<1>1. Target(j) \in Path /\ << >> \in Seq(Tag)
  BY DEF Target, Path, TypeOK
<1>2. dst \in [Path -> File]
  BY DEF TypeOK, File
<1>3. QED
  BY <1>1, <1>2, QueueAssumption DEF Opens, Exists, File

LEMMA WrittenFile ==
  ASSUME TypeOK, HasItsFile, WritesOpen, NEW j \in Job, NEW k \in flight[j]
  PROVE  /\ k \in Nat /\ k < Chunks /\ pc[j] \in Copying /\ inPlace
         /\ Target(j) \in Path /\ dst[Target(j)] \in Seq(Tag)
         /\ WriteAt(dst[Target(j)], k, j) \in Seq(Tag)
<1>1. Target(j) \in Path /\ dst \in [Path -> File] /\ k \in 0..(Chunks - 1)
  BY DEF Target, Path, TypeOK, File
<1>2. inPlace /\ pc[j] \in Copying
  BY DEF WritesOpen
<1>3. dst[Target(j)] \in Seq(Tag)
  BY <1>1, <1>2 DEF HasItsFile, Copying, Writing, File
<1>4. k \in Nat /\ k < Chunks
  BY <1>1, QueueAssumption
<1>5. QED
  BY <1>1, <1>2, <1>3, <1>4, WriteType

LEMMA CommittedFile ==
  ASSUME TypeOK, NEW j \in Job
  PROVE  /\ Committed(j) \in [Path -> File]
         /\ \A p \in Path : dst[p] # NoFile => Committed(j)[p] # NoFile
<1>1. Target(j) \in Path /\ dst \in [Path -> File] /\ offset[j] \in Nat
  BY DEF Target, Path, TypeOK, File
<1>2. Copy(j, offset[j]) \in Seq(Tag)
  BY <1>1, CopyType
<1>3. QED
  BY <1>1, <1>2, QueueAssumption DEF Committed, File

-----------------------------------------------------------------------------
(***************************************************************************)
(* The actions that end a run, and those that take it to its next await.   *)
(***************************************************************************)
LEMMA EndStep ==
  ASSUME IInv, NEW j \in Job,
         \/ StatFails(j) \/ Choose(j, "skip") \/ ChooseCancelled(j) \/ ProbeFails(j)
         \/ ResumeStatFails(j) \/ OpenWriteFails(j) \/ Aborted(j) \/ CloseFails(j) \/ Done(j)
  PROVE  IInv'
<1>1. PICK s \in Terminal : EndRun(j, s)
  BY DEF StatFails, Choose, ChooseCancelled, ProbeFails, ResumeStatFails, OpenWriteFails,
         Aborted, CloseFails, Done, Terminal
<1>2. pc[j] # "off" /\ flight[j] = {}
  <2>1. pc[j] # "off" /\ (pc[j] \notin Copying \/ flight[j] = {})
    BY DEF StatFails, Choose, ChooseCancelled, ProbeFails, ResumeStatFails, OpenWriteFails,
           Aborted, CloseFails, Done, Copying
  <2>2. QED
    BY <2>1 DEF IInv, WritesOpen
<1>3. shared' \subseteq Job
  BY DEF StatFails, Choose, ChooseCancelled, ProbeFails, ResumeStatFails, OpenWriteFails,
         Aborted, CloseFails, Done, IInv, TypeOK, Sharing
<1>4. dst' \in {dst, Committed(j)} \/ Opens(j)
  BY DEF StatFails, Choose, ChooseCancelled, ProbeFails, ResumeStatFails, OpenWriteFails,
         Aborted, CloseFails, Done
<1>5. TypeOK /\ dst \in [Path -> File]
  BY DEF IInv, TypeOK, File
<1>6. dst' \in [Path -> File] /\ \A p \in Path : dst[p] # NoFile => dst'[p] # NoFile
  BY <1>4, <1>5, OpenedFile, CommittedFile
<1>7. QED
  BY <1>1, <1>2, <1>3, <1>6, EndRunLemma DEF File

\* Before the file is open a run goes on without touching one.
LEMMA LookLemma ==
  ASSUME IInv, NEW j \in Job, NEW to \in {"choose", "probe", "openWrite"},
         pc[j] \in {"stat", "choose", "probe"}, pc' = [pc EXCEPT ![j] = to],
         state' = [state EXCEPT ![j] =
                     IF to \in {"choose", "probe"} THEN "conflict" ELSE "active"],
         UNCHANGED <<jobVars, activeCount, controllers, aborted, resume, handle, kept,
                     shared, dst>>,
         choice' \in [Job -> {"none", "overwrite", "rename"}],
         alt' \in [Job -> 0..MaxProbe], \A i \in Job : i # j => alt'[i] = alt[i]
  PROVE  IInv'
<1>1. to \in Suspended \ {"off"} /\ to \notin Writing
  BY DEF Suspended, Writing
<1>2. flight[j] = {} /\ j \notin refused
  BY DEF IInv, WritesOpen, Copying
<1>3. /\ start \in [Job -> Nat] /\ offset \in [Job -> Nat]
      /\ flight \in [Job -> SUBSET (0..(Chunks - 1))] /\ refused \subseteq Job
      /\ kept \in [Job -> SUBSET Tag] /\ shared \subseteq Job
      /\ dst \in [Path -> {NoFile} \cup Seq(Tag)]
  BY DEF IInv, TypeOK
<1>4. UNCHANGED <<start, offset, flight, refused, kept, shared, dst>>
  BY DEF handle
<1>5. QED
  BY <1>1, <1>2, <1>3, <1>4, AwaitLemma

LEMMA StatStep ==
  ASSUME IInv, NEW j \in Job, StatFound(j) \/ StatNotFound(j)
  PROVE  IInv'
<1>1. TypeOK
  BY DEF IInv
<1>2. CASE StatFound(j)
  BY <1>1, <1>2, LookLemma DEF StatFound, Await, TypeOK
<1>3. CASE StatNotFound(j)
  <2>1. state[j] = "active"
    BY <1>3 DEF StatNotFound, Await, IInv, ShownAsRunning
  <2>2. state' = [state EXCEPT ![j] = "active"]
    BY <1>1, <1>3, <2>1 DEF StatNotFound, poolVars, TypeOK
  <2>3. QED
    BY <1>1, <1>3, <2>2, LookLemma DEF StatNotFound, Await, TypeOK, poolVars
<1>4. QED
  BY <1>2, <1>3

\* Where a run is tells what its job is shown as.
LEMMA Shown ==
  ASSUME IInv, NEW j \in Job, pc[j] # "off"
  PROVE  state = [state EXCEPT ![j] =
                    IF pc[j] \in {"choose", "probe"} THEN "conflict" ELSE "active"]
<1>1. state[j] = IF pc[j] \in {"choose", "probe"} THEN "conflict" ELSE "active"
  BY DEF IInv, ShownAsRunning
<1>2. QED
  BY <1>1 DEF IInv, TypeOK

LEMMA ConflictStep ==
  ASSUME IInv, NEW j \in Job,
         Choose(j, "overwrite") \/ Choose(j, "rename") \/ ProbeFree(j) \/ ProbeTaken(j)
  PROVE  IInv'
<1>1. TypeOK
  BY DEF IInv
<1>2. CASE Choose(j, "overwrite")
  <2>1. /\ pc[j] = "choose" /\ pc' = [pc EXCEPT ![j] = "openWrite"]
        /\ state' = [state EXCEPT ![j] = "active"]
        /\ choice' = [choice EXCEPT ![j] = "overwrite"]
        /\ UNCHANGED <<jobVars, activeCount, controllers, aborted, dst,
                       resume, alt, handle, kept, shared>>
    BY <1>2 DEF Choose, Await
  <2>2. QED
    BY <1>1, <2>1, LookLemma DEF TypeOK
<1>3. CASE Choose(j, "rename")
  <2>1. /\ pc[j] = "choose" /\ pc' = [pc EXCEPT ![j] = "probe"]
        /\ choice' = [choice EXCEPT ![j] = "rename"]
        /\ UNCHANGED <<jobVars, poolVars, dst, resume, alt, handle, kept, shared>>
    BY <1>3 DEF Choose, Await
  <2>2. state' = [state EXCEPT ![j] = "conflict"]
    BY <2>1, Shown DEF poolVars
  <2>3. QED
    BY <1>1, <2>1, <2>2, LookLemma DEF TypeOK, poolVars
<1>4. CASE ProbeFree(j)
  BY <1>1, <1>4, LookLemma DEF ProbeFree, Await, TypeOK
<1>5. CASE ProbeTaken(j)
  <2>1. state' = [state EXCEPT ![j] = "conflict"]
    BY <1>5, Shown DEF ProbeTaken, poolVars
  <2>2. pc' = [pc EXCEPT ![j] = "probe"]
    BY <1>1, <1>5 DEF ProbeTaken, TypeOK
  <2>3. /\ alt' \in [Job -> 0..MaxProbe]
        /\ \A i \in Job : i # j => alt'[i] = alt[i]
    BY <1>1, <1>5, QueueAssumption DEF ProbeTaken, TypeOK
  <2>4. QED
    BY <1>1, <1>5, <2>1, <2>2, <2>3, LookLemma DEF ProbeTaken, TypeOK, poolVars
<1>6. QED
  BY <1>2, <1>3, <1>4, <1>5

LEMMA ResumeStatStep == ASSUME IInv, NEW j \in Job, ResumeStat(j) PROVE IInv'
<1> DEFINE found == IF Exists(Target(j)) THEN dst[Target(j)] ELSE << >>
<1>1. TypeOK /\ Target(j) \in Path /\ dst \in [Path -> File]
  BY DEF IInv, TypeOK, Target, Path, File
<1>2. found \in Seq(Tag) /\ Len(found) \in Nat
  BY <1>1 DEF Exists, File
<1>3. \A k \in 1..Len(found) : found[k] \in Tag
  BY <1>2, ElementOfSeq
<1>4. /\ start' = [start EXCEPT ![j] = Len(found)] \/ start' = [start EXCEPT ![j] = 0]
      /\ kept' = [kept EXCEPT ![j] = {found[k] : k \in 1..Len(found)}]
  BY DEF ResumeStat
<1>5. {found[k] : k \in 1..Len(found)} \in SUBSET Tag
  BY <1>3
<1> HIDE DEF found
<1>6. start' \in [Job -> Nat] /\ kept' \in [Job -> SUBSET Tag] /\ shared' \subseteq Job
  <2>1. /\ start \in [Job -> Nat] /\ kept \in [Job -> SUBSET Tag] /\ shared \subseteq Job
        /\ 0 \in Nat
    BY <1>1 DEF TypeOK
  <2>2. start' \in [Job -> Nat]
    BY <1>2, <1>4, <2>1
  <2>3. kept' \in [Job -> SUBSET Tag]
    BY <1>4, <1>5, <2>1
  <2>4. shared' \subseteq Job
    BY <2>1 DEF ResumeStat, Shares, Sharing
  <2>5. QED
    BY <2>2, <2>3, <2>4
<1>7. /\ pc[j] = "resumeStat" /\ pc' = [pc EXCEPT ![j] = "openWrite"]
      /\ UNCHANGED <<jobVars, poolVars, dst, resume, choice, alt, offset, flight, refused>>
  BY DEF ResumeStat, Await
<1>8. state' = [state EXCEPT ![j] = "active"]
  BY <1>7, Shown DEF poolVars
<1>9. flight[j] = {} /\ j \notin refused
  BY <1>7 DEF IInv, WritesOpen, Copying
<1>10. QED
  BY <1>1, <1>6, <1>7, <1>8, <1>9, AwaitLemma DEF TypeOK, Suspended, Writing, poolVars

LEMMA OpenStep == ASSUME IInv, NEW j \in Job, OpenWrite(j) PROVE IInv'
<1>1. TypeOK
  BY DEF IInv
<1>2. PICK to \in {"closeFull", "openRead"} : pc' = [pc EXCEPT ![j] = to]
  BY DEF OpenWrite, Await
<1>3. /\ pc[j] = "openWrite" /\ Opens(j) /\ offset' = [offset EXCEPT ![j] = start[j]]
      /\ UNCHANGED <<jobVars, poolVars, resume, choice, alt, start, flight, refused, kept>>
  BY DEF OpenWrite, Await
<1>4. offset' \in [Job -> Nat] /\ shared' \subseteq Job
  BY <1>1, <1>3 DEF OpenWrite, TypeOK, Shares, Sharing
<1>5. /\ dst' \in [Path -> File]
      /\ \A p \in Path : dst[p] # NoFile => dst'[p] # NoFile
      /\ inPlace => dst'[<<name[j], alt'[j]>>] # NoFile
  BY <1>1, <1>3, OpenedFile DEF Target
<1>6. state' = [state EXCEPT ![j] = "active"]
  BY <1>3, Shown DEF poolVars
<1>7. flight[j] = {} /\ j \notin refused
  BY <1>3 DEF IInv, WritesOpen, Copying
<1>8. QED
  BY <1>1, <1>2, <1>3, <1>4, <1>5, <1>6, <1>7, AwaitLemma
     DEF TypeOK, Suspended, Writing, poolVars, File

LEMMA CopyStep ==
  ASSUME IInv, NEW j \in Job,
         OpenRead(j) \/ Read(j) \/ WriteReturns(j) \/ CopyFails(j) \/ CloseWrite(j)
  PROVE  IInv'
<1>1. TypeOK /\ HasItsFile /\ dst \in [Path -> File]
  BY DEF IInv, TypeOK, File
<1>2. pc[j] \in {"openRead", "read", "write", "closeWrite"}
  BY DEF OpenRead, Read, WriteReturns, CopyFails, CloseWrite, Await
<1>3. PICK to \in {"read", "write", "closeWrite", "closeRead", "abortError",
                   "abortCancelled"} :
        /\ pc' = [pc EXCEPT ![j] = to]
        /\ to = "closeRead" => flight[j] = {} /\ j \notin refused
  BY DEF OpenRead, Read, WriteReturns, CopyFails, CloseWrite, Await, LoopHead
<1>4. state' = [state EXCEPT ![j] = "active"]
  BY <1>2, Shown DEF OpenRead, Read, WriteReturns, CopyFails, CloseWrite, poolVars
<1>5. /\ UNCHANGED <<start, refused>> /\ offset' \in [Job -> Nat]
      /\ flight' \in [Job -> SUBSET (0..(Chunks - 1))]
      /\ \A i \in Job : i # j => flight'[i] = flight[i]
      /\ flight'[j] = flight[j] \/ (inPlace /\ to = "write")
  <2>1. CASE Read(j)
    <3>1. /\ UNCHANGED <<start, refused>>
          /\ \/ UNCHANGED <<offset, flight>>
             \/ /\ offset[j] < Chunks /\ offset' = [offset EXCEPT ![j] = @ + 1]
                /\ pc' = [pc EXCEPT ![j] = "write"]
                /\ flight' = IF inPlace THEN [flight EXCEPT ![j] = @ \cup {offset[j]}]
                                        ELSE flight
      BY <2>1 DEF Read, Await
    <3>2. /\ offset[j] \in Nat /\ Chunks \in Nat /\ offset \in [Job -> Nat]
          /\ flight \in [Job -> SUBSET (0..(Chunks - 1))] /\ pc \in [Job -> Suspended]
      BY <1>1, QueueAssumption DEF TypeOK
    <3>3. offset[j] < Chunks => offset[j] \in 0..(Chunks - 1)
      BY <3>2
    <3>4. pc'[j] = to
      BY <1>3, <3>2
    <3>5. QED
      BY <3>1, <3>2, <3>3, <3>4
  <2>2. CASE ~Read(j)
    BY <1>1, <2>2 DEF OpenRead, WriteReturns, CopyFails, CloseWrite, handle, TypeOK
  <2>3. QED
    BY <2>1, <2>2
<1>6. dst' \in [Path -> File] /\ \A p \in Path : dst[p] # NoFile => dst'[p] # NoFile
  <2>1. dst' = dst \/ dst' = Committed(j)
    BY DEF OpenRead, Read, WriteReturns, CopyFails, CloseWrite
  <2>2. QED
    BY <1>1, <2>1, CommittedFile
<1>7. UNCHANGED <<jobVars, activeCount, controllers, aborted, resume, choice, alt, kept,
                  shared>>
  BY DEF OpenRead, Read, WriteReturns, CopyFails, CloseWrite, poolVars
<1>8. inPlace => dst'[<<name[j], alt'[j]>>] # NoFile
  <2>1. Target(j) \in Path /\ (inPlace => dst[Target(j)] # NoFile)
    BY <1>1, <1>2 DEF HasItsFile, Writing, Target, Path, TypeOK
  <2>2. <<name[j], alt'[j]>> = Target(j)
    BY <1>7 DEF Target
  <2>3. QED
    BY <1>6, <2>1, <2>2
<1>9. flight'[j] # {} \/ j \in refused' => inPlace /\ to \in Copying
  BY <1>3, <1>5 DEF IInv, WritesOpen, Copying
<1>10. to \in Suspended \ {"off"} /\ pc[j] # "off" /\ to \notin {"choose", "probe"}
  BY <1>2 DEF Suspended, Writing
<1>11. /\ start' \in [Job -> Nat] /\ refused' \subseteq Job /\ kept' \in [Job -> SUBSET Tag]
       /\ shared' \subseteq Job /\ choice' \in [Job -> {"none", "overwrite", "rename"}]
       /\ alt' \in [Job -> 0..MaxProbe] /\ dst' \in [Path -> {NoFile} \cup Seq(Tag)]
       /\ \A i \in Job : i # j => /\ flight'[i] = flight[i] /\ alt'[i] = alt[i]
                                  /\ (i \in refused' => i \in refused)
  BY <1>1, <1>5, <1>6, <1>7 DEF TypeOK, File
<1>12. QED
  BY <1>3, <1>4, <1>5, <1>6, <1>7, <1>8, <1>9, <1>10, <1>11, AwaitLemma

LEMMA SettleStep ==
  ASSUME IInv, NEW j \in Job, NEW k \in flight[j], Settles(j, k)
  PROVE  IInv'
<1>1. TypeOK /\ HasItsFile /\ WritesOpen /\ dst \in [Path -> File]
  BY DEF IInv, TypeOK, File
<1>2. /\ inPlace /\ pc[j] \in Copying /\ Target(j) \in Path
      /\ WriteAt(dst[Target(j)], k, j) \in Seq(Tag)
  BY <1>1, WrittenFile
<1>3. /\ UNCHANGED <<jobVars, poolVars, pc, resume, choice, alt, start, offset, kept, shared>>
      /\ flight' = [flight EXCEPT ![j] = @ \ {k}]
      /\ refused' \subseteq refused \cup {j}
      /\ dst' = dst \/ dst' = [dst EXCEPT ![Target(j)] = WriteAt(@, k, j)]
  BY DEF Settles
<1>4. /\ dst' \in [Path -> File] /\ \A p \in Path : dst[p] # NoFile => dst'[p] # NoFile
      /\ inPlace => dst'[<<name[j], alt'[j]>>] # NoFile
  <2>1. dst[Target(j)] # NoFile /\ Target(j) = <<name[j], alt'[j]>>
    BY <1>1, <1>2, <1>3 DEF HasItsFile, Copying, Writing, Target
  <2>2. WriteAt(dst[Target(j)], k, j) # NoFile
    BY <1>2, QueueAssumption
  <2>3. QED
    BY <1>1, <1>2, <1>3, <2>1, <2>2 DEF File
<1>5. /\ flight' \in [Job -> SUBSET (0..(Chunks - 1))]
      /\ \A i \in Job : i # j => flight'[i] = flight[i] /\ (i \in refused' => i \in refused)
  BY <1>1, <1>3 DEF TypeOK
<1>6. pc' = [pc EXCEPT ![j] = pc[j]] /\ pc[j] \in Suspended \ {"off", "choose", "probe"}
  BY <1>1, <1>2, <1>3 DEF TypeOK, Copying, Suspended, Writing
<1>7. state' = [state EXCEPT ![j] = "active"]
  BY <1>3, <1>6, Shown DEF poolVars
<1>8. /\ start' \in [Job -> Nat] /\ offset' \in [Job -> Nat] /\ refused' \subseteq Job
      /\ kept' \in [Job -> SUBSET Tag] /\ shared' \subseteq Job
      /\ choice' \in [Job -> {"none", "overwrite", "rename"}]
      /\ alt' \in [Job -> 0..MaxProbe] /\ dst' \in [Path -> {NoFile} \cup Seq(Tag)]
      /\ UNCHANGED <<jobVars, activeCount, controllers, aborted, resume, alt>>
  BY <1>1, <1>3, <1>4 DEF TypeOK, File, poolVars
<1>9. QED
  BY <1>2, <1>4, <1>5, <1>6, <1>7, <1>8, AwaitLemma

-----------------------------------------------------------------------------
LEMMA StepIInv == IInv /\ [Next]_vars => IInv'
<1> SUFFICES ASSUME IInv, [Next]_vars PROVE IInv'
  OBVIOUS
<1>1. CASE UNCHANGED vars
  BY <1>1 DEF vars, jobVars, poolVars, runVars, handle, IInv, TypeOK, SlotAccounting,
              Running, NoIdleSlot, Queued, ShownAsRunning, Listed, HasItsFile, WritesOpen,
              Target
<1>2. CASE User
  <2>1. CASE \E j \in Job : Enqueue(j)
    BY <2>1, EnqueueStep
  <2>2. CASE \E j \in Job : Cancel(j)
    BY <2>2, CancelStep DEF Cancel
  <2>3. CASE \E j \in Job : Retry(j)
    BY <2>3, RetryStep
  <2>4. CASE CancelAll(Job)
    BY <2>4, CancelStep
  <2>5. CASE ClearFinished
    BY <2>5, ClearStep
  <2>6. CASE Reload
    BY <2>6, ReloadStep
  <2>7. QED
    BY <1>2, <2>1, <2>2, <2>3, <2>4, <2>5, <2>6 DEF User
<1>3. CASE \E j \in Job : Run(j)
  <2>1. PICK j \in Job : Run(j)
    BY <1>3
  <2>2. CASE StatFound(j) \/ StatNotFound(j)
    BY <2>2, StatStep
  <2>3. CASE ProbeFree(j) \/ ProbeTaken(j)
    BY <2>3, ConflictStep
  <2>4. CASE ResumeStat(j) \/ OpenWrite(j)
    BY <2>4, ResumeStatStep, OpenStep
  <2>5. CASE \/ OpenRead(j) \/ Read(j) \/ WriteReturns(j) \/ CopyFails(j) \/ CloseWrite(j)
             \/ \E k \in flight[j] : Settles(j, k)
    BY <2>5, CopyStep, SettleStep
  <2>6. CASE \/ StatFails(j) \/ ChooseCancelled(j) \/ ProbeFails(j) \/ ResumeStatFails(j)
             \/ OpenWriteFails(j) \/ Aborted(j) \/ CloseFails(j) \/ Done(j)
    BY <2>6, EndStep
  <2>7. QED
    BY <2>1, <2>2, <2>3, <2>4, <2>5, <2>6 DEF Run
<1>4. CASE \E j \in Job : Answer(j)
  <2>1. PICK j \in Job, c \in {"skip", "overwrite", "rename"} : Choose(j, c)
    BY <1>4 DEF Answer
  <2>2. CASE c = "skip"
    BY <2>1, <2>2, EndStep
  <2>3. CASE c # "skip"
    BY <2>1, <2>3, ConflictStep
  <2>4. QED
    BY <2>2, <2>3
<1>5. QED
  BY <1>1, <1>2, <1>3, <1>4 DEF Next

LEMMA Inductive == Spec => []IInv
  BY InitIInv, StepIInv, PTL DEF Spec

\* The variables keep their types, whatever the number of jobs and slots.
THEOREM TypeCorrect == Spec => []TypeOK
<1>1. IInv => TypeOK
  BY DEF IInv
<1>2. QED
  BY <1>1, Inductive, PTL

\* activeCount counts the runs in flight, never more than `concurrency`, and each
\* of them, and no other, can be aborted through its controller.
THEOREM SlotsAccounted == Spec => []SlotAccounting
<1>1. IInv => SlotAccounting
  BY DEF IInv
<1>2. QED
  BY <1>1, Inductive, PTL

\* No slot idles while a job waits.
THEOREM SlotsBusy == Spec => []NoIdleSlot
<1>1. IInv => NoIdleSlot
  BY DEF IInv
<1>2. QED
  BY <1>1, Inductive, PTL

\* A job is shown as active or in conflict exactly while a run works on it.
THEOREM ShowsWhatRuns == Spec => []ShownAsRunning
<1>1. IInv => ShownAsRunning
  BY DEF IInv
<1>2. QED
  BY <1>1, Inductive, PTL

-----------------------------------------------------------------------------
(***************************************************************************)
(* Files.  Which runs resume, how far a run is in its source, and where    *)
(* chunks of a source stand in a file.                                     *)
(***************************************************************************)
Stands(j) ==
  /\ start[j] # 0 => inPlace
  /\ pc[j] \in {"off", "stat", "choose", "probe"} => j \notin resume
  /\ pc[j] = "resumeStat" => inPlace /\ j \in resume
  /\ pc[j] = "openRead" => offset[j] < Chunks
  /\ pc[j] \in {"read", "write"} => offset[j] <= Chunks
  /\ pc[j] \in {"closeWrite", "closeRead"} => offset[j] = Chunks
  /\ pc[j] = "closeFull" => inPlace /\ offset[j] >= Chunks

Placed == \A j \in Job : Stands(j)

TagsPlaced ==
  \A p \in Path : Exists(p) => \A k \in 1..Len(dst[p]) : dst[p][k] \in Job => k <= Chunks

(***************************************************************************)
(* A run that may open, or has open, a file that was there before the      *)
(* queue has the right to.                                                 *)
(***************************************************************************)
HoldsOld(p) == Exists(p) /\ Old \in {dst[p][k] : k \in 1..Len(dst[p])}

Asked ==
  \A j \in Job : pc[j] \in {"openWrite"} \cup Writing /\ HoldsOld(Target(j)) => Consents(j)

(***************************************************************************)
(* A run that shares its file with nobody, and found in it only what its   *)
(* own job had written, has there what it has passed of its source, but    *)
(* for the WRITEs in flight; when it is to open the file, what it found is *)
(* still there.                                                            *)
(***************************************************************************)
FoundOwn(c, j) == start[j] \in {0, Len(c)} /\ \A i \in 1..Len(c) : c[i] = j

Landed(c, n, S, j) == \A k \in Nat : k < n /\ k \notin S => k < Len(c) /\ c[k + 1] = j

Holds(j) ==
  kept[j] \subseteq {j} =>
    /\ pc[j] = "openWrite" => IF Exists(Target(j)) THEN FoundOwn(dst[Target(j)], j)
                                                   ELSE start[j] = 0
    /\ inPlace /\ pc[j] \in Writing =>
         /\ Len(dst[Target(j)]) <= Chunks
         /\ j \notin refused => Landed(dst[Target(j)], offset[j], flight[j], j)
    /\ ~inPlace /\ pc[j] = "closeRead" => dst[Target(j)] = Copy(j, Chunks)

OwnCopy == \A j \in Job : HasFile(j) /\ j \notin shared => Sharing(j) = {} /\ Holds(j)

FInv == IInv /\ Placed /\ TagsPlaced /\ Asked /\ OwnCopy

(***************************************************************************)
(* What a step does to a run: it has no file open afterwards, or it stays  *)
(* where it is, or it takes one of the steps of transferFile.              *)
(***************************************************************************)
Keeps(j) == /\ pc'[j] = pc[j] /\ alt'[j] = alt[j] /\ choice'[j] = choice[j]
            /\ start'[j] = start[j] /\ offset'[j] = offset[j] /\ flight'[j] = flight[j]
            /\ (j \in refused <=> j \in refused') /\ kept'[j] = kept[j]
            /\ (j \in resume <=> j \in resume')

Begins(j) == /\ pc[j] = "off" /\ pc'[j] = FirstAwait(j) /\ start'[j] \in {0, start[j]}
             /\ (j \in attempted => j \in resume')
             /\ (j \in resume' => j \in attempted \cup resume)

Cleared(j) == /\ pc[j] \in {"stat", "choose", "probe"} /\ pc'[j] = "openWrite"
              /\ start'[j] = start[j] /\ UNCHANGED resume
              /\ \/ choice'[j] = "overwrite"
                 \/ alt'[j] = alt[j] /\ ~Exists(Target(j)) /\ dst' = dst

Looks(j) == /\ pc'[j] \in {"off", "stat", "choose", "probe"} /\ start'[j] \in {0, start[j]}
            /\ (j \in resume' => j \in resume /\ pc[j] \in {"stat", "choose", "probe"})

Opening(j) == ResumeStat(j) \/ OpenWrite(j)

Copies(j) == \/ Opening(j) \/ OpenRead(j) \/ Read(j) \/ WriteReturns(j) \/ CopyFails(j)
             \/ CloseWrite(j) \/ \E k \in flight[j] : Settles(j, k)

Moves(j) == Keeps(j) \/ Begins(j) \/ Cleared(j) \/ Looks(j) \/ Copies(j)

\* What a step does to the files, and to who shares one.
Lands(j, k) == dst' = [dst EXCEPT ![Target(j)] = WriteAt(@, k, j)]

Changes(j) ==
  \/ pc[j] = "openWrite" /\ pc'[j] # pc[j] /\ Opens(j) /\ Sharing(j) \subseteq shared'
  \/ \E k \in flight[j] : k \notin flight'[j] /\ Lands(j, k)
  \/ pc[j] = "closeWrite" /\ pc'[j] # pc[j] /\ dst' = Committed(j)

Effects ==
  /\ UNCHANGED <<name, overwrite, inPlace>>
  /\ \A j \in Job : Moves(j)
  /\ \A j \in Job : j \in shared /\ pc'[j] # "off" => j \in shared'
  /\ dst' = dst \/ \E j \in Job : Changes(j)

LEMMA PumpMoves ==
  ASSUME NEW st, NEW n, NEW Ended, Pump(st, n, Ended),
         \A j \in Job : st[j] = "queued" => pc[j] = "off"
  PROVE  /\ \A j \in Job : Keeps(j) \/ Begins(j) \/ (j \in Ended /\ Looks(j))
         /\ \A j \in Job : st[j] # "queued" /\ j \in Ended => pc'[j] = "off"
         /\ \A j \in Job : state'[j] \in {st[j], "active"}
<1>1. PICK S \in SUBSET Job : Pumps(st, n, S) /\ StartRuns(st, n, Ended, S)
  BY DEF Pump
<1>2. \A j \in S : st[j] = "queued"
  BY <1>1 DEF Pumps, Queued
<1>3. ASSUME NEW j \in Job
      PROVE  Keeps(j) \/ Begins(j) \/ (j \in Ended /\ Looks(j))
  <2>1. CASE j \in S
    BY <1>1, <1>2, <2>1 DEF StartRuns, Begins
  <2>2. CASE j \notin S /\ j \in Ended
    BY <1>1, <2>2 DEF StartRuns, Looks
  <2>3. CASE j \notin S /\ j \notin Ended
    BY <1>1, <2>3 DEF StartRuns, Keeps
  <2>4. QED  BY <2>1, <2>2, <2>3
<1>4. \A j \in Job : st[j] # "queued" /\ j \in Ended => pc'[j] = "off"
  BY <1>1, <1>2 DEF StartRuns
<1>5. \A j \in Job : state'[j] \in {st[j], "active"}
  BY <1>1 DEF StartRuns
<1>6. QED  BY <1>3, <1>4, <1>5

LEMMA EndMoves ==
  ASSUME IInv, NEW j \in Job, NEW s \in Terminal, EndRun(j, s)
  PROVE  /\ UNCHANGED <<name, overwrite, inPlace>> /\ pc'[j] = "off"
         /\ \A i \in Job : Moves(i)
         /\ \A i \in Job : i # j => state'[i] \in {state[i], "active"}
         /\ state'[j] \in {s, "active"}
<1> DEFINE st == [state EXCEPT ![j] = s]
<1>1. Pump(st, activeCount - 1, {j})
  BY DEF EndRun
<1>2. st[j] = s /\ s # "queued" /\ \A i \in Job : i # j => st[i] = state[i]
  BY DEF IInv, TypeOK, Terminal
<1>3. \A i \in Job : st[i] = "queued" => pc[i] = "off"
  BY <1>2 DEF IInv, ShownAsRunning
<1> HIDE DEF st
<1>4. /\ \A i \in Job : Keeps(i) \/ Begins(i) \/ (i \in {j} /\ Looks(i))
      /\ \A i \in Job : st[i] # "queued" /\ i \in {j} => pc'[i] = "off"
      /\ \A i \in Job : state'[i] \in {st[i], "active"}
  BY <1>1, <1>3, PumpMoves, Zenon
<1>5. QED  BY <1>2, <1>4 DEF EndRun, Moves

\* A step of one run leaves the others where they are.
LEMMA OthersKeep ==
  ASSUME TypeOK, NEW j \in Job, NEW to, pc' = [pc EXCEPT ![j] = to], UNCHANGED resume,
         alt' = alt \/ (\E x : alt' = [alt EXCEPT ![j] = x]),
         choice' = choice \/ (\E x : choice' = [choice EXCEPT ![j] = x]),
         start' = start \/ (\E x : start' = [start EXCEPT ![j] = x]),
         offset' = offset \/ (\E x : offset' = [offset EXCEPT ![j] = x]),
         flight' = flight \/ (\E x : flight' = [flight EXCEPT ![j] = x]),
         refused' \in {refused, refused \cup {j}},
         kept' = kept \/ (\E x : kept' = [kept EXCEPT ![j] = x])
  PROVE  pc'[j] = to /\ \A i \in Job \ {j} : Keeps(i)
BY DEF TypeOK, Keeps

\* A step of transferFile takes its run on, or settles a WRITE.
Acts == {"resumeStat", "openWrite"} \cup Writing

LEMMA CopiesKeep ==
  ASSUME IInv, NEW j \in Job, Copies(j)
  PROVE  /\ UNCHANGED <<name, overwrite, inPlace, resume, alt, choice>>
         /\ UNCHANGED shared \/ (Opening(j) /\ shared' = Shares(j))
         /\ pc[j] \in Acts /\ pc'[j] \in Acts
         /\ pc'[j] # pc[j] \/ \E k \in flight[j] : Settles(j, k)
         /\ \A i \in Job \ {j} : Keeps(i)
<1>1. TypeOK /\ HasItsFile /\ WritesOpen
  BY DEF IInv
<1>2. CASE \E k \in flight[j] : Settles(j, k)
  <2>1. PICK k \in flight[j] : Settles(j, k)
    BY <1>2
  <2>2. /\ UNCHANGED <<name, overwrite, inPlace, resume, alt, choice, start, offset, kept, shared, pc>>
        /\ flight' = [flight EXCEPT ![j] = @ \ {k}] /\ refused' \in {refused, refused \cup {j}}
    BY <2>1 DEF Settles, jobVars
  <2>3. pc[j] \in Acts /\ pc' = [pc EXCEPT ![j] = pc[j]]
    BY <1>1, <2>2, WrittenFile DEF Copying, Acts, Writing, TypeOK
  <2>4. \A i \in Job \ {j} : Keeps(i)
    BY <1>1, <2>2, <2>3, OthersKeep
  <2>5. QED  BY <1>2, <2>2, <2>3, <2>4
<1>3. CASE ~\E k \in flight[j] : Settles(j, k)
  <2>1. PICK to \in Acts : /\ pc' = [pc EXCEPT ![j] = to] /\ to # pc[j] /\ pc[j] \in Acts
    BY <1>3 DEF Copies, Opening, ResumeStat, OpenWrite, OpenRead, Read, WriteReturns, CopyFails,
                CloseWrite, Await, LoopHead, Acts, Writing
  <2>2. /\ UNCHANGED <<name, overwrite, inPlace, resume, alt, choice>>
        /\ UNCHANGED shared \/ (Opening(j) /\ shared' = Shares(j))
    BY <1>3 DEF Copies, Opening, ResumeStat, OpenWrite, OpenRead, Read, WriteReturns, CopyFails,
                CloseWrite, jobVars
  <2>3. /\ start' = start \/ (\E x : start' = [start EXCEPT ![j] = x])
        /\ offset' = offset \/ (\E x : offset' = [offset EXCEPT ![j] = x])
        /\ flight' = flight \/ (\E x : flight' = [flight EXCEPT ![j] = x])
        /\ refused' = refused
        /\ kept' = kept \/ (\E x : kept' = [kept EXCEPT ![j] = x])
    <3>1. CASE Opening(j)
      BY <3>1 DEF Opening, ResumeStat, OpenWrite
    <3>2. CASE Read(j)
      BY <3>2 DEF Read
    <3>3. CASE OpenRead(j) \/ WriteReturns(j) \/ CopyFails(j) \/ CloseWrite(j)
      BY <3>3 DEF OpenRead, WriteReturns, CopyFails, CloseWrite, handle
    <3>4. QED  BY <1>3, <3>1, <3>2, <3>3 DEF Copies
  <2>4. pc'[j] = to /\ \A i \in Job \ {j} : Keeps(i)
    BY <1>1, <2>1, <2>2, <2>3, OthersKeep
  <2>5. QED  BY <2>1, <2>2, <2>4
<1>4. QED  BY <1>2, <1>3

LEMMA CopiesMove ==
  ASSUME IInv, NEW j \in Job, Copies(j)
  PROVE  Effects
<1>1. /\ UNCHANGED <<name, overwrite, inPlace>>
      /\ UNCHANGED shared \/ (Opening(j) /\ shared' = Shares(j))
      /\ pc'[j] # pc[j] \/ \E k \in flight[j] : Settles(j, k)
      /\ \A i \in Job \ {j} : Keeps(i)
  BY CopiesKeep
<1>2. \A i \in Job : Moves(i)
  BY <1>1 DEF Moves
<1>3. \A i \in Job : i \in shared => i \in shared'
  BY <1>1 DEF Shares
<1>4. dst' = dst \/ Changes(j)
  <2>1. CASE OpenWrite(j)
    <3>1. pc[j] = "openWrite" /\ Opens(j) /\ shared' = Shares(j) /\ pc'[j] # pc[j]
      BY <2>1 DEF OpenWrite, Await, IInv, TypeOK
    <3>2. QED  BY <3>1 DEF Changes, Shares
  <2>2. CASE CloseWrite(j)
    <3>1. pc[j] = "closeWrite" /\ dst' = Committed(j) /\ pc'[j] # pc[j]
      BY <2>2 DEF CloseWrite, Await, IInv, TypeOK
    <3>2. QED  BY <3>1 DEF Changes
  <2>3. CASE \E k \in flight[j] : Settles(j, k)
    <3>1. PICK k \in flight[j] : Settles(j, k)
      BY <2>3
    <3>2. k \notin flight'[j] /\ (dst' = dst \/ Lands(j, k))
      BY <3>1 DEF Settles, Lands, IInv, TypeOK
    <3>3. QED  BY <3>2 DEF Changes
  <2>4. CASE ResumeStat(j) \/ OpenRead(j) \/ Read(j) \/ WriteReturns(j) \/ CopyFails(j)
    BY <2>4 DEF ResumeStat, OpenRead, Read, WriteReturns, CopyFails
  <2>5. QED  BY <2>1, <2>2, <2>3, <2>4 DEF Copies, Opening
<1>5. QED  BY <1>1, <1>2, <1>3, <1>4 DEF Effects

LEMMA LooksMove ==
  ASSUME TypeOK, NEW j \in Job,
         \/ StatFound(j) \/ StatNotFound(j) \/ ProbeFree(j) \/ ProbeTaken(j)
         \/ Choose(j, "overwrite") \/ Choose(j, "rename")
  PROVE  Effects
<1>1. UNCHANGED <<name, overwrite, inPlace, resume, start, offset, flight, refused, kept, shared, dst>>
  BY DEF StatFound, StatNotFound, ProbeFree, ProbeTaken, Choose, jobVars, handle
<1>2. /\ pc[j] \in {"stat", "probe", "choose"}
      /\ Looks(j) \/ Cleared(j)
      /\ \A i \in Job \ {j} : Keeps(i)
  <2>1. CASE StatFound(j) \/ StatNotFound(j) \/ ProbeFree(j)
    <3>1. PICK to \in {"choose", "openWrite"} :
            /\ pc' = [pc EXCEPT ![j] = to] /\ alt' = alt /\ choice' = choice
            /\ pc[j] \in {"stat", "probe"} /\ (to = "openWrite" => ~Exists(Target(j)))
      BY <2>1 DEF StatFound, StatNotFound, ProbeFree, Await
    <3>2. pc'[j] = to /\ \A i \in Job \ {j} : Keeps(i)
      BY <1>1, <3>1, OthersKeep
    <3>3. QED  BY <1>1, <3>1, <3>2 DEF Looks, Cleared
  <2>2. CASE Choose(j, "overwrite") \/ Choose(j, "rename")
    <3>1. PICK to \in {"probe", "openWrite"}, c \in {"overwrite", "rename"} :
            /\ pc' = [pc EXCEPT ![j] = to] /\ alt' = alt /\ choice' = [choice EXCEPT ![j] = c]
            /\ pc[j] = "choose" /\ (to = "openWrite" => c = "overwrite")
      BY <2>2 DEF Choose, Await
    <3>2. pc'[j] = to /\ \A i \in Job \ {j} : Keeps(i)
      BY <1>1, <3>1, OthersKeep
    <3>3. choice'[j] = c
      BY <3>1 DEF TypeOK
    <3>4. QED  BY <1>1, <3>1, <3>2, <3>3 DEF Looks, Cleared
  <2>3. CASE ProbeTaken(j)
    <3>1. pc' = pc /\ choice' = choice /\ alt' = [alt EXCEPT ![j] = @ + 1] /\ pc[j] = "probe"
      BY <2>3 DEF ProbeTaken
    <3>2. QED  BY <1>1, <3>1 DEF Keeps, Looks, TypeOK
  <2>4. QED  BY <2>1, <2>2, <2>3
<1>3. QED  BY <1>1, <1>2 DEF Effects, Moves

LEMMA EndsMove ==
  ASSUME IInv, NEW j \in Job,
         \/ StatFails(j) \/ Choose(j, "skip") \/ ChooseCancelled(j) \/ ProbeFails(j)
         \/ ResumeStatFails(j) \/ OpenWriteFails(j) \/ Aborted(j) \/ CloseFails(j) \/ Done(j)
  PROVE  /\ Effects
         /\ \A i \in Job : state'[i] = "done" /\ state[i] # "done" => Done(i)
<1>1. PICK s \in Terminal : EndRun(j, s) /\ (s # "done" \/ Done(j))
  BY DEF StatFails, Choose, ChooseCancelled, ProbeFails, ResumeStatFails, OpenWriteFails, Aborted,
         CloseFails, Done, Terminal
<1>2. /\ UNCHANGED <<name, overwrite, inPlace>> /\ pc'[j] = "off"
      /\ \A i \in Job : Moves(i)
      /\ \A i \in Job : i # j => state'[i] \in {state[i], "active"}
      /\ state'[j] \in {s, "active"}
  BY <1>1, EndMoves, Zenon
<1>3. \A i \in Job : i \in shared /\ pc'[i] # "off" => i \in shared'
  <2>1. \A i \in Job \ {j} : i \in shared => i \in shared'
    BY DEF StatFails, Choose, ChooseCancelled, ProbeFails, ResumeStatFails, OpenWriteFails, Aborted,
           CloseFails, Done
  <2>2. QED  BY <1>2, <2>1
<1>4. dst' = dst \/ Changes(j)
  <2>1. CASE OpenWriteFails(j)
    <3>1. /\ pc[j] = "openWrite" /\ j \notin Sharing(j)
          /\ dst' = dst \/ (Opens(j) /\ shared' = (shared \cup Sharing(j)) \ {j})
      BY <2>1 DEF OpenWriteFails, Sharing
    <3>2. QED  BY <1>2, <3>1 DEF Changes
  <2>2. CASE CloseFails(j)
    BY <1>2, <2>2 DEF CloseFails, Changes
  <2>3. CASE ~OpenWriteFails(j) /\ ~CloseFails(j)
    BY <2>3 DEF StatFails, Choose, ChooseCancelled, ProbeFails, ResumeStatFails, Aborted, Done
  <2>4. QED  BY <2>1, <2>2, <2>3
<1>5. QED  BY <1>1, <1>2, <1>3, <1>4 DEF Effects

LEMMA UserMoves ==
  ASSUME IInv, User \/ UNCHANGED vars
  PROVE  /\ Effects
         /\ \A i \in Job : state[i] = "active" => state'[i] # "done"
<1>1. CASE \E j \in Job : Enqueue(j) \/ Retry(j)
  <2>1. PICK j \in Job : /\ Pump([state EXCEPT ![j] = "queued"], activeCount, {})
                         /\ UNCHANGED <<name, overwrite, inPlace, shared, dst>>
                         /\ state[j] \notin {"active", "conflict"}
    <3>1. PICK j \in Job : Enqueue(j) \/ Retry(j)
      BY <1>1
    <3>2. Enqueue(j) => state[j] = "absent"
      BY DEF Enqueue, IInv, Listed, TypeOK
    <3>3. QED  BY <3>1, <3>2 DEF Enqueue, Retry
  <2>2. /\ \A i \in Job : Keeps(i) \/ Begins(i)
        /\ \A i \in Job : state'[i] \in {[state EXCEPT ![j] = "queued"][i], "active"}
    <3> DEFINE st == [state EXCEPT ![j] = "queued"]
               none == {}
    <3>1. Pump(st, activeCount, none)
      BY <2>1
    <3>2. \A i \in Job : st[i] = "queued" => pc[i] = "off"
      BY <2>1 DEF IInv, TypeOK, ShownAsRunning
    <3> HIDE DEF st, none
    <3>3. /\ \A i \in Job : Keeps(i) \/ Begins(i) \/ (i \in none /\ Looks(i))
          /\ \A i \in Job : state'[i] \in {st[i], "active"}
      BY <3>1, <3>2, PumpMoves
    <3>4. QED  BY <3>3 DEF st, none
  <2>3. QED  BY <2>1, <2>2 DEF Effects, Moves, IInv, TypeOK
<1>2. CASE UNCHANGED vars
  BY <1>2 DEF vars, jobVars, poolVars, runVars, handle, Effects, Moves, Keeps
<1>3. CASE ClearFinished
  <2>1. UNCHANGED <<jobVars, runVars, dst>> /\ \A i \in Job : state[i] = "active" => state'[i] = "active"
    BY <1>3 DEF ClearFinished, Terminal
  <2>2. QED  BY <2>1 DEF jobVars, runVars, handle, Effects, Moves, Keeps
<1>4. CASE \E C \in SUBSET Job : CancelAll(C)
  <2>1. UNCHANGED <<jobVars, runVars, dst>> /\ \A i \in Job : state[i] = "active" => state'[i] = "active"
    BY <1>4 DEF CancelAll
  <2>2. QED  BY <2>1 DEF jobVars, runVars, handle, Effects, Moves, Keeps
<1>5. CASE Reload
  <2>1. /\ UNCHANGED <<name, overwrite, inPlace, dst>> /\ \A i \in Job : pc'[i] = "off"
        /\ resume' = {} /\ \A i \in Job : start'[i] = 0
        /\ \A i \in Job : state[i] = "active" => state'[i] = "error"
    BY <1>5 DEF Reload, Terminal
  <2>2. QED  BY <2>1 DEF Effects, Moves, Looks
<1>6. QED  BY <1>1, <1>2, <1>3, <1>4, <1>5 DEF User, Cancel

LEMMA StepEffects ==
  ASSUME IInv, [Next]_vars
  PROVE  /\ Effects
         /\ \A i \in Job : state[i] = "active" /\ state'[i] = "done" => Done(i)
<1>1. TypeOK
  BY DEF IInv
<1>2. CASE User \/ UNCHANGED vars
  BY <1>2, UserMoves
<1>3. CASE \E j \in Job : Copies(j)
  <2>1. state' = state
    BY <1>3 DEF Copies, Opening, ResumeStat, OpenWrite, OpenRead, Read, WriteReturns, CopyFails,
                CloseWrite, Settles, poolVars
  <2>2. QED  BY <1>3, <2>1, CopiesMove
<1>4. ASSUME NEW j \in Job,
             \/ StatFound(j) \/ StatNotFound(j) \/ ProbeFree(j) \/ ProbeTaken(j)
             \/ Choose(j, "overwrite") \/ Choose(j, "rename")
      PROVE  /\ Effects
             /\ \A i \in Job : state[i] = "active" => state'[i] # "done"
  <2>1. Effects
    BY <1>1, <1>4, LooksMove
  <2>2. state' = state \/ state' = [state EXCEPT ![j] = "conflict"] \/ state' = [state EXCEPT ![j] = "active"]
    BY <1>4 DEF StatFound, StatNotFound, ProbeFree, ProbeTaken, Choose, poolVars
  <2>3. QED  BY <1>1, <2>1, <2>2 DEF TypeOK
<1>5. CASE \E j \in Job : \/ StatFails(j) \/ Choose(j, "skip") \/ ChooseCancelled(j) \/ ProbeFails(j)
                          \/ ResumeStatFails(j) \/ OpenWriteFails(j) \/ Aborted(j)
                          \/ CloseFails(j) \/ Done(j)
  BY <1>5, EndsMove
<1>6. QED
  BY <1>2, <1>3, <1>4, <1>5 DEF Next, Run, Answer, Copies, Opening

-----------------------------------------------------------------------------
(***************************************************************************)
(* What the three ways of changing a file leave in it.                     *)
(***************************************************************************)
LEMMA FileChange ==
  ASSUME IInv, Placed, NEW j \in Job, Changes(j)
  PROVE  /\ Target(j) \in Path /\ \A p \in Path : p # Target(j) => dst'[p] = dst[p]
         /\ pc[j] \in {"openWrite"} \cup Writing
         /\ \/ dst'[Target(j)] = dst[Target(j)]
            \/ dst'[Target(j)] = << >>
            \/ \E k \in Nat : /\ dst[Target(j)] \in Seq(Tag) /\ k < Chunks
                              /\ dst'[Target(j)] = WriteAt(dst[Target(j)], k, j)
            \/ dst'[Target(j)] = Copy(j, Chunks)
<1>1. TypeOK /\ HasItsFile /\ WritesOpen /\ Target(j) \in Path /\ dst \in [Path -> File]
  BY DEF IInv, TypeOK, Target, Path, File
<1>2. CASE pc[j] = "openWrite" /\ Opens(j)
  BY <1>1, <1>2 DEF Opens
<1>3. CASE \E k \in flight[j] : Lands(j, k)
  <2>1. PICK k \in flight[j] : Lands(j, k)
    BY <1>3
  <2>2. /\ k \in Nat /\ k < Chunks /\ pc[j] \in Copying /\ dst[Target(j)] \in Seq(Tag)
    BY <1>1, WrittenFile
  <2>3. QED  BY <1>1, <2>1, <2>2 DEF Lands, Copying, Writing
<1>4. CASE pc[j] = "closeWrite" /\ dst' = Committed(j)
  BY <1>1, <1>4 DEF Committed, Placed, Stands, Writing
<1>5. QED  BY <1>2, <1>3, <1>4 DEF Changes

LEMMA WriteIs ==
  ASSUME NEW c \in Seq(Tag), NEW k \in Nat, NEW j \in Job
  PROVE  /\ Len(WriteAt(c, k, j)) = IF Len(c) > k THEN Len(c) ELSE k + 1
         /\ \A i \in 1..Len(WriteAt(c, k, j)) :
              WriteAt(c, k, j)[i] = IF i = k + 1 THEN j ELSE IF i <= Len(c) THEN c[i] ELSE Hole
<1> DEFINE n == IF Len(c) > k THEN Len(c) ELSE k + 1
           w == WriteAt(c, k, j)
<1>1. n \in Nat
  OBVIOUS
<1>2. /\ DOMAIN w = 1..n
      /\ \A i \in 1..n : w[i] = IF i = k + 1 THEN j ELSE IF i <= Len(c) THEN c[i] ELSE Hole
  BY DEF WriteAt
<1>3. w \in Seq(Tag)
  BY WriteType
<1> HIDE DEF n, w
<1>4. Len(w) = n
  BY <1>1, <1>2, <1>3, LenProperties
<1>5. QED  BY <1>2, <1>4 DEF n, w

LEMMA WrittenTags ==
  ASSUME NEW c \in Seq(Tag), NEW k \in Nat, NEW j \in Job, NEW w, w = WriteAt(c, k, j)
  PROVE  \A i \in 1..Len(w) : \/ i = k + 1 /\ w[i] = j
                              \/ i \in 1..Len(c) /\ w[i] = c[i]
                              \/ w[i] = Hole
<1>1. Len(w) = IF Len(c) > k THEN Len(c) ELSE k + 1
  BY WriteIs
<1>2. \A i \in 1..Len(w) : w[i] = IF i = k + 1 THEN j ELSE IF i <= Len(c) THEN c[i] ELSE Hole
  BY WriteIs
<1>3. Len(c) \in Nat
  BY LenProperties
<1>4. QED  BY <1>1, <1>2, <1>3

LEMMA CopyIs ==
  ASSUME NEW j \in Job, NEW n \in Nat
  PROVE  Len(Copy(j, n)) = n /\ \A i \in 1..n : Copy(j, n)[i] = j
<1>1. DOMAIN Copy(j, n) = 1..n /\ \A i \in 1..n : Copy(j, n)[i] = j
  BY DEF Copy
<1>2. QED  BY <1>1, CopyType, LenProperties

\* No step puts a chunk of the old file anywhere.
LEMMA OldStays ==
  ASSUME IInv, Placed, Effects, NEW p \in Path, HoldsOld(p)'
  PROVE  HoldsOld(p)
<1>1. CASE dst'[p] = dst[p]
  BY <1>1 DEF HoldsOld, Exists
<1>2. CASE dst'[p] # dst[p]
  <2>1. PICK j \in Job : Changes(j) /\ p = Target(j)
    BY <1>2, FileChange DEF Effects
  <2>2. Old \notin Job /\ Old # Hole /\ Chunks \in Nat
    BY QueueAssumption
  <2>3. PICK i \in 1..Len(dst'[p]) : dst'[p][i] = Old
    BY DEF HoldsOld
  <2>4. dst'[p] # << >> /\ dst'[p] # Copy(j, Chunks)
    BY <2>2, <2>3, CopyIs
  <2>5. PICK k \in Nat : dst[p] \in Seq(Tag) /\ dst'[p] = WriteAt(dst[p], k, j)
    BY <1>2, <2>1, <2>4, FileChange
  <2>6. i \in 1..Len(dst[p]) /\ dst[p][i] = Old
    <3> DEFINE c == dst[p]
               w == dst'[p]
    <3>1. c \in Seq(Tag) /\ w = WriteAt(c, k, j) /\ w[i] = Old /\ i \in 1..Len(w)
      BY <2>3, <2>5
    <3> HIDE DEF c, w
    <3>2. \/ i = k + 1 /\ w[i] = j
          \/ i \in 1..Len(c) /\ w[i] = c[i]
          \/ w[i] = Hole
      BY <3>1, WrittenTags
    <3>3. i \in 1..Len(c) /\ c[i] = Old
      BY <2>2, <3>1, <3>2
    <3>4. QED  BY <3>3 DEF c
  <2>7. dst[p] # NoFile
    BY <2>5, QueueAssumption
  <2>8. QED  BY <2>6, <2>7 DEF HoldsOld, Exists
<1>3. QED  BY <1>1, <1>2

LEMMA TagsStay ==
  ASSUME IInv, Placed, TagsPlaced, Effects
  PROVE  TagsPlaced'
<1> SUFFICES ASSUME NEW p \in Path, dst'[p] # NoFile, NEW i \in 1..Len(dst'[p]), dst'[p][i] \in Job
             PROVE  i <= Chunks
  BY DEF TagsPlaced, Exists
<1>1. CASE dst'[p] = dst[p]
  BY <1>1 DEF TagsPlaced, Exists
<1>2. CASE dst'[p] # dst[p]
  <2>1. PICK j \in Job : Changes(j) /\ p = Target(j)
    BY <1>2, FileChange DEF Effects
  <2>2. Hole \notin Job /\ Chunks \in Nat
    BY QueueAssumption
  <2>3. CASE dst'[p] = << >>
    BY <2>3
  <2>4. CASE dst'[p] = Copy(j, Chunks)
    BY <2>2, <2>4, CopyIs
  <2>5. CASE \E k \in Nat : dst[p] \in Seq(Tag) /\ k < Chunks /\ dst'[p] = WriteAt(dst[p], k, j)
    <3>1. PICK n \in Nat : dst[p] \in Seq(Tag) /\ n < Chunks /\ dst'[p] = WriteAt(dst[p], n, j)
      BY <2>5
    <3> DEFINE c == dst[p]
               w == dst'[p]
    <3>2. c \in Seq(Tag) /\ w = WriteAt(c, n, j) /\ w[i] \in Job /\ i \in 1..Len(w)
      BY <3>1
    <3>3. \A k \in 1..Len(c) : c[k] \in Job => k <= Chunks
      BY <3>1, QueueAssumption DEF TagsPlaced, Exists
    <3> HIDE DEF c, w
    <3>4. \/ i = n + 1 /\ w[i] = j
          \/ i \in 1..Len(c) /\ w[i] = c[i]
          \/ w[i] = Hole
      BY <3>2, WrittenTags
    <3>5. QED  BY <2>2, <3>1, <3>2, <3>3, <3>4
  <2>6. QED  BY <1>2, <2>1, <2>3, <2>4, <2>5, FileChange
<1>3. QED  BY <1>1, <1>2

LEMMA AskedStays ==
  ASSUME IInv, Placed, Asked, Effects
  PROVE  Asked'
<1> SUFFICES ASSUME NEW j \in Job, pc'[j] \in {"openWrite"} \cup Writing, HoldsOld(Target(j))'
             PROVE  Consents(j)'
  BY DEF Asked
<1>1. /\ UNCHANGED <<name, overwrite>> /\ Moves(j) /\ TypeOK
      /\ pc'[j] \notin {"off", "stat", "choose", "probe", "resumeStat"}
  BY DEF Effects, Writing, IInv
<1>2. CASE Begins(j)
  BY <1>1, <1>2 DEF Begins, FirstAwait, Consents
<1>3. CASE ~Begins(j) /\ alt'[j] = alt[j]
  <2>1. Target(j)' = Target(j) /\ Target(j) \in Path
    BY <1>1, <1>3 DEF Target, TypeOK, Path
  <2>2. HoldsOld(Target(j))
    BY <2>1, OldStays DEF HoldsOld, Exists
  <2>3. CASE Keeps(j)
    BY <1>1, <2>2, <2>3 DEF Keeps, Asked, Consents
  <2>4. CASE Copies(j)
    <3>1. pc[j] \in Acts /\ UNCHANGED <<resume, choice>>
      BY <2>4, CopiesKeep
    <3>2. pc[j] = "resumeStat" => j \in resume
      BY DEF Placed, Stands
    <3>3. QED  BY <1>1, <2>2, <3>1, <3>2 DEF Asked, Consents, Acts
  <2>5. CASE Cleared(j)
    BY <2>2, <2>5 DEF Cleared, HoldsOld, Consents
  <2>6. QED  BY <1>1, <1>3, <2>3, <2>4, <2>5 DEF Moves, Looks
<1>4. CASE ~Begins(j) /\ alt'[j] # alt[j]
  <2>1. Copies(j) => alt' = alt
    BY CopiesKeep
  <2>2. QED  BY <1>1, <1>4, <2>1 DEF Moves, Looks, Keeps, Cleared, Consents
<1>5. QED  BY <1>2, <1>3, <1>4

-----------------------------------------------------------------------------
LEMMA PlacedStays ==
  ASSUME IInv, Placed, Effects
  PROVE  Placed'
<1> SUFFICES ASSUME NEW j \in Job PROVE Stands(j)'
  BY DEF Placed
<1>1. /\ pc \in [Job -> Suspended] /\ offset \in [Job -> Nat] /\ start \in [Job -> Nat]
      /\ Chunks \in Nat /\ Chunks > 0 /\ offset[j] \in Nat /\ start[j] \in Nat
      /\ inPlace' = inPlace /\ inPlace \in BOOLEAN
  BY QueueAssumption DEF IInv, TypeOK, Effects
<1>2. Stands(j)
  BY DEF Placed
<1>3. CASE Keeps(j)
  BY <1>1, <1>2, <1>3 DEF Keeps, Stands
<1>4. CASE Begins(j)
  BY <1>1, <1>2, <1>4 DEF Begins, FirstAwait, Stands
<1>5. CASE Cleared(j) \/ Looks(j)
  BY <1>1, <1>2, <1>5 DEF Cleared, Looks, Stands
<1>6. CASE ResumeStat(j)
  <2>1. pc'[j] = "openWrite" /\ inPlace
    BY <1>1, <1>2, <1>6 DEF ResumeStat, Await, Stands
  <2>2. QED  BY <1>1, <2>1 DEF Stands
<1>7. CASE OpenWrite(j)
  <2>1. /\ pc'[j] = IF start[j] >= Chunks THEN "closeFull" ELSE "openRead"
        /\ offset'[j] = start[j] /\ start' = start
    BY <1>1, <1>7 DEF OpenWrite, Await
  <2>2. QED  BY <1>1, <1>2, <2>1 DEF Stands
<1>8. CASE OpenRead(j) \/ WriteReturns(j) \/ CopyFails(j) \/ CloseWrite(j)
  <2>1. UNCHANGED <<start, offset, resume>>
    BY <1>8 DEF OpenRead, WriteReturns, CopyFails, CloseWrite, handle
  <2>2. \/ pc[j] \in {"openRead", "write"} /\ pc'[j] \in {"read", "abortCancelled"}
        \/ pc'[j] \in {"abortError", "abortCancelled"}
        \/ pc[j] = "closeWrite" /\ pc'[j] = "closeRead"
    BY <1>1, <1>8 DEF OpenRead, WriteReturns, CopyFails, CloseWrite, Await, LoopHead
  <2>3. QED  BY <1>1, <1>2, <2>1, <2>2 DEF Stands
<1>9. CASE Read(j)
  <2>1. /\ UNCHANGED <<start, resume>> /\ pc[j] = "read"
        /\ \/ offset[j] = Chunks /\ pc'[j] = "closeWrite" /\ offset' = offset
           \/ pc'[j] = "abortError" /\ offset' = offset
           \/ offset[j] < Chunks /\ pc'[j] = "write" /\ offset'[j] = offset[j] + 1
    BY <1>1, <1>9 DEF Read, Await
  <2>2. QED  BY <1>1, <1>2, <2>1 DEF Stands
<1>10. CASE \E k \in flight[j] : Settles(j, k)
  <2>1. UNCHANGED <<pc, start, offset, resume>>
    BY <1>10 DEF Settles
  <2>2. QED  BY <1>1, <1>2, <2>1 DEF Stands
<1>11. QED
  BY <1>3, <1>4, <1>5, <1>6, <1>7, <1>8, <1>9, <1>10 DEF Effects, Moves, Copies, Opening

-----------------------------------------------------------------------------
\* Two runs that have one file, and one of them does not know, cannot be.
LEMMA SharingStays ==
  ASSUME IInv, Placed, OwnCopy, Effects, NEW j \in Job, HasFile(j)', j \notin shared'
  PROVE  /\ Sharing(j)' = {}
         /\ Keeps(j) \/ Copies(j)
         /\ HasFile(j) => j \notin shared /\ Sharing(j) = {} /\ Holds(j)
<1>1. UNCHANGED <<name, inPlace>> /\ \A i \in Job : Moves(i)
  BY DEF Effects
<1>2. ASSUME NEW i \in Job, HasFile(i)'
      PROVE  Keeps(i) \/ Copies(i)
  <2>1. Stands(i) /\ Moves(i)
    BY <1>1 DEF Placed
  <2>2. ~Looks(i)
    BY <1>2 DEF HasFile, Looks, Writing
  <2>3. ~Cleared(i)
    BY <1>2, <2>1 DEF HasFile, Cleared, Stands, Writing
  <2>4. ~Begins(i)
    BY <1>1, <1>2, <2>1 DEF HasFile, Begins, FirstAwait, Stands, Writing
  <2>5. QED  BY <2>1, <2>2, <2>3, <2>4 DEF Moves
<1>3. HasFile(j) => j \notin shared /\ Sharing(j) = {} /\ Holds(j)
  BY DEF Effects, OwnCopy, HasFile, Writing
<1>4. ASSUME NEW i \in Job, HasFile(i)', Keeps(i)
      PROVE  HasFile(i)
  BY <1>1, <1>4 DEF HasFile, Keeps
<1>5. ASSUME NEW i \in Job, Copies(i), ~Opening(i)
      PROVE  HasFile(i)
  <2>1. CASE \E k \in flight[i] : Settles(i, k)
    BY <2>1, WrittenFile DEF IInv, HasFile, Copying, Writing
  <2>2. CASE ~\E k \in flight[i] : Settles(i, k)
    BY <1>5, <2>2 DEF Copies, OpenRead, Read, WriteReturns, CopyFails, CloseWrite, Await, HasFile, Writing
  <2>3. QED  BY <2>1, <2>2
<1>6. ASSUME NEW i \in Job \ {j}, HasFile(i)', Target(i)' = Target(j)'
      PROVE  FALSE
  <2>1. (Keeps(i) \/ Copies(i)) /\ (Keeps(j) \/ Copies(j))
    BY <1>2, <1>6
  <2>2. Target(i) = Target(j)
    <3>1. \A x \in {i, j} : alt'[x] = alt[x]
      BY <2>1, CopiesKeep DEF Keeps
    <3>2. QED  BY <1>1, <1>6, <3>1 DEF Target
  <2>3. CASE Opening(j)
    <3>1. shared' = Shares(j) /\ Keeps(i)
      BY <2>3, CopiesKeep DEF Opening, ResumeStat, OpenWrite, Copies
    <3>2. i \in Sharing(j)
      BY <1>4, <1>6, <2>2, <3>1 DEF Sharing
    <3>3. QED  BY <3>1, <3>2 DEF Shares
  <2>4. CASE Opening(i)
    <3>1. shared' = Shares(i) /\ Keeps(j)
      BY <2>4, CopiesKeep DEF Opening, ResumeStat, OpenWrite, Copies
    <3>2. j \in Sharing(i)
      BY <1>4, <1>6, <2>2, <3>1 DEF Sharing
    <3>3. QED  BY <3>1, <3>2 DEF Shares
  <2>5. CASE ~Opening(i) /\ ~Opening(j)
    <3>1. HasFile(i) /\ HasFile(j)
      BY <1>4, <1>5, <1>6, <2>1, <2>5
    <3>2. i \in Sharing(j)
      BY <1>6, <2>2, <3>1 DEF Sharing
    <3>3. QED  BY <1>3, <3>1, <3>2
  <2>6. QED  BY <2>3, <2>4, <2>5
<1>7. Sharing(j)' = {}
  BY <1>6 DEF Sharing
<1>8. QED  BY <1>2, <1>3, <1>7

\* Nobody else changes the file of a run that does not share it.
LEMMA FileStays ==
  ASSUME IInv, Placed, OwnCopy, Effects, NEW j \in Job, HasFile(j)', Keeps(j), j \notin shared'
  PROVE  dst'[Target(j)] = dst[Target(j)]
<1>1. HasFile(j) /\ Sharing(j) = {}
  <2>1. HasFile(j)
    BY DEF HasFile, Keeps, Effects
  <2>2. QED  BY <2>1, SharingStays
<1>2. CASE dst' = dst
  BY <1>2
<1>3. CASE \E i \in Job : Changes(i)
  <2>1. PICK i \in Job : Changes(i)
    BY <1>3
  <2>2. i # j
    BY <2>1 DEF Changes, Keeps
  <2>3. pc[i] \in {"openWrite"} \cup Writing /\ \A p \in Path : p # Target(i) => dst'[p] = dst[p]
    BY <2>1, FileChange
  <2>4. Target(i) # Target(j)
    <3>1. CASE HasFile(i)
      BY <1>1, <2>2, <3>1 DEF Sharing
    <3>2. CASE ~HasFile(i)
      <4>1. pc[i] \notin Writing /\ flight[i] = {}
        BY <3>2 DEF HasFile, IInv, WritesOpen, Copying, Writing
      <4>2. Sharing(i) \subseteq shared'
        BY <2>1, <4>1 DEF Changes, Writing
      <4>3. QED  BY <1>1, <2>2, <4>2 DEF Sharing
    <3>3. QED  BY <3>1, <3>2
  <2>5. Target(j) \in Path
    BY DEF IInv, TypeOK, Target, Path
  <2>6. QED  BY <2>3, <2>4, <2>5
<1>4. QED  BY <1>2, <1>3 DEF Effects

LEMMA ResumeHolds ==
  ASSUME IInv, NEW j \in Job, ResumeStat(j)
  PROVE  Holds(j)'
<1> DEFINE found == IF Exists(Target(j)) THEN dst[Target(j)] ELSE << >>
<1>1. /\ pc \in [Job -> Suspended] /\ start \in [Job -> Nat] /\ kept \in [Job -> SUBSET Tag]
      /\ dst \in [Path -> File] /\ Target(j) \in Path
  BY DEF IInv, TypeOK, File, Target, Path
<1>2. /\ pc'[j] = "openWrite" /\ UNCHANGED <<dst, name, alt>> /\ start'[j] \in {0, Len(found)}
      /\ kept'[j] = {found[k] : k \in 1..Len(found)}
  BY <1>1 DEF ResumeStat, Await, jobVars
<1>3. Target(j)' = Target(j)
  BY <1>2 DEF Target
<1>4. Exists(Target(j))' <=> Exists(Target(j))
  BY <1>2, <1>3 DEF Exists
<1>5. kept'[j] \subseteq {j} => \A k \in 1..Len(found) : found[k] = j
  BY <1>2
<1>6. ~Exists(Target(j)) => start'[j] = 0
  BY <1>2
<1>7. Exists(Target(j)) => found = dst'[Target(j)]
  BY <1>2
<1> HIDE DEF found
<1>8. QED  BY <1>2, <1>3, <1>4, <1>5, <1>6, <1>7 DEF Holds, FoundOwn, Writing

LEMMA OpenHolds ==
  ASSUME IInv, TagsPlaced, NEW j \in Job, OpenWrite(j), HasFile(j) => Holds(j)
  PROVE  Holds(j)'
<1>1. /\ dst \in [Path -> File] /\ Target(j) \in Path /\ Chunks \in Nat
      /\ pc \in [Job -> Suspended] /\ offset \in [Job -> Nat] /\ start[j] \in Nat
  BY QueueAssumption DEF IInv, TypeOK, File, Target, Path
<1>2. /\ pc[j] = "openWrite" /\ pc'[j] \in {"closeFull", "openRead"} /\ offset'[j] = start[j]
      /\ Opens(j) /\ UNCHANGED <<name, inPlace, alt, kept, refused, flight>>
  BY <1>1 DEF OpenWrite, Await, jobVars
<1>3. Target(j)' = Target(j)
  BY <1>2 DEF Target
<1>4. ASSUME inPlace, kept[j] \subseteq {j}
      PROVE  /\ Len(dst'[Target(j)]) <= Chunks
             /\ Landed(dst'[Target(j)], offset'[j], flight'[j], j)
  <2>1. CASE start[j] = 0 /\ dst' = [dst EXCEPT ![Target(j)] = << >>]
    <3>1. dst'[Target(j)] = << >> /\ offset'[j] = 0 /\ \A k \in Nat : ~(k < 0)
      BY <1>1, <1>2, <2>1
    <3>2. QED  BY <1>1, <3>1 DEF Landed
  <2>2. CASE j \in resume /\ Exists(Target(j)) /\ dst' = dst
    <3> DEFINE c == dst[Target(j)]
    <3>1. FoundOwn(c, j)
      BY <1>2, <1>4, <2>2 DEF HasFile, Holds
    <3>2. c \in Seq(Tag) /\ Len(c) \in Nat
      BY <1>1, <2>2, LenProperties DEF Exists, File
    <3>3. \A k \in 1..Len(c) : c[k] \in Job => k <= Chunks
      BY <1>1, <2>2 DEF TagsPlaced
    <3>4. dst'[Target(j)] = c
      BY <2>2
    <3> HIDE DEF c
    <3>5. Len(c) <= Chunks
      <4>1. CASE Len(c) = 0
        BY <1>1, <4>1
      <4>2. CASE Len(c) # 0
        BY <3>1, <3>2, <3>3, <4>2 DEF FoundOwn
      <4>3. QED  BY <4>1, <4>2
    <3>6. \A k \in Nat : k < start[j] => k < Len(c) /\ c[k + 1] = j
      BY <3>1, <3>2 DEF FoundOwn
    <3>7. QED  BY <1>2, <3>4, <3>5, <3>6 DEF Landed
  <2>3. QED  BY <1>2, <1>4, <2>1, <2>2 DEF Opens
<1>5. QED  BY <1>2, <1>3, <1>4 DEF Holds

LEMMA SettleHolds ==
  ASSUME IInv, NEW j \in Job, Holds(j), NEW k \in flight[j], Settles(j, k)
  PROVE  Holds(j)'
<1> DEFINE c == dst[Target(j)]
           w == dst'[Target(j)]
<1>1. /\ k \in Nat /\ k < Chunks /\ pc[j] \in Copying /\ inPlace
      /\ Target(j) \in Path /\ c \in Seq(Tag)
  BY WrittenFile DEF IInv
<1>2. /\ UNCHANGED <<name, inPlace, alt, kept, pc, offset>> /\ flight'[j] = flight[j] \ {k}
      /\ \/ j \in refused' /\ w = c
         \/ (j \in refused => j \in refused') /\ w = WriteAt(c, k, j)
  BY <1>1 DEF Settles, jobVars, IInv, TypeOK
<1>3. Target(j)' = Target(j) /\ pc[j] \in Writing /\ pc[j] # "openWrite"
  BY <1>1, <1>2 DEF Target, Copying, Writing
<1>4. kept[j] \subseteq {j} =>
        /\ Len(c) <= Chunks
        /\ j \notin refused => Landed(c, offset[j], flight[j], j)
  BY <1>1, <1>3 DEF Holds
<1>5. Chunks \in Nat /\ Len(c) \in Nat /\ offset[j] \in Nat
  BY <1>1, QueueAssumption, LenProperties DEF IInv, TypeOK
<1> HIDE DEF c, w
<1>6. ASSUME Len(c) <= Chunks, j \notin refused => Landed(c, offset[j], flight[j], j)
      PROVE  /\ Len(w) <= Chunks
             /\ j \notin refused' => Landed(w, offset[j], flight'[j], j)
  <2>1. CASE j \in refused' /\ w = c
    BY <1>6, <2>1
  <2>2. CASE (j \in refused => j \in refused') /\ w = WriteAt(c, k, j)
    <3>1. /\ Len(w) = IF Len(c) > k THEN Len(c) ELSE k + 1
          /\ \A i \in 1..Len(w) : w[i] = IF i = k + 1 THEN j ELSE IF i <= Len(c) THEN c[i] ELSE Hole
      BY <1>1, <2>2, WriteIs
    <3>2. Len(w) <= Chunks /\ Len(w) \in Nat
      BY <1>1, <1>5, <1>6, <3>1
    <3>3. ASSUME j \notin refused', NEW m \in Nat, m < offset[j], m \notin flight'[j]
          PROVE  m < Len(w) /\ w[m + 1] = j
      <4>1. CASE m = k
        BY <1>1, <1>5, <3>1, <4>1
      <4>2. CASE m # k
        <5>1. m < Len(c) /\ c[m + 1] = j
          BY <1>2, <1>6, <2>2, <3>3, <4>2 DEF Landed
        <5>2. m + 1 # k + 1 /\ m + 1 <= Len(c) /\ m + 1 <= Len(w) /\ m + 1 \in 1..Len(w)
          BY <1>1, <1>5, <3>1, <4>2, <5>1
        <5>3. QED  BY <3>1, <5>1, <5>2
      <4>3. QED  BY <4>1, <4>2
    <3>4. QED  BY <3>2, <3>3 DEF Landed
  <2>3. QED  BY <1>2, <2>1, <2>2
<1>7. kept[j] \subseteq {j} =>
        /\ Len(w) <= Chunks
        /\ j \notin refused' => Landed(w, offset[j], flight'[j], j)
  BY <1>4, <1>6
<1>8. dst'[Target(j)'] = w /\ offset' = offset /\ kept' = kept /\ pc' = pc /\ inPlace'
  BY <1>1, <1>2, <1>3 DEF w
<1>9. QED  BY <1>3, <1>7, <1>8 DEF Holds, Copying

LEMMA CopyHolds ==
  ASSUME IInv, Placed, NEW j \in Job, Holds(j),
         OpenRead(j) \/ Read(j) \/ WriteReturns(j) \/ CopyFails(j) \/ CloseWrite(j)
  PROVE  Holds(j)'
<1>1. /\ dst \in [Path -> File] /\ Target(j) \in Path /\ offset[j] \in Nat
      /\ pc \in [Job -> Suspended] /\ offset \in [Job -> Nat]
      /\ flight \in [Job -> SUBSET (0..(Chunks - 1))] /\ Stands(j)
  BY DEF IInv, TypeOK, File, Target, Path, Placed
<1>2. UNCHANGED <<name, inPlace, alt, kept, refused>> /\ pc[j] \in Writing /\ pc'[j] # "openWrite"
  BY <1>1 DEF OpenRead, Read, WriteReturns, CopyFails, CloseWrite, jobVars, handle, Await, LoopHead, Writing
<1>3. Target(j)' = Target(j)
  BY <1>2 DEF Target
<1>4. inPlace => /\ dst' = dst
                 /\ \A k \in Nat : k < offset'[j] /\ k \notin flight'[j]
                                     => k < offset[j] /\ k \notin flight[j]
  <2>1. CASE OpenRead(j) \/ WriteReturns(j) \/ CopyFails(j) \/ CloseWrite(j)
    BY <2>1 DEF OpenRead, WriteReturns, CopyFails, CloseWrite, Committed, handle
  <2>2. CASE Read(j)
    <3>1. /\ dst' = dst
          /\ \/ UNCHANGED <<offset, flight>>
             \/ /\ offset'[j] = offset[j] + 1
                /\ inPlace => flight'[j] = flight[j] \cup {offset[j]}
      BY <1>1, <2>2 DEF Read
    <3>2. QED  BY <1>1, <3>1
  <2>3. QED  BY <2>1, <2>2
<1>5. ~inPlace /\ pc'[j] = "closeRead" => dst'[Target(j)] = Copy(j, Chunks)
  <2>1. pc'[j] = "closeRead" => CloseWrite(j)
    BY <1>1 DEF OpenRead, Read, WriteReturns, CopyFails, Await, LoopHead
  <2>2. CloseWrite(j) => dst' = Committed(j) /\ offset[j] = Chunks
    BY <1>1 DEF CloseWrite, Await, Stands
  <2>3. QED  BY <1>1, <2>1, <2>2 DEF Committed
<1>6. kept[j] \subseteq {j} /\ inPlace =>
        /\ Len(dst'[Target(j)]) <= Chunks
        /\ j \notin refused => Landed(dst'[Target(j)], offset'[j], flight'[j], j)
  <2>1. kept[j] \subseteq {j} /\ inPlace =>
          /\ Len(dst[Target(j)]) <= Chunks
          /\ j \notin refused => Landed(dst[Target(j)], offset[j], flight[j], j)
    BY <1>2 DEF Holds
  <2>2. QED  BY <1>4, <2>1 DEF Landed
<1>7. QED  BY <1>2, <1>3, <1>5, <1>6 DEF Holds

LEMMA OwnCopyStays ==
  ASSUME IInv, Placed, TagsPlaced, OwnCopy, Effects
  PROVE  OwnCopy'
<1> SUFFICES ASSUME NEW j \in Job, HasFile(j)', j \notin shared'
             PROVE  Sharing(j)' = {} /\ Holds(j)'
  BY DEF OwnCopy
<1>1. /\ Sharing(j)' = {}
      /\ Keeps(j) \/ Copies(j)
      /\ HasFile(j) => j \notin shared /\ Sharing(j) = {} /\ Holds(j)
  BY SharingStays
<1>2. CASE Keeps(j)
  <2>1. /\ pc'[j] = pc[j] /\ start'[j] = start[j] /\ offset'[j] = offset[j] /\ kept'[j] = kept[j]
        /\ flight'[j] = flight[j] /\ (j \in refused' <=> j \in refused)
        /\ Target(j)' = Target(j) /\ inPlace' = inPlace
    BY <1>2 DEF Keeps, Effects, Target
  <2>2. dst'[Target(j)] = dst[Target(j)]
    BY <1>2, FileStays
  <2>3. HasFile(j)
    BY <1>2 DEF HasFile, Keeps, Effects
  <2>4. QED  BY <1>1, <2>1, <2>2, <2>3 DEF Holds, FoundOwn, Landed, Exists
<1>3. CASE ResumeStat(j)
  BY <1>1, <1>3, ResumeHolds
<1>4. CASE OpenWrite(j)
  BY <1>1, <1>4, OpenHolds
<1>5. CASE \E k \in flight[j] : Settles(j, k)
  <2>1. HasFile(j)
    BY <1>5, WrittenFile DEF IInv, HasFile, Copying, Writing
  <2>2. QED  BY <1>1, <1>5, <2>1, SettleHolds
<1>6. CASE OpenRead(j) \/ Read(j) \/ WriteReturns(j) \/ CopyFails(j) \/ CloseWrite(j)
  <2>1. HasFile(j)
    BY <1>6 DEF OpenRead, Read, WriteReturns, CopyFails, CloseWrite, Await, HasFile, Writing
  <2>2. QED  BY <1>1, <1>6, <2>1, CopyHolds
<1>7. QED  BY <1>1, <1>2, <1>3, <1>4, <1>5, <1>6 DEF Copies, Opening

\* A file that begins with a whole copy and is no longer than one is a copy.
LEMMA WholeFile ==
  ASSUME NEW c \in Seq(Tag), NEW j \in Job, NEW n \in Nat, Len(c) <= n,
         \A k \in Nat : k < n => k < Len(c) /\ c[k + 1] = j
  PROVE  c = Copy(j, n)
<1>1. Len(c) \in Nat
  BY LenProperties
<1>2. Len(c) = n
  <2>1. CASE n = 0
    BY <1>1, <2>1
  <2>2. CASE n # 0
    <3> DEFINE m == n - 1
    <3>1. m \in Nat /\ m < n /\ n = m + 1
      BY <2>2
    <3>2. m < Len(c)
      BY <3>1
    <3> HIDE DEF m
    <3>3. \A l \in Nat : m < l /\ l <= n => l = n
      BY <3>1
    <3>4. QED  BY <1>1, <3>2, <3>3
  <2>3. QED  BY <2>1, <2>2
<1>3. \A i \in 1..n : c[i] = j
  <2> TAKE i \in 1..n
  <2>1. i - 1 \in Nat /\ i - 1 < n /\ (i - 1) + 1 = i
    OBVIOUS
  <2>2. QED  BY <2>1
<1>4. c \in [1..Len(c) -> Tag]
  BY LenProperties
<1>5. QED  BY <1>2, <1>3, <1>4 DEF Copy

-----------------------------------------------------------------------------
(***************************************************************************)
(* The theorems about files.                                               *)
(***************************************************************************)
LEMMA InitFInv == Init => FInv
<1> SUFFICES ASSUME Init PROVE FInv
  OBVIOUS
<1>1. IInv
  BY InitIInv
<1>2. Placed /\ Asked /\ OwnCopy
  BY DEF Init, Placed, Stands, Asked, OwnCopy, HasFile, Writing
<1>3. TagsPlaced
  <2>1. PICK present \in SUBSET Name, len \in OldLengths :
          dst = [p \in Path |-> IF p[1] \in present /\ p[2] = 0
                                  THEN Copy(Old, len) ELSE NoFile]
    BY DEF Init
  <2>2. len \in Nat /\ Old \notin Job
    BY QueueAssumption
  <2>3. DOMAIN Copy(Old, len) = 1..len /\ \A k \in 1..len : Copy(Old, len)[k] = Old
    BY DEF Copy
  <2>4. Copy(Old, len) \in Seq(Tag)
    BY <2>2, SeqDef DEF Copy, Tag
  <2>5. Len(Copy(Old, len)) = len
    BY <2>2, <2>3, <2>4, LenProperties
  <2>6. QED  BY <2>1, <2>2, <2>3, <2>5 DEF TagsPlaced, Exists
<1>4. QED  BY <1>1, <1>2, <1>3 DEF FInv

LEMMA StepFInv == FInv /\ [Next]_vars => FInv'
<1> SUFFICES ASSUME FInv, [Next]_vars PROVE FInv'
  OBVIOUS
<1>1. IInv /\ Placed /\ TagsPlaced /\ Asked /\ OwnCopy
  BY DEF FInv
<1>2. IInv' /\ Effects
  BY <1>1, StepIInv, StepEffects
<1>3. Placed' /\ TagsPlaced' /\ Asked' /\ OwnCopy'
  BY <1>1, <1>2, PlacedStays, TagsStay, AskedStays, OwnCopyStays
<1>4. QED  BY <1>2, <1>3 DEF FInv

LEMMA FilesInductive == Spec => []FInv
BY InitFInv, StepFInv, PTL DEF Spec

\* A file that was there before the queue changes only under a run that may change it,
\* whatever runs beside it, is retried or renamed (queue.ts:262-331).
THEOREM OldFilesNeedConsent == Spec => OldFileConsent
<1> DEFINE Guarded == \A p \in Path :
             Exists(p) /\ Old \in {dst[p][k] : k \in 1..Len(dst[p])} /\ dst'[p] # dst[p]
               => \E j \in Job : Target(j) = p /\ Consents(j)
                                 /\ pc[j] \in {"openWrite"} \cup Writing
<1>1. FInv /\ [Next]_vars => [Guarded]_vars
  <2> SUFFICES ASSUME FInv, [Next]_vars, NEW p \in Path, HoldsOld(p), dst'[p] # dst[p]
               PROVE  \E j \in Job : Target(j) = p /\ Consents(j)
                                     /\ pc[j] \in {"openWrite"} \cup Writing
    BY DEF HoldsOld
  <2>1. IInv /\ Placed /\ Asked
    BY DEF FInv
  <2>2. PICK j \in Job : Changes(j)
    BY <2>1, StepEffects DEF Effects
  <2>3. Target(j) = p /\ pc[j] \in {"openWrite"} \cup Writing
    BY <2>1, <2>2, FileChange
  <2>4. Consents(j)
    BY <2>1, <2>3 DEF Asked
  <2>5. QED  BY <2>3, <2>4
<1>2. QED  BY <1>1, FilesInductive, PTL DEF Spec, OldFileConsent

\* "done" is a whole copy, in whatever order the WRITEs were answered, unless another run
\* wrote the same file or the run resumed a file that its own job had not written alone
\* and without a hole (engine.ts:67-102, queue.ts:334-348, SftpFS.ts:245-325).
THEOREM DoneIsWhole == Spec => DoneIsCopyOfOwnPartial
<1> DEFINE Whole == \A j \in Job :
             state[j] = "active" /\ state'[j] = "done" /\ j \notin shared
               /\ kept[j] \subseteq {j} => Complete(j)
<1>1. FInv /\ [Next]_vars => [Whole]_vars
  <2> SUFFICES ASSUME FInv, [Next]_vars, NEW j \in Job, state[j] = "active", state'[j] = "done",
                      j \notin shared, kept[j] \subseteq {j}
               PROVE  Complete(j)
    OBVIOUS
  <2>1. IInv /\ Stands(j)
    BY DEF FInv, Placed
  <2>2. pc[j] \in {"closeFull", "closeRead"} /\ dst' = dst
    BY <2>1, StepEffects DEF Done
  <2>3. pc[j] \in Writing /\ HasFile(j) /\ flight[j] = {} /\ j \notin refused
    BY <2>1, <2>2 DEF Writing, HasFile, IInv, WritesOpen, Copying
  <2>4. Holds(j)
    BY <2>3 DEF FInv, OwnCopy
  <2>5. CASE inPlace
    <3>1. /\ Landed(dst[Target(j)], offset[j], flight[j], j) /\ Len(dst[Target(j)]) <= Chunks
          /\ dst[Target(j)] \in Seq(Tag)
      BY <2>1, <2>3, <2>4, <2>5 DEF Holds, IInv, HasItsFile, TypeOK, Target, Path
    <3>2. offset[j] >= Chunks /\ offset[j] \in Nat /\ Chunks \in Nat
      BY <2>1, <2>2, QueueAssumption DEF Stands, IInv, TypeOK
    <3>3. dst[Target(j)] = Copy(j, Chunks)
      BY <2>3, <3>1, <3>2, WholeFile DEF Landed
    <3>4. QED  BY <2>2, <3>3 DEF Complete
  <2>6. CASE ~inPlace
    BY <2>1, <2>2, <2>4, <2>6 DEF Holds, Stands, Complete
  <2>7. QED  BY <2>5, <2>6
<1>2. QED  BY <1>1, FilesInductive, PTL DEF Spec, DoneIsCopyOfOwnPartial

-----------------------------------------------------------------------------
(***************************************************************************)
(* The transfer queue implements the pool of JobPool: its initial states   *)
(* are a pool's, and each of its steps is a step of the pool or leaves     *)
(* every job where it stands.                                              *)
(***************************************************************************)

(***************************************************************************)
(* Where the jobs stand when their states are st and enq have been         *)
(* enqueued: PhaseOf, for states that pump() has not finished with, too.   *)
(***************************************************************************)
Standing(st, enq, j) ==
  IF st[j] = "absent" THEN IF j > enq THEN "new" ELSE "dropped"
  ELSE IF st[j] = "queued" THEN "waiting"
  ELSE IF st[j] \in {"active", "conflict"} THEN "running"
  ELSE IF st[j] \in {"error", "cancelled"} /\ j \notin restored THEN "stopped"
  ELSE "final"

Phases(st, enq) == [j \in Job |-> Standing(st, enq, j)]

Now == [j \in Job |-> PhaseOf(j)]

LEMMA PhasesNow == Now = Phases(state, enqueued)
<1>1. \A j \in Job : PhaseOf(j) = Standing(state, enqueued, j)
  BY DEF PhaseOf, Standing
<1>2. QED
  BY <1>1 DEF Now, Phases

LEMMA PhasesThen ==
  ASSUME restored' = restored
  PROVE  Now' = Phases(state', enqueued')
<1>1. \A j \in Job : PhaseOf(j)' = Standing(state', enqueued', j)
  BY DEF PhaseOf, Standing
<1>2. QED
  BY <1>1 DEF Now, Phases

\* JobPool counts as TransferQueue does.
LEMMA SameCardinality == \A S : Pool!Cardinality(S) = Cardinality(S)
BY Zenon DEF Pool!Cardinality, Cardinality

(***************************************************************************)
(* pump() dispatches: the jobs it takes are those that the pool fills its  *)
(* free slots with.                                                        *)
(***************************************************************************)
LEMMA PumpDispatches ==
  ASSUME NEW st \in [Job -> JobState], NEW n, NEW Ended, NEW enq,
         n = Cardinality({j \in Job : st[j] \in {"active", "conflict"}}),
         Pump(st, n, Ended), restored' = restored, enqueued' = enq
  PROVE  Pool!Dispatch(Phases(st, enq))
<1> DEFINE ph == Phases(st, enq)
<1>1. PICK S \in SUBSET Job : Pumps(st, n, S) /\ StartRuns(st, n, Ended, S)
  BY DEF Pump
<1>2. \A j \in Job : ph[j] = Standing(st, enq, j)
  BY DEF Phases
<1>3. Pool!In(ph, "running") = {j \in Job : st[j] \in {"active", "conflict"}}
  BY <1>2 DEF Pool!In, Standing
<1>4. Pool!In(ph, "waiting") = Queued(st)
  BY <1>2 DEF Pool!In, Standing, Queued
<1>5. Pool!Fills(ph, S)
  BY <1>1, <1>3, <1>4, SameCardinality DEF Pool!Fills, Pumps
<1>6. S \subseteq Queued(st) /\ state' = [j \in Job |-> IF j \in S THEN "active" ELSE st[j]]
  BY <1>1 DEF Pumps, StartRuns
<1>7. \A j \in Job : Standing(state', enq, j) = IF j \in S THEN "running" ELSE ph[j]
  BY <1>2, <1>6 DEF Standing
<1>8. Now' = [j \in Job |-> IF j \in S THEN "running" ELSE ph[j]]
  BY <1>7, PhasesThen DEF Phases
<1>9. QED
  BY <1>5, <1>8 DEF Pool!Dispatch, Now

\* The runs in flight, as the states show them.
LEMMA RunningShown ==
  ASSUME IInv
  PROVE  /\ Running = {j \in Job : state[j] \in {"active", "conflict"}}
         /\ activeCount = Cardinality(Running)
         /\ state \in [Job -> JobState]
BY DEF IInv, ShownAsRunning, Running, SlotAccounting, TypeOK

-----------------------------------------------------------------------------
LEMMA EnqueueSubmits ==
  ASSUME IInv, NEW j \in Job, Enqueue(j)
  PROVE  Pool!Submit(j)
<1> DEFINE st == [state EXCEPT ![j] = "queued"]
<1>1. /\ j = enqueued + 1 /\ enqueued' = j /\ restored' = restored
      /\ Pump(st, activeCount, {}) /\ enqueued \in Nat
  BY DEF Enqueue, IInv, TypeOK
<1>2. state[j] = "absent" /\ \A i \in Job : i > enqueued => state[i] = "absent"
  BY <1>1 DEF IInv, Listed, Job
<1>3. st \in [Job -> JobState] /\ st[j] = "queued"
      /\ \A i \in Job : i # j => st[i] = state[i]
  BY RunningShown DEF JobState
<1>4. {i \in Job : st[i] \in {"active", "conflict"}} = Running
  BY <1>2, <1>3, RunningShown
<1> HIDE DEF st
<1>5. Pool!Dispatch(Phases(st, j))
  BY <1>1, <1>3, <1>4, RunningShown, PumpDispatches
<1>6. Phases(st, j) = [Now EXCEPT ![j] = "waiting"]
  <2>1. \A i \in Job : i # j => Standing(st, j, i) = Standing(state, enqueued, i)
    BY <1>1, <1>3 DEF Standing, Job
  <2>2. Standing(st, j, j) = "waiting"
    BY <1>3 DEF Standing
  <2>3. QED
    BY <2>1, <2>2, PhasesNow DEF Phases
<1>7. Now[j] = "new" /\ \A i \in Job : i < j => Now[i] # "new"
  BY <1>1, <1>2, PhasesNow DEF Phases, Standing, Job
<1>8. QED
  BY <1>5, <1>6, <1>7 DEF Pool!Submit, Now

LEMMA RetryResubmits ==
  ASSUME IInv, NEW j \in Job, Retry(j)
  PROVE  Pool!Resubmit(j)
<1> DEFINE st == [state EXCEPT ![j] = "queued"]
<1>1. /\ state[j] \in {"error", "cancelled"} /\ j \notin restored
      /\ Pump(st, activeCount, {}) /\ restored' = restored /\ enqueued' = enqueued
  BY DEF Retry
<1>2. st \in [Job -> JobState] /\ st[j] = "queued"
      /\ \A i \in Job : i # j => st[i] = state[i]
  BY RunningShown DEF JobState
<1>3. {i \in Job : st[i] \in {"active", "conflict"}} = Running
  BY <1>1, <1>2, RunningShown
<1> HIDE DEF st
<1>4. Pool!Dispatch(Phases(st, enqueued))
  BY <1>1, <1>2, <1>3, RunningShown, PumpDispatches
<1>5. Phases(st, enqueued) = [Now EXCEPT ![j] = "waiting"]
  BY <1>2, PhasesNow DEF Phases, Standing
<1>6. Now[j] = "stopped"
  BY <1>1, PhasesNow DEF Phases, Standing
<1>7. QED
  BY <1>4, <1>5, <1>6 DEF Pool!Resubmit, Now

LEMMA EndRunFinishes ==
  ASSUME IInv, NEW j \in Job, NEW s \in Terminal, pc[j] # "off", EndRun(j, s)
  PROVE  \E t \in {"stopped", "final"} : Pool!Finish(j, t)
<1> DEFINE st == [state EXCEPT ![j] = s]
<1>1. /\ Pump(st, activeCount - 1, {j})
      /\ restored' = restored /\ enqueued' = enqueued
  BY DEF EndRun
<1>2. st \in [Job -> JobState] /\ st[j] = s
      /\ \A i \in Job : i # j => st[i] = state[i]
  BY RunningShown DEF JobState, Terminal
<1>3. j \in Running /\ state[j] \in {"active", "conflict"} /\ j \notin restored
  BY DEF Running, IInv, ShownAsRunning
<1>4. activeCount - 1 = Cardinality({i \in Job : st[i] \in {"active", "conflict"}})
  <2>1. {i \in Job : st[i] \in {"active", "conflict"}} = Running \ {j}
    BY <1>2, <1>3, RunningShown DEF Terminal
  <2>2. IsFiniteSet(Running) /\ Cardinality(Running) \in Nat
    BY JobsFinite DEF Running
  <2>3. Cardinality(Running \ {j}) = Cardinality(Running) - 1
    BY <1>3, <2>2, FS_RemoveElement
  <2>4. QED
    BY <2>1, <2>2, <2>3, RunningShown
<1> HIDE DEF st
<1>5. Pool!Dispatch(Phases(st, enqueued))
  BY <1>1, <1>2, <1>4, PumpDispatches
<1>6. Standing(st, enqueued, j) \in {"stopped", "final"}
  BY <1>2, <1>3 DEF Standing, Terminal
<1>7. Phases(st, enqueued) = [Now EXCEPT ![j] = Standing(st, enqueued, j)]
  BY <1>2, PhasesNow DEF Phases, Standing
<1>8. Now[j] = "running"
  BY <1>3, PhasesNow DEF Phases, Standing
<1>9. Pool!Finish(j, Standing(st, enqueued, j))
  BY <1>5, <1>7, <1>8 DEF Pool!Finish, Now
<1>10. QED
  BY <1>6, <1>9

LEMMA CancelWithdraws ==
  ASSUME IInv, NEW C \in SUBSET Job, CancelAll(C)
  PROVE  \E W \in SUBSET Job : Pool!Withdraw(W)
<1> DEFINE W == {j \in C : state[j] = "queued"}
<1>1. /\ state' = [j \in Job |-> IF j \in C /\ state[j] = "queued"
                                   THEN "cancelled" ELSE state[j]]
      /\ restored' = restored /\ enqueued' = enqueued
  BY DEF CancelAll, jobVars
<1>2. \A j \in Job : j \in restored => state[j] # "queued"
  BY DEF IInv, Listed, Terminal
<1>3. W \subseteq Pool!In(Now, "waiting")
  BY PhasesNow DEF Pool!In, Phases, Standing
<1>4. Now' = [j \in Job |-> IF j \in W THEN "stopped" ELSE Now[j]]
  <2>1. \A j \in Job : Standing(state', enqueued', j)
                         = IF j \in W THEN "stopped" ELSE Standing(state, enqueued, j)
    BY <1>1, <1>2 DEF Standing
  <2>2. QED
    BY <1>1, <2>1, PhasesNow, PhasesThen DEF Phases
<1>5. QED
  BY <1>3, <1>4 DEF Pool!Withdraw, Now

LEMMA ClearDrops ==
  ASSUME IInv, ClearFinished
  PROVE  Pool!Drop
<1>1. /\ state' = [j \in Job |-> IF state[j] \in Terminal THEN "absent" ELSE state[j]]
      /\ restored' = restored /\ enqueued' = enqueued
  BY DEF ClearFinished, jobVars
<1>2. /\ enqueued \in Int /\ \A j \in Job : j \in Int
      /\ \A j \in Job : state[j] \in Terminal => ~(j > enqueued)
      /\ \A j \in Job : state[j] \in JobState
  BY DEF IInv, Listed, Terminal, TypeOK, Job
<1>3. \A j \in Job : Standing(state', enqueued', j)
                       = IF Standing(state, enqueued, j) \in {"stopped", "final"}
                           THEN "dropped" ELSE Standing(state, enqueued, j)
  BY <1>1, <1>2 DEF Standing, Terminal, JobState
<1>4. Now' = [j \in Job |-> IF Now[j] \in {"stopped", "final"} THEN "dropped" ELSE Now[j]]
  BY <1>1, <1>3, PhasesNow, PhasesThen DEF Phases
<1>5. QED
  BY <1>4 DEF Pool!Drop, Now

LEMMA ReloadRestarts ==
  ASSUME IInv, Reload
  PROVE  Pool!Restart
<1>1. /\ state' = [j \in Job |-> IF state[j] \in Terminal \cup {"absent"}
                                   THEN state[j] ELSE "error"]
      /\ restored' = {j \in Job : state[j] # "absent"} /\ enqueued' = enqueued
  BY DEF Reload
<1>2. \A j \in Job : state[j] \in JobState
  BY DEF IInv, TypeOK
<1>3. \A j \in Job : PhaseOf(j)' = IF Standing(state, enqueued, j) \in {"new", "dropped"}
                                     THEN Standing(state, enqueued, j) ELSE "final"
  BY <1>1, <1>2 DEF PhaseOf, Standing, Terminal, JobState
<1>4. Now' = [j \in Job |-> IF Now[j] \in {"new", "dropped"} THEN Now[j] ELSE "final"]
  BY <1>3, PhasesNow DEF Now, Phases
<1>5. QED
  BY <1>4 DEF Pool!Restart, Now

(***************************************************************************)
(* A run that goes on leaves every job where it stands: it may only show a *)
(* conflict, or show that it is over.                                      *)
(***************************************************************************)
LEMMA GoesOnStutters ==
  ASSUME state \in [Job -> JobState], state' \in [Job -> JobState],
         restored' = restored, enqueued' = enqueued,
         \A j \in Job : \/ state'[j] = state[j]
                        \/ {state[j], state'[j]} \subseteq {"active", "conflict"}
  PROVE  Now' = Now
<1>1. \A j \in Job : Standing(state', enqueued', j) = Standing(state, enqueued, j)
  BY DEF Standing
<1>2. QED
  BY <1>1, PhasesNow, PhasesThen DEF Phases

-----------------------------------------------------------------------------
LEMMA StepsOfPool == IInv /\ IInv' /\ [Next]_vars => [Pool!PoolNext]_Now
<1> SUFFICES ASSUME IInv, IInv', [Next]_vars PROVE [Pool!PoolNext]_Now
  OBVIOUS
<1>1. CASE UNCHANGED vars
  BY <1>1 DEF vars, jobVars, poolVars, Now, PhaseOf
<1>2. CASE User
  <2>1. CASE \E j \in Job : Enqueue(j)
    BY <2>1, EnqueueSubmits DEF Pool!PoolNext
  <2>2. CASE \E j \in Job : Cancel(j)
    BY <2>2, CancelWithdraws DEF Cancel, Pool!PoolNext
  <2>3. CASE \E j \in Job : Retry(j)
    BY <2>3, RetryResubmits DEF Pool!PoolNext
  <2>4. CASE CancelAll(Job)
    BY <2>4, CancelWithdraws DEF Pool!PoolNext
  <2>5. CASE ClearFinished
    BY <2>5, ClearDrops DEF Pool!PoolNext
  <2>6. CASE Reload
    BY <2>6, ReloadRestarts DEF Pool!PoolNext
  <2>7. QED
    BY <1>2, <2>1, <2>2, <2>3, <2>4, <2>5, <2>6 DEF User
<1>3. ASSUME NEW j \in Job, Run(j) \/ \E c \in {"skip", "overwrite", "rename"} : Choose(j, c)
      PROVE  [Pool!PoolNext]_Now
  <2>1. CASE \E s \in Terminal : pc[j] # "off" /\ EndRun(j, s)
    BY <2>1, EndRunFinishes DEF Pool!PoolNext
  <2>2. CASE ~\E s \in Terminal : pc[j] # "off" /\ EndRun(j, s)
    <3>1. /\ restored' = restored /\ enqueued' = enqueued
          /\ \/ state' = state
             \/ /\ pc[j] # "off" /\ pc'[j] # "off"
                /\ \A i \in Job : i # j => state'[i] = state[i]
      <4>1. /\ ~StatFails(j) /\ ~ChooseCancelled(j) /\ ~ProbeFails(j) /\ ~ResumeStatFails(j)
            /\ ~OpenWriteFails(j) /\ ~Aborted(j) /\ ~CloseFails(j) /\ ~Done(j)
            /\ ~Choose(j, "skip")
        BY <2>2 DEF StatFails, ChooseCancelled, ProbeFails, ResumeStatFails, OpenWriteFails,
                    Aborted, CloseFails, Done, Choose, Terminal
      <4>2. CASE StatFound(j)
        BY <4>2 DEF StatFound, Await, jobVars, IInv, TypeOK
      <4>3. CASE ProbeFree(j)
        BY <4>3 DEF ProbeFree, Await, jobVars, IInv, TypeOK
      <4>4. CASE StatNotFound(j) \/ ProbeTaken(j)
        BY <4>4 DEF StatNotFound, ProbeTaken, jobVars, poolVars
      <4>5. CASE Copies(j)
        BY <4>5 DEF Copies, Opening, ResumeStat, OpenWrite, OpenRead, Read, WriteReturns,
                    CopyFails, CloseWrite, Settles, jobVars, poolVars
      <4>6. CASE Choose(j, "overwrite")
        BY <4>6 DEF Choose, Await, jobVars, IInv, TypeOK
      <4>7. CASE Choose(j, "rename")
        BY <4>7 DEF Choose, jobVars, poolVars
      <4>8. QED
        BY <1>3, <4>1, <4>2, <4>3, <4>4, <4>5, <4>6, <4>7 DEF Run, Copies, Opening
    <3>2. \A i \in Job : \/ state'[i] = state[i]
                         \/ {state[i], state'[i]} \subseteq {"active", "conflict"}
      BY <3>1 DEF IInv, ShownAsRunning
    <3>3. Now' = Now
      BY <3>1, <3>2, GoesOnStutters DEF IInv, TypeOK
    <3>4. QED
      BY <3>3
  <2>3. QED
    BY <2>1, <2>2
<1>4. QED
  BY <1>1, <1>2, <1>3 DEF Next, Answer

LEMMA InitOfPool == Init => Pool!PoolInit
<1> SUFFICES ASSUME Init PROVE Pool!PoolInit
  OBVIOUS
<1>1. \A j \in Job : PhaseOf(j) = "new"
  BY DEF Init, PhaseOf, Job
<1>2. QED
  BY <1>1 DEF Pool!PoolInit

\* The queue with all that its runs do at their awaits is a first-come first-served
\* pool: jobs start in the order they were enqueued, as soon as a slot is free, never
\* more than `concurrency` at a time, and what is final never runs again.
THEOREM QueueImplementsPool == Spec => ImplementsPool
<1>1. Init => Pool!PoolInit
  BY InitOfPool
<1>2. IInv /\ IInv' /\ [Next]_vars => [Pool!PoolNext]_Now
  BY StepsOfPool
<1>3. QED
  BY <1>1, <1>2, Inductive, PTL DEF Spec, ImplementsPool, Pool!PoolSpec, Now
=============================================================================
