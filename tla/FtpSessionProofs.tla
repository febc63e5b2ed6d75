--------------------------- MODULE FtpSessionProofs ---------------------------
(***************************************************************************)
(* The control connection stays in sync: proved for any number of calls.   *)
(***************************************************************************)
EXTENDS FtpSession, SequenceTheorems, TLAPS

(***************************************************************************)
(* The lock: a call that has begun and not ended holds it.                 *)
(***************************************************************************)
Waiting == {"idle", "lock"} \cup Over

OneHolder ==
  /\ \A i \in DOMAIN queue : /\ pc[queue[i]] \notin {"idle"} \cup Over
                             /\ i # 1 => pc[queue[i]] = "lock"
  /\ \A t \in Task : pc[t] \notin Waiting => queue # << >> /\ queue[1] = t
  /\ login # "done" => \A t \in Task : pc[t] = "idle"

(***************************************************************************)
(* What is under way of one command and of its reply, or replies.          *)
(***************************************************************************)
Is(r, t, cmd) == r.task = t /\ r.cmd = cmd
Ends226(r, t) == Is(r, t, "done") /\ (r.code \in {226, 250} => t \in accepted)

Silent == commands = << >> /\ replies = << >> /\ transfer = None

\* The transfer of t, whose reply 150 has been read.
Transferring(t) ==
  /\ commands = << >>
  /\ \/ replies = << >> /\ transfer.task = t /\ transfer.cmd \in Transfers
     \/ replies = << >> /\ transfer = None /\ ~up
     \/ Len(replies) = 1 /\ Ends226(replies[1], t) /\ transfer = None

Outstanding(t, cmd) ==
  \/ Len(commands) = 1 /\ Is(commands[1], t, cmd) /\ replies = << >> /\ transfer = None
  \/ Silent /\ ~up
  \/ /\ commands = << >> /\ Len(replies) = 1 /\ Is(replies[1], t, cmd)
     /\ replies[1].code # 150 /\ transfer = None
  \/ /\ commands = << >> /\ cmd \in Transfers /\ replies # << >> /\ Is(replies[1], t, cmd)
     /\ replies[1].code = 150
     /\ \/ Len(replies) = 1 /\ Is(transfer, t, cmd)
        \/ Len(replies) = 1 /\ transfer = None /\ ~up
        \/ Len(replies) = 2 /\ Ends226(replies[2], t) /\ transfer = None

Conversation ==
  IF login \in LoginCommand \cup {"greeting"} THEN Outstanding(0, login)
  ELSE /\ (\A t \in Task : pc[t] \in Waiting \cup {"connect"}) => Silent
       /\ \A t \in Task : pc[t] \in Command => Outstanding(t, pc[t])
       /\ \A t \in Task : pc[t] \in Closing \cup {"readAll", "done", "open", "leftOpen"} => Transferring(t)

InConversation == ~abandoned => Conversation /\ ~wrong

(***************************************************************************)
(* The way of an upload.                                                   *)
(***************************************************************************)
Uploads == {"upload", "resume"}

UploadPcs == {"idle", "lock", "SIZE", "EPSV", "PASV", "connect", "REST", "STOR", "open"}
               \cup Closing \cup Over

UploadPath ==
  \A t \in Task : kind[t] \in Uploads =>
    /\ pc[t] \in UploadPcs
    /\ pc[t] = "ok" /\ ~abandoned => t \in accepted

IInv == TypeOK /\ OneHolder /\ InConversation /\ UploadPath

-----------------------------------------------------------------------------
(***************************************************************************)
(* The steps of a task.                                                    *)
(***************************************************************************)
Pcs == Awaiting \cup Over \cup {"idle", "lock", "connect", "readAll", "open", "leftOpen"}

\* The holder goes on to x, or ends and releases the lock.
GoesTo(t, x) == /\ pc' = [pc EXCEPT ![t] = x]
                /\ queue' = IF x \in Over THEN Tail(queue) ELSE queue

\* It asks, or it does not.
Writes(t, x) == commands' = IF x \in Command THEN Append(commands, [task |-> t, cmd |-> x])
                            ELSE commands

LEMMA ProceedStep ==
  ASSUME NEW t \in Task, NEW step, Proceed(t, step)
  PROVE  \E x \in {step, "failed"} : /\ GoesTo(t, x) /\ Writes(t, x)
                                     /\ x \in Command => up
                                     /\ step \notin Command => x = step
<1>1. step \notin Over \/ step \notin Command
  BY DEF Over, Command, Transfers
<1>2. "failed" \in Over /\ "failed" \notin Command
  BY DEF Over, Command, Transfers
<1>3. CASE step \in Command
  <2>1. Ask(t, step)
    BY <1>1, <1>3 DEF Proceed
  <2>2. CASE up
    <3>1. GoesTo(t, step)
      BY <1>1, <1>3, <2>1, <2>2 DEF Ask, GoesTo
    <3>2. Writes(t, step)
      BY <1>3, <2>1, <2>2 DEF Ask, Writes
    <3>3. QED  BY <1>3, <2>2, <3>1, <3>2
  <2>3. CASE ~up
    <3>1. GoesTo(t, "failed") /\ Writes(t, "failed")
      BY <1>2, <2>1, <2>3 DEF Ask, End, Release, GoesTo, Writes
    <3>2. QED  BY <1>2, <1>3, <3>1
  <2>4. QED  BY <2>2, <2>3
<1>4. CASE step \in Over
  BY <1>1, <1>4 DEF Proceed, End, Release, GoesTo, Writes
<1>5. CASE step \notin Command /\ step \notin Over
  BY <1>5 DEF Proceed, Await, GoesTo, Writes
<1>6. QED  BY <1>3, <1>4, <1>5

LEMMA EndStep ==
  ASSUME NEW t \in Task, NEW outcome \in Over, End(t, outcome)
  PROVE  GoesTo(t, outcome) /\ Writes(t, outcome)
  BY DEF End, Release, GoesTo, Writes, Over, Command, Transfers

LEMMA AwaitStep ==
  ASSUME NEW t \in Task, NEW x, x \notin Over \cup Command, Await(t, x)
  PROVE  GoesTo(t, x) /\ Writes(t, x)
  BY DEF Await, GoesTo, Writes

\* What follows a reply.
LEMMA ThenStep ==
  ASSUME NEW t \in Task, NEW code, pc[t] \in Command \ {"QUIT"}, NEW step \in Then(t, code)
  PROVE  /\ step \in Command \cup Over \cup {"connect", "readAll", "open"}
         /\ step \in {"readAll", "open"} <=> code = 150 /\ pc[t] \in Transfers
         /\ kind[t] \in Uploads /\ pc[t] \in {"SIZE", "EPSV", "PASV", "REST", "STOR"} =>
              step \in {"EPSV", "PASV", "connect", "STOR", "open", "failed"}
  BY DEF Then, If, RemoveStep, Command, Transfers, Over, Uploads

LEMMA Records ==
  /\ \A t \in Task, x \in Command : [task |-> t, cmd |-> x] \in Calls
  /\ \A x \in LoginCommand : [task |-> 0, cmd |-> x] \in Calls
  /\ \A c \in Calls : \A code \in Nat : [task |-> c.task, cmd |-> c.cmd, code |-> code] \in Replies
  /\ \A c \in [task : Task, cmd : Transfers], code \in Nat :
       [task |-> c.task, cmd |-> "done", code |-> code] \in Replies
  /\ \A c \in Calls : Codes(c.cmd) \subseteq Nat /\ (150 \in Codes(c.cmd) => c.cmd \in Transfers)
  /\ \A c \in Calls : c.cmd \in Transfers => c \in [task : Task, cmd : Transfers]
<1>1. \A t \in Task, x \in Command : [task |-> t, cmd |-> x] \in Calls
  BY DEF Calls
<1>2. \A x \in LoginCommand : [task |-> 0, cmd |-> x] \in Calls
  BY DEF Calls
<1>3. \A c \in Calls : \A code \in Nat : [task |-> c.task, cmd |-> c.cmd, code |-> code] \in Replies
  BY DEF Calls, Replies
<1>4. \A c \in [task : Task, cmd : Transfers], code \in Nat :
       [task |-> c.task, cmd |-> "done", code |-> code] \in Replies
  BY DEF Replies
<1>5. \A cmd \in Command \cup LoginCommand : Codes(cmd) \subseteq Nat /\ (150 \in Codes(cmd) => cmd \in Transfers)
  BY DEF Codes, Command, LoginCommand, Transfers
<1>6. \A c \in Calls : c.cmd \in Command \cup LoginCommand
  BY DEF Calls
<1>7. \A c \in Calls : c.cmd \in Transfers => c \in [task : Task, cmd : Transfers]
  BY DEF Calls, LoginCommand, Transfers
<1>8. QED  BY <1>1, <1>2, <1>3, <1>4, <1>5, <1>6, <1>7

\* The places a task's own step leads to.
Moves(t) == /\ pc'[t] \in Pcs \ {"idle", "lock"} /\ GoesTo(t, pc'[t])
            /\ Writes(t, pc'[t]) \/ commands' = << >>

LEMMA MovesBy ==
  ASSUME NEW t \in Task, TypeOK, NEW x \in Pcs \ {"idle", "lock"}, GoesTo(t, x),
         Writes(t, x) \/ commands' = << >>
  PROVE  pc'[t] = x /\ Moves(t)
<1>1. pc'[t] = x
  BY DEF TypeOK, GoesTo
<1>2. QED  BY <1>1 DEF Moves

LEMMA MovesByProceed ==
  ASSUME NEW t \in Task, TypeOK, NEW step \in Pcs \ {"idle", "lock"}, Proceed(t, step)
  PROVE  /\ Moves(t) /\ pc'[t] \in {step, "failed"} /\ Writes(t, pc'[t])
         /\ pc'[t] \in Command => up
         /\ step \notin Command => pc'[t] = step
<1>1. PICK x \in {step, "failed"} : /\ GoesTo(t, x) /\ Writes(t, x)
                                    /\ x \in Command => up
                                    /\ step \notin Command => x = step
  BY ProceedStep
<1>2. x \in Pcs \ {"idle", "lock"}
  BY DEF Pcs, Over
<1>3. pc'[t] = x /\ Moves(t)
  BY <1>1, <1>2, MovesBy
<1>4. QED  BY <1>1, <1>3

LEMMA MovesByEnd ==
  ASSUME NEW t \in Task, TypeOK, NEW outcome \in Over, End(t, outcome)
  PROVE  Moves(t) /\ pc'[t] = outcome /\ Writes(t, pc'[t])
<1>1. outcome \in Pcs \ {"idle", "lock"}
  BY DEF Pcs, Over
<1>2. GoesTo(t, outcome) /\ Writes(t, outcome)
  BY EndStep
<1>3. QED  BY <1>1, <1>2, MovesBy

LEMMA MovesByAwait ==
  ASSUME NEW t \in Task, TypeOK,
         NEW x \in Closing \cup {"done", "connect", "readAll", "open", "leftOpen"}, Await(t, x)
  PROVE  Moves(t) /\ pc'[t] = x /\ Writes(t, pc'[t])
<1>1. x \in Pcs \ {"idle", "lock"} /\ x \notin Over \cup Command
  BY DEF Pcs, Awaiting, Closing, Over, Command, Transfers
<1>2. GoesTo(t, x) /\ Writes(t, x)
  BY <1>1, AwaitStep
<1>3. QED  BY <1>1, <1>2, MovesBy

\* Every step of a task is one of its own.
LEMMA TaskMoves ==
  ASSUME NEW t \in Task, TypeOK, OneHolder, Continue(t)
  PROVE  /\ pc[t] \notin {"idle"} \cup Over
         /\ queue # << >> /\ queue[1] = t
         /\ Moves(t)
         /\ kind' = kind /\ accepted' = accepted /\ (abandoned => abandoned')
<1>1. CASE Acquire(t)
  <2>1. First(t) \in Command
    BY DEF TypeOK, First, Kind, Command, Transfers
  <2>2. First(t) \in Pcs \ {"idle", "lock"}
    BY <2>1 DEF Pcs, Awaiting, Command, Transfers
  <2>3. Moves(t)
    BY <1>1, <2>2, MovesByProceed DEF Acquire
  <2>4. queue # << >> /\ queue[1] = t
    BY <1>1 DEF Acquire, Granted, TypeOK
  <2>5. QED  BY <1>1, <2>3, <2>4 DEF Acquire, Over, far, past
<1>2. CASE ~Acquire(t)
  <2>1. /\ pc[t] \notin Waiting
        /\ kind' = kind /\ accepted' = accepted /\ (abandoned => abandoned')
    BY <1>2 DEF Continue, Reply, Quit, Timeout, Connect, ReadAll, ReadAllFails, Listed, CopyEnds,
       CopyFails, CloseData, CommitFails, Final, TakeReply, Waiting, Over, Awaiting, Closing,
       Command, Transfers, far, past
  <2> SUFFICES Moves(t)
    BY <2>1 DEF OneHolder, Waiting
  <2>2. CASE Reply(t)
    <3>1. PICK step \in Then(t, Head(replies).code) : Proceed(t, step)
      BY <2>2 DEF Reply
    <3>2. step \in Pcs \ {"idle", "lock"}
      BY <2>2, ThenStep DEF Reply, Pcs, Awaiting, Over, Command, Transfers
    <3>3. QED  BY <3>1, <3>2, MovesByProceed
  <2>3. CASE Quit(t)
    BY <2>3, MovesBy DEF Quit, GoesTo, Release, Pcs, Over
  <2>4. CASE Timeout(t)
    BY <2>4, MovesByEnd DEF Timeout, Over
  <2>5. CASE Connect(t)
    <3>1. TransferCommands(t) \subseteq Pcs \ {"idle", "lock"}
      BY DEF TransferCommands, Pcs, Awaiting, Command, Transfers
    <3>2. CASE \E cmd \in TransferCommands(t) : Proceed(t, cmd)
      BY <3>1, <3>2, MovesByProceed
    <3>3. CASE End(t, "failed")
      BY <3>3, MovesByEnd DEF Over
    <3>4. QED  BY <2>5, <3>2, <3>3 DEF Connect
  <2>6. CASE ReadAll(t)
    BY <2>6, MovesByAwait DEF ReadAll
  <2>7. CASE ReadAllFails(t)
    BY <2>7, MovesByEnd DEF ReadAllFails, Over
  <2>8. CASE Listed(t)
    <3>1. \/ End(t, "ok") \/ End(t, "failed")
          \/ \E step \in {"DELE", "CWD", "RMD", "MLST"} : Proceed(t, step)
      BY <2>8 DEF Listed, RemoveStep
    <3>2. {"DELE", "CWD", "RMD", "MLST"} \subseteq Pcs \ {"idle", "lock"}
      BY DEF Pcs, Awaiting, Command, Transfers
    <3>3. QED  BY <3>1, <3>2, MovesByProceed, MovesByEnd DEF Over
  <2>9. CASE CopyEnds(t) \/ CopyFails(t)
    BY <2>9, MovesByAwait DEF CopyEnds, CopyFails, CloseData, Closing
  <2>10. CASE CommitFails(t)
    BY <2>10, MovesBy DEF CommitFails, GoesTo, Writes, Pcs, Over, Command, Transfers, net
  <2>11. CASE Final(t)
    BY <2>11, MovesByEnd DEF Final, Over
  <2>12. QED
    BY <1>2, <2>1, <2>2, <2>3, <2>4, <2>5, <2>6, <2>7, <2>8, <2>9, <2>10, <2>11
    DEF Continue
<1>3. QED  BY <1>1, <1>2

(***************************************************************************)
(* The lock has one holder.                                                *)
(***************************************************************************)
\* The holder ends, or goes on.
LEMMA HolderMoves ==
  ASSUME NEW t \in Task, TypeOK, OneHolder, pc[t] # "idle", login' = login,
         queue # << >>, queue[1] = t, Moves(t)
  PROVE  OneHolder' /\ queue' \in Seq(Task) /\ IsInjective(queue)'
<1> DEFINE x == pc'[t]
<1>1. /\ pc \in [Task -> Pcs] /\ queue \in Seq(Task) /\ IsInjective(queue)
      /\ pc' = [pc EXCEPT ![t] = x] /\ x \notin {"idle", "lock"}
      /\ queue' = IF x \in Over THEN Tail(queue) ELSE queue
  BY DEF TypeOK, Moves, GoesTo, Pcs
<1> HIDE DEF x
<1>2. \A u \in Task : pc'[u] = IF u = t THEN x ELSE pc[u]
  BY <1>1
<1>3. \A i \in DOMAIN queue : queue[i] \in Task /\ (queue[i] = t => i = 1)
  BY <1>1 DEF IsInjective
<1>4. login' # "done" => \A u \in Task : pc'[u] = "idle"
  BY DEF OneHolder
<1>5. CASE x \in Over
  <2>1. /\ Tail(queue) \in Seq(Task)
        /\ \A i \in DOMAIN Tail(queue) : i + 1 \in DOMAIN queue /\ Tail(queue)[i] = queue[i + 1]
                                         /\ i \in Nat
    BY <1>1
  <2>2. \A i \in DOMAIN Tail(queue) : pc'[Tail(queue)[i]] = "lock"
    BY <1>2, <1>3, <2>1 DEF OneHolder
  <2>3. \A u \in Task : pc'[u] \in Waiting
    BY <1>2, <1>3, <1>5 DEF OneHolder, Waiting
  <2>4. IsInjective(Tail(queue))
    BY <1>1, <2>1 DEF IsInjective
  <2>5. QED  BY <1>1, <1>4, <1>5, <2>1, <2>2, <2>3, <2>4 DEF OneHolder, IsInjective, Over
<1>6. CASE x \notin Over
  <2>1. queue' = queue
    BY <1>1, <1>6
  <2>2. \A i \in DOMAIN queue : /\ pc'[queue[i]] \notin {"idle"} \cup Over
                                /\ i # 1 => pc'[queue[i]] = "lock"
    BY <1>1, <1>2, <1>3, <1>6 DEF OneHolder
  <2>3. \A u \in Task : pc'[u] \notin Waiting => queue # << >> /\ queue[1] = u
    BY <1>2 DEF OneHolder
  <2>4. QED  BY <1>1, <1>4, <2>1, <2>2, <2>3 DEF OneHolder, IsInjective
<1>7. QED  BY <1>5, <1>6

\* A call joins the queue.
LEMMA CallQueues ==
  ASSUME NEW t \in Task, TypeOK, OneHolder, Call(t), login' = login
  PROVE  OneHolder' /\ queue' \in Seq(Task) /\ IsInjective(queue)'
<1>1. /\ pc \in [Task -> Pcs] /\ queue \in Seq(Task) /\ IsInjective(queue)
      /\ pc' = [pc EXCEPT ![t] = "lock"] /\ pc[t] = "idle" /\ login = "done"
      /\ queue' = Append(queue, t)
  BY DEF TypeOK, Call, Pcs
<1>2. \A u \in Task : pc'[u] = IF u = t THEN "lock" ELSE pc[u]
  BY <1>1
<1>3. \A i \in DOMAIN queue : queue[i] \in Task /\ queue[i] # t
  BY <1>1 DEF OneHolder
<1>4. /\ Append(queue, t) \in Seq(Task) /\ Append(queue, t) # << >>
      /\ Append(queue, t)[Len(queue) + 1] = t
      /\ \A i \in DOMAIN queue : Append(queue, t)[i] = queue[i] /\ i \in DOMAIN Append(queue, t)
      /\ \A i \in DOMAIN Append(queue, t) : i \in DOMAIN queue \/ i = Len(queue) + 1
  BY <1>1
<1>5. \A i \in DOMAIN queue' : /\ pc'[queue'[i]] \notin {"idle"} \cup Over
                               /\ i # 1 => pc'[queue'[i]] = "lock"
  BY <1>1, <1>2, <1>3, <1>4 DEF OneHolder, Over
<1>6. \A u \in Task : pc'[u] \notin Waiting => queue' # << >> /\ queue'[1] = u
  BY <1>1, <1>2, <1>4 DEF OneHolder, Waiting
<1>7. IsInjective(queue')
  BY <1>1, <1>3, <1>4 DEF IsInjective
<1>8. QED  BY <1>1, <1>4, <1>5, <1>6, <1>7 DEF OneHolder

(***************************************************************************)
(* Type correctness.                                                       *)
(***************************************************************************)
LoginStates == LoginCommand \cup {"upgrade", "done", "failed"}

LEMMA LoginSteps ==
  ASSUME Login
  PROVE  /\ login \in LoginCommand \cup {"greeting", "upgrade"}
         /\ login' \in LoginStates
         /\ IF login' \in LoginCommand
            THEN up /\ commands' = Append(commands, [task |-> 0, cmd |-> login'])
            ELSE commands' = commands
         /\ UNCHANGED <<secure, task, queue, data, far>>
         /\ replies' = replies \/ (replies # << >> /\ replies' = Tail(replies))
         /\ wrong' = wrong \/ LoginReply
         /\ abandoned => abandoned'
<1>1. PICK cmd \in LoginStates : LoginAsk(cmd)
  <2>1. \A code : LoginThen(code) \in LoginStates
    BY DEF LoginThen, LoggedIn, LoginStates, LoginCommand
  <2>2. CASE LoginReply
    BY <2>1, <2>2 DEF LoginReply
  <2>3. CASE LoginTimeout
    BY <2>3 DEF LoginTimeout, LoginStates, LoginCommand
  <2>4. CASE Upgrade
    BY <2>4 DEF Upgrade, LoginStates, LoginCommand
  <2>5. QED  BY <2>2, <2>3, <2>4 DEF Login
<1>2. /\ login' \in LoginStates
      /\ IF login' \in LoginCommand
         THEN up /\ commands' = Append(commands, [task |-> 0, cmd |-> login'])
         ELSE commands' = commands
  <2>1. "failed" \notin LoginCommand
    BY DEF LoginCommand
  <2>2. CASE up /\ cmd \in LoginCommand
    BY <1>1, <2>2 DEF LoginAsk, LoginStates
  <2>3. CASE ~(up /\ cmd \in LoginCommand)
    BY <1>1, <2>1, <2>3 DEF LoginAsk, LoginStates
  <2>4. QED  BY <2>2, <2>3
<1>3. CASE LoginReply
  BY <1>2, <1>3 DEF LoginReply
<1>4. CASE LoginTimeout
  BY <1>2, <1>4 DEF LoginTimeout
<1>5. CASE Upgrade
  BY <1>2, <1>5 DEF Upgrade, past
<1>6. QED  BY <1>3, <1>4, <1>5 DEF Login

\* What is under way stays what it is.
LEMMA NetTypes ==
  ASSUME TypeOK, Serve \/ Finish \/ ConnectionLost
  PROVE  /\ commands' \in Seq(Calls) /\ replies' \in Seq(Replies)
         /\ transfer' \in [task : Task, cmd : Transfers] \cup {None}
         /\ accepted' \subseteq Task /\ up' \in BOOLEAN
         /\ UNCHANGED <<task, queue, data, past>>
<1>1. /\ commands \in Seq(Calls) /\ replies \in Seq(Replies)
      /\ transfer \in [task : Task, cmd : Transfers] \cup {None}
      /\ accepted \subseteq Task /\ up \in BOOLEAN
  BY DEF TypeOK
<1>2. CASE Serve
  <2>1. commands # << >> /\ Head(commands) \in Calls /\ Tail(commands) \in Seq(Calls)
    BY <1>1, <1>2 DEF Serve
  <2>2. PICK code \in Codes(Head(commands).cmd) :
          /\ Reports(Head(commands), code)
          /\ transfer' = IF code = 150 THEN Head(commands) ELSE None
    BY <1>2 DEF Serve
  <2>3. code \in Nat /\ (code = 150 => Head(commands) \in [task : Task, cmd : Transfers])
    BY <2>1, <2>2, Records
  <2>4. replies' \in Seq(Replies)
    BY <1>1, <2>1, <2>2, <2>3, Records DEF Reports
  <2>5. QED  BY <1>1, <1>2, <2>1, <2>2, <2>3, <2>4 DEF Serve
<1>3. CASE Finish
  <2>1. transfer \in [task : Task, cmd : Transfers]
    BY <1>1, <1>3 DEF Finish
  <2>2. PICK code \in {226, 426} :
          /\ Reports([transfer EXCEPT !.cmd = "done"], code)
          /\ accepted' = IF code = 226 THEN accepted \cup {transfer.task} ELSE accepted
    BY <1>3 DEF Finish
  <2>3. replies' = Append(replies, [task |-> transfer.task, cmd |-> "done", code |-> code])
    <3>1. /\ [transfer EXCEPT !.cmd = "done"].task = transfer.task
          /\ [transfer EXCEPT !.cmd = "done"].cmd = "done"
      BY <2>1
    <3>2. QED  BY <2>2, <3>1 DEF Reports
  <2>4. replies' \in Seq(Replies)
    <3>1. transfer.task \in Task /\ code \in Nat
      BY <2>1
    <3>2. [task |-> transfer.task, cmd |-> "done", code |-> code] \in Replies
      BY <3>1 DEF Replies
    <3>3. QED  BY <1>1, <2>3, <3>2
  <2>5. accepted' \subseteq Task
    BY <1>1, <2>1, <2>2
  <2>6. transfer' = None /\ UNCHANGED <<commands, up>> /\ UNCHANGED <<task, queue, data, past>>
    BY <1>3 DEF Finish
  <2>7. QED  BY <1>1, <2>4, <2>5, <2>6
<1>4. CASE ConnectionLost
  <2>1. commands' = << >> /\ transfer' = None /\ up' = FALSE /\ UNCHANGED <<replies, accepted>>
        /\ UNCHANGED <<task, queue, data, past>>
    BY <1>4 DEF ConnectionLost
  <2>2. << >> \in Seq(Calls)
    OBVIOUS
  <2>3. QED  BY <1>1, <2>1, <2>2
<1>5. QED  BY <1>2, <1>3, <1>4

LEMMA TaskTypes ==
  ASSUME NEW t \in Task, TypeOK, OneHolder, Continue(t)
  PROVE  /\ commands' \in Seq(Calls) /\ replies' \in Seq(Replies)
         /\ transfer' \in [task : Task, cmd : Transfers] \cup {None}
         /\ plain' \in [Task -> BOOLEAN] /\ finding' \in [Task -> BOOLEAN]
         /\ left' \in [Task -> -1..MaxChildren]
         /\ data' \subseteq Task /\ up' \in BOOLEAN
         /\ wrong' \in BOOLEAN /\ abandoned' \in BOOLEAN
<1>1. /\ commands \in Seq(Calls) /\ replies \in Seq(Replies)
      /\ transfer \in [task : Task, cmd : Transfers] \cup {None}
      /\ plain \in [Task -> BOOLEAN] /\ finding \in [Task -> BOOLEAN]
      /\ left \in [Task -> -1..MaxChildren]
      /\ data \subseteq Task /\ up \in BOOLEAN
      /\ wrong \in BOOLEAN /\ abandoned \in BOOLEAN
  BY DEF TypeOK
<1>2. commands' \in Seq(Calls)
  <2>1. Moves(t)
    BY TaskMoves
  <2>2. CASE Writes(t, pc'[t]) /\ pc'[t] \in Command
    <3>1. [task |-> t, cmd |-> pc'[t]] \in Calls
      BY <2>2, Records
    <3>2. QED  BY <1>1, <2>2, <3>1 DEF Writes
  <2>3. CASE Writes(t, pc'[t]) /\ pc'[t] \notin Command
    BY <1>1, <2>3 DEF Writes
  <2>4. CASE commands' = << >>
    BY <2>4
  <2>5. QED  BY <2>1, <2>2, <2>3, <2>4 DEF Moves
<1>3. replies' = replies \/ (replies # << >> /\ replies' = Tail(replies))
  BY DEF Continue, Acquire, Reply, Quit, Timeout, Connect, ReadAll, ReadAllFails, Listed, CopyEnds,
     CopyFails, CloseData, CommitFails, Final, TakeReply, net
<1>4. transfer' \in {transfer, None} /\ up' \in BOOLEAN
  BY <1>1 DEF Continue, Acquire, Reply, Quit, Timeout, Connect, ReadAll, ReadAllFails, Listed, CopyEnds,
     CopyFails, CloseData, CommitFails, Final, far
<1>5. data' \subseteq Task
  BY <1>1 DEF Continue, Acquire, Reply, Quit, Timeout, Connect, ReadAll, ReadAllFails, Listed, CopyEnds,
     CopyFails, CloseData, CommitFails, Final, net
<1>6. wrong' \in BOOLEAN /\ abandoned' \in BOOLEAN
  BY <1>1 DEF Continue, Acquire, Reply, Quit, Timeout, Connect, ReadAll, ReadAllFails, Listed, CopyEnds,
     CopyFails, CloseData, CommitFails, Final, TakeReply, past
<1>7. plain' \in [Task -> BOOLEAN]
  <2>1. CASE Reply(t)
    <3>1. plain' = [plain EXCEPT ![t] = @ \/ (pc[t] = "MLSD" /\ Head(replies).code = 500)]
      BY <2>1 DEF Reply
    <3>2. QED  BY <1>1, <3>1
  <2>2. CASE Listed(t)
    <3>1. plain' = [plain EXCEPT ![t] = FALSE]
      BY <2>2 DEF Listed
    <3>2. QED  BY <1>1, <3>1
  <2>3. CASE ~Reply(t) /\ ~Listed(t)
    BY <1>1, <2>3 DEF Continue, Acquire, Quit, Timeout, Connect, ReadAll, ReadAllFails, CopyEnds,
       CopyFails, CloseData, CommitFails, Final
  <2>4. QED  BY <2>1, <2>2, <2>3
<1>8. finding' \in [Task -> BOOLEAN]
  <2>1. CASE Reply(t)
    <3>1. finding' = [finding EXCEPT ![t] = @ \/ (pc[t] = "MLST" /\ kind[t] # "mkdir" /\ Head(replies).code = 500)]
      BY <2>1 DEF Reply
    <3>2. QED  BY <1>1, <3>1
  <2>2. CASE Listed(t)
    <3>1. finding' = [finding EXCEPT ![t] = FALSE]
      BY <2>2 DEF Listed
    <3>2. QED  BY <1>1, <3>1
  <2>3. CASE ~Reply(t) /\ ~Listed(t)
    BY <1>1, <2>3 DEF Continue, Acquire, Quit, Timeout, Connect, ReadAll, ReadAllFails, CopyEnds,
       CopyFails, CloseData, CommitFails, Final
  <2>4. QED  BY <2>1, <2>2, <2>3
<1>9. left' \in [Task -> -1..MaxChildren]
  <2>1. \A code : LeftAfter(t, code) \in -1..MaxChildren
    BY <1>1, SessionAssumption DEF LeftAfter
  <2>2. 0..MaxChildren \subseteq -1..MaxChildren
    BY SessionAssumption
  <2>3. \A n \in -1..MaxChildren : [left EXCEPT ![t] = n] \in [Task -> -1..MaxChildren]
    BY <1>1
  <2>4. \/ left' = left
        \/ \E n \in -1..MaxChildren : left' = [left EXCEPT ![t] = n]
    BY <2>1, <2>2 DEF Continue, Acquire, Reply, Quit, Timeout, Connect, ReadAll, ReadAllFails, Listed,
       CopyEnds, CopyFails, CloseData, CommitFails, Final
  <2>5. QED  BY <1>1, <2>3, <2>4
<1>10. replies' \in Seq(Replies)
  <2>1. replies \in Seq(Replies)
    BY DEF TypeOK
  <2>2. QED  BY <1>3, <2>1
<1>11. transfer' \in [task : Task, cmd : Transfers] \cup {None}
  BY <1>1, <1>4
<1>12. QED  BY <1>2, <1>4, <1>5, <1>6, <1>7, <1>8, <1>9, <1>10, <1>11

LEMMA TypeAndLockKept ==
  ASSUME TypeOK, OneHolder, [Next]_vars
  PROVE  TypeOK' /\ OneHolder'
<1>1. CASE Login
  <2>1. commands' \in Seq(Calls)
    <3>1. IF login' \in LoginCommand
          THEN commands' = Append(commands, [task |-> 0, cmd |-> login'])
          ELSE commands' = commands
      BY <1>1, LoginSteps
    <3>2. login' \in LoginCommand => [task |-> 0, cmd |-> login'] \in Calls
      BY Records
    <3>3. commands \in Seq(Calls)
      BY DEF TypeOK
    <3>4. QED  BY <3>1, <3>2, <3>3
  <2>2. replies' \in Seq(Replies)
    <3>1. replies' = replies \/ (replies # << >> /\ replies' = Tail(replies))
      BY <1>1, LoginSteps
    <3>2. replies \in Seq(Replies)
      BY DEF TypeOK
    <3>3. QED  BY <3>1, <3>2
  <2>3. wrong' \in BOOLEAN /\ abandoned' \in BOOLEAN
    BY <1>1 DEF Login, LoginReply, LoginTimeout, Upgrade, past, TypeOK
  <2>4. /\ login' \in LoginCommand \cup {"greeting", "upgrade", "done", "failed"}
        /\ login # "done"
        /\ UNCHANGED <<secure, task, queue, data, far>>
    BY <1>1, LoginSteps DEF LoginStates, LoginCommand
  <2>5. TypeOK'
    BY <2>1, <2>2, <2>3, <2>4 DEF TypeOK, task, far, Calls, Replies
  <2>6. OneHolder'
    BY <2>4 DEF OneHolder, task
  <2>7. QED  BY <2>5, <2>6
<1>2. ASSUME NEW t \in Task, Call(t), UNCHANGED <<secure, login>>
      PROVE  TypeOK' /\ OneHolder'
  <2>1. OneHolder' /\ queue' \in Seq(Task) /\ IsInjective(queue)'
    BY <1>2, CallQueues
  <2>2. pc' \in [Task -> Awaiting \cup Over \cup {"idle", "lock", "connect", "readAll", "open",
                     "leftOpen"}]
    BY <1>2 DEF Call, TypeOK
  <2>3. kind' \in [Task -> Kind]
    BY <1>2, SessionAssumption DEF Call, TypeOK
  <2>4. QED  BY <1>2, <2>1, <2>2, <2>3 DEF Call, TypeOK, net, far, past
<1>3. ASSUME NEW t \in Task, Continue(t), UNCHANGED <<secure, login>>
      PROVE  TypeOK' /\ OneHolder'
  <2>1. /\ pc[t] \notin {"idle"} \cup Over /\ queue # << >> /\ queue[1] = t /\ Moves(t)
        /\ kind' = kind /\ accepted' = accepted
    BY <1>3, TaskMoves
  <2>2. OneHolder' /\ queue' \in Seq(Task) /\ IsInjective(queue)'
    BY <1>3, <2>1, HolderMoves
  <2>3. pc' \in [Task -> Awaiting \cup Over \cup {"idle", "lock", "connect", "readAll", "open",
                     "leftOpen"}]
    BY <2>1 DEF TypeOK, Moves, GoesTo, Pcs
  <2>4. /\ commands' \in Seq(Calls) /\ replies' \in Seq(Replies)
        /\ transfer' \in [task : Task, cmd : Transfers] \cup {None}
        /\ plain' \in [Task -> BOOLEAN] /\ finding' \in [Task -> BOOLEAN]
        /\ left' \in [Task -> -1..MaxChildren]
        /\ data' \subseteq Task /\ up' \in BOOLEAN
        /\ wrong' \in BOOLEAN /\ abandoned' \in BOOLEAN
    BY <1>3, TaskTypes
  <2>5. QED  BY <1>3, <2>1, <2>2, <2>3, <2>4 DEF TypeOK
<1>4. CASE (Serve \/ Finish \/ ConnectionLost) /\ UNCHANGED <<secure, login>>
  <2>1. /\ commands' \in Seq(Calls) /\ replies' \in Seq(Replies)
        /\ transfer' \in [task : Task, cmd : Transfers] \cup {None}
        /\ accepted' \subseteq Task /\ up' \in BOOLEAN
        /\ UNCHANGED <<task, queue, data, past>>
    BY <1>4, NetTypes
  <2>2. TypeOK'
    BY <1>4, <2>1 DEF TypeOK, task, past
  <2>3. OneHolder'
    BY <1>4, <2>1 DEF OneHolder, task
  <2>4. QED  BY <2>2, <2>3
<1>5. CASE UNCHANGED vars
  <2>1. TypeOK'
    BY <1>5 DEF TypeOK, vars, task, net, far, past
  <2>2. OneHolder'
    BY <1>5 DEF OneHolder, vars, task
  <2>3. QED  BY <2>1, <2>2
<1>6. QED  BY <1>1, <1>2, <1>3, <1>4, <1>5 DEF Next

(***************************************************************************)
(* The server's steps, and the loss of the connection, carry on what is    *)
(* under way.                                                              *)
(***************************************************************************)
LEMMA Short ==
  ASSUME NEW S, NEW s \in Seq(S)
  PROVE  /\ Len(s) = 1 => s # << >> /\ Head(s) = s[1] /\ s[1] \in S /\ Tail(s) = << >>
         /\ Len(s) = 2 => /\ s # << >> /\ Head(s) = s[1] /\ s[1] \in S
                          /\ Len(Tail(s)) = 1 /\ Tail(s)[1] = s[2]
<1>1. Len(s) \in {1, 2} => s # << >> /\ Head(s) = s[1] /\ s[1] \in S
  OBVIOUS
<1>2. Len(s) = 1 => Tail(s) = << >>
  <2>1. ASSUME Len(s) = 1  PROVE Tail(s) \in Seq(S) /\ Len(Tail(s)) = 0
    BY <2>1
  <2>2. QED  BY <2>1, EmptySeq
<1>3. ASSUME Len(s) = 2  PROVE Len(Tail(s)) = 1 /\ Tail(s)[1] = s[2]
  <2>1. s # << >>
    BY <1>3
  <2>2. QED  BY <1>3, <2>1, HeadTailProperties
<1>4. QED  BY <1>1, <1>2, <1>3

LEMMA NetTalk ==
  ASSUME TypeOK, Serve \/ Finish \/ ConnectionLost,
         NEW t, NEW cmd \in Command \cup LoginCommand \cup {"greeting"}
  PROVE  /\ Silent => Silent'
         /\ Outstanding(t, cmd) => Outstanding(t, cmd)'
         /\ Transferring(t) => Transferring(t)'
<1>1. /\ commands \in Seq(Calls) /\ replies \in Seq(Replies)
      /\ transfer \in [task : Task, cmd : Transfers] \cup {None}
  BY DEF TypeOK
<1>2. CASE Serve
  <2>1. commands # << >> /\ transfer = None /\ commands' = Tail(commands)
    BY <1>2 DEF Serve
  <2>2. ~Silent /\ ~Transferring(t)
    BY <2>1 DEF Silent, Transferring
  <2>3. ASSUME Outstanding(t, cmd)  PROVE Outstanding(t, cmd)'
    <3>1. Len(commands) = 1 /\ Is(commands[1], t, cmd) /\ replies = << >>
      BY <2>1, <2>3 DEF Outstanding, Silent
    <3>2. Head(commands) = commands[1] /\ commands[1] \in Calls /\ Tail(commands) = << >>
      BY <1>1, <3>1, Short
    <3>3. PICK code \in Codes(cmd) :
            /\ replies' = Append(replies, [task |-> t, cmd |-> cmd, code |-> code])
            /\ transfer' = IF code = 150 THEN commands[1] ELSE None
      BY <1>2, <3>1, <3>2 DEF Serve, Reports, Is
    <3>4. code = 150 => cmd \in Transfers
      BY <3>1, <3>2, <3>3, Records DEF Is
    <3>5. /\ Len(replies') = 1 /\ replies' # << >>
          /\ replies'[1] = [task |-> t, cmd |-> cmd, code |-> code]
      BY <3>1, <3>3
    <3>6. Is(replies'[1], t, cmd) /\ replies'[1].code = code
      BY <3>5 DEF Is
    <3>7. QED  BY <2>1, <3>1, <3>2, <3>3, <3>4, <3>5, <3>6 DEF Outstanding, Is
  <2>4. QED  BY <2>2, <2>3
<1>3. CASE Finish
  <2>1. transfer # None /\ transfer' = None /\ UNCHANGED <<commands, up>>
    BY <1>3 DEF Finish
  <2>2. PICK code \in {226, 426} :
          /\ Reports([transfer EXCEPT !.cmd = "done"], code)
          /\ accepted' = IF code = 226 THEN accepted \cup {transfer.task} ELSE accepted
    BY <1>3 DEF Finish
  <2> DEFINE r == [task |-> transfer.task, cmd |-> "done", code |-> code]
  <2>3. replies' = Append(replies, r)
    <3>1. /\ [transfer EXCEPT !.cmd = "done"].task = transfer.task
          /\ [transfer EXCEPT !.cmd = "done"].cmd = "done"
      BY <1>1, <2>1
    <3>2. QED  BY <2>2, <3>1 DEF Reports
  <2>4. r.task = transfer.task /\ r.cmd = "done" /\ (r.code \in {226, 250} => r.task \in accepted')
    BY <2>2
  <2> HIDE DEF r
  <2>5. /\ Len(replies') = Len(replies) + 1 /\ replies' # << >>
        /\ replies'[Len(replies) + 1] = r
        /\ Len(replies) = 1 => replies'[1] = replies[1]
    BY <1>1, <2>3
  <2>6. ~Silent
    BY <2>1 DEF Silent
  <2>7. ASSUME Transferring(t)  PROVE Transferring(t)'
    <3>1. commands = << >> /\ replies = << >> /\ transfer.task = t
      BY <2>1, <2>7 DEF Transferring
    <3>2. Len(replies') = 1 /\ replies'[1] = r
      BY <2>5, <3>1
    <3>3. Ends226(replies[1], t)'
      BY <2>4, <3>1, <3>2 DEF Ends226, Is
    <3>4. QED  BY <2>1, <3>1, <3>2, <3>3 DEF Transferring
  <2>8. ASSUME Outstanding(t, cmd)  PROVE Outstanding(t, cmd)'
    <3>1. /\ commands = << >> /\ cmd \in Transfers /\ Is(replies[1], t, cmd)
          /\ replies[1].code = 150 /\ Len(replies) = 1 /\ transfer.task = t
      BY <2>1, <2>8 DEF Outstanding, Silent, Is
    <3>2. Len(replies') = 2 /\ replies'[2] = r /\ replies'[1] = replies[1]
      BY <2>5, <3>1
    <3>3. Ends226(replies[2], t)'
      BY <2>4, <3>1, <3>2 DEF Ends226, Is
    <3>4. Is(replies'[1], t, cmd) /\ replies'[1].code = 150
      BY <3>1, <3>2
    <3>5. QED  BY <2>1, <2>5, <3>1, <3>2, <3>3, <3>4 DEF Outstanding
  <2>9. QED  BY <2>6, <2>7, <2>8
<1>4. CASE ConnectionLost
  <2>1. /\ commands' = << >> /\ transfer' = None /\ up' = FALSE
        /\ replies' = replies /\ accepted' = accepted
    BY <1>4 DEF ConnectionLost
  <2>2. Silent => Silent'
    BY <2>1 DEF Silent
  <2>3. Transferring(t) => Transferring(t)'
    BY <2>1 DEF Transferring, Ends226
  <2>4. Outstanding(t, cmd) => Outstanding(t, cmd)'
    BY <2>1 DEF Outstanding, Silent, Ends226
  <2>5. QED  BY <2>2, <2>3, <2>4
<1>5. QED  BY <1>2, <1>3, <1>4

(***************************************************************************)
(* A task's steps.                                                         *)
(***************************************************************************)
Talk(t) ==
  /\ pc[t] \in Waiting \cup {"connect"} => Silent
  /\ pc[t] \in Command => Outstanding(t, pc[t])
  /\ pc[t] \in Closing \cup {"readAll", "done", "open", "leftOpen"} => Transferring(t)

\* With nothing else under way the holder asks, or it ends.
LEMMA AfterSilence ==
  ASSUME NEW t \in Task, pc'[t] \in Command \cup Over \cup {"connect"},
         commands = << >>, replies' = << >>, transfer' = None, Writes(t, pc'[t])
  PROVE  Talk(t)'
<1>1. CASE pc'[t] \in Command
  <2>1. commands' = <<[task |-> t, cmd |-> pc'[t]]>>
    BY <1>1 DEF Writes
  <2>2. Len(commands') = 1 /\ Is(commands'[1], t, pc'[t])
    BY <2>1 DEF Is
  <2>3. Outstanding(t, pc[t])'
    BY <2>2 DEF Outstanding
  <2>4. pc'[t] \notin Waiting \cup {"connect"} \cup Closing \cup {"readAll", "done", "open", "leftOpen"}
    BY <1>1 DEF Command, Transfers, Waiting, Over, Closing
  <2>5. QED  BY <2>3, <2>4 DEF Talk
<1>2. CASE pc'[t] \notin Command
  <2>1. Silent'
    BY <1>2 DEF Writes, Silent
  <2>2. pc'[t] \notin Closing \cup {"readAll", "done", "open", "leftOpen"}
    BY <1>2 DEF Over, Closing
  <2>3. QED  BY <1>2, <2>1, <2>2 DEF Talk
<1>3. QED  BY <1>1, <1>2

\* Everybody else waits for the lock.
LEMMA OnlyHolder ==
  ASSUME NEW t \in Task, OneHolder, queue # << >>, queue[1] = t, login = "done"
  PROVE  (\A u \in Task \ {t} : pc[u] \in Waiting) /\ (Conversation <=> Talk(t))
<1>1. \A u \in Task \ {t} : pc[u] \in Waiting
  BY DEF OneHolder
<1>2. login \notin LoginCommand \cup {"greeting"}
  BY DEF LoginCommand
<1>3. \A x \in Waiting : x \notin Command \cup Closing \cup {"readAll", "done", "open", "leftOpen"}
  BY DEF Waiting, Over, Command, Transfers, Closing
<1>4. QED  BY <1>1, <1>2, <1>3 DEF Conversation, Talk

\* A reply that is read is the holder's own, and what is left then.
LEMMA OwnReply ==
  ASSUME NEW t \in Task, TypeOK, Talk(t), replies # << >>,
         pc[t] \in Command \cup Closing \cup {"done"}
  PROVE  /\ Mine(t) /\ commands = << >>
         /\ \/ Head(replies).code # 150 /\ Tail(replies) = << >> /\ transfer = None
            \/ /\ Head(replies).code = 150 /\ pc[t] \in Transfers
               /\ \/ Tail(replies) = << >> /\ Is(transfer, t, pc[t])
                  \/ Tail(replies) = << >> /\ transfer = None /\ ~up
                  \/ /\ Len(Tail(replies)) = 1 /\ Ends226(Tail(replies)[1], t)
                     /\ transfer = None
            \/ /\ pc[t] \in Closing \cup {"done"} /\ Ends226(Head(replies), t)
               /\ Tail(replies) = << >> /\ transfer = None
<1>1. replies \in Seq(Replies)
  BY DEF TypeOK
<1>2. CASE pc[t] \in Command
  <2>1. Outstanding(t, pc[t])
    BY <1>2 DEF Talk
  <2>2. Len(replies) \in {1, 2} /\ Is(replies[1], t, pc[t]) /\ commands = << >>
    BY <2>1 DEF Outstanding, Silent
  <2>3. Head(replies) = replies[1]
    BY <1>1, <2>2, Short
  <2>4. Mine(t)
    BY <1>2, <2>2, <2>3 DEF Mine, Is
  <2>5. CASE Len(replies) = 1
    <3>1. Tail(replies) = << >>
      BY <1>1, <2>5, Short
    <3>2. QED  BY <2>1, <2>2, <2>3, <2>4, <2>5, <3>1 DEF Outstanding, Silent
  <2>6. CASE Len(replies) = 2
    <3>1. Len(Tail(replies)) = 1 /\ Tail(replies)[1] = replies[2]
      BY <1>1, <2>6, Short
    <3>2. /\ pc[t] \in Transfers /\ replies[1].code = 150
          /\ Ends226(replies[2], t) /\ transfer = None
      BY <2>1, <2>6 DEF Outstanding, Silent
    <3>3. QED  BY <2>2, <2>3, <2>4, <3>1, <3>2
  <2>7. QED  BY <2>2, <2>5, <2>6
<1>3. CASE pc[t] \in Closing \cup {"done"}
  <2>1. Transferring(t)
    BY <1>3 DEF Talk
  <2>2. /\ commands = << >> /\ Len(replies) = 1 /\ Ends226(replies[1], t) /\ transfer = None
    BY <2>1 DEF Transferring
  <2>3. Head(replies) = replies[1] /\ Tail(replies) = << >>
    BY <1>1, <2>2, Short
  <2>4. pc[t] \notin Command
    BY <1>3 DEF Closing, Command, Transfers
  <2>5. Mine(t)
    BY <2>2, <2>3, <2>4 DEF Mine, Ends226, Is
  <2>6. QED  BY <1>3, <2>2, <2>3, <2>5
<1>4. QED  BY <1>2, <1>3

LEMMA TaskTalks ==
  ASSUME NEW t \in Task, TypeOK, OneHolder, Continue(t), Talk(t), ~wrong, ~abandoned'
  PROVE  Talk(t)' /\ ~wrong'
<1>1. CASE Acquire(t)
  <2>1. Silent /\ UNCHANGED <<replies, transfer, wrong>>
    BY <1>1 DEF Acquire, Talk, Waiting, far, past
  <2>2. First(t) \in Command
    BY DEF TypeOK, First, Kind, Command, Transfers
  <2>3. First(t) \in Pcs \ {"idle", "lock"}
    BY <2>2 DEF Pcs, Awaiting, Command, Transfers
  <2>4. pc'[t] \in {First(t), "failed"} /\ Writes(t, pc'[t])
    BY <1>1, <2>3, MovesByProceed DEF Acquire
  <2>5. Talk(t)'
    BY <2>1, <2>2, <2>4, AfterSilence DEF Silent, Over
  <2>6. QED  BY <2>1, <2>5
<1>2. CASE Reply(t)
  <2>1. /\ pc[t] \in Command \ {"QUIT"} /\ replies # << >> /\ replies' = Tail(replies)
        /\ wrong' = (wrong \/ ~Mine(t)) /\ UNCHANGED <<transfer, up, accepted>>
    BY <1>2 DEF Reply, TakeReply, far
  <2>2. PICK step \in Then(t, Head(replies).code) : Proceed(t, step)
    BY <1>2 DEF Reply
  <2>3. /\ step \in Command \cup Over \cup {"connect", "readAll", "open"}
        /\ step \in {"readAll", "open"} <=> Head(replies).code = 150 /\ pc[t] \in Transfers
    BY <2>1, <2>2, ThenStep
  <2>4. step \in Pcs \ {"idle", "lock"}
    BY <2>3 DEF Pcs, Awaiting, Over, Command, Transfers
  <2>5. /\ pc'[t] \in {step, "failed"} /\ Writes(t, pc'[t])
        /\ step \notin Command => pc'[t] = step
    BY <2>2, <2>4, MovesByProceed
  <2>6. pc[t] \notin Closing \cup {"done"}
    BY <2>1 DEF Closing, Command, Transfers
  <2>7. Mine(t) /\ commands = << >>
    BY <2>1, OwnReply
  <2>8. CASE Head(replies).code # 150
    <3>1. Tail(replies) = << >> /\ transfer = None
      BY <2>1, <2>6, <2>8, OwnReply
    <3>2. pc'[t] \in Command \cup Over \cup {"connect"}
      BY <2>3, <2>5, <2>8 DEF Over
    <3>3. Talk(t)'
      BY <2>1, <2>5, <2>7, <3>1, <3>2, AfterSilence
    <3>4. QED  BY <2>1, <2>7, <3>3
  <2>9. CASE Head(replies).code = 150
    <3>1. /\ pc[t] \in Transfers
          /\ \/ Tail(replies) = << >> /\ Is(transfer, t, pc[t])
             \/ Tail(replies) = << >> /\ transfer = None /\ ~up
             \/ Len(Tail(replies)) = 1 /\ Ends226(Tail(replies)[1], t) /\ transfer = None
      BY <2>1, <2>6, <2>9, OwnReply
    <3>2. pc'[t] \in {"readAll", "open"}
      BY <2>3, <2>5, <2>9, <3>1 DEF Command, Transfers
    <3>3. pc'[t] \notin Command \cup Waiting \cup {"connect"}
      BY <3>2 DEF Command, Transfers, Waiting, Over
    <3>4. commands' = << >>
      BY <2>5, <2>7, <3>3 DEF Writes
    <3>5. Transferring(t)'
      BY <2>1, <3>1, <3>4 DEF Transferring, Is, Ends226
    <3>6. QED  BY <2>1, <2>7, <3>3, <3>5 DEF Talk
  <2>10. QED  BY <2>8, <2>9
<1>3. CASE Quit(t)
  <2>1. pc[t] = "QUIT" /\ pc[t] \in Command /\ pc[t] \notin Transfers \cup Closing \cup {"done"}
    BY <1>3 DEF Quit, Command, Transfers, Closing
  <2>2. /\ pc'[t] = "ok" /\ commands' = << >> /\ transfer' = None
        /\ \/ replies # << >> /\ replies' = Tail(replies) /\ wrong' = (wrong \/ ~Mine(t))
           \/ replies = << >> /\ UNCHANGED <<replies, wrong>>
    BY <1>3 DEF Quit, TakeReply, past, TypeOK
  <2>3. replies # << >> => Mine(t) /\ Tail(replies) = << >>
    BY <2>1, OwnReply
  <2>4. Silent'
    BY <2>2, <2>3 DEF Silent
  <2>5. pc'[t] \notin Command \cup Closing \cup {"readAll", "done", "open", "leftOpen"}
    BY <2>2 DEF Command, Transfers, Closing
  <2>6. Talk(t)'
    BY <2>4, <2>5 DEF Talk
  <2>7. ~wrong'
    <3>1. CASE replies # << >>
      <4>1. replies' = Tail(replies) /\ wrong' = (wrong \/ ~Mine(t))
        BY <2>2, <3>1
      <4>2. QED  BY <2>3, <3>1, <4>1
    <3>2. CASE replies = << >>
      BY <2>2, <3>2
    <3>3. QED  BY <3>1, <3>2
  <2>8. QED  BY <2>6, <2>7
<1>4. CASE Timeout(t) \/ ReadAllFails(t)
  BY <1>4 DEF Timeout, ReadAllFails
<1>5. CASE Connect(t)
  <2>1. Silent /\ UNCHANGED <<replies, transfer, wrong>>
    BY <1>5 DEF Connect, Talk, far, past
  <2>2. TransferCommands(t) \subseteq Command /\ TransferCommands(t) \subseteq Pcs \ {"idle", "lock"}
    BY DEF TransferCommands, Pcs, Awaiting, Command, Transfers
  <2>3. pc'[t] \in Command \cup Over /\ Writes(t, pc'[t])
    <3>1. CASE \E cmd \in TransferCommands(t) : Proceed(t, cmd)
      BY <2>2, <3>1, MovesByProceed DEF Over
    <3>2. CASE End(t, "failed")
      BY <3>2, MovesByEnd DEF Over
    <3>3. QED  BY <1>5, <3>1, <3>2 DEF Connect
  <2>4. Talk(t)'
    BY <2>1, <2>3, AfterSilence DEF Silent
  <2>5. QED  BY <2>1, <2>4
<1>6. CASE ReadAll(t) \/ CopyEnds(t) \/ CopyFails(t) \/ CommitFails(t)
  <2>1. /\ pc[t] \in {"readAll", "open"} /\ pc'[t] \in Closing \cup {"done", "leftOpen"}
        /\ UNCHANGED <<commands, replies, transfer, up, accepted, wrong>>
    BY <1>6 DEF ReadAll, CopyEnds, CopyFails, CommitFails, CloseData, Await, Closing, net, far, past,
       TypeOK
  <2>2. Transferring(t)
    BY <2>1 DEF Talk
  <2>3. Transferring(t)'
    BY <2>1, <2>2 DEF Transferring, Ends226
  <2>4. pc'[t] \notin Command \cup Waiting \cup {"connect"}
    BY <2>1 DEF Command, Transfers, Waiting, Over, Closing
  <2>5. QED  BY <2>1, <2>3, <2>4 DEF Talk
<1>7. CASE Listed(t) \/ Final(t)
  <2>1. /\ pc[t] \in Closing \cup {"done"} /\ replies # << >> /\ replies' = Tail(replies)
        /\ wrong' = (wrong \/ ~Mine(t)) /\ transfer' = transfer
    BY <1>7 DEF Listed, Final, TakeReply, far
  <2>2. pc[t] \notin Transfers
    BY <2>1 DEF Closing, Transfers
  <2>3. Mine(t) /\ commands = << >> /\ Tail(replies) = << >> /\ transfer = None
    BY <2>1, <2>2, OwnReply
  <2>4. pc'[t] \in Command \cup Over /\ Writes(t, pc'[t])
    <3>1. \/ End(t, "ok") \/ End(t, "failed")
          \/ \E step \in {"DELE", "CWD", "RMD", "MLST"} : Proceed(t, step)
      BY <1>7 DEF Listed, Final, RemoveStep
    <3>2. /\ {"DELE", "CWD", "RMD", "MLST"} \subseteq Pcs \ {"idle", "lock"}
          /\ {"DELE", "CWD", "RMD", "MLST"} \subseteq Command
      BY DEF Pcs, Awaiting, Command, Transfers
    <3>3. QED  BY <3>1, <3>2, MovesByProceed, MovesByEnd DEF Over
  <2>5. Talk(t)'
    BY <2>1, <2>3, <2>4, AfterSilence
  <2>6. QED  BY <2>1, <2>3, <2>5
<1>8. QED  BY <1>1, <1>2, <1>3, <1>4, <1>5, <1>6, <1>7 DEF Continue

(***************************************************************************)
(* The login's steps.                                                      *)
(***************************************************************************)
LEMMA LoginTalks ==
  ASSUME TypeOK, OneHolder, Login, Conversation, ~wrong, ~abandoned'
  PROVE  Conversation' /\ ~wrong'
<1>1. /\ login \in LoginCommand \cup {"greeting", "upgrade"}
      /\ login' \in LoginStates
      /\ IF login' \in LoginCommand
         THEN up /\ commands' = Append(commands, [task |-> 0, cmd |-> login'])
         ELSE commands' = commands
      /\ UNCHANGED <<secure, task, queue, data, far>>
  BY LoginSteps
<1>2. \A t \in Task : pc'[t] = "idle"
  <2>1. login # "done"
    BY <1>1 DEF LoginCommand
  <2>2. QED  BY <1>1, <2>1 DEF OneHolder, task
<1>3. /\ commands = << >> /\ replies' = << >> /\ transfer' = None
      /\ ~wrong'
  <2>1. CASE LoginReply
    <3>1. /\ login \in LoginCommand \cup {"greeting"} /\ replies # << >>
          /\ replies' = Tail(replies) /\ wrong' = (wrong \/ Head(replies).cmd # login)
      BY <2>1 DEF LoginReply
    <3>2. login \notin Transfers
      BY <3>1 DEF LoginCommand, Transfers
    <3>3. /\ commands = << >> /\ Len(replies) = 1 /\ Is(replies[1], 0, login)
          /\ transfer = None
      BY <3>1, <3>2 DEF Conversation, Outstanding, Silent
    <3>4. Head(replies) = replies[1] /\ Tail(replies) = << >>
      BY <3>3, Short DEF TypeOK
    <3>5. QED  BY <1>1, <3>1, <3>3, <3>4 DEF Is, far
  <2>2. CASE LoginTimeout
    BY <2>2 DEF LoginTimeout
  <2>3. CASE Upgrade
    <3>1. login = "upgrade" /\ UNCHANGED <<replies, wrong>>
      BY <2>3 DEF Upgrade, past
    <3>2. \A t \in Task : pc[t] \in Waiting \cup {"connect"}
      BY <1>1, <1>2 DEF task, Waiting
    <3>3. Silent
      BY <3>1, <3>2 DEF Conversation, LoginCommand
    <3>4. QED  BY <1>1, <3>1, <3>3 DEF Silent, far
  <2>4. QED  BY <2>1, <2>2, <2>3 DEF Login
<1>4. CASE login' \in LoginCommand
  <2>1. commands' = <<[task |-> 0, cmd |-> login']>>
    BY <1>1, <1>3, <1>4
  <2>2. Len(commands') = 1 /\ Is(commands'[1], 0, login')
    BY <2>1 DEF Is
  <2>3. Outstanding(0, login)'
    BY <1>3, <2>2 DEF Outstanding
  <2>4. QED  BY <1>3, <1>4, <2>3 DEF Conversation
<1>5. CASE login' \notin LoginCommand
  <2>1. Silent'
    BY <1>1, <1>3, <1>5 DEF Silent
  <2>2. login' # "greeting"
    BY <1>1 DEF LoginStates, LoginCommand
  <2>3. "idle" \notin Command \cup Closing \cup {"readAll", "done", "open", "leftOpen"}
    BY DEF Command, Transfers, Closing
  <2>4. QED  BY <1>2, <1>3, <1>5, <2>1, <2>2, <2>3 DEF Conversation
<1>6. QED  BY <1>4, <1>5

(***************************************************************************)
(* The conversation as a whole.                                            *)
(***************************************************************************)
LEMMA ConversationKept ==
  ASSUME TypeOK, OneHolder, InConversation, [Next]_vars
  PROVE  InConversation'
<1>1. SUFFICES ASSUME ~abandoned'  PROVE Conversation' /\ ~wrong'
  BY DEF InConversation
<1>2. TypeOK' /\ OneHolder'
  BY TypeAndLockKept
<1>3. CASE Login
  <2>1. ~abandoned
    BY <1>1, <1>3, LoginSteps
  <2>2. QED  BY <1>1, <1>3, <2>1, LoginTalks DEF InConversation
<1>4. ASSUME NEW t \in Task, Call(t), UNCHANGED <<secure, login>>
      PROVE  Conversation' /\ ~wrong'
  <2>1. /\ login = "done" /\ pc[t] = "idle" /\ pc' = [pc EXCEPT ![t] = "lock"]
        /\ UNCHANGED <<commands, replies, transfer, up, accepted, wrong, abandoned>>
    BY <1>4 DEF Call, net, far, past
  <2>2. Conversation /\ ~wrong
    BY <1>1, <2>1 DEF InConversation
  <2>3. \A u \in Task : pc'[u] = IF u = t THEN "lock" ELSE pc[u]
    BY <2>1 DEF TypeOK
  <2>4. Silent' = Silent
    BY <2>1 DEF Silent
  <2>5. \A u \in Task : Transferring(u)' = Transferring(u)
    BY <2>1 DEF Transferring, Ends226
  <2>6. \A u \in Task : pc'[u] = pc[u] => (Outstanding(u, pc[u])' <=> Outstanding(u, pc[u]))
    BY <2>1 DEF Outstanding, Silent, Ends226
  <2>7. {"idle", "lock"} \subseteq Waiting
    BY DEF Waiting
  <2>8. "lock" \notin Command \cup Closing \cup {"readAll", "done", "open", "leftOpen"}
    BY DEF Command, Transfers, Closing
  <2>9. login' = "done" /\ "done" \notin LoginCommand \cup {"greeting"}
    BY <1>4, <2>1 DEF LoginCommand
  <2>10. QED
    BY <2>1, <2>2, <2>3, <2>4, <2>5, <2>6, <2>7, <2>8, <2>9 DEF Conversation
<1>5. ASSUME NEW t \in Task, Continue(t), UNCHANGED <<secure, login>>
      PROVE  Conversation' /\ ~wrong'
  <2>1. /\ pc[t] \notin {"idle"} \cup Over /\ queue # << >> /\ queue[1] = t /\ Moves(t)
        /\ abandoned => abandoned'
    BY <1>5, TaskMoves
  <2>2. login = "done"
    BY <2>1 DEF OneHolder
  <2>3. Conversation /\ ~wrong
    BY <1>1, <2>1 DEF InConversation
  <2>4. (\A u \in Task \ {t} : pc[u] \in Waiting) /\ Talk(t)
    BY <2>1, <2>2, <2>3, OnlyHolder
  <2>5. Talk(t)' /\ ~wrong'
    BY <1>1, <1>5, <2>3, <2>4, TaskTalks
  <2>6. \A u \in Task \ {t} : pc'[u] \in Waiting
    BY <2>1, <2>4 DEF TypeOK, Moves, GoesTo
  <2>7. \A x \in Waiting : x \notin Command \cup Closing \cup {"readAll", "done", "open", "leftOpen"}
    BY DEF Waiting, Over, Command, Transfers, Closing
  <2>8. login' = "done" /\ "done" \notin LoginCommand \cup {"greeting"}
    BY <1>5, <2>2 DEF LoginCommand
  <2>9. QED  BY <2>5, <2>6, <2>7, <2>8 DEF Conversation, Talk
<1>6. CASE (Serve \/ Finish \/ ConnectionLost) /\ UNCHANGED <<secure, login>>
  <2>1. pc' = pc /\ wrong' = wrong /\ abandoned' = abandoned /\ login' = login
    BY <1>6, NetTypes DEF task, past
  <2>2. Conversation /\ ~wrong
    BY <1>1, <2>1 DEF InConversation
  <2>3. CASE login \in LoginCommand \cup {"greeting"}
    <3>1. Outstanding(0, login)
      BY <2>2, <2>3 DEF Conversation
    <3>2. Outstanding(0, login)'
      BY <1>6, <2>1, <2>3, <3>1, NetTalk DEF Outstanding
    <3>3. QED  BY <2>1, <2>2, <2>3, <3>2 DEF Conversation
  <2>4. CASE login \notin LoginCommand \cup {"greeting"}
    <3>1. Silent => Silent'
      <4>1. "SIZE" \in Command
        BY DEF Command
      <4>2. QED  BY <1>6, <4>1, NetTalk
    <3>2. \A t \in Task : Transferring(t) => Transferring(t)'
      <4>1. "SIZE" \in Command
        BY DEF Command
      <4>2. QED  BY <1>6, <4>1, NetTalk
    <3>3. \A t \in Task : pc[t] \in Command /\ Outstanding(t, pc[t]) => Outstanding(t, pc[t])'
      BY <1>6, <2>1, NetTalk DEF Outstanding
    <3>4. QED  BY <2>1, <2>2, <2>4, <3>1, <3>2, <3>3 DEF Conversation
  <2>5. QED  BY <2>3, <2>4
<1>7. CASE UNCHANGED vars
  BY <1>1, <1>7 DEF vars, task, net, far, past, InConversation, Conversation, Outstanding, Transferring,
     Silent, Ends226
<1>8. QED  BY <1>3, <1>4, <1>5, <1>6, <1>7 DEF Next

(***************************************************************************)
(* The way of an upload.                                                   *)
(***************************************************************************)
\* Its next place; and only a reply that ends its transfer well makes it succeed.
LEMMA UploadMoves ==
  ASSUME NEW t \in Task, TypeOK, OneHolder, InConversation, Continue(t), kind[t] \in Uploads,
         pc[t] \in UploadPcs
  PROVE  pc'[t] \in UploadPcs /\ (pc'[t] = "ok" /\ ~abandoned' => t \in accepted')
<1>1. /\ pc[t] \notin {"idle"} \cup Over /\ queue # << >> /\ queue[1] = t
      /\ accepted' = accepted /\ (abandoned => abandoned')
  BY TaskMoves
<1>2. ~abandoned' => Talk(t)
  <2>1. login = "done"
    BY <1>1 DEF OneHolder
  <2>2. QED  BY <1>1, <2>1, OnlyHolder DEF InConversation
<1>3. kind[t] \notin {"download", "quit", "list", "stat", "remove", "mkdir", "rename"}
  BY DEF Uploads
<1>4. CASE Acquire(t)
  <2>1. First(t) \in {"SIZE", "EPSV"}
    BY <1>3 DEF First, Uploads
  <2>2. {"SIZE", "EPSV"} \subseteq Pcs \ {"idle", "lock"}
    BY DEF Pcs, Awaiting, Command
  <2>3. pc'[t] \in {First(t), "failed"}
    BY <1>4, <2>1, <2>2, MovesByProceed DEF Acquire
  <2>4. QED  BY <2>1, <2>3 DEF UploadPcs, Over
<1>5. CASE Reply(t)
  <2>1. pc[t] \in Command \ {"QUIT"}
    BY <1>5 DEF Reply
  <2>2. pc[t] \in {"SIZE", "EPSV", "PASV", "REST", "STOR"}
    BY <2>1 DEF UploadPcs, Command, Transfers, Closing, Over
  <2>3. PICK step \in Then(t, Head(replies).code) : Proceed(t, step)
    BY <1>5 DEF Reply
  <2>4. step \in {"EPSV", "PASV", "connect", "STOR", "open", "failed"}
    BY <2>1, <2>2, <2>3, ThenStep
  <2>5. step \in Pcs \ {"idle", "lock"}
    BY <2>4 DEF Pcs, Awaiting, Command, Transfers, Over
  <2>6. pc'[t] \in {step, "failed"}
    BY <2>3, <2>5, MovesByProceed
  <2>7. QED  BY <2>4, <2>6 DEF UploadPcs, Over
<1>6. CASE Quit(t)
  BY <1>6 DEF Quit, UploadPcs, Closing, Over
<1>7. CASE Timeout(t)
  <2>1. pc'[t] = "failed"
    BY <1>3, <1>7, MovesByEnd DEF Timeout, Over
  <2>2. QED  BY <2>1 DEF UploadPcs, Over
<1>8. CASE Connect(t)
  <2>1. TransferCommands(t) \subseteq {"STOR", "REST"}
    BY <1>3 DEF TransferCommands, Lists
  <2>2. {"STOR", "REST"} \subseteq Pcs \ {"idle", "lock"}
    BY DEF Pcs, Awaiting, Command, Transfers
  <2>3. pc'[t] \in {"STOR", "REST", "failed"}
    BY <1>8, <2>1, <2>2, MovesByProceed, MovesByEnd DEF Connect, Over
  <2>4. QED  BY <2>3 DEF UploadPcs, Over
<1>9. CASE ReadAll(t) \/ ReadAllFails(t) \/ Listed(t) \/ CommitFails(t)
  BY <1>3, <1>9 DEF ReadAll, ReadAllFails, Listed, CommitFails, UploadPcs, Closing, Over
<1>10. CASE CopyEnds(t) \/ CopyFails(t)
  <2>1. pc'[t] \in Closing
    BY <1>10 DEF CopyEnds, CopyFails, CloseData, Await, Closing, TypeOK
  <2>2. QED  BY <2>1 DEF UploadPcs, Closing
<1>11. CASE Final(t)
  <2>1. pc[t] \in Closing /\ replies # << >>
    BY <1>11 DEF Final, TakeReply
  <2>2. pc'[t] = IF pc[t] = "final" /\ (kind[t] = "download" \/ Head(replies).code \in {226, 250})
                 THEN "ok" ELSE "failed"
    BY <1>11, MovesByEnd DEF Final, Over
  <2>3. ~abandoned' => Ends226(Head(replies), t)
    <3>1. ASSUME ~abandoned'  PROVE Ends226(replies[1], t) /\ Len(replies) = 1
      BY <1>2, <2>1, <3>1 DEF Talk, Transferring
    <3>2. QED  BY <3>1, Short DEF TypeOK
  <2>4. pc'[t] = "ok" => Head(replies).code \in {226, 250}
    BY <1>3, <2>2
  <2>5. QED  BY <1>1, <2>2, <2>3, <2>4 DEF Ends226, UploadPcs, Over
<1>12. QED
  BY <1>4, <1>5, <1>6, <1>7, <1>8, <1>9, <1>10, <1>11 DEF Continue

LEMMA UploadPathKept ==
  ASSUME TypeOK, OneHolder, InConversation, UploadPath, [Next]_vars
  PROVE  UploadPath'
<1>1. CASE Login
  <2>1. UNCHANGED <<task, far>> /\ (abandoned => abandoned')
    BY <1>1, LoginSteps
  <2>2. QED  BY <2>1 DEF UploadPath, task, far
<1>2. ASSUME NEW t \in Task, Call(t), UNCHANGED <<secure, login>>
      PROVE  UploadPath'
  <2>1. /\ pc'[t] = "lock" /\ accepted' = accepted /\ abandoned' = abandoned
        /\ \A u \in Task \ {t} : pc'[u] = pc[u] /\ kind'[u] = kind[u]
    BY <1>2 DEF Call, far, past, TypeOK
  <2>2. QED  BY <2>1 DEF UploadPath, UploadPcs
<1>3. ASSUME NEW t \in Task, Continue(t), UNCHANGED <<secure, login>>
      PROVE  UploadPath'
  <2>1. /\ Moves(t) /\ kind' = kind /\ accepted' = accepted /\ (abandoned => abandoned')
    BY <1>3, TaskMoves
  <2>2. \A u \in Task \ {t} : pc'[u] = pc[u]
    BY <2>1 DEF Moves, GoesTo, TypeOK
  <2>3. kind[t] \in Uploads => /\ pc'[t] \in UploadPcs
                               /\ pc'[t] = "ok" /\ ~abandoned' => t \in accepted'
    BY <1>3, UploadMoves DEF UploadPath, UploadPcs
  <2>4. QED  BY <2>1, <2>2, <2>3 DEF UploadPath, UploadPcs
<1>4. CASE (Serve \/ Finish \/ ConnectionLost) /\ UNCHANGED <<secure, login>>
  <2>1. UNCHANGED <<task, past>>
    BY <1>4, NetTypes
  <2>2. accepted \subseteq accepted'
    BY <1>4 DEF Serve, Finish, ConnectionLost
  <2>3. QED  BY <2>1, <2>2 DEF UploadPath, task, past
<1>5. CASE UNCHANGED vars
  BY <1>5 DEF vars, task, far, past, UploadPath
<1>6. QED  BY <1>1, <1>2, <1>3, <1>4, <1>5 DEF Next

-----------------------------------------------------------------------------
(***************************************************************************)
(* The theorems.                                                           *)
(***************************************************************************)
LEMMA InitIInv == Init => IInv
<1>1. SUFFICES ASSUME Init  PROVE IInv
  OBVIOUS
<1>2. PICK code \in {220, 421} : replies = <<[task |-> 0, cmd |-> "greeting", code |-> code]>>
  BY <1>1 DEF Init
<1>3. replies \in Seq(Replies)
  <2>1. [task |-> 0, cmd |-> "greeting", code |-> code] \in Replies
    BY DEF Replies
  <2>2. QED  BY <1>2, <2>1
<1>4. << >> \in Seq(Calls) /\ << >> \in Seq(Task) /\ IsInjective(<< >>)
  BY DEF IsInjective
<1>5. left \in [Task -> -1..MaxChildren]
  <2>1. -1 \in -1..MaxChildren
    BY SessionAssumption
  <2>2. QED  BY <1>1, <2>1 DEF Init
<1>6. kind \in [Task -> Kind] /\ \A t \in Task : kind[t] = "stat"
  BY <1>1 DEF Init, Kind
<1>7. /\ plain \in [Task -> BOOLEAN] /\ finding \in [Task -> BOOLEAN]
      /\ pc \in [Task -> Pcs] /\ \A t \in Task : pc[t] = "idle"
  BY <1>1 DEF Init, Pcs
<1>8. TypeOK
  <2>1. /\ secure \in BOOLEAN /\ login = "greeting" /\ queue = << >> /\ commands = << >>
        /\ transfer = None /\ data = {} /\ accepted = {}
        /\ up = TRUE /\ wrong = FALSE /\ abandoned = FALSE
    BY <1>1 DEF Init
  <2>2. {up, wrong, abandoned} \subseteq BOOLEAN /\ {plain, finding} \subseteq [Task -> BOOLEAN]
    BY <1>7, <2>1
  <2>3. QED  BY <1>3, <1>4, <1>5, <1>6, <1>7, <2>1, <2>2 DEF TypeOK, Pcs
<1>9. OneHolder
  BY <1>1, <1>7 DEF Init, OneHolder, Waiting
<1>10. InConversation
  <2>1. Len(replies) = 1 /\ Is(replies[1], 0, "greeting") /\ replies[1].code # 150
    BY <1>2 DEF Is
  <2>2. Outstanding(0, "greeting")
    BY <1>1, <2>1 DEF Init, Outstanding
  <2>3. QED  BY <1>1, <2>2 DEF Init, InConversation, Conversation
<1>11. UploadPath
  BY <1>6 DEF UploadPath, Uploads
<1>12. QED  BY <1>8, <1>9, <1>10, <1>11 DEF IInv

\* The inductive invariant holds throughout.
LEMMA Inductive == Spec => []IInv
<1>1. Init => IInv
  BY InitIInv
<1>2. IInv /\ [Next]_vars => IInv'
  BY TypeAndLockKept, ConversationKept, UploadPathKept DEF IInv
<1>3. QED  BY <1>1, <1>2, PTL DEF Spec

\* Whatever is queued, asked and answered is what the connection can carry, and nobody is
\* twice in the queue for the lock (withLock, FtpConnection.ts:160-182).
THEOREM TypeCorrect == Spec => []TypeOK
<1>1. IInv => TypeOK
  BY DEF IInv
<1>2. QED  BY <1>1, Inductive, PTL

\* Every reply that is read answers the command it was read for, as long as nobody has
\* given up a reply (FtpFS.ts:248-249).
THEOREM RepliesAnswerTheirCommand == Spec => []InSync
<1>1. IInv => InSync
  BY DEF IInv, InConversation, InSync
<1>2. QED  BY <1>1, Inductive, PTL

\* A writer's close() that succeeds has read the server's answer to its own transfer
\* (FtpFS.ts).
THEOREM UploadsAreConfirmed == Spec => []UploadConfirmed
<1>1. IInv => UploadConfirmed
  BY DEF IInv, UploadPath, Uploads, UploadConfirmed
<1>2. QED  BY <1>1, Inductive, PTL
=============================================================================
