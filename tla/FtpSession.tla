----------------------------- MODULE FtpSession -----------------------------
(***************************************************************************)
(* src/ftp/FtpConnection.ts and src/ftp/FtpFS.ts: calls of the file system *)
(* over one FTP control connection, which takes one command and one        *)
(* transfer at a time, so every call runs under a lock.  The handles of    *)
(* openRead and openWrite keep it until transferFile of                    *)
(* src/transfer/engine.ts closes them.                                     *)
(*                                                                         *)
(* connectFtp() logs in before anybody else has the connection.  Then each *)
(* task is one call, or one copy.  login and pc[t] are the command whose   *)
(* reply is awaited, or what else is waited for.  Replies carry whose      *)
(* command they answer, which the code cannot see; the login is task 0.    *)
(***************************************************************************)
EXTENDS Integers, Sequences, Functions

CONSTANTS Task,
          Kinds,        \* what a task may be
          MaxChildren   \* bound: entries of a removed directory; they are files

Kind == {"list", "stat", "mkdir", "rename", "remove", "download", "upload", "resume", "quit"}

ASSUME SessionAssumption ==
  /\ 0 \notin Task
  /\ Kinds \subseteq Kind /\ MaxChildren \in Nat

VARIABLES
  secure,    \* creds.secure: explicit FTPS
  login,
  kind, pc,
  plain,     \* its listing falls back to LIST
  finding,   \* its listing is for stat(), where MLST is not supported
  left,      \* a removed directory's entries still to remove; -1 outside of one
  queue,     \* the lock: who waits for it, its holder first
  commands,  \* on their way to the server
  replies,   \* on their way to the client
  data,      \* tasks with an open data connection
  transfer,  \* the transfer that the server is busy with
  up,        \* the control connection
  accepted,  \* history: uploads that the server has completed
  wrong,     \* history: somebody took a reply to another command for his own
  abandoned  \* history: somebody gave up waiting for a reply that may still come

task == <<kind, pc, plain, finding, left>>
net  == <<commands, replies, data>>
far  == <<transfer, up, accepted>>
past == <<wrong, abandoned>>
vars == <<secure, login, task, queue, net, far, past>>

Transfers == {"MLSD", "LIST", "RETR", "STOR"}

\* What a server may answer, one code of each class that the code distinguishes.
Codes(cmd) ==
  CASE cmd \in {"AUTH_TLS", "AUTH_SSL"} -> {234, 500}
    [] cmd = "USER" -> {230, 331, 530}  [] cmd = "PASS" -> {202, 230, 530}
    [] cmd \in {"PBSZ", "PROT", "TYPE", "OPTS"} -> {200, 500}
    [] cmd = "PWD" -> {257, 550}
    [] cmd = "SIZE" -> {213, 550}       [] cmd = "CWD" -> {250, 550}
    [] cmd = "EPSV" -> {229, 500}       [] cmd = "PASV" -> {227, 500}
    [] cmd = "MLST" -> {250, 500, 550}  [] cmd = "MKD" -> {257, 550}
    [] cmd \in {"RNFR", "REST"} -> {350, 550}
    [] cmd \in {"RNTO", "DELE", "RMD"} -> {250, 550}
    [] cmd = "MLSD" -> {150, 500, 550}
    [] cmd \in {"LIST", "RETR", "STOR"} -> {150, 550}
    [] cmd = "QUIT" -> {221}
Command == {"SIZE", "CWD", "EPSV", "PASV", "MLST", "MKD", "RNFR", "REST", "RNTO", "DELE", "RMD",
            "QUIT"} \cup Transfers
LoginCommand == {"AUTH_TLS", "AUTH_SSL", "USER", "PASS", "PBSZ", "PROT", "TYPE", "OPTS", "PWD"}
None == [task |-> 0, cmd |-> "none"]

\* close(), or abort() and a close() whose result nobody wants, wait for the reply
\* that completes a transfer; so does a listing, in "done".
Closing == {"final", "finalFailed"}
Awaiting == Command \cup Closing \cup {"done"}
Over == {"ok", "failed"}
Lists(t) == kind[t] \in {"list", "stat", "remove"}

-----------------------------------------------------------------------------
(***************************************************************************)
(* connectFtp(), which holds the lock throughout.                          *)
(***************************************************************************)
LoginAsk(cmd) ==
  IF up /\ cmd \in LoginCommand
  THEN login' = cmd /\ commands' = Append(commands, [task |-> 0, cmd |-> cmd])
  ELSE /\ login' = IF cmd \in LoginCommand THEN "failed" ELSE cmd
       /\ commands' = commands

LoggedIn == IF secure THEN "PBSZ" ELSE "TYPE"

LoginThen(code) ==
  CASE login = "greeting" /\ code = 220 -> IF secure THEN "AUTH_TLS" ELSE "USER"
    [] login \in {"AUTH_TLS", "AUTH_SSL"} /\ code = 234 -> "upgrade"
    [] login = "AUTH_TLS" /\ code # 234 -> "AUTH_SSL"
    [] login = "USER" /\ code \in {331, 332} -> "PASS"
    [] login = "USER" /\ code = 230 -> LoggedIn
    [] login = "PASS" /\ code \in {202, 230} -> LoggedIn
    [] login = "PBSZ" /\ code = 200 -> "PROT"
    [] login = "PROT" /\ code = 200 -> "TYPE"
    [] login = "TYPE" /\ code = 200 -> "OPTS"
    [] login = "OPTS" -> "PWD"
    [] login = "PWD"  -> "done"
    [] OTHER -> "failed"

LoginReply ==
  /\ login \in LoginCommand \cup {"greeting"} /\ replies # <<>>
  /\ LoginAsk(LoginThen(Head(replies).code))
  /\ replies' = Tail(replies)
  /\ wrong' = (wrong \/ Head(replies).cmd # login)
  /\ UNCHANGED <<secure, task, queue, data, far, abandoned>>

\* readReply() throws.  Only OPTS may fail.
LoginTimeout ==
  /\ login \in LoginCommand \cup {"greeting"} /\ replies = <<>>
  /\ LoginAsk(IF login = "OPTS" THEN "PWD" ELSE "failed")
  /\ abandoned' = TRUE
  /\ UNCHANGED <<secure, task, queue, replies, data, far, wrong>>

\* The TLS handshake, and the certificate.
Upgrade ==
  /\ login = "upgrade"
  /\ \E next \in {"USER", "failed"} : LoginAsk(next)
  /\ UNCHANGED <<secure, task, queue, replies, data, far, past>>

-----------------------------------------------------------------------------
(***************************************************************************)
(* The lock.                                                               *)
(***************************************************************************)

\* Slip: a failed call keeps the lock.
ReleaseIfOk(t, outcome) ==
  queue' = IF outcome = "ok" THEN Tail(queue) ELSE queue

\* Only the holder releases: the promise that the next waits for is his.
Release(t, outcome) == queue' = Tail(queue)

\* Every call ends with the release of its lock (finally).
End(t, outcome) ==
  pc' = [pc EXCEPT ![t] = outcome] /\ Release(t, outcome) /\ UNCHANGED commands

Call(t) ==
  /\ login = "done" /\ pc[t] = "idle" /\ pc' = [pc EXCEPT ![t] = "lock"]
  /\ \E k \in Kinds : kind' = [kind EXCEPT ![t] = k]
  /\ queue' = Append(queue, t)
  /\ UNCHANGED <<plain, finding, left, net, far, past>>

Granted(t) == queue # <<>> /\ Head(queue) = t

-----------------------------------------------------------------------------
(***************************************************************************)
(* Commands and their replies.                                             *)
(***************************************************************************)

\* command(), up to the await of its reply.  Without a connection the write throws.
Ask(t, cmd) ==
  IF up THEN /\ pc' = [pc EXCEPT ![t] = cmd]
             /\ commands' = Append(commands, [task |-> t, cmd |-> cmd])
             /\ queue' = queue
  ELSE End(t, "failed")

Await(t, what) == pc' = [pc EXCEPT ![t] = what] /\ UNCHANGED <<queue, commands>>

\* What comes next in a call: a command, an end, or something else to wait for.
Proceed(t, step) ==
  CASE step \in Command -> Ask(t, step)
    [] step \in Over    -> End(t, step)
    [] OTHER            -> Await(t, step)

First(t) ==
  CASE kind[t] \in {"stat", "remove"} -> "MLST" [] kind[t] = "list"   -> "CWD"
    [] kind[t] = "mkdir"              -> "MKD"  [] kind[t] = "rename" -> "RNFR"
    [] kind[t] \in {"download", "resume"} -> "SIZE"
    [] kind[t] = "upload"             -> "EPSV" [] kind[t] = "quit"   -> "QUIT"

Acquire(t) ==
  /\ pc[t] = "lock" /\ Granted(t)
  /\ Proceed(t, First(t))
  /\ UNCHANGED <<kind, plain, finding, left, replies, data, far, past>>

If(test, step) == IF test THEN {step} ELSE {"failed"}

\* What remove() does with what stat() has found: a file, or a directory.  The entries
\* of a directory are files.
RemoveStep(t) == IF left[t] = -1 THEN {"DELE", "CWD"} ELSE {"DELE"}

\* The steps that may follow a reply.
Then(t, code) ==
  LET cmd == pc[t]
  IN CASE cmd = "CWD"  -> If(code = 250 /\ kind[t] # "mkdir", "EPSV")
       [] cmd = "EPSV" -> {IF code = 229 THEN "connect" ELSE "PASV"}
       [] cmd = "PASV" -> If(code = 227, "connect")
       [] cmd = "REST" -> If(code = 350, IF kind[t] = "download" THEN "RETR" ELSE "STOR")
       [] cmd = "SIZE" -> IF kind[t] # "mkdir" THEN {"EPSV"} ELSE If(code # 213, "CWD")
       [] cmd = "MKD"  -> IF code = 257 THEN {"ok"} ELSE If(code = 550, "MLST")
       [] cmd = "RNFR" -> If(code = 350, "RNTO")
       [] cmd \in {"RNTO", "RMD"} -> If(code = 250, "ok")
       [] cmd = "DELE" -> If(code = 250, CASE left[t] = -1 -> "ok" [] left[t] = 1 -> "RMD"
                                           [] OTHER -> "MLST")
       [] cmd = "MLST" ->
            CASE kind[t] = "mkdir" -> If(code \notin {250, 550}, "SIZE")
              [] kind[t] = "stat"  -> IF code = 250 THEN {"ok"} ELSE If(code = 500, "CWD")
              [] OTHER -> IF code = 250 THEN RemoveStep(t) ELSE If(code = 500, "CWD")
       [] cmd = "MLSD" -> IF code = 150 THEN {"readAll"} ELSE If(code = 500, "EPSV")
       [] cmd = "LIST" -> If(code = 150, "readAll")
       [] OTHER        -> If(code = 150, "open")

\* The reply at hand answers what t asked.
Mine(t) ==
  /\ Head(replies).task = t
  /\ Head(replies).cmd = IF pc[t] \in Command THEN pc[t] ELSE "done"

TakeReply(t) ==
  /\ replies # <<>> /\ replies' = Tail(replies)
  /\ wrong' = (wrong \/ ~Mine(t))
  /\ UNCHANGED <<kind, abandoned>>

\* Slip: entries are counted outside of a directory too.
LeftAfterAny(t, code) == IF pc[t] = "DELE" THEN left[t] - 1 ELSE left[t]

LeftAfter(t, code) == IF pc[t] = "DELE" /\ code = 250 /\ left[t] > 0 THEN left[t] - 1 ELSE left[t]

Reply(t) ==
  /\ pc[t] \in Command \ {"QUIT"} /\ TakeReply(t)
  /\ LET code == Head(replies).code
     IN  /\ \E step \in Then(t, code) : Proceed(t, step)
         /\ data' = IF pc[t] \in Transfers /\ code # 150 THEN data \ {t} ELSE data
         /\ plain' = [plain EXCEPT ![t] = @ \/ (pc[t] = "MLSD" /\ code = 500)]
         /\ finding' = [finding EXCEPT ![t] = @ \/ (pc[t] = "MLST" /\ kind[t] # "mkdir" /\ code = 500)]
         /\ left' = [left EXCEPT ![t] = LeftAfter(t, code)]
  /\ UNCHANGED far

\* quit() ignores what it reads, and closes the socket.
Quit(t) ==
  /\ pc[t] = "QUIT"
  /\ \/ TakeReply(t)
     \/ replies = <<>> /\ UNCHANGED <<replies, kind, past>>
  /\ pc' = [pc EXCEPT ![t] = "ok"] /\ Release(t, "ok")
  /\ up' = FALSE /\ commands' = <<>> /\ transfer' = None
  /\ UNCHANGED <<plain, finding, left, data, accepted>>

\* readReply() throws: nothing came for so long that receive() gave up, or there is no
\* connection.  close() of a reader tolerates that.
Timeout(t) ==
  /\ pc[t] \in Awaiting \ {"QUIT"} /\ replies = <<>>
  /\ End(t, IF pc[t] = "final" /\ kind[t] = "download" THEN "ok" ELSE "failed")
  /\ abandoned' = TRUE
  /\ UNCHANGED <<kind, plain, finding, left, replies, data, far, wrong>>

-----------------------------------------------------------------------------
(***************************************************************************)
(* Data connections.                                                       *)
(***************************************************************************)

\* A copy may begin at an offset.
TransferCommands(t) ==
  CASE Lists(t) -> {IF plain[t] THEN "LIST" ELSE "MLSD"}
    [] kind[t] = "download" -> {"RETR", "REST"}
    [] kind[t] = "upload"   -> {"STOR"}
    [] OTHER                -> {"STOR", "REST"}

Connect(t) ==
  /\ pc[t] = "connect"
  /\ \/ data' = data \cup {t} /\ \E cmd \in TransferCommands(t) : Proceed(t, cmd)
     \/ data' = data /\ End(t, "failed")
  /\ UNCHANGED <<kind, plain, finding, left, replies, far, past>>

\* The server has sent everything.
ReadAll(t) ==
  /\ pc[t] = "readAll" /\ transfer.task # t
  /\ data' = data \ {t}
  /\ Await(t, "done")
  /\ UNCHANGED <<kind, plain, finding, left, replies, far, past>>

\* readAll() throws: nothing is closed, and the reply to come is not read.
ReadAllFails(t) ==
  /\ pc[t] = "readAll"
  /\ End(t, "failed")
  /\ abandoned' = TRUE
  /\ UNCHANGED <<kind, plain, finding, left, replies, data, far, wrong>>

\* The end of a listing: stat() may not find its entry, and a directory that is not
\* empty may not be removed at all, or only after its entries.
Listed(t) ==
  /\ pc[t] = "done" /\ TakeReply(t)
  /\ plain' = [plain EXCEPT ![t] = FALSE] /\ finding' = [finding EXCEPT ![t] = FALSE]
  /\ IF Head(replies).code \notin {226, 250} THEN End(t, "failed") /\ left' = left
     ELSE \/ kind[t] = "list" /\ End(t, "ok") /\ left' = left
          \/ kind[t] # "list" /\ End(t, "failed") /\ left' = left
          \/ kind[t] = "stat" /\ End(t, "ok") /\ left' = left
          \/ kind[t] = "remove" /\ finding[t] /\ left' = left
             /\ \E step \in RemoveStep(t) : Proceed(t, step)
          \/ kind[t] = "remove" /\ ~finding[t]
             /\ \E n \in 0..MaxChildren :
                  /\ left' = [left EXCEPT ![t] = n]
                  /\ Proceed(t, IF n = 0 THEN "RMD" ELSE "MLST")
  /\ UNCHANGED <<data, far>>

-----------------------------------------------------------------------------
(***************************************************************************)
(* Handles.                                                                *)
(***************************************************************************)

CloseData(t, then) ==
  /\ pc[t] = "open"
  /\ data' = data \ {t}
  /\ Await(t, then)
  /\ UNCHANGED <<kind, plain, finding, left, replies, far, past>>

\* A copy ends: w.close(), then r.close() of a download.
CopyEnds(t) ==
  /\ kind[t] = "download" => transfer.task # t
  /\ CloseData(t, "final")

\* It fails or is cancelled: abort(), or close() of the reader.
CopyFails(t) == CloseData(t, "finalFailed")

\* w.close() of a download throws: the copy has failed, and r.close() is not called.
CommitFails(t) ==
  /\ pc[t] = "open" /\ kind[t] = "download" /\ transfer.task # t
  /\ pc' = [pc EXCEPT ![t] = "leftOpen"]
  /\ UNCHANGED <<kind, plain, finding, left, queue, net, far, past>>

\* Slip: the reader does not drain the reply that completes its transfer.
FinalUnread(t) ==
  /\ pc[t] \in Closing
  /\ IF kind[t] = "download" THEN UNCHANGED <<kind, replies, past>> /\ End(t, "ok")
     ELSE TakeReply(t) /\ End(t, "failed")
  /\ UNCHANGED <<plain, finding, left, data, far>>

\* Slip: any reply will do.
FinalUnchecked(t) ==
  /\ pc[t] \in Closing /\ TakeReply(t)
  /\ End(t, IF pc[t] = "final" THEN "ok" ELSE "failed")
  /\ UNCHANGED <<plain, finding, left, data, far>>

\* Only close() of a writer looks at the reply.
Final(t) ==
  /\ pc[t] \in Closing /\ TakeReply(t)
  /\ End(t, IF pc[t] = "final" /\ (kind[t] = "download" \/ Head(replies).code \in {226, 250})
            THEN "ok" ELSE "failed")
  /\ UNCHANGED <<plain, finding, left, data, far>>

-----------------------------------------------------------------------------
(***************************************************************************)
(* The server, which takes a command when it has ended the transfer before.*)
(***************************************************************************)

Reports(c, code) == replies' = Append(replies, [task |-> c.task, cmd |-> c.cmd, code |-> code])

Serve ==
  /\ commands # <<>> /\ transfer = None
  /\ commands' = Tail(commands)
  /\ \E code \in Codes(Head(commands).cmd) :
        /\ Reports(Head(commands), code)
        /\ transfer' = IF code = 150 THEN Head(commands) ELSE None
  /\ UNCHANGED <<task, queue, data, up, accepted, past>>

\* A transfer ends well, with 226, or breaks off.  The end of an upload is that of its
\* data connection.
Finish ==
  /\ transfer # None /\ transfer' = None
  /\ \E code \in {226, 426} :
        /\ code = 226 /\ transfer.cmd = "STOR" => transfer.task \notin data
        /\ Reports([transfer EXCEPT !.cmd = "done"], code)
        /\ accepted' = IF code = 226 THEN accepted \cup {transfer.task} ELSE accepted
  /\ UNCHANGED <<task, queue, commands, data, up, past>>

ConnectionLost ==
  /\ up /\ up' = FALSE
  /\ commands' = <<>> /\ transfer' = None
  /\ UNCHANGED <<task, queue, replies, data, accepted, past>>

-----------------------------------------------------------------------------
Init ==
  /\ kind \in [Task -> {"stat"}] /\ pc = [t \in Task |-> "idle"]
  /\ plain = [t \in Task |-> FALSE] /\ finding = plain /\ left = [t \in Task |-> -1]
  /\ secure \in BOOLEAN /\ login = "greeting"
  /\ queue = <<>> /\ commands = <<>> /\ data = {}
  /\ replies \in {<<[task |-> 0, cmd |-> "greeting", code |-> code]>> : code \in {220, 421}}
  /\ transfer = None /\ up = TRUE /\ accepted = {}
  /\ wrong = FALSE /\ abandoned = FALSE

\* A task's own steps, and the end of what it waits for.
Continue(t) ==
  \/ Acquire(t) \/ Reply(t) \/ Quit(t) \/ Timeout(t)
  \/ Connect(t) \/ ReadAll(t) \/ ReadAllFails(t) \/ Listed(t)
  \/ CopyEnds(t) \/ CopyFails(t) \/ CommitFails(t) \/ Final(t)

Login == LoginReply \/ LoginTimeout \/ Upgrade

Next ==
  \/ Login
  \/ (\E t \in Task : Call(t) \/ Continue(t)) /\ UNCHANGED <<secure, login>>
  \/ (Serve \/ Finish \/ ConnectionLost) /\ UNCHANGED <<secure, login>>

\* Every await ends: with a reply or when receive() has given up, with data or an
\* error.  Nothing is assumed of the server.
Spec ==
  /\ Init /\ [][Next]_vars /\ WF_vars(Login)
  /\ \A t \in Task : WF_vars(Continue(t) /\ UNCHANGED <<secure, login>>)

-----------------------------------------------------------------------------
(***************************************************************************)
(* Properties.                                                             *)
(***************************************************************************)

Calls   == [task : Task, cmd : Command] \cup [task : {0}, cmd : LoginCommand]
Replies == [task : Task, cmd : Command \cup {"done"}, code : Nat]
             \cup [task : {0}, cmd : LoginCommand \cup {"greeting"}, code : Nat]
TypeOK ==
  /\ secure \in BOOLEAN
  /\ login \in LoginCommand \cup {"greeting", "upgrade", "done", "failed"}
  /\ kind \in [Task -> Kind]
  /\ pc \in [Task -> Awaiting \cup Over \cup {"idle", "lock", "connect", "readAll", "open",
                     "leftOpen"}]
  /\ {plain, finding} \subseteq [Task -> BOOLEAN] /\ left \in [Task -> -1..MaxChildren]
  /\ queue \in Seq(Task) /\ IsInjective(queue)
  /\ commands \in Seq(Calls) /\ replies \in Seq(Replies)
  /\ transfer \in [task : Task, cmd : Transfers] \cup {None}
  /\ data \subseteq Task /\ accepted \subseteq Task
  /\ {up, wrong, abandoned} \subseteq BOOLEAN

\* "So the control channel stays in sync" (FtpFS.ts:248-249): every reply that is read
\* answers the command it was read for, as long as nobody has given up a reply, as the
\* login does when its OPTS is not answered in time (FtpConnection.ts:342).
InSync == wrong => abandoned

\* An upload that ends well was completed by the server: what close() reads is the
\* answer to its own transfer.
UploadConfirmed ==
  \A t \in Task : kind[t] \in {"upload", "resume"} /\ pc[t] = "ok" /\ ~abandoned => t \in accepted

\* The login ends, and every call, unless a copy's reader has been left open: only that
\* keeps the lock.
EndsUnlessLeftOpen ==
  /\ <>(login \in {"done", "failed"})
  /\ \A t \in Task : pc[t] # "idle" ~> pc[t] \in Over \/ \E u \in Task : pc[u] = "leftOpen"
=============================================================================
