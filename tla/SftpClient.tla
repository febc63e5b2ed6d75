----------------------------- MODULE SftpClient -----------------------------
(***************************************************************************)
(* src/sftp/SftpClient.ts: requests and their answers over one channel.    *)
(* A promise is known by the id of its request, promise[id], as long as    *)
(* somebody may await it.  pending is the code's map without the requests  *)
(* that nobody awaits any more: what becomes of those is seen by no one.   *)
(*                                                                         *)
(* The channel hands requests to the server in order (SshChannel); answers *)
(* may come in any order.  What the server does with a request is for the  *)
(* module that extends this one to say.                                    *)
(***************************************************************************)
EXTENDS Integers, Sequences, SequencesExt

CONSTANTS IdModulus, \* 2^32 in the code
          FirstIds   \* what nextRequestId may be when the run begins

Id == 1..(IdModulus - 1)

ASSUME ClientAssumption == IdModulus \in Nat /\ IdModulus > 2 /\ FirstIds \subseteq Id

VARIABLES
  nextRequestId,
  promise,  \* of each request id
  sent,     \* requests on their way to the server
  answers,  \* answers on their way to the client
  loop,     \* readLoop is running
  writable  \* channel.write still takes anything

client == <<nextRequestId, promise, sent, answers, loop, writable>>

Op == {"stat", "open", "truncate", "read", "write", "close"}
Asked(op, at, n) == [op |-> op, at |-> at, n |-> n]
Request == [id : Id, op : Op, at : Nat, n : Nat]

\* n is the size of the file, or the number of bytes read from at.
Answer(kind, at, n) == [kind |-> kind, at |-> at, n |-> n]
Unused  == Answer("unused", 0, 0)
Pending == Answer("pending", 0, 0)
Replies == {"ok", "handle", "attrs", "data", "eof", "missing", "failure"}
Failed  == {"missing", "failure", "timeout", "ended"}
Promise == [kind : Replies \cup {"unused", "pending", "timeout", "ended"}, at : Nat, n : Nat]

pending == {id \in Id : promise[id] = Pending}
Settled(id) == promise[id] # Pending
Fulfilled(id, kind) == promise[id].kind = kind

\* The id that nextId() gives k calls from now: it wraps to 1, never to 0.
NextId(k) == 1 + ((nextRequestId - 1 + k) % (IdModulus - 1))

\* Bound: no id comes round (after 2^32 requests) while its promise is held or its
\* request can still be answered.
Free(id) ==
  /\ promise[id] = Unused
  /\ \A j \in DOMAIN sent : sent[j].id # id
  /\ \A a \in answers : a.id # id

\* request() for each element of asked, in order, forgetting promises that are
\* not awaited any more.  On a closed channel write() rejects at once.
Issue(asked, forgotten) ==
  LET ids == [j \in DOMAIN asked |-> NextId(j - 1)]
      now == IF writable THEN Pending ELSE Answer("ended", 0, 0)
  IN  /\ \A id \in Range(ids) : Free(id)
      /\ nextRequestId' = NextId(Len(asked))
      /\ promise' = [id \in Id |-> IF id \in Range(ids) THEN now
                                   ELSE IF id \in forgotten THEN Unused ELSE promise[id]]
      /\ sent' = IF ~writable THEN sent
                 ELSE sent \o [j \in DOMAIN asked |->
                        [id |-> ids[j], op |-> asked[j].op, at |-> asked[j].at, n |-> asked[j].n]]
      /\ UNCHANGED <<answers, loop, writable>>

\* Nothing is asked.
Forget(forgotten) ==
  /\ promise' = [id \in Id |-> IF id \in forgotten THEN Unused ELSE promise[id]]
  /\ UNCHANGED <<nextRequestId, sent, answers, loop, writable>>

\* A packet arrives; one that matches nothing is dropped.
ReadLoop(a) ==
  /\ loop /\ answers' = answers \ {a}
  /\ promise' = IF a.id \in pending THEN [promise EXCEPT ![a.id] = a.answer] ELSE promise
  /\ UNCHANGED <<nextRequestId, sent, loop, writable>>

\* Slip: the entry is deleted and nobody is told.
TimeoutSilent(id) ==
  /\ id \in pending
  /\ promise' = [promise EXCEPT ![id] = Unused]
  /\ UNCHANGED <<nextRequestId, sent, answers, loop, writable>>

Timeout(id) ==
  /\ id \in pending
  /\ promise' = [promise EXCEPT ![id] = Answer("timeout", 0, 0)]
  /\ UNCHANGED <<nextRequestId, sent, answers, loop, writable>>

\* framer.next() throws, and readLoop ends: the channel was closed (by close(), the
\* peer, or the connection), or it only delivered EOF or nonsense and still takes
\* what is written.
LoopEnds ==
  /\ loop /\ loop' = FALSE
  /\ writable' \in BOOLEAN
  /\ promise' = [id \in Id |-> IF id \in pending THEN Answer("ended", 0, 0) ELSE promise[id]]
  /\ UNCHANGED <<nextRequestId, sent, answers>>

\* The server takes the next request and gives an answer.
Replied(answer) ==
  /\ sent # <<>> /\ sent' = Tail(sent)
  /\ answers' = answers \cup {[id |-> Head(sent).id, answer |-> answer]}
  /\ UNCHANGED <<nextRequestId, promise, loop, writable>>

ClientInit ==
  /\ nextRequestId \in FirstIds
  /\ promise = [id \in Id |-> Unused]
  /\ sent = <<>> /\ answers = {}
  /\ loop = TRUE /\ writable = TRUE

ClientTypeOK ==
  /\ nextRequestId \in Id
  /\ promise \in [Id -> Promise]
  /\ sent \in Seq(Request)
  /\ answers \subseteq [id : Id, answer : Promise]
  /\ loop \in BOOLEAN /\ writable \in BOOLEAN
=============================================================================
