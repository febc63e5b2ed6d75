---------------------------- MODULE SftpFileProofs ----------------------------
(***************************************************************************)
(* A handle of SftpFS.ts, proved for any file, depth, buffers and chunks,  *)
(* any number of refused requests and of attempts, and answers in any      *)
(* order.                                                                  *)
(***************************************************************************)
EXTENDS SftpFile, SequenceTheorems, FiniteSetTheorems, TLAPS

-----------------------------------------------------------------------------
(***************************************************************************)
(* The inductive invariant.                                                *)
(***************************************************************************)

Downloads == pc \in {"reader", "openRead", "readerIdle", "read", "settling", "closeRead", "closed"}

\* Byte k + 1 of the source, which a write at k carries, is in the file.
Written(k) == k + 1 <= Len(file) /\ file[k + 1] = k + 1

\* What an answer to a request says is true, and stays so.
Right(op, at, n, answer) ==
  /\ op = "read" /\ answer.kind = "data" =>
       answer.at = at /\ answer.n \in 1..n /\ at + answer.n <= SourceLength
  /\ op = "read" /\ answer.kind = "eof" => at >= SourceLength
  /\ op = "write" /\ answer.kind = "ok" => Written(at)

\* The promise of id is held, and is about this request and no other.
Link(id, op, at, n) ==
  /\ promise[id] # Unused
  /\ \A i \in DOMAIN sent : sent[i].id = id => sent[i] = [id |-> id, op |-> op, at |-> at, n |-> n]
  /\ \A a \in answers : a.id = id => Right(op, at, n, a.answer)
  /\ Right(op, at, n, promise[id])

\* What may be on its way to the server, as its i-th request.
Wire(q, i) ==
  IF Downloads THEN q.op \in {"open", "read", "close"}
  ELSE /\ q.op \in {"stat", "open", "truncate", "write", "close"}
       /\ q.op = "write" => q.at < SourceLength /\ (depth = 1 => q.at <= Len(file))
       /\ q.op = "truncate" => i = 1 /\ file = <<>>

OnTheWay ==
  /\ \A i \in DOMAIN sent : Wire(sent[i], i)
  /\ \A a \in answers : a.answer.kind \in Replies

\* The reads s cover the source from first on, without gaps, up to next.
Chained(s, first, length, next) ==
  IF s = <<>> THEN next = first
  ELSE /\ s[1].at = first /\ next = s[Len(s)].at + length
       /\ \A j \in 1..(Len(s) - 1) : s[j + 1].at = s[j].at + length

\* Where the next byte that the caller has not been given, and that is not left over, lies.
Pos == startOffset + Len(delivered) + leftover.n

Download ==
  Downloads =>
    /\ file = Source /\ exists /\ uncaught = {}
    /\ pc \in {"reader", "openRead", "closeRead", "closed"} => inflight = <<>>
    /\ pc = "read" => inflight # <<>> /\ awaited = inflight[1].id /\ leftover.n = 0 /\ eof = "no"
    /\ pc = "read" => into > 0
    /\ pc \in {"readerIdle", "read"} /\ inflight # <<>> => reqLen > 0

Asking ==
  Downloads /\ pc \in {"readerIdle", "read"} =>
    /\ \A j \in DOMAIN inflight : Link(inflight[j].id, "read", inflight[j].at, reqLen)
    /\ \A j, k \in DOMAIN inflight : inflight[j].id = inflight[k].id => j = k

Order ==
  pc \in {"reader", "openRead", "readerIdle", "read"} /\ eof = "no" =>
    Chained(inflight, Pos, reqLen, offset)

Got ==
  Downloads =>
    /\ Pos <= SourceLength
    /\ \A k \in DOMAIN delivered : delivered[k] = startOffset + k
    /\ leftover.n > 0 => leftover.at = startOffset + Len(delivered)
    /\ eof = "end" => leftover.n = 0 /\ Pos = SourceLength

Sized(answer) ==
  (answer.kind = "attrs" => answer.n <= Len(file)) /\ (answer.kind = "missing" => answer.n = 0)

\* The file grows: what stat() said of it stays a part of it.
Upload ==
  ~Downloads =>
    /\ eof = "no" /\ delivered = <<>>
    /\ Len(file) <= SourceLength /\ startOffset <= Len(file)
    /\ \A a \in answers : Sized(a.answer)
    /\ \A id \in Id : Sized(promise[id])
    /\ attempts = 0 => pc = "writer" /\ sent = <<>> /\ file = <<>>
    /\ pc = "stat" => resuming
    /\ depth = 1 => \A k \in DOMAIN file : file[k] = k

Busy == {"writerIdle", "write", "drain", "drainAborted"}

Queue ==
  ~Downloads =>
    /\ pc \notin Busy => uncaught = {} /\ inflight = <<>>
    /\ pc \in Busy =>
         /\ Len(inflight) < depth /\ startOffset <= offset
         /\ uncaught \subseteq Ids(inflight) \cup (IF pc = "write" THEN {awaited} ELSE {})
    /\ pc \in {"writerIdle", "drain", "drainAborted"} => offset <= SourceLength
    /\ pc = "write" => offset + remaining <= SourceLength
    /\ pc \in {"drain", "closeWrite", "done"} => offset >= SourceLength
    /\ \A id \in uncaught : promise[id] # Unused

\* The write of byte k is not answered yet, or its answer not seen.
Owed(k) == \E id \in uncaught : Link(id, "write", k, 1)

Whole ==
  ~Downloads =>
    /\ pc \in Busy /\ ~failure => \A k \in startOffset..(offset - 1) : Written(k) \/ Owed(k)
    /\ pc \in {"closeWrite", "done"} => \A k \in startOffset..(offset - 1) : Written(k)

IInv ==
  /\ TypeOK /\ OnTheWay
  /\ Download /\ Asking /\ Order /\ Got
  /\ Upload /\ Queue /\ Whole

-----------------------------------------------------------------------------
(***************************************************************************)
(* Request ids: a run of fewer than IdModulus of them has no id twice.     *)
(***************************************************************************)
LEMMA ModInjective ==
  ASSUME NEW x \in Nat, NEW m \in Nat \ {0}, NEW j \in Nat, NEW k \in Nat, j < k, k < m + j,
         (x + j) % m = (x + k) % m
  PROVE  FALSE
<1> DEFINE q == (x + j) \div m
           p == (x + k) \div m
<1>1. q \in Int /\ p \in Int
  OBVIOUS
<1>2. x + j = m * q + ((x + j) % m) /\ x + k = m * p + ((x + k) % m)
  OBVIOUS
<1>3. k - j = m * p - m * q
  BY <1>2
<1> HIDE DEF q, p
<1>4. k - j = m * (p - q)
  BY <1>3, <1>1
<1>5. CASE p - q <= 0
  BY <1>4, <1>5, <1>1
<1>6. CASE p - q >= 1
  BY <1>4, <1>6, <1>1
<1>7. QED
  BY <1>5, <1>6, <1>1

LEMMA NextIdIn ==
  ASSUME ClientAssumption, nextRequestId \in Id, NEW k \in Nat
  PROVE  NextId(k) \in Id
<1>1. IdModulus - 1 \in Nat \ {0} /\ nextRequestId - 1 + k \in Nat
  BY DEF ClientAssumption, Id
<1>2. (nextRequestId - 1 + k) % (IdModulus - 1) \in 0..(IdModulus - 2)
  BY <1>1
<1>3. QED
  BY <1>2 DEF NextId, Id, ClientAssumption

LEMMA NextIdInjective ==
  ASSUME ClientAssumption, nextRequestId \in Id,
         NEW j \in 0..(IdModulus - 2), NEW k \in 0..(IdModulus - 2), NextId(j) = NextId(k)
  PROVE  j = k
<1>1. nextRequestId - 1 \in Nat /\ IdModulus - 1 \in Nat \ {0} /\ j \in Nat /\ k \in Nat
      /\ j < IdModulus - 1 /\ k < IdModulus - 1
  BY DEF ClientAssumption, Id
<1>2. PICK x \in Nat : x = nextRequestId - 1
  BY <1>1
<1>3. PICK m \in Nat \ {0} : m = IdModulus - 1
  BY <1>1
<1>4. (x + j) % m \in Int /\ (x + k) % m \in Int
  BY <1>1
<1>5. 1 + ((x + j) % m) = 1 + ((x + k) % m)
  BY <1>2, <1>3 DEF NextId
<1>6. (x + j) % m = (x + k) % m
  BY <1>4, <1>5
<1>7. CASE j < k
  <2>1. k < m + j
    BY <1>1, <1>3
  <2>2. QED
    BY <1>1, <1>6, <1>7, <2>1, ModInjective
<1>8. CASE k < j
  <2>1. j < m + k
    BY <1>1, <1>3
  <2>2. QED
    BY <1>1, <1>6, <1>8, <2>1, ModInjective
<1>9. QED
  BY <1>1, <1>7, <1>8

-----------------------------------------------------------------------------
(***************************************************************************)
(* Asking: the ids are new, their promises are held, and the requests are  *)
(* the last ones on the way.                                               *)
(***************************************************************************)
Question == [op : Op, at : Nat, n : Nat]

\* What a handle asks.
Proper(asked) ==
  /\ asked \in Seq(Question) /\ Len(asked) <= IdModulus - 1
  /\ \A j \in 1..Len(asked) : Wire(asked[j], j) /\ (asked[j].op = "truncate" => sent = <<>>)

LEMMA Issued ==
  ASSUME ClientAssumption, ClientTypeOK, NEW asked \in Seq(Question), NEW forgotten,
         Len(asked) <= IdModulus - 1, Issue(asked, forgotten)
  PROVE  /\ \A j \in 1..Len(asked) :
              /\ NextId(j - 1) \in Id /\ Free(NextId(j - 1))
              /\ promise'[NextId(j - 1)].kind \in {"pending", "ended"}
              /\ promise'[NextId(j - 1)] # Unused
         /\ \A id \in Id : (\A j \in 1..Len(asked) : id # NextId(j - 1)) =>
              promise'[id] = IF id \in forgotten THEN Unused ELSE promise[id]
         /\ sent' \in Seq(Request)
         /\ Len(sent') \in {Len(sent), Len(sent) + Len(asked)}
         /\ \A i \in 1..Len(sent) : sent'[i] = sent[i]
         /\ \A i \in (Len(sent) + 1)..Len(sent') :
              /\ i - Len(sent) \in 1..Len(asked)
              /\ sent'[i] = [id |-> NextId(i - Len(sent) - 1), op |-> asked[i - Len(sent)].op,
                             at |-> asked[i - Len(sent)].at, n |-> asked[i - Len(sent)].n]
         /\ ClientTypeOK'
         /\ answers' = answers
<1> DEFINE m == Len(asked)
           ids == [j \in DOMAIN asked |-> NextId(j - 1)]
           now == IF writable THEN Pending ELSE Answer("ended", 0, 0)
           new == [j \in DOMAIN asked |->
                    [id |-> ids[j], op |-> asked[j].op, at |-> asked[j].at, n |-> asked[j].n]]
<1>1. m \in Nat /\ DOMAIN asked = 1..m /\ (\A j \in 1..m : asked[j] \in Question)
  OBVIOUS
<1>2. \A j \in 1..m : NextId(j - 1) \in Id
  <2> TAKE j \in 1..m
  <2>1. j - 1 \in Nat
    BY <1>1
  <2>2. QED
    BY <2>1, NextIdIn DEF ClientTypeOK
<1>3. \A j \in 1..m : ids[j] = NextId(j - 1) /\ NextId(j - 1) \in Range(ids)
  BY <1>1 DEF Range
<1>4. \A id \in Range(ids) : \E j \in 1..m : id = NextId(j - 1)
  BY <1>1 DEF Range
<1>5. /\ \A id \in Range(ids) : Free(id)
      /\ nextRequestId' = NextId(Len(asked))
      /\ promise' = [id \in Id |-> IF id \in Range(ids) THEN now
                                   ELSE IF id \in forgotten THEN Unused ELSE promise[id]]
      /\ sent' = IF ~writable THEN sent ELSE sent \o new
      /\ answers' = answers /\ loop' = loop /\ writable' = writable
  BY DEF Issue
<1>6. sent \in Seq(Request) /\ (\A j \in 1..m : new[j] \in Request) /\ Len(new) = m
      /\ new \in Seq(Request)
  <2>1. sent \in Seq(Request)
    BY DEF ClientTypeOK
  <2>2. \A j \in 1..m : new[j] = [id |-> NextId(j - 1), op |-> asked[j].op, at |-> asked[j].at,
                                  n |-> asked[j].n]
    BY <1>1
  <2>3. \A j \in 1..m : new[j] \in Request
    BY <1>1, <1>2, <2>2 DEF Request, Question
  <2>4. new = [j \in 1..m |-> new[j]]
    BY <1>1
  <2> HIDE DEF new
  <2>5. new \in Seq(Request) /\ Len(new) = m
    BY <1>1, <2>3, <2>4
  <2>6. QED
    BY <2>1, <2>3, <2>5
<1>7. now \in Promise /\ now.kind \in {"pending", "ended"} /\ now # Unused /\ Unused \in Promise
  BY DEF Promise, Answer, Pending, Unused, Replies
<1>8. \A j \in 1..m : promise'[NextId(j - 1)] = now
  BY <1>2, <1>3, <1>5
<1>9. \A id \in Id : (\A j \in 1..m : id # NextId(j - 1)) =>
         promise'[id] = IF id \in forgotten THEN Unused ELSE promise[id]
  BY <1>4, <1>5
<1>10. /\ sent' \in Seq(Request) /\ Len(sent') \in {Len(sent), Len(sent) + m}
       /\ \A i \in 1..Len(sent) : sent'[i] = sent[i]
       /\ \A i \in (Len(sent) + 1)..Len(sent') : i - Len(sent) \in 1..m /\ sent'[i] = new[i - Len(sent)]
  <2> HIDE DEF new, m, ids, now
  <2>1. CASE ~writable
    BY <1>5, <1>6, <2>1
  <2>2. CASE writable
    <3>1. sent' = sent \o new
      BY <1>5, <2>2
    <3>2. /\ sent \o new \in Seq(Request) /\ Len(sent \o new) = Len(sent) + m
          /\ \A i \in 1..(Len(sent) + m) :
               (sent \o new)[i] = IF i <= Len(sent) THEN sent[i] ELSE new[i - Len(sent)]
      BY <1>6, ConcatProperties
    <3>3. Len(sent) \in Nat /\ m \in Nat
      BY <1>1, <1>6
    <3>4. QED
      BY <3>1, <3>2, <3>3
  <2>3. QED
    BY <2>1, <2>2
<1>11. ClientTypeOK'
  <2>1. promise' \in [Id -> Promise]
    BY <1>5, <1>7 DEF ClientTypeOK
  <2>2. nextRequestId' \in Id
    BY <1>1, <1>5, NextIdIn DEF ClientTypeOK
  <2>3. QED
    BY <1>5, <1>10, <2>1, <2>2 DEF ClientTypeOK
<1>12. \A j \in 1..m : Free(NextId(j - 1))
  BY <1>3, <1>5
<1>13. \A i \in (Len(sent) + 1)..Len(sent') :
         sent'[i] = [id |-> NextId(i - Len(sent) - 1), op |-> asked[i - Len(sent)].op,
                     at |-> asked[i - Len(sent)].at, n |-> asked[i - Len(sent)].n]
  BY <1>1, <1>10
<1>14. QED
  <2> HIDE DEF new, ids, now
  <2>1. QED
    BY <1>2, <1>5, <1>7, <1>8, <1>9, <1>10, <1>11, <1>12, <1>13

\* What is asked comes last, in order.
LEMMA SentLast ==
  ASSUME ClientAssumption, ClientTypeOK, NEW asked \in Seq(Question), NEW forgotten,
         Len(asked) <= IdModulus - 1, Issue(asked, forgotten),
         NEW i \in (Len(sent) + 1)..Len(sent')
  PROVE  \E k \in 1..Len(asked) :
           /\ k = i - Len(sent)
           /\ sent'[i] = [id |-> NextId(k - 1), op |-> asked[k].op, at |-> asked[k].at, n |-> asked[k].n]
<1> DEFINE At(l, k) ==
             sent'[l] = [id |-> NextId(k - 1), op |-> asked[k].op, at |-> asked[k].at, n |-> asked[k].n]
<1>1. \A l \in (Len(sent) + 1)..Len(sent') : l - Len(sent) \in 1..Len(asked) /\ At(l, l - Len(sent))
  BY Issued
<1> HIDE DEF At
<1>2. \E k \in 1..Len(asked) : k = i - Len(sent) /\ At(i, k)
  BY <1>1
<1>3. QED
  BY <1>2 DEF At

LEMMA LinkNew ==
  ASSUME ClientAssumption, ClientTypeOK, NEW asked \in Seq(Question), NEW forgotten,
         Len(asked) <= IdModulus - 1, Issue(asked, forgotten), NEW j \in 1..Len(asked),
         NEW id, id = NextId(j - 1)
  PROVE  Link(id, asked[j].op, asked[j].at, asked[j].n)'
<1>1. id \in Id /\ Free(id) /\ promise'[id].kind \in {"pending", "ended"} /\ promise'[id] # Unused
      /\ answers' = answers
  BY Issued
<1>2. \A a \in answers' : a.id # id
  BY <1>1 DEF Free
<1>3. ASSUME NEW i \in DOMAIN sent', sent'[i].id = id
      PROVE  sent'[i] = [id |-> id, op |-> asked[j].op, at |-> asked[j].at, n |-> asked[j].n]
  <2>1. sent \in Seq(Request) /\ sent' \in Seq(Request) /\ i \in 1..Len(sent')
    BY <1>3, Issued DEF ClientTypeOK
  <2>2. CASE i <= Len(sent)
    <3>1. i \in 1..Len(sent) /\ DOMAIN sent = 1..Len(sent)
      BY <2>1, <2>2
    <3>2. sent'[i] = sent[i]
      BY <3>1, Issued
    <3>3. QED
      BY <1>1, <1>3, <3>1, <3>2 DEF Free
  <2>3. CASE i > Len(sent)
    <3>1. i \in (Len(sent) + 1)..Len(sent')
      BY <2>1, <2>3
    <3>2. PICK k \in 1..Len(asked) :
            /\ k = i - Len(sent)
            /\ sent'[i] = [id |-> NextId(k - 1), op |-> asked[k].op, at |-> asked[k].at, n |-> asked[k].n]
      BY <3>1, SentLast
    <3>3. sent'[i] = [id |-> NextId(k - 1), op |-> asked[k].op, at |-> asked[k].at, n |-> asked[k].n]
      BY <3>2
    <3>4. sent'[i].id = NextId(k - 1)
      BY <3>3
    <3>a. NextId(k - 1) = NextId(j - 1)
      BY <1>3, <3>4
    <3>5. k - 1 \in 0..(IdModulus - 2) /\ j - 1 \in 0..(IdModulus - 2)
      BY DEF ClientAssumption
    <3>6. nextRequestId \in Id
      BY DEF ClientTypeOK
    <3>7. k - 1 = j - 1
      BY <3>a, <3>5, <3>6, NextIdInjective
    <3>8. k = j
      BY <3>7
    <3>9. QED
      BY <3>3, <3>8
  <2>4. QED
    BY <2>1, <2>2, <2>3
<1>4. Right(asked[j].op, asked[j].at, asked[j].n, promise[id])'
  BY <1>1 DEF Right
<1>5. QED
  BY <1>1, <1>2, <1>3, <1>4 DEF Link

\* A promise that is held is kept, unless it is forgotten on purpose.
LEMMA Kept ==
  ASSUME ClientAssumption, ClientTypeOK, NEW asked \in Seq(Question), NEW forgotten,
         Len(asked) <= IdModulus - 1, Issue(asked, forgotten),
         NEW id \in Id, promise[id] # Unused
  PROVE  /\ \A j \in 1..Len(asked) : id # NextId(j - 1)
         /\ promise'[id] = IF id \in forgotten THEN Unused ELSE promise[id]
<1>1. \A j \in 1..Len(asked) : id # NextId(j - 1)
  BY Issued DEF Free
<1>2. QED
  BY <1>1, Issued

LEMMA RightKept ==
  ASSUME NEW op, NEW at \in Nat, NEW n, NEW answer, Right(op, at, n, answer),
         Written(at) => Written(at)'
  PROVE  Right(op, at, n, answer)'
  BY DEF Right

LEMMA LinkIssued ==
  ASSUME ClientAssumption, ClientTypeOK, NEW asked \in Seq(Question), NEW forgotten,
         Len(asked) <= IdModulus - 1, Issue(asked, forgotten), file' = file,
         NEW id \in Id, NEW op, NEW at \in Nat, NEW n, Link(id, op, at, n), id \notin forgotten
  PROVE  Link(id, op, at, n)'
<1>1. promise[id] # Unused
  BY DEF Link
<1>2. promise'[id] = promise[id] /\ (\A j \in 1..Len(asked) : id # NextId(j - 1))
  BY <1>1, Kept
<1>3. Written(at) <=> Written(at)'
  BY DEF Written
<1>4. answers' = answers
  BY Issued
<1>5. ASSUME NEW i \in DOMAIN sent', sent'[i].id = id
      PROVE  sent'[i] = [id |-> id, op |-> op, at |-> at, n |-> n]
  <2>1. sent \in Seq(Request) /\ sent' \in Seq(Request) /\ i \in 1..Len(sent')
    BY <1>5, Issued DEF ClientTypeOK
  <2>2. CASE i <= Len(sent)
    <3>1. i \in 1..Len(sent) /\ DOMAIN sent = 1..Len(sent)
      BY <2>1, <2>2
    <3>2. sent'[i] = sent[i]
      BY <3>1, Issued
    <3>3. QED
      BY <1>5, <3>1, <3>2 DEF Link
  <2>3. CASE i > Len(sent)
    <3>1. i \in (Len(sent) + 1)..Len(sent')
      BY <2>1, <2>3
    <3>2. PICK k \in 1..Len(asked) :
            /\ k = i - Len(sent)
            /\ sent'[i] = [id |-> NextId(k - 1), op |-> asked[k].op, at |-> asked[k].at, n |-> asked[k].n]
      BY <3>1, SentLast
    <3>3. sent'[i] = [id |-> NextId(k - 1), op |-> asked[k].op, at |-> asked[k].at, n |-> asked[k].n]
      BY <3>2
    <3>4. sent'[i].id = NextId(k - 1)
      BY <3>3
    <3>5. QED
      BY <1>2, <1>5, <3>4
  <2>4. QED
    BY <2>1, <2>2, <2>3
<1>6. Right(op, at, n, promise[id])'
  BY <1>2, <1>3 DEF Link, Right
<1>7. \A a \in answers' : a.id = id => Right(op, at, n, a.answer)'
  BY <1>3, <1>4 DEF Link, Right
<1>8. QED
  BY <1>1, <1>2, <1>5, <1>6, <1>7 DEF Link

LEMMA LinkForgotten ==
  ASSUME NEW forgotten, Forget(forgotten), file' = file,
         NEW id \in Id, NEW op, NEW at \in Nat, NEW n, Link(id, op, at, n), id \notin forgotten
  PROVE  Link(id, op, at, n)'
  BY DEF Link, Right, Written, Forget

-----------------------------------------------------------------------------
(***************************************************************************)
(* What happens outside the handle: the server, the channel, the timers.   *)
(***************************************************************************)
Outside ==
  \/ Serving \/ Refuse \/ Arrives \/ ChannelEnds
  \/ \E id \in Id : Expires(id)

LEMMA MinOfTwo ==
  ASSUME NEW a \in Nat, NEW b \in Nat
  PROVE  Min({a, b}) = IF a <= b THEN a ELSE b
<1>1. CASE a <= b
  <2>1. a \in {a, b} /\ (\A y \in {a, b} : a <= y)
    BY <1>1
  <2>2. \A x \in {a, b} : (\A y \in {a, b} : x <= y) => x = a
    BY <1>1
  <2>3. QED
    BY <1>1, <2>1, <2>2 DEF Min
<1>2. CASE ~(a <= b)
  <2>1. b \in {a, b} /\ (\A y \in {a, b} : b <= y)
    BY <1>2
  <2>2. \A x \in {a, b} : (\A y \in {a, b} : x <= y) => x = b
    BY <1>2
  <2>3. QED
    BY <1>2, <2>1, <2>2 DEF Min
<1>3. QED
  BY <1>1, <1>2

LEMMA AnswerIs ==
  ASSUME NEW kind \in Replies, NEW at \in Nat, NEW n \in Nat
  PROVE  /\ Answer(kind, at, n) \in Promise
         /\ Answer(kind, at, n).kind = kind /\ Answer(kind, at, n).at = at /\ Answer(kind, at, n).n = n
  BY DEF Answer, Promise

LEMMA NextRequest ==
  ASSUME TypeOK, OnTheWay, NEW answer, Replied(answer)
  PROVE  /\ sent # <<>> /\ sent' = Tail(sent) /\ Head(sent) \in Request
         /\ Head(sent) = sent[1] /\ 1 \in DOMAIN sent
         /\ Wire(Head(sent), 1)
         /\ answers' = answers \cup {[id |-> Head(sent).id, answer |-> answer]}
         /\ UNCHANGED <<nextRequestId, promise, loop, writable>>
<1>1. sent \in Seq(Request) /\ sent # <<>>
  BY DEF TypeOK, ClientTypeOK, Replied
<1>2. Head(sent) \in Request
  BY <1>1, HeadTailProperties
<1>3. Head(sent) = sent[1] /\ 1 \in DOMAIN sent
  BY <1>1
<1>4. QED
  BY <1>1, <1>2, <1>3 DEF Replied, OnTheWay

\* What the file is after a write.
AfterWrite(f, at) ==
  [k \in 1..(IF at + 1 > Len(f) THEN at + 1 ELSE Len(f)) |->
     IF k = at + 1 THEN at + 1 ELSE IF k <= Len(f) THEN f[k] ELSE 0]

Grown(f, g, at) ==
  /\ g \in Seq(0..SourceLength) /\ Len(g) >= Len(f)
  /\ Len(g) = IF at + 1 > Len(f) THEN at + 1 ELSE Len(f)
  /\ g[at + 1] = at + 1
  /\ \A k \in 1..Len(f) : g[k] = f[k] \/ g[k] = k

LEMMA FileWritten ==
  ASSUME FileAssumption, NEW at \in Nat, at < SourceLength,
         NEW f \in Seq(0..SourceLength), NEW g, g = AfterWrite(f, at)
  PROVE  Grown(f, g, at)
<1>1. PICK size \in Nat : size = IF at + 1 > Len(f) THEN at + 1 ELSE Len(f)
  OBVIOUS
<1>2. Len(f) \in Nat /\ DOMAIN f = 1..Len(f) /\ (\A k \in 1..Len(f) : f[k] \in 0..SourceLength)
  OBVIOUS
<1>3. g = [k \in 1..size |-> IF k = at + 1 THEN at + 1 ELSE IF k <= Len(f) THEN f[k] ELSE 0]
  BY <1>1 DEF AfterWrite
<1>4. at + 1 \in 0..SourceLength /\ 0 \in 0..SourceLength
  BY DEF FileAssumption
<1>5. \A k \in 1..size : (IF k = at + 1 THEN at + 1 ELSE IF k <= Len(f) THEN f[k] ELSE 0) \in 0..SourceLength
  BY <1>2, <1>4
<1>6. g \in [1..size -> 0..SourceLength]
  BY <1>3, <1>5
<1>7. g \in Seq(0..SourceLength) /\ Len(g) = size
  BY <1>6
<1>8. at + 1 \in 1..size /\ size >= Len(f)
  <2>1. PICK l \in Nat : l = Len(f)
    BY <1>2
  <2>2. size = IF at + 1 > l THEN at + 1 ELSE l
    BY <1>1, <2>1
  <2>3. at + 1 \in 1..size /\ size >= l
    BY <2>2
  <2>4. QED
    BY <2>1, <2>3
<1>9. g[at + 1] = at + 1
  BY <1>3, <1>8
<1>10. \A k \in 1..Len(f) : g[k] = f[k] \/ g[k] = k
  BY <1>2, <1>3, <1>8
<1>11. QED
  BY <1>1, <1>7, <1>8, <1>9, <1>10 DEF Grown

\* The file grows only, and is not touched while it is read.
FileGrows ==
  /\ file' \in Seq(0..SourceLength) /\ Len(file') >= Len(file)
  /\ \A k \in Nat : Written(k) => Written(k)'
  /\ Downloads => file' = file
  /\ ~Downloads => Len(file') <= SourceLength
  /\ ~Downloads /\ depth = 1 => \A k \in DOMAIN file' : file'[k] = k

LEMMA SameFile ==
  ASSUME TypeOK, Upload, file' = file
  PROVE  FileGrows
  BY DEF FileGrows, TypeOK, Upload, Written

\* A server's step: it answers the next request, and what it says is true.
Serves1(q, answer) ==
  /\ q = Head(sent) /\ sent # <<>> /\ sent' = Tail(sent) /\ q = sent[1] /\ 1 \in DOMAIN sent
  /\ answers' = answers \cup {[id |-> q.id, answer |-> answer]}
  /\ answer.kind \in Replies
  /\ Right(q.op, q.at, q.n, answer)'
  /\ ~Downloads => Sized(answer)'
  /\ exists => exists'
  /\ exists' \in BOOLEAN /\ failures' \in 0..MaxFailures
  /\ UNCHANGED <<nextRequestId, promise, loop, writable>> /\ UNCHANGED Others

LEMMA ServedSame ==
  ASSUME FileAssumption, TypeOK, OnTheWay, Download, Upload, ServeStat \/ ServeRead \/ ServeClose \/ Refuse
  PROVE  FileGrows /\ \E q \in Request, answer \in Promise : Serves1(q, answer)
<1>1. file' = file /\ exists' = exists /\ exists \in BOOLEAN /\ failures' \in 0..MaxFailures
  <2>1. file' = file /\ exists' = exists
    BY DEF ServeStat, ServeRead, ServeClose, Refuse, server
  <2>2. failures' = failures \/ (failures < MaxFailures /\ failures' = failures + 1)
    BY DEF ServeStat, ServeRead, ServeClose, Refuse, server
  <2>3. failures \in 0..MaxFailures /\ MaxFailures \in Nat /\ exists \in BOOLEAN
    BY DEF TypeOK, FileAssumption
  <2>4. QED
    BY <2>1, <2>2, <2>3
<1>2. FileGrows
  BY <1>1, SameFile
<1>3. Len(file) \in Nat /\ Len(file') \in Nat /\ (Downloads => Len(file) = SourceLength)
  <2>1. file \in Seq(0..SourceLength) /\ file' = file /\ (Downloads => file = Source)
    BY <1>1 DEF TypeOK, Download
  <2>2. Len(Source) = SourceLength
    BY DEF Source, FileAssumption
  <2>3. QED
    BY <2>1, <2>2
<1>4. CASE ServeStat
  <2>1. PICK answer \in Promise :
          /\ answer = IF exists THEN Answer("attrs", 0, Len(file)) ELSE Answer("missing", 0, 0)
          /\ answer.kind \in {"attrs", "missing"}
          /\ answer.kind = "attrs" => answer.n = Len(file)
          /\ answer.kind = "missing" => answer.n = 0
    <3>1. {"attrs", "missing"} \subseteq Replies
      BY DEF Replies
    <3>2. QED
      BY <1>3, <3>1, AnswerIs
  <2>2. Replied(answer) /\ Serves("stat") /\ UNCHANGED Others
    BY <1>4, <2>1 DEF ServeStat
  <2>3. PICK q \in Request : q = Head(sent) /\ q.op = "stat"
    BY <2>2, NextRequest DEF Serves
  <2>4. Serves1(q, answer)
    BY <1>1, <1>3, <2>1, <2>2, <2>3, NextRequest DEF Serves1, Right, Sized, Replies
  <2>5. QED
    BY <1>2, <2>4
<1>5. CASE ServeRead
  <2>1. PICK answer : Replied(answer)
    BY <1>5 DEF ServeRead
  <2>2. PICK q \in Request : q = Head(sent) /\ q.op = "read"
    BY <1>5, <2>1, NextRequest DEF ServeRead, Serves
  <2>3. Downloads
    BY <2>1, <2>2, NextRequest DEF Wire
  <2>4. Len(file) = SourceLength /\ q.at \in Nat /\ q.n \in Nat /\ SourceLength \in Nat
    BY <1>3, <2>2, <2>3 DEF Request
  <2>5. CASE q.at >= Len(file)
    <3>1. Replied(Answer("eof", 0, 0)) /\ UNCHANGED Others
      BY <1>5, <2>2, <2>5 DEF ServeRead
    <3>2. PICK a \in Promise : a = Answer("eof", 0, 0) /\ a.kind = "eof"
      BY AnswerIs DEF Replies
    <3>3. Serves1(q, a)
      BY <1>1, <2>2, <2>3, <2>4, <2>5, <3>1, <3>2, NextRequest DEF Serves1, Right, Sized, Replies
    <3>4. QED
      BY <1>2, <3>3
  <2>6. CASE ~(q.at >= Len(file))
    <3>1. PICK n \in 1..Min({q.n, Len(file) - q.at}) : Replied(Answer("data", q.at, n))
      BY <1>5, <2>2, <2>6 DEF ServeRead
    <3>2. Len(file) - q.at \in Nat
      BY <2>4, <2>6
    <3>3. Min({q.n, Len(file) - q.at}) = IF q.n <= Len(file) - q.at THEN q.n ELSE Len(file) - q.at
      BY <2>4, <3>2, MinOfTwo
    <3>4. n \in 1..q.n /\ q.at + n <= SourceLength /\ n \in Nat
      BY <2>4, <3>1, <3>2, <3>3
    <3>5. PICK a \in Promise : a = Answer("data", q.at, n) /\ a.kind = "data" /\ a.at = q.at /\ a.n = n
      <4>1. q.at \in Nat /\ n \in Nat /\ "data" \in Replies
        BY <2>4, <3>4 DEF Replies
      <4>2. QED
        BY <4>1, AnswerIs
    <3>6. UNCHANGED Others
      BY <1>5 DEF ServeRead
    <3>7. Right(q.op, q.at, q.n, a)'
      BY <2>2, <3>4, <3>5 DEF Right
    <3>8. Serves1(q, a)
      BY <1>1, <2>2, <2>3, <3>1, <3>5, <3>6, <3>7, NextRequest DEF Serves1, Replies
    <3>9. QED
      BY <1>2, <3>8
  <2>7. QED
    BY <2>5, <2>6
<1>6. CASE ServeClose
  <2>1. PICK answer \in Promise : answer = Answer("ok", 0, 0) /\ answer.kind = "ok"
    BY AnswerIs DEF Replies
  <2>2. Replied(answer) /\ Serves("close") /\ UNCHANGED Others
    BY <1>6, <2>1 DEF ServeClose
  <2>3. PICK q \in Request : q = Head(sent) /\ q.op = "close"
    BY <2>2, NextRequest DEF Serves
  <2>4. Serves1(q, answer)
    BY <1>1, <2>1, <2>2, <2>3, NextRequest DEF Serves1, Right, Sized, Replies
  <2>5. QED
    BY <1>2, <2>4
<1>7. CASE Refuse
  <2>1. PICK answer \in Promise : answer = Answer("failure", 0, 0) /\ answer.kind = "failure"
    BY AnswerIs DEF Replies
  <2>2. Replied(answer) /\ UNCHANGED Others
    BY <1>7, <2>1 DEF Refuse
  <2>3. PICK q \in Request : q = Head(sent)
    BY <2>2, NextRequest
  <2>4. Serves1(q, answer)
    BY <1>1, <2>1, <2>2, <2>3, NextRequest DEF Serves1, Right, Sized, Replies
  <2>5. QED
    BY <1>2, <2>4
<1>8. QED
  BY <1>4, <1>5, <1>6, <1>7

LEMMA ServedOpen ==
  ASSUME FileAssumption, TypeOK, OnTheWay, Download, Upload, ServeOpen
  PROVE  FileGrows /\ \E q \in Request, answer \in Promise : Serves1(q, answer)
<1>1. PICK op \in {"open", "truncate"} :
        Serves(op) /\ file' = (IF op = "truncate" THEN <<>> ELSE file)
  BY DEF ServeOpen
<1>2. PICK answer \in Promise : answer = Answer("handle", 0, 0) /\ answer.kind = "handle"
  BY AnswerIs DEF Replies
<1>3. Replied(answer) /\ UNCHANGED Others /\ exists' = TRUE /\ failures' = failures
  BY <1>2 DEF ServeOpen
<1>4. PICK q \in Request : q = Head(sent) /\ q.op = op
  BY <1>1, <1>3, NextRequest DEF Serves
<1>5. Wire(q, 1)
  BY <1>3, <1>4, NextRequest
<1>6. file' = file
  BY <1>1, <1>4, <1>5 DEF Wire
<1>7. failures' \in 0..MaxFailures
  BY <1>3 DEF TypeOK
<1>8. Serves1(q, answer)
  BY <1>2, <1>3, <1>4, <1>7, NextRequest DEF Serves1, Right, Sized, Replies
<1>9. QED
  BY <1>6, <1>8, SameFile

LEMMA ServedWrite ==
  ASSUME FileAssumption, TypeOK, OnTheWay, Download, Upload, ServeWrite
  PROVE  FileGrows /\ \E q \in Request, answer \in Promise : Serves1(q, answer)
<1>2. PICK answer \in Promise : answer = Answer("ok", 0, 0) /\ answer.kind = "ok"
  BY AnswerIs DEF Replies
<1>3. Replied(answer) /\ UNCHANGED Others /\ exists' = exists /\ failures' = failures
  BY <1>2 DEF ServeWrite
<1>4. PICK q \in Request : q = Head(sent) /\ q.op = "write"
  BY <1>3, NextRequest DEF ServeWrite, Serves
<1>5. ~Downloads /\ q.at < SourceLength /\ (depth = 1 => q.at <= Len(file))
  <2>1. Wire(q, 1)
    BY <1>3, <1>4, NextRequest
  <2>2. QED
    BY <1>4, <2>1 DEF Wire
<1>6. PICK at \in Nat : at = q.at
  BY DEF Request
<1>7. file' = AfterWrite(file, at)
  BY <1>4, <1>6 DEF ServeWrite, AfterWrite
<1>8. file \in Seq(0..SourceLength) /\ at < SourceLength
  BY <1>5, <1>6 DEF TypeOK
<1>9. /\ file' \in Seq(0..SourceLength) /\ Len(file') >= Len(file)
      /\ Len(file') = IF at + 1 > Len(file) THEN at + 1 ELSE Len(file)
      /\ file'[at + 1] = at + 1
      /\ \A k \in 1..Len(file) : file'[k] = file[k] \/ file'[k] = k
  <2>1. Grown(file, file', at)
    BY <1>7, <1>8, FileWritten
  <2>2. QED
    BY <2>1 DEF Grown
<1>10. Len(file) \in Nat /\ Len(file') \in Nat /\ DOMAIN file = 1..Len(file)
       /\ DOMAIN file' = 1..Len(file') /\ SourceLength \in Nat
  BY <1>8, <1>9 DEF FileAssumption
<1>11. \A k \in Nat : Written(k) => Written(k)'
  <2> SUFFICES ASSUME NEW k \in Nat, Written(k) PROVE Written(k)'
    OBVIOUS
  <2>1. k + 1 <= Len(file) /\ file[k + 1] = k + 1 /\ k + 1 \in 1..Len(file)
    BY <1>10 DEF Written
  <2>2. k + 1 <= Len(file')
    BY <1>9, <1>10, <2>1
  <2>3. file'[k + 1] = k + 1
    BY <1>9, <2>1
  <2>4. QED
    BY <2>2, <2>3 DEF Written
<1>12. Len(file') <= SourceLength
  BY <1>5, <1>8, <1>9, <1>10 DEF Upload
<1>13. ASSUME depth = 1 PROVE \A k \in DOMAIN file' : file'[k] = k
  <2>1. at <= Len(file) /\ (\A k \in 1..Len(file) : file[k] = k)
    BY <1>5, <1>6, <1>10, <1>13 DEF Upload
  <2>2. \A k \in 1..Len(file') : k \in 1..Len(file) \/ k = at + 1
    BY <1>9, <1>10, <2>1
  <2>3. QED
    BY <1>9, <1>10, <2>1, <2>2
<1>14. FileGrows
  BY <1>5, <1>9, <1>11, <1>12, <1>13 DEF FileGrows
<1>15. Written(at)'
  BY <1>9, <1>10 DEF Written
<1>16. Right(q.op, q.at, q.n, answer)'
  BY <1>2, <1>4, <1>6, <1>15 DEF Right
<1>17. failures' \in 0..MaxFailures /\ exists' \in BOOLEAN
  BY <1>3 DEF TypeOK
<1>18. Serves1(q, answer)
  BY <1>2, <1>3, <1>4, <1>16, <1>17, NextRequest DEF Serves1, Sized, Replies
<1>19. QED
  BY <1>14, <1>18

\* One step of the world: a request served, an answer read, or promises that end.
Ends(id) == promise[id] = Pending /\ promise'[id].kind \in {"timeout", "ended"}
Heard(id) == \E a \in answers : a.id = id /\ promise'[id] = a.answer

Unheard ==
  /\ UNCHANGED <<nextRequestId, sent>> /\ UNCHANGED Others /\ UNCHANGED server
  /\ answers' \subseteq answers /\ loop' \in BOOLEAN /\ writable' \in BOOLEAN
  /\ promise' \in [Id -> Promise]
  /\ \A id \in Id : promise'[id] = promise[id] \/ Ends(id) \/ Heard(id)

LEMMA WorldSteps ==
  ASSUME FileAssumption, TypeOK, OnTheWay, Download, Upload, Outside
  PROVE  FileGrows /\ (Unheard \/ \E q \in Request, answer \in Promise : Serves1(q, answer))
<1>1. CASE Serving \/ Refuse
  BY <1>1, ServedSame, ServedOpen, ServedWrite DEF Serving
<1>2. promise \in [Id -> Promise] /\ loop \in BOOLEAN /\ writable \in BOOLEAN
      /\ answers \subseteq [id : Id, answer : Promise]
  BY DEF TypeOK, ClientTypeOK
<1>3. Answer("timeout", 0, 0) \in Promise /\ Answer("timeout", 0, 0).kind = "timeout"
      /\ Answer("ended", 0, 0) \in Promise /\ Answer("ended", 0, 0).kind = "ended"
  BY DEF Promise, Answer
<1>4. ASSUME NEW a \in answers, ReadLoop(a), UNCHANGED <<Others, server>> PROVE Unheard
  BY <1>2, <1>4 DEF Unheard, ReadLoop, Heard, pending
<1>5. ASSUME NEW id \in Id, Expires(id) PROVE Unheard
  BY <1>2, <1>3, <1>5 DEF Unheard, Expires, Timeout, Ends, pending
<1>6. ASSUME ChannelEnds PROVE Unheard
  BY <1>2, <1>3, <1>6 DEF Unheard, ChannelEnds, LoopEnds, Ends, pending
<1>7. CASE ~(Serving \/ Refuse)
  <2>1. Unheard
    BY <1>4, <1>5, <1>6, <1>7 DEF Outside, Arrives
  <2>2. file' = file
    BY <2>1 DEF Unheard, server
  <2>3. QED
    BY <2>1, <2>2, SameFile
<1>8. QED
  BY <1>1, <1>7

\* What leaves the queue to the server.
LEMMA Shifted ==
  ASSUME TypeOK, NEW q, NEW answer, Serves1(q, answer), NEW i \in DOMAIN sent'
  PROVE  i \in Nat \ {0} /\ i + 1 \in DOMAIN sent /\ sent'[i] = sent[i + 1] /\ sent' \in Seq(Request)
<1>1. sent \in Seq(Request) /\ sent # <<>> /\ sent' = Tail(sent)
  BY DEF TypeOK, ClientTypeOK, Serves1
<1>2. /\ Tail(sent) \in Seq(Request) /\ Len(Tail(sent)) = Len(sent) - 1
      /\ \A j \in 1..Len(Tail(sent)) : Tail(sent)[j] = sent[j + 1]
  BY <1>1, HeadTailProperties
<1>3. Len(sent) \in Nat /\ DOMAIN sent = 1..Len(sent) /\ DOMAIN sent' = 1..(Len(sent) - 1)
  BY <1>1, <1>2
<1>4. QED
  BY <1>1, <1>2, <1>3

World == Unheard \/ \E q \in Request, answer \in Promise : Serves1(q, answer)

LEMMA StillHeld ==
  ASSUME TypeOK, OnTheWay, World, NEW id \in Id, promise[id] # Unused
  PROVE  promise'[id] # Unused
<1>1. Unused.kind = "unused" /\ "unused" \notin Replies
  BY DEF Unused, Answer, Replies
<1>2. CASE Unheard
  <2>1. promise'[id] = promise[id] \/ promise'[id].kind \in {"timeout", "ended"}
        \/ promise'[id].kind \in Replies
    BY <1>2 DEF Unheard, Ends, Heard, OnTheWay
  <2>2. QED
    BY <1>1, <2>1
<1>3. CASE \E q \in Request, answer \in Promise : Serves1(q, answer)
  BY <1>3 DEF Serves1
<1>4. QED
  BY <1>2, <1>3 DEF World

LEMMA LinkWorld ==
  ASSUME TypeOK, OnTheWay, FileGrows, World,
         NEW id \in Id, NEW op, NEW at \in Nat, NEW n, Link(id, op, at, n)
  PROVE  Link(id, op, at, n)'
<1>1. promise'[id] # Unused
  BY StillHeld DEF Link
<1>2. Written(at) => Written(at)'
  BY DEF FileGrows
<1>3. ASSUME NEW x, Right(op, at, n, x) PROVE Right(op, at, n, x)'
  BY <1>2, <1>3, RightKept
<1>4. CASE Unheard
  <2>1. Right(op, at, n, promise'[id])
    <3>1. CASE promise'[id] = promise[id]
      BY <3>1 DEF Link
    <3>2. CASE Ends(id)
      BY <3>2 DEF Ends, Right
    <3>3. CASE Heard(id)
      BY <3>3 DEF Heard, Link
    <3>4. QED
      BY <1>4, <3>1, <3>2, <3>3 DEF Unheard
  <2>2. PICK p : p = promise'[id]
    OBVIOUS
  <2>3. Right(op, at, n, p)'
    BY <1>3, <2>1, <2>2
  <2>4. Right(op, at, n, promise[id])'
    BY <2>2, <2>3 DEF Right
  <2>5. answers' \subseteq answers /\ sent' = sent
    BY <1>4 DEF Unheard
  <2>6. \A a \in answers' : a.id = id => Right(op, at, n, a.answer)'
    BY <1>3, <2>5 DEF Link
  <2>7. QED
    BY <1>1, <2>4, <2>5, <2>6 DEF Link
<1>5. ASSUME NEW q \in Request, NEW answer \in Promise, Serves1(q, answer)
      PROVE  Link(id, op, at, n)'
  <2>1. promise' = promise /\ q = sent[1] /\ 1 \in DOMAIN sent /\ Right(q.op, q.at, q.n, answer)'
        /\ answers' = answers \cup {[id |-> q.id, answer |-> answer]}
    BY <1>5 DEF Serves1
  <2>2. Right(op, at, n, promise[id])'
    <3>1. PICK p : p = promise[id]
      OBVIOUS
    <3>2. Right(op, at, n, p)'
      BY <1>3, <3>1 DEF Link
    <3>3. QED
      BY <2>1, <3>1, <3>2 DEF Right
  <2>3. q.id = id => Right(op, at, n, answer)'
    <3>1. q.id = id => q = [id |-> id, op |-> op, at |-> at, n |-> n]
      BY <2>1 DEF Link
    <3>2. q.id = id => q.op = op /\ q.at = at /\ q.n = n
      BY <3>1
    <3>3. QED
      BY <2>1, <3>2
  <2>4. \A a \in answers' : a.id = id => Right(op, at, n, a.answer)'
    <3>1. TAKE a \in answers'
    <3>2. CASE a \in answers
      BY <1>3, <3>2 DEF Link
    <3>3. CASE a = [id |-> q.id, answer |-> answer]
      <4>1. a.id = q.id /\ a.answer = answer
        BY <3>3
      <4>2. QED
        BY <2>3, <4>1
    <3>4. QED
      BY <2>1, <3>2, <3>3
  <2>5. \A i \in DOMAIN sent' : sent'[i].id = id => sent'[i] = [id |-> id, op |-> op, at |-> at, n |-> n]
    BY <1>5, Shifted DEF Link
  <2>6. QED
    BY <1>1, <2>2, <2>4, <2>5 DEF Link
<1>6. QED
  BY <1>4, <1>5 DEF World

LEMMA WorldTypes ==
  ASSUME TypeOK, OnTheWay, FileGrows, World
  PROVE  /\ TypeOK'
         /\ UNCHANGED Others
         /\ nextRequestId' = nextRequestId
         /\ exists => exists'
<1>1. CASE Unheard
  <2>1. ClientTypeOK'
    BY <1>1 DEF Unheard, TypeOK, ClientTypeOK
  <2>2. QED
    BY <1>1, <2>1 DEF Unheard, TypeOK, Others, server, reader, writer
<1>2. ASSUME NEW q \in Request, NEW answer \in Promise, Serves1(q, answer)
      PROVE  TypeOK' /\ UNCHANGED Others /\ nextRequestId' = nextRequestId /\ (exists => exists')
  <2>1. sent' \in Seq(Request)
    <3>1. sent \in Seq(Request) /\ sent # <<>> /\ sent' = Tail(sent)
      BY <1>2 DEF TypeOK, ClientTypeOK, Serves1
    <3>2. QED
      BY <3>1, HeadTailProperties
  <2>2. [id |-> q.id, answer |-> answer] \in [id : Id, answer : Promise]
    BY DEF Request
  <2>3. ClientTypeOK'
    BY <1>2, <2>1, <2>2 DEF Serves1, TypeOK, ClientTypeOK
  <2>4. file' \in Seq(0..SourceLength) /\ exists' \in BOOLEAN /\ failures' \in 0..MaxFailures
    BY <1>2 DEF FileGrows, Serves1
  <2>5. UNCHANGED Others /\ nextRequestId' = nextRequestId /\ (exists => exists')
    BY <1>2 DEF Serves1
  <2>6. QED
    BY <2>3, <2>4, <2>5 DEF TypeOK, Others, reader, writer
<1>3. QED
  BY <1>1, <1>2 DEF World

LEMMA WireWorld ==
  ASSUME TypeOK, OnTheWay, FileGrows, World
  PROVE  OnTheWay'
<1>1. Downloads' = Downloads /\ depth' = depth
  BY WorldTypes DEF Others, Downloads
<1>2. Len(file) \in Nat /\ Len(file') \in Nat /\ Len(file') >= Len(file)
  BY DEF FileGrows, TypeOK
<1>3. CASE Unheard
  <2>1. file' = file /\ sent' = sent /\ answers' \subseteq answers
    BY <1>3 DEF Unheard, server
  <2>2. QED
    BY <1>1, <2>1 DEF OnTheWay, Wire
<1>4. ASSUME NEW q \in Request, NEW answer \in Promise, Serves1(q, answer) PROVE OnTheWay'
  <2>1. \A a \in answers' : a.answer.kind \in Replies
    BY <1>4 DEF Serves1, OnTheWay
  <2>2. ASSUME NEW i \in DOMAIN sent' PROVE Wire(sent[i], i)'
    <3>1. i + 1 \in DOMAIN sent /\ sent'[i] = sent[i + 1] /\ i + 1 # 1
      BY <1>4, Shifted
    <3>2. PICK r : r = sent[i + 1]
      OBVIOUS
    <3>3. sent[i + 1].op # "truncate" \/ Downloads
      BY <3>1, <3>2 DEF OnTheWay, Wire
    <3>4. Wire(r, i + 1)
      BY <3>1, <3>2 DEF OnTheWay
    <3>5. r.at \in Int
      <4>1. sent[i + 1] \in Request
        BY <3>1 DEF TypeOK, ClientTypeOK
      <4>2. QED
        BY <3>2, <4>1 DEF Request
    <3>6. Wire(r, i)'
      BY <1>1, <1>2, <3>2, <3>3, <3>4, <3>5 DEF Wire
    <3>7. QED
      BY <3>1, <3>2, <3>6 DEF Wire
  <2>3. QED
    BY <2>1, <2>2 DEF OnTheWay
<1>5. QED
  BY <1>3, <1>4 DEF World

LEMMA SizedWorld ==
  ASSUME TypeOK, OnTheWay, Upload, ~Downloads, FileGrows, World
  PROVE  /\ \A a \in answers' : Sized(a.answer)'
         /\ \A id \in Id : Sized(promise[id])'
<1>1. Len(file) \in Nat /\ Len(file') \in Nat /\ Len(file') >= Len(file)
  BY DEF FileGrows, TypeOK
<1>2. ASSUME NEW a \in Promise, Sized(a) PROVE Sized(a)'
  BY <1>1, <1>2 DEF Sized, Promise
<1>3. promise \in [Id -> Promise] /\ promise' \in [Id -> Promise]
      /\ answers \subseteq [id : Id, answer : Promise]
  BY WorldTypes DEF TypeOK, ClientTypeOK
<1>4. CASE Unheard
  <2>1. \A id \in Id : Sized(promise'[id])
    BY <1>4 DEF Unheard, Ends, Heard, Upload, Sized
  <2>2. \A id \in Id : Sized(promise[id])'
    BY <1>1, <1>3, <2>1 DEF Sized, Promise
  <2>3. answers' \subseteq answers
    BY <1>4 DEF Unheard
  <2>4. QED
    BY <1>2, <1>3, <2>2, <2>3 DEF Upload
<1>5. ASSUME NEW q \in Request, NEW answer \in Promise, Serves1(q, answer)
      PROVE  (\A a \in answers' : Sized(a.answer)') /\ (\A id \in Id : Sized(promise[id])')
  <2>1. promise' = promise /\ Sized(answer)'
        /\ answers' = answers \cup {[id |-> q.id, answer |-> answer]}
    BY <1>5 DEF Serves1
  <2>2. \A id \in Id : Sized(promise[id])'
    BY <1>1, <1>3, <2>1 DEF Upload, Sized, Promise
  <2>3. \A a \in answers' : Sized(a.answer)'
    <3>1. TAKE a \in answers'
    <3>2. CASE a \in answers
      BY <1>2, <1>3, <3>2 DEF Upload
    <3>3. CASE a = [id |-> q.id, answer |-> answer]
      <4>1. a.answer = answer
        BY <3>3
      <4>2. QED
        BY <2>1, <4>1
    <3>4. QED
      BY <2>1, <3>2, <3>3
  <2>4. QED
    BY <2>2, <2>3
<1>6. QED
  BY <1>4, <1>5 DEF World

Flight == [at : Nat, id : Id]

LEMMA Flights ==
  ASSUME NEW s \in Seq(Flight), NEW j \in DOMAIN s
  PROVE  /\ j \in 1..Len(s) /\ Len(s) \in Nat /\ s[j] \in Flight
         /\ s[j].id \in Id /\ s[j].at \in Nat /\ s[j].id \in Ids(s)
<1>1. j \in 1..Len(s) /\ Len(s) \in Nat /\ s[j] \in Flight
  OBVIOUS
<1>2. QED
  BY <1>1 DEF Flight, Ids

LEMMA InFlight == ASSUME TypeOK PROVE inflight \in Seq(Flight)
  BY DEF TypeOK, Flight

LEMMA WorldKeeps ==
  ASSUME FileAssumption, IInv, Outside
  PROVE  IInv'
<1>1. TypeOK /\ OnTheWay /\ FileGrows /\ World
  BY WorldSteps DEF IInv, World
<1>2. TypeOK' /\ OnTheWay' /\ UNCHANGED Others /\ (exists => exists')
  BY <1>1, WorldTypes, WireWorld
<1>3. Downloads' = Downloads
  BY <1>2 DEF Others, Downloads
<1>4. Download'
  BY <1>1, <1>2, <1>3 DEF IInv, Download, FileGrows, Others, reader, writer, Source, Downloads, TypeOK
<1>5. Asking'
  <2> SUFFICES ASSUME Downloads, pc \in {"readerIdle", "read"}
               PROVE  /\ \A j \in DOMAIN inflight : Link(inflight[j].id, "read", inflight[j].at, reqLen)'
                      /\ \A j, k \in DOMAIN inflight : inflight[j].id = inflight[k].id => j = k
    BY <1>2, <1>3 DEF Asking, Others, reader, Link, Right
  <2>1. Asking
    BY DEF IInv
  <2>2. ASSUME NEW j \in DOMAIN inflight
        PROVE  Link(inflight[j].id, "read", inflight[j].at, reqLen)'
    <3>1. inflight[j].id \in Id /\ inflight[j].at \in Nat
      BY <1>1, InFlight, Flights
    <3>2. PICK id \in Id, at \in Nat, n \in Nat : id = inflight[j].id /\ at = inflight[j].at /\ n = reqLen
      BY <1>1, <3>1 DEF TypeOK
    <3>3. Link(id, "read", at, n)
      BY <2>1, <3>2 DEF Asking
    <3>4. Link(id, "read", at, n)'
      BY <1>1, <3>3, LinkWorld
    <3>5. inflight' = inflight /\ reqLen' = reqLen
      BY <1>2 DEF Others, reader
    <3>6. QED
      BY <3>2, <3>4, <3>5
  <2>3. QED
    BY <2>1, <2>2 DEF Asking
<1>6. Order' /\ Got'
  BY <1>2, <1>3 DEF IInv, Order, Got, Chained, Pos, Others, reader, writer, Downloads
<1>7. Upload'
  <2> SUFFICES ASSUME ~Downloads PROVE Upload'
    BY <1>3 DEF Upload
  <2>1. (\A a \in answers' : Sized(a.answer)') /\ (\A id \in Id : Sized(promise[id])')
    BY <1>1, SizedWorld DEF IInv
  <2>2. attempts = 0 => pc = "writer" /\ sent' = <<>> /\ file' = <<>>
    <3> SUFFICES ASSUME attempts = 0 PROVE pc = "writer" /\ sent' = <<>> /\ file' = <<>>
      OBVIOUS
    <3>1. pc = "writer" /\ sent = <<>> /\ file = <<>>
      BY DEF IInv, Upload
    <3>2. Unheard
      BY <1>1, <3>1 DEF World, Serves1
    <3>3. QED
      BY <3>1, <3>2 DEF Unheard, server
  <2>3. eof = "no" /\ delivered = <<>> /\ startOffset <= Len(file) /\ (pc = "stat" => resuming)
    BY DEF IInv, Upload
  <2>4. Len(file') <= SourceLength /\ startOffset <= Len(file')
        /\ (depth = 1 => \A k \in DOMAIN file' : file'[k] = k)
    <3>1. Len(file) \in Nat /\ Len(file') \in Nat /\ startOffset \in Nat /\ Len(file') >= Len(file)
      <4>1. file' \in Seq(0..SourceLength) /\ Len(file') >= Len(file)
        BY <1>1 DEF FileGrows
      <4>2. file \in Seq(0..SourceLength) /\ startOffset \in Nat
        BY <1>1 DEF TypeOK
      <4>3. QED
        BY <4>1, <4>2
    <3>2. QED
      BY <1>1, <2>3, <3>1 DEF FileGrows
  <2>5. UNCHANGED <<eof, delivered, startOffset, pc, resuming, depth, attempts>>
    BY <1>2 DEF Others, reader, writer
  <2>6. QED
    BY <1>3, <2>1, <2>2, <2>3, <2>4, <2>5 DEF Upload, Sized
<1>8. Queue'
  <2> SUFFICES ASSUME ~Downloads PROVE Queue'
    BY <1>3 DEF Queue
  <2>1. \A id \in uncaught : promise'[id] # Unused
    BY <1>1, StillHeld DEF IInv, Queue, TypeOK
  <2>2. QED
    BY <1>2, <1>3, <2>1 DEF IInv, Queue, Others, writer, Busy, Ids
<1>9. Whole'
  <2> SUFFICES ASSUME ~Downloads PROVE Whole'
    BY <1>3 DEF Whole
  <2>1. UNCHANGED <<pc, failure, startOffset, offset, uncaught>>
    BY <1>2 DEF Others, writer
  <2>2. startOffset \in Nat /\ offset \in Nat /\ uncaught \subseteq Id
    BY <1>1 DEF TypeOK
  <2>3. \A k \in startOffset..(offset - 1) : k \in Nat /\ (Written(k) => Written(k)')
    BY <1>1, <2>2 DEF FileGrows
  <2>4. ASSUME NEW k \in Nat, Owed(k) PROVE Owed(k)'
    <3>1. PICK id \in uncaught : Link(id, "write", k, 1)
      BY <2>4 DEF Owed
    <3>2. Link(id, "write", k, 1)'
      BY <1>1, <2>2, <3>1, LinkWorld
    <3>3. QED
      BY <2>1, <3>1, <3>2 DEF Owed
  <2>5. QED
    BY <2>1, <2>3, <2>4 DEF IInv, Whole
<1>10. QED
  BY <1>2, <1>4, <1>5, <1>6, <1>7, <1>8, <1>9 DEF IInv

-----------------------------------------------------------------------------
(***************************************************************************)
(* A step of the handle: it asks, or forgets, and the server waits.        *)
(***************************************************************************)
Moves(forgotten) ==
  /\ Forget(forgotten) \/ \E asked : Proper(asked) /\ Issue(asked, forgotten)
  /\ UNCHANGED server /\ depth' = depth /\ Downloads' = Downloads

LEMMA MovesNothing ==
  ASSUME TypeOK, UNCHANGED client
  PROVE  Forget({})
  BY DEF TypeOK, ClientTypeOK, Forget, client

LEMMA MovedTypes ==
  ASSUME ClientAssumption, TypeOK, OnTheWay, NEW forgotten, Moves(forgotten)
  PROVE  ClientTypeOK' /\ OnTheWay' /\ answers' = answers
<1>1. file' = file
  BY DEF Moves, server
<1>2. CASE Forget(forgotten)
  <2>1. Unused \in Promise
    BY DEF Unused, Answer, Promise
  <2>2. ClientTypeOK'
    BY <1>2, <2>1 DEF Forget, TypeOK, ClientTypeOK
  <2>3. OnTheWay' /\ answers' = answers
    BY <1>1, <1>2 DEF Forget, OnTheWay, Wire, Moves
  <2>4. QED
    BY <2>2, <2>3
<1>3. ASSUME NEW asked, Proper(asked), Issue(asked, forgotten)
      PROVE  ClientTypeOK' /\ OnTheWay' /\ answers' = answers
  <2>1. asked \in Seq(Question) /\ Len(asked) <= IdModulus - 1 /\ ClientTypeOK
    BY <1>3 DEF Proper, TypeOK
  <2>2. ClientTypeOK' /\ answers' = answers
    BY <1>3, <2>1, Issued
  <2>3. ASSUME NEW i \in DOMAIN sent' PROVE Wire(sent[i], i)'
    <3>1. i \in 1..Len(sent') /\ Len(sent) \in Nat /\ DOMAIN sent = 1..Len(sent)
      BY <2>1, <2>2 DEF ClientTypeOK
    <3>2. CASE i <= Len(sent)
      <4>1. i \in 1..Len(sent)
        BY <3>1, <3>2
      <4>2. sent'[i] = sent[i] /\ Wire(sent[i], i)
        BY <1>3, <2>1, <3>1, <4>1, Issued DEF OnTheWay
      <4>3. QED
        BY <1>1, <4>2 DEF Wire, Moves
    <3>3. CASE i > Len(sent)
      <4>1. i \in (Len(sent) + 1)..Len(sent')
        BY <3>1, <3>3
      <4>2. /\ i - Len(sent) \in 1..Len(asked)
            /\ sent'[i] = [id |-> NextId(i - Len(sent) - 1), op |-> asked[i - Len(sent)].op,
                           at |-> asked[i - Len(sent)].at, n |-> asked[i - Len(sent)].n]
        BY <1>3, <2>1, <4>1, Issued
      <4>3. PICK j \in 1..Len(asked) : j = i - Len(sent)
        BY <4>2
      <4>4. sent'[i].op = asked[j].op /\ sent'[i].at = asked[j].at
        BY <4>2, <4>3
      <4>5. Wire(asked[j], j) /\ (asked[j].op = "truncate" => sent = <<>>)
        BY <1>3 DEF Proper
      <4>6. asked[j].op = "truncate" => i = j
        BY <3>1, <4>3, <4>5
      <4>7. QED
        BY <1>1, <4>4, <4>5, <4>6 DEF Wire, Moves
    <3>4. QED
      BY <3>1, <3>2, <3>3
  <2>4. QED
    BY <2>2, <2>3 DEF OnTheWay
<1>4. QED
  BY <1>2, <1>3 DEF Moves

LEMMA MovedPromise ==
  ASSUME ClientAssumption, TypeOK, NEW forgotten, Moves(forgotten), NEW id \in Id
  PROVE  /\ promise'[id] \in {promise[id], Unused} \/ promise'[id].kind \in {"pending", "ended"}
         /\ promise[id] # Unused => promise'[id] = IF id \in forgotten THEN Unused ELSE promise[id]
<1>1. CASE Forget(forgotten)
  BY <1>1 DEF Forget
<1>2. ASSUME NEW asked, Proper(asked), Issue(asked, forgotten)
      PROVE  /\ promise'[id] \in {promise[id], Unused} \/ promise'[id].kind \in {"pending", "ended"}
             /\ promise[id] # Unused => promise'[id] = IF id \in forgotten THEN Unused ELSE promise[id]
  <2>1. asked \in Seq(Question) /\ Len(asked) <= IdModulus - 1 /\ ClientTypeOK
    BY <1>2 DEF Proper, TypeOK
  <2>2. promise'[id] \in {promise[id], Unused} \/ promise'[id].kind \in {"pending", "ended"}
    BY <1>2, <2>1, Issued
  <2>3. QED
    BY <1>2, <2>1, <2>2, Kept
<1>3. QED
  BY <1>1, <1>2 DEF Moves

LEMMA LinkMoved ==
  ASSUME ClientAssumption, TypeOK, NEW forgotten, Moves(forgotten),
         NEW id \in Id, NEW op, NEW at \in Nat, NEW n, Link(id, op, at, n), id \notin forgotten
  PROVE  Link(id, op, at, n)'
<1>1. file' = file
  BY DEF Moves, server
<1>2. CASE Forget(forgotten)
  BY <1>1, <1>2, LinkForgotten
<1>3. ASSUME NEW asked, Proper(asked), Issue(asked, forgotten) PROVE Link(id, op, at, n)'
  <2>1. asked \in Seq(Question) /\ Len(asked) <= IdModulus - 1 /\ ClientTypeOK
    BY <1>3 DEF Proper, TypeOK
  <2>2. QED
    BY <1>1, <1>3, <2>1, LinkIssued
<1>4. QED
  BY <1>2, <1>3 DEF Moves

\* One request that carries no data.
LEMMA AskOne ==
  ASSUME ClientAssumption, NEW op \in Op,
         IF Downloads THEN op \in {"open", "close"}
         ELSE op \in {"stat", "open", "close"} \/ (op = "truncate" /\ sent = <<>> /\ file = <<>>)
  PROVE  Proper(<<Asked(op, 0, 0)>>)
<1>1. PICK q \in Question : q = Asked(op, 0, 0)
  BY DEF Question, Asked
<1>2. q.op = op
  BY <1>1 DEF Asked
<1>3. <<q>> \in Seq(Question) /\ Len(<<q>>) = 1 /\ <<q>>[1] = q
  OBVIOUS
<1>4. 1 <= IdModulus - 1
  BY DEF ClientAssumption
<1>5. Wire(q, 1) /\ (q.op = "truncate" => sent = <<>>)
  BY <1>2 DEF Wire
<1>6. QED
  BY <1>1, <1>3, <1>4, <1>5 DEF Proper

-----------------------------------------------------------------------------
(***************************************************************************)
(* The pipeline of a reader: its requests cover the file without gaps.     *)
(***************************************************************************)
LEMMA Products ==
  /\ \A a, b \in Nat : a * b \in Nat
  /\ \A a, b \in Nat : a \in Nat \ {0} => a * b = (a - 1) * b + b
  /\ \A b \in Nat : 0 * b = 0
  OBVIOUS

LEMMA ChainAppend ==
  ASSUME NEW held \in Seq(Flight), NEW more \in Seq(Flight),
         NEW first \in Nat, NEW length \in Nat, NEW next \in Nat,
         Chained(held, first, length, next),
         \A j \in 1..Len(more) : more[j].at = next + (j - 1) * length
  PROVE  Chained(held \o more, first, length, next + Len(more) * length)
<1>1. PICK h \in Nat, m \in Nat : h = Len(held) /\ m = Len(more)
  OBVIOUS
<1>2. PICK all \in Seq(Flight) : all = held \o more
  BY ConcatProperties
<1>3. /\ Len(all) = h + m
      /\ \A i \in 1..h : all[i] = held[i]
      /\ \A i \in 1..m : all[i + h] = more[i]
  <2>1. Len(all) = h + m /\ (\A i \in 1..(h + m) : all[i] = IF i <= h THEN held[i] ELSE more[i - h])
    BY <1>1, <1>2, ConcatProperties
  <2>2. \A i \in 1..m : i + h \in 1..(h + m) /\ ~(i + h <= h) /\ i + h - h = i
    OBVIOUS
  <2>3. \A i \in 1..h : i \in 1..(h + m) /\ i <= h
    OBVIOUS
  <2>4. QED
    BY <2>1, <2>2, <2>3
<1>a. (held = <<>> <=> h = 0) /\ (more = <<>> <=> m = 0) /\ (all = <<>> <=> h + m = 0)
  BY <1>1, <1>3, EmptySeq
<1>4. CASE m = 0
  <2>1. more = <<>>
    BY <1>a, <1>4
  <2>2. all = held
    BY <1>2, <2>1, ConcatEmptySeq
  <2>3. next + m * length = next
    BY <1>4
  <2>4. QED
    BY <1>1, <1>2, <2>2, <2>3
<1>5. CASE m > 0
  <2>1. all # <<>>
    BY <1>a, <1>5
  <2>2. all[1].at = first
    <3>1. CASE h = 0
      <4>1. held = <<>> /\ next = first
        BY <1>a, <3>1 DEF Chained
      <4>2. all[1] = more[1]
        <5>1. 1 \in 1..m /\ 1 + h = 1
          BY <1>5, <3>1
        <5>2. QED
          BY <1>3, <5>1
      <4>3. more[1].at = next + 0 * length
        BY <1>1, <1>5
      <4>4. QED
        BY <4>1, <4>2, <4>3
    <3>2. CASE h > 0
      <4>1. held # <<>> /\ all[1] = held[1]
        BY <1>a, <1>3, <3>2
      <4>2. QED
        BY <4>1 DEF Chained
    <3>3. QED
      BY <3>1, <3>2
  <2>3. next + m * length = all[h + m].at + length
    <3>1. all[h + m] = more[m]
      <4>1. m \in 1..m /\ h + m = m + h
        BY <1>5
      <4>2. QED
        BY <1>3, <4>1
    <3>2. more[m].at = next + (m - 1) * length
      BY <1>1, <1>5
    <3>3. m * length = (m - 1) * length + length /\ (m - 1) * length \in Nat /\ m - 1 \in Nat
      BY <1>5, Products
    <3>4. QED
      BY <3>1, <3>2, <3>3
  <2>4. ASSUME NEW j \in 1..(h + m - 1) PROVE all[j + 1].at = all[j].at + length
    <3>1. CASE j < h
      <4>0. j \in 1..h /\ j + 1 \in 1..h /\ h # 0 /\ j \in 1..(h - 1)
        BY <3>1
      <4>1. all[j] = held[j] /\ all[j + 1] = held[j + 1] /\ held # <<>> /\ j \in 1..(h - 1)
        BY <1>3, <1>a, <4>0
      <4>2. QED
        BY <1>1, <4>1 DEF Chained
    <3>2. CASE j = h
      <4>0. h \in 1..h /\ 1 \in 1..m /\ j + 1 = 1 + h /\ h # 0
        BY <1>5, <3>2
      <4>1. all[j] = held[h] /\ all[j + 1] = more[1] /\ held # <<>>
        BY <1>3, <1>a, <3>2, <4>0
      <4>2. more[1].at = next + 0 * length
        BY <1>1, <1>5
      <4>3. next = held[h].at + length
        BY <1>1, <4>1 DEF Chained
      <4>4. QED
        BY <4>1, <4>2, <4>3
    <3>3. CASE j > h
      <4>1. PICK k \in Nat \ {0} : k = j - h
        BY <3>3
      <4>2. k \in 1..m /\ k + 1 \in 1..m /\ j = k + h /\ j + 1 = k + 1 + h
        BY <4>1
      <4>3. all[j] = more[k] /\ all[j + 1] = more[k + 1]
        BY <1>3, <4>2
      <4>4. more[k].at = next + (k - 1) * length /\ more[k + 1].at = next + k * length
        BY <1>1, <4>2
      <4>5. k * length = (k - 1) * length + length /\ (k - 1) * length \in Nat
        BY Products
      <4>6. QED
        BY <4>3, <4>4, <4>5
    <3>4. QED
      BY <1>1, <3>1, <3>2, <3>3
  <2>5. Chained(all, first, length, next + m * length)
    BY <1>1, <1>3, <2>1, <2>2, <2>3, <2>4 DEF Chained
  <2>6. QED
    BY <1>1, <1>2, <2>5
<1>6. QED
  BY <1>1, <1>4, <1>5

LEMMA ChainTail ==
  ASSUME NEW s \in Seq(Flight), s # <<>>,
         NEW first \in Nat, NEW length \in Nat, NEW next \in Nat, Chained(s, first, length, next)
  PROVE  /\ Tail(s) \in Seq(Flight) /\ Len(Tail(s)) = Len(s) - 1
         /\ Chained(Tail(s), first + length, length, next)
<1>1. PICK t \in Seq(Flight) : t = Tail(s)
  BY HeadTailProperties
<1>2. Len(t) = Len(s) - 1 /\ (\A i \in 1..Len(t) : t[i] = s[i + 1])
  BY <1>1, HeadTailProperties
<1>3. PICK l \in Nat : l = Len(s)
  OBVIOUS
<1>4. s[1].at = first /\ next = s[l].at + length /\ (\A j \in 1..(l - 1) : s[j + 1].at = s[j].at + length)
  BY <1>3 DEF Chained
<1>5. CASE l = 1
  <2>1. t = <<>>
    BY <1>2, <1>3, <1>5
  <2>2. QED
    BY <1>1, <1>2, <1>3, <1>4, <1>5, <2>1 DEF Chained
<1>6. CASE l > 1
  <2>1. t # <<>> /\ t[1] = s[2] /\ t[l - 1] = s[l] /\ Len(t) = l - 1
    BY <1>2, <1>3, <1>6
  <2>2. t[1].at = first + length /\ next = t[l - 1].at + length
    BY <1>4, <1>6, <2>1
  <2>3. \A j \in 1..(l - 2) : t[j + 1].at = t[j].at + length
    <3>1. TAKE j \in 1..(l - 2)
    <3>2. t[j] = s[j + 1] /\ t[j + 1] = s[j + 1 + 1] /\ j + 1 \in 1..(l - 1)
      BY <1>2, <1>3
    <3>3. QED
      BY <1>4, <3>2
  <2>4. QED
    BY <1>1, <1>3, <2>1, <2>2, <2>3 DEF Chained
<1>7. l > 0
  BY <1>3
<1>8. QED
  BY <1>5, <1>6, <1>7

LEMMA TopUpIs ==
  ASSUME ClientAssumption, FileAssumption, nextRequestId \in Id, depth \in Depths,
         NEW held \in Seq(Flight), Len(held) <= depth, NEW from \in Nat, NEW length \in Nat
  PROVE  /\ TopUp(held, from, length) \in Seq(Flight)
         /\ Len(TopUp(held, from, length)) = depth - Len(held)
         /\ \A j \in 1..(depth - Len(held)) :
              /\ TopUp(held, from, length)[j].at = from + (j - 1) * length
              /\ TopUp(held, from, length)[j].id = NextId(j - 1)
         /\ depth - Len(held) \in Nat /\ depth - Len(held) <= IdModulus - 1
<1>1. PICK m \in Nat : m = depth - Len(held) /\ m <= IdModulus - 1
  BY DEF FileAssumption, ClientAssumption
<1>2. PICK f : f = TopUp(held, from, length)
  OBVIOUS
<1>3. f = [j \in 1..m |-> [at |-> from + (j - 1) * length, id |-> NextId(j - 1)]]
  BY <1>1, <1>2 DEF TopUp
<1>4. \A j \in 1..m : from + (j - 1) * length \in Nat /\ NextId(j - 1) \in Id
  <2>1. TAKE j \in 1..m
  <2>2. j - 1 \in Nat
    OBVIOUS
  <2>3. (j - 1) * length \in Nat
    BY <2>2, Products
  <2>4. QED
    BY <2>2, <2>3, NextIdIn
<1>5. \A j \in 1..m : f[j] = [at |-> from + (j - 1) * length, id |-> NextId(j - 1)] /\ f[j] \in Flight
  BY <1>3, <1>4 DEF Flight
<1>6. DOMAIN f = 1..m /\ f = [j \in 1..m |-> f[j]]
  BY <1>3
<1>a. f \in [1..m -> Flight]
  BY <1>5, <1>6
<1>7. f \in Seq(Flight) /\ Len(f) = m
  BY <1>a
<1>8. \A j \in 1..m : f[j].at = from + (j - 1) * length /\ f[j].id = NextId(j - 1)
  <2>1. TAKE j \in 1..m
  <2>2. PICK a, i : a = from + (j - 1) * length /\ i = NextId(j - 1)
    OBVIOUS
  <2>3. f[j] = [at |-> a, id |-> i]
    BY <1>5, <2>2
  <2>4. f[j].at = a /\ f[j].id = i
    BY <2>3
  <2>5. QED
    BY <2>2, <2>4
<1>9. QED
  BY <1>1, <1>2, <1>7, <1>8

LEMMA ReadsAre ==
  ASSUME NEW s \in Seq(Flight), NEW length \in Nat
  PROVE  /\ Reads(s, length) \in Seq(Question) /\ Len(Reads(s, length)) = Len(s)
         /\ \A j \in 1..Len(s) : Reads(s, length)[j] = [op |-> "read", at |-> s[j].at, n |-> length]
<1>1. DOMAIN s = 1..Len(s) /\ Len(s) \in Nat /\ (\A j \in 1..Len(s) : s[j].at \in Nat)
  BY Flights
<1>2. PICK f : f = Reads(s, length)
  OBVIOUS
<1>3. f = [j \in 1..Len(s) |-> [op |-> "read", at |-> s[j].at, n |-> length]]
  BY <1>1, <1>2 DEF Reads, Asked
<1>4. \A j \in 1..Len(s) : f[j] = [op |-> "read", at |-> s[j].at, n |-> length] /\ f[j] \in Question
  BY <1>1, <1>3 DEF Question, Op
<1>5. f = [j \in 1..Len(s) |-> f[j]] /\ f \in [1..Len(s) -> Question]
  BY <1>3, <1>4
<1>6. f \in Seq(Question) /\ Len(f) = Len(s)
  BY <1>1, <1>5
<1>7. QED
  BY <1>2, <1>4, <1>6

-----------------------------------------------------------------------------
(***************************************************************************)
(* The steps of a reader.                                                  *)
(***************************************************************************)
ReaderTypes ==
  /\ awaited \in Id /\ inflight \in Seq(Flight) /\ Len(inflight) <= depth
  /\ offset \in Nat /\ into \in Nat /\ reqLen \in Nat
  /\ eof \in {"no", "end", "failed"} /\ leftover \in [at : Nat, n : Nat]
  /\ delivered \in Seq(Nat)

LEMMA ReaderTyped ==
  ASSUME TypeOK
  PROVE  /\ ReaderTypes /\ startOffset \in Nat /\ nextRequestId \in Id /\ ClientTypeOK
         /\ depth \in Depths
  BY DEF TypeOK, ReaderTypes, Flight, ClientTypeOK

LEMMA DepthIs ==
  ASSUME ClientAssumption, FileAssumption, TypeOK
  PROVE  depth \in Nat \ {0} /\ depth <= IdModulus - 1
<1>1. depth \in 1..(IdModulus - 1) /\ IdModulus \in Nat
  BY DEF ClientAssumption, FileAssumption, TypeOK
<1>2. QED
  BY <1>1

LEMMA ReaderNext ==
  ASSUME ClientAssumption, IInv, Downloads, NEW forgotten, Moves(forgotten), UNCHANGED writer,
         ReaderTypes', Download', Asking', Order', Got'
  PROVE  IInv'
<1>1. ClientTypeOK' /\ OnTheWay'
  BY MovedTypes DEF IInv
<1>2. Downloads' /\ depth' = depth /\ UNCHANGED server
  BY DEF Moves
<1>3. TypeOK'
  BY <1>1, <1>2 DEF IInv, TypeOK, ReaderTypes, Flight, writer, server, Downloads
<1>4. QED
  BY <1>1, <1>2, <1>3 DEF IInv, Upload, Queue, Whole

LEMMA Delivered ==
  ASSUME TypeOK, NEW at \in Nat, NEW n \in Nat, Deliver(at, n),
         n > 0 => at = startOffset + Len(delivered),
         \A k \in DOMAIN delivered : delivered[k] = startOffset + k
  PROVE  /\ delivered' \in Seq(Nat) /\ Len(delivered') = Len(delivered) + n
         /\ \A k \in DOMAIN delivered' : delivered'[k] = startOffset + k
<1>1. PICK d \in Seq(Nat), l \in Nat, s \in Nat : d = delivered /\ l = Len(delivered) /\ s = startOffset
  BY DEF TypeOK
<1>2. PICK e \in Seq(Nat) : e = [k \in 1..n |-> at + k] /\ Len(e) = n
  <2>1. PICK e : e = [k \in 1..n |-> at + k]
    OBVIOUS
  <2>2. \A k \in 1..n : at + k \in Nat
    OBVIOUS
  <2>3. e \in [1..n -> Nat]
    BY <2>1, <2>2
  <2>4. e \in Seq(Nat) /\ Len(e) = n
    BY <2>3
  <2>5. QED
    BY <2>1, <2>4
<1>3. delivered' = d \o e
  BY <1>1, <1>2 DEF Deliver
<1>4. /\ d \o e \in Seq(Nat) /\ Len(d \o e) = l + n
      /\ \A i \in 1..(l + n) : (d \o e)[i] = IF i <= l THEN d[i] ELSE e[i - l]
  BY <1>1, <1>2, ConcatProperties
<1>5. \A i \in 1..n : e[i] = at + i
  BY <1>2
<1>6. \A i \in 1..l : d[i] = s + i
  <2>1. DOMAIN d = 1..l
    BY <1>1
  <2>2. QED
    BY <1>1, <2>1
<1>7. \A i \in 1..(l + n) : (d \o e)[i] = s + i
  <2>1. TAKE i \in 1..(l + n)
  <2>2. CASE i <= l
    BY <1>4, <1>6, <2>2
  <2>3. CASE ~(i <= l)
    <3>1. i - l \in 1..n /\ n > 0
      BY <2>3
    <3>2. e[i - l] = at + (i - l) /\ at = s + l
      BY <1>1, <1>5, <3>1
    <3>3. (d \o e)[i] = e[i - l]
      BY <1>4, <2>3
    <3>4. QED
      BY <3>2, <3>3
  <2>4. QED
    BY <2>2, <2>3
<1>8. DOMAIN (d \o e) = 1..(l + n)
  BY <1>4
<1>9. QED
  BY <1>1, <1>3, <1>4, <1>7, <1>8

\* The steps that leave nothing in flight, or keep what was.
LEMMA ReaderOpens ==
  ASSUME ClientAssumption, FileAssumption, IInv, OpenRead \/ ReaderOpened
  PROVE  IInv'
<1>1. ReaderTypes /\ startOffset \in Nat /\ nextRequestId \in Id /\ Downloads
  BY ReaderTyped DEF IInv, OpenRead, ReaderOpened, Downloads
<1>2. inflight = <<>> /\ UNCHANGED writer /\ UNCHANGED <<depth, inflight, offset, reader, server>>
      /\ pc' \in {"openRead", "readerIdle", "closed"} /\ pc \in {"reader", "openRead"}
  BY <1>1 DEF IInv, Download, OpenRead, ReaderOpened
<1>3. awaited' \in Id
  BY <1>1, NextIdIn DEF OpenRead, ReaderOpened, ReaderTypes
<1>4. Downloads' /\ Downloads
  BY <1>1, <1>2 DEF Downloads
<1>5. \E F : Moves(F)
  <2>1. CASE OpenRead
    <3>1. Proper(<<Asked("open", 0, 0)>>)
      BY <1>1, AskOne DEF Op
    <3>2. QED
      BY <1>2, <1>4, <2>1, <3>1 DEF Moves, OpenRead, server
  <2>2. CASE ReaderOpened
    BY <1>2, <1>4, <2>2 DEF Moves, ReaderOpened, server
  <2>3. QED
    BY <2>1, <2>2
<1>6. Order'
  BY <1>1, <1>2 DEF IInv, Order, Chained, Pos, reader, writer
<1>7. Got'
  BY <1>2, <1>4 DEF IInv, Got, Pos, reader, writer
<1>8. Download'
  BY <1>2, <1>4 DEF IInv, Download, reader, writer, server, Source
<1>9. Asking' /\ ReaderTypes'
  BY <1>1, <1>2, <1>3 DEF Asking, ReaderTypes, reader
<1>10. QED
  BY <1>2, <1>4, <1>5, <1>6, <1>7, <1>8, <1>9, ReaderNext

LEMMA ReaderCloses ==
  ASSUME ClientAssumption, FileAssumption, IInv, CloseRead \/ ReadsSettled \/ ReaderClosed
  PROVE  IInv'
<1>1. ReaderTypes /\ startOffset \in Nat /\ nextRequestId \in Id /\ Downloads
  BY ReaderTyped DEF IInv, CloseRead, ReadsSettled, ReaderClosed, Downloads
<1>2. /\ UNCHANGED writer /\ UNCHANGED <<depth, offset, reader, server>>
      /\ inflight' = <<>> \/ (pc' = "settling" /\ inflight' = inflight)
      /\ pc' \in {"settling", "closeRead", "closed"}
  BY <1>1 DEF IInv, Download, CloseRead, ReadsSettled, ReaderClosed
<1>3. awaited' \in Id
  BY <1>1, NextIdIn DEF CloseRead, ReadsSettled, ReaderClosed, ReaderTypes
<1>4. Downloads' /\ Downloads
  BY <1>1, <1>2 DEF Downloads
<1>5. \E F : Moves(F)
  <2>1. CASE CloseRead
    <3>1. Forget({})
      BY <2>1, MovesNothing DEF IInv, CloseRead
    <3>2. QED
      BY <1>2, <1>4, <3>1 DEF Moves, server
  <2>2. CASE ReadsSettled
    <3>1. Proper(<<Asked("close", 0, 0)>>)
      BY <1>1, AskOne DEF Op
    <3>2. QED
      BY <1>2, <1>4, <2>2, <3>1 DEF Moves, ReadsSettled, server
  <2>3. CASE ReaderClosed
    BY <1>2, <1>4, <2>3 DEF Moves, ReaderClosed, server
  <2>4. QED
    BY <2>1, <2>2, <2>3
<1>6. Order'
  BY <1>2 DEF Order
<1>7. Got'
  BY <1>2, <1>4 DEF IInv, Got, Pos, reader, writer
<1>8. Download'
  BY <1>2, <1>4 DEF IInv, Download, reader, writer, server, Source
<1>9. Asking'
  BY <1>2 DEF Asking
<1>10. ReaderTypes'
  <2>1. inflight' \in Seq(Flight) /\ Len(inflight') <= depth'
    <3>1. depth \in Nat
      BY DepthIs DEF IInv
    <3>2. <<>> \in Seq(Flight) /\ Len(<<>>) = 0 /\ 0 <= depth
      BY <3>1
    <3>3. QED
      BY <1>1, <1>2, <3>2 DEF ReaderTypes
  <2>2. QED
    BY <1>1, <1>2, <1>3, <2>1 DEF ReaderTypes, reader
<1>11. QED
  BY <1>2, <1>4, <1>5, <1>6, <1>7, <1>8, <1>9, <1>10, ReaderNext

LEMMA LeftoverRead ==
  ASSUME ClientAssumption, FileAssumption, IInv, NEW size \in BufferSizes, ReadLeftover(size)
  PROVE  IInv'
<1>1. ReaderTypes /\ startOffset \in Nat /\ nextRequestId \in Id /\ Downloads /\ TypeOK
  BY ReaderTyped DEF IInv, ReadLeftover, Downloads
<1>2. /\ UNCHANGED writer /\ UNCHANGED server
      /\ UNCHANGED <<client, depth, pc, awaited, inflight, offset, into, reqLen, eof>>
      /\ pc = "readerIdle" /\ leftover.n > 0
  BY DEF ReadLeftover
<1>3. Downloads' /\ startOffset' = startOffset
  BY <1>1, <1>2 DEF Downloads, writer
<1>4. Moves({})
  BY <1>1, <1>2, <1>3, MovesNothing DEF Moves
<1>5. PICK a \in Nat, b \in Nat, n \in Nat :
        a = leftover.at /\ b = leftover.n /\ n = Min({b, size}) /\ n <= b
  <2>1. leftover.at \in Nat /\ leftover.n \in Nat /\ size \in Nat
    BY <1>1 DEF ReaderTypes, FileAssumption
  <2>2. Min({leftover.n, size}) = IF leftover.n <= size THEN leftover.n ELSE size
    BY <2>1, MinOfTwo
  <2>3. Min({leftover.n, size}) \in Nat /\ Min({leftover.n, size}) <= leftover.n
    BY <2>1, <2>2
  <2>4. QED
    BY <2>1, <2>3
<1>6. Deliver(a, n) /\ leftover' = [at |-> a + n, n |-> b - n]
  BY <1>5 DEF ReadLeftover
<1>7. Got
  BY DEF IInv
<1>8. a = startOffset + Len(delivered) /\ (\A k \in DOMAIN delivered : delivered[k] = startOffset + k)
  BY <1>1, <1>2, <1>5, <1>7 DEF Got
<1>9. /\ delivered' \in Seq(Nat) /\ Len(delivered') = Len(delivered) + n
      /\ \A k \in DOMAIN delivered' : delivered'[k] = startOffset + k
  BY <1>1, <1>6, <1>8, Delivered
<1>10. PICK l \in Nat, s \in Nat : l = Len(delivered) /\ s = startOffset
  BY <1>1 DEF ReaderTypes
<1>11. leftover'.at = a + n /\ leftover'.n = b - n /\ leftover' \in [at : Nat, n : Nat]
  <2>1. a + n \in Nat /\ b - n \in Nat
    BY <1>5
  <2>2. QED
    BY <1>6, <2>1
<1>12. Pos = s + l + b /\ Pos' = s + (l + n) + (b - n)
  BY <1>3, <1>5, <1>9, <1>10, <1>11 DEF Pos
<1>13. Pos' = Pos
  BY <1>12
<1>14. Got'
  <2>1. leftover'.n > 0 => leftover'.at = startOffset' + Len(delivered')
    <3>1. a + n = s + (l + n)
      BY <1>8, <1>10
    <3>2. QED
      BY <1>3, <1>9, <1>10, <1>11, <3>1
  <2>2. eof = "end" => FALSE
    BY <1>1, <1>2, <1>5, <1>7 DEF Got
  <2>3. Pos <= SourceLength
    BY <1>1, <1>7 DEF Got
  <2>4. QED
    BY <1>2, <1>3, <1>9, <1>13, <2>1, <2>2, <2>3 DEF Got
<1>15. Order'
  BY <1>2, <1>13 DEF IInv, Order, Chained
<1>16. Download'
  BY <1>1, <1>2, <1>3 DEF IInv, Download, writer, server, Source
<1>17. Asking'
  BY <1>1, <1>2, <1>3 DEF IInv, Asking, Link, Right, client, server, Written
<1>18. ReaderTypes'
  BY <1>1, <1>2, <1>9, <1>11 DEF ReaderTypes
<1>19. QED
  BY <1>1, <1>2, <1>4, <1>14, <1>15, <1>16, <1>17, <1>18, ReaderNext

\* What the answer to the oldest read says.
LEMMA HeadAnswer ==
  ASSUME IInv, pc = "read"
  PROVE  /\ inflight # <<>> /\ inflight \in Seq(Flight) /\ awaited = inflight[1].id
         /\ inflight[1].at = Pos /\ Pos \in Nat /\ Pos = startOffset + Len(delivered)
         /\ Chained(inflight, Pos, reqLen, offset)
         /\ leftover.n = 0 /\ eof = "no" /\ into \in Nat \ {0} /\ reqLen \in Nat \ {0}
         /\ promise[awaited] \in Promise
         /\ Fulfilled(awaited, "data") =>
              /\ promise[awaited].at = Pos
              /\ promise[awaited].n \in 1..reqLen /\ Pos + promise[awaited].n <= SourceLength
         /\ Fulfilled(awaited, "eof") => Pos >= SourceLength
<1>1. Downloads /\ ReaderTypes /\ startOffset \in Nat
  BY ReaderTyped DEF IInv, Downloads
<1>2. inflight # <<>> /\ awaited = inflight[1].id /\ leftover.n = 0 /\ eof = "no" /\ into > 0 /\ reqLen > 0
  BY <1>1 DEF IInv, Download
<1>3. Chained(inflight, Pos, reqLen, offset)
  BY <1>2 DEF IInv, Order
<1>4. inflight[1].at = Pos
  BY <1>2, <1>3 DEF Chained
<1>5. Pos \in Nat /\ Pos = startOffset + Len(delivered)
  <2>1. PICK l \in Nat, s \in Nat : l = Len(delivered) /\ s = startOffset
    BY <1>1 DEF ReaderTypes
  <2>2. Pos = s + l + 0
    BY <1>2, <2>1 DEF Pos
  <2>3. QED
    BY <2>1, <2>2
<1>6. 1 \in DOMAIN inflight /\ inflight \in Seq(Flight)
  <2>1. inflight \in Seq(Flight)
    BY <1>1 DEF ReaderTypes
  <2>2. QED
    BY <1>2, <2>1
<1>7. Link(inflight[1].id, "read", inflight[1].at, reqLen)
  BY <1>1, <1>6 DEF IInv, Asking
<1>8. Right("read", Pos, reqLen, promise[awaited])
  BY <1>2, <1>4, <1>7 DEF Link
<1>9. promise[awaited] \in Promise
  BY <1>1 DEF IInv, TypeOK, ClientTypeOK, ReaderTypes
<1>10. QED
  BY <1>1, <1>2, <1>3, <1>4, <1>5, <1>6, <1>8, <1>9 DEF Right, Fulfilled, ReaderTypes

LEMMA ReadStops ==
  ASSUME ClientAssumption, FileAssumption, IInv, ReadFails \/ ReadEof
  PROVE  IInv'
<1>1. ReaderTypes /\ startOffset \in Nat /\ Downloads /\ TypeOK /\ pc = "read"
  BY ReaderTyped DEF IInv, ReadFails, ReadEof, Downloads
<1>2. /\ UNCHANGED writer /\ UNCHANGED server
      /\ UNCHANGED <<depth, awaited, offset, into, reqLen, leftover, delivered>>
      /\ pc' = "readerIdle" /\ inflight' = <<>> /\ eof' \in {"failed", "end"}
      /\ eof' = "end" => Fulfilled(awaited, "eof")
      /\ Forget(Ids(inflight))
  BY DEF ReadFails, ReadEof
<1>3. Downloads' /\ startOffset' = startOffset
  BY <1>1, <1>2 DEF Downloads, writer
<1>4. Moves(Ids(inflight))
  BY <1>1, <1>2, <1>3 DEF Moves
<1>5. Pos' = Pos
  BY <1>2, <1>3 DEF Pos
<1>6. Got'
  <2>1. Got
    BY DEF IInv
  <2>2. Pos <= SourceLength /\ Pos \in Nat /\ leftover.n = 0 /\ SourceLength \in Nat
        /\ (eof' = "end" => Pos >= SourceLength)
    BY <1>1, <1>2, <2>1, HeadAnswer DEF Got, FileAssumption
  <2>3. eof' = "end" => Pos = SourceLength
    BY <2>2
  <2>4. QED
    BY <1>1, <1>2, <1>3, <1>5, <2>1, <2>2, <2>3 DEF Got
<1>7. Order'
  BY <1>2 DEF Order
<1>8. Download'
  BY <1>1, <1>2, <1>3 DEF IInv, Download, writer, server, Source
<1>9. Asking'
  BY <1>2 DEF Asking
<1>10. ReaderTypes'
  <2>1. depth \in Nat
    BY DepthIs DEF IInv
  <2>2. <<>> \in Seq(Flight) /\ Len(<<>>) = 0 /\ 0 <= depth
    BY <2>1
  <2>3. QED
    BY <1>1, <1>2, <2>2 DEF ReaderTypes
<1>11. QED
  BY <1>1, <1>2, <1>4, <1>6, <1>7, <1>8, <1>9, <1>10, ReaderNext

\* A chunk is given to the caller, and what does not fit is left over.
LEMMA ChunkGiven ==
  ASSUME IInv, Downloads, NEW at \in Nat, NEW n \in Nat, Returned(at, n),
         at = startOffset + Len(delivered), at + n <= SourceLength, into \in Nat,
         leftover.n = 0, startOffset' = startOffset, eof = "no", eof' = eof, Downloads'
  PROVE  /\ delivered' \in Seq(Nat) /\ leftover' \in [at : Nat, n : Nat]
         /\ Pos' = at + n /\ Got'
<1>1. PICK k \in Nat : k = Min({n, into}) /\ k <= n
  <2>1. Min({n, into}) = IF n <= into THEN n ELSE into
    BY MinOfTwo
  <2>2. Min({n, into}) \in Nat /\ Min({n, into}) <= n
    BY <2>1
  <2>3. QED
    BY <2>2
<1>2. Deliver(at, k) /\ leftover' = [at |-> at + k, n |-> n - k]
  BY <1>1 DEF Returned
<1>3. TypeOK /\ Got
  BY DEF IInv
<1>4. \A i \in DOMAIN delivered : delivered[i] = startOffset + i
  BY <1>3 DEF Got
<1>5. /\ delivered' \in Seq(Nat) /\ Len(delivered') = Len(delivered) + k
      /\ \A i \in DOMAIN delivered' : delivered'[i] = startOffset + i
  BY <1>2, <1>3, <1>4, Delivered
<1>6. PICK l \in Nat, s \in Nat : l = Len(delivered) /\ s = startOffset
  BY <1>3 DEF TypeOK
<1>7. leftover'.at = at + k /\ leftover'.n = n - k /\ leftover' \in [at : Nat, n : Nat]
  <2>1. at + k \in Nat /\ n - k \in Nat
    BY <1>1
  <2>2. QED
    BY <1>2, <2>1
<1>8. Pos' = s + (l + k) + (n - k) /\ at = s + l
  BY <1>5, <1>6, <1>7 DEF Pos
<1>9. Pos' = at + n
  BY <1>8
<1>10. leftover'.at = startOffset' + Len(delivered')
  <2>1. at + k = s + (l + k)
    BY <1>8
  <2>2. QED
    BY <1>5, <1>6, <1>7, <2>1
<1>11. Got'
  BY <1>5, <1>9, <1>10 DEF Got
<1>12. QED
  BY <1>5, <1>7, <1>9, <1>11

LEMMA ShortRead ==
  ASSUME ClientAssumption, FileAssumption, IInv, ReadShort
  PROVE  IInv'
<1>1. ReaderTypes /\ startOffset \in Nat /\ Downloads /\ TypeOK /\ pc = "read"
  BY ReaderTyped DEF IInv, ReadShort, Downloads
<1>2. /\ UNCHANGED writer /\ UNCHANGED server
      /\ UNCHANGED <<depth, awaited, into, reqLen, eof>>
      /\ pc' = "readerIdle" /\ inflight' = <<>> /\ Fulfilled(awaited, "data")
      /\ offset' = inflight[1].at + promise[awaited].n
      /\ Returned(promise[awaited].at, promise[awaited].n)
      /\ Forget(Ids(inflight))
  BY DEF ReadShort
<1>3. Downloads' /\ startOffset' = startOffset
  BY <1>1, <1>2 DEF Downloads, writer
<1>4. Moves(Ids(inflight))
  BY <1>1, <1>2, <1>3 DEF Moves
<1>5. PICK at \in Nat, n \in Nat : at = Pos /\ n = promise[awaited].n /\ promise[awaited].at = at
        /\ at + n <= SourceLength /\ inflight[1].at = at /\ at = startOffset + Len(delivered)
  BY <1>1, <1>2, HeadAnswer
<1>6. /\ delivered' \in Seq(Nat) /\ leftover' \in [at : Nat, n : Nat]
      /\ Pos' = at + n /\ Got'
  BY <1>1, <1>2, <1>3, <1>5, HeadAnswer, ChunkGiven
<1>7. offset' = at + n /\ at + n \in Nat
  BY <1>2, <1>5
<1>8. Order'
  BY <1>2, <1>6, <1>7 DEF Order, Chained
<1>9. Download'
  BY <1>1, <1>2, <1>3 DEF IInv, Download, writer, server, Source
<1>10. Asking'
  BY <1>2 DEF Asking
<1>11. ReaderTypes'
  <2>1. depth \in Nat
    BY DepthIs DEF IInv
  <2>2. <<>> \in Seq(Flight) /\ Len(<<>>) = 0 /\ 0 <= depth
    BY <2>1
  <2>3. QED
    BY <1>1, <1>2, <1>6, <1>7, <2>2 DEF ReaderTypes
<1>12. QED
  BY <1>1, <1>2, <1>4, <1>6, <1>8, <1>9, <1>10, <1>11, ReaderNext

\* What is asked for to fill the pipeline: held is in it already.
Fills(held, more, length, first, forgotten) ==
  /\ held \in Seq(Flight) /\ Len(held) <= depth /\ length \in Nat /\ first \in Nat
  /\ Chained(held, first, length, offset)
  /\ more = TopUp(held, offset, length) /\ Issue(Reads(more, length), forgotten)
  /\ inflight' = held \o more /\ offset' = offset + Len(more) * length
  /\ \A j \in DOMAIN held : Link(held[j].id, "read", held[j].at, length) /\ held[j].id \notin forgotten
  /\ \A j, k \in DOMAIN held : held[j].id = held[k].id => j = k
  /\ UNCHANGED server /\ depth' = depth /\ Downloads /\ Downloads'

\* The full pipeline: every request in it is linked to its place.
Filled(length, first) ==
  /\ inflight' \in Seq(Flight) /\ Len(inflight') = depth /\ inflight' # <<>>
  /\ Chained(inflight', first, length, offset') /\ offset' \in Nat
  /\ \A j \in DOMAIN inflight' : Link(inflight[j].id, "read", inflight[j].at, length)'
  /\ \A j, k \in DOMAIN inflight' : inflight'[j].id = inflight'[k].id => j = k

LEMMA ToppedUp ==
  ASSUME ClientAssumption, FileAssumption, IInv,
         NEW held, NEW more, NEW length, NEW first, NEW forgotten,
         Fills(held, more, length, first, forgotten)
  PROVE  Moves(forgotten) /\ Filled(length, first)
<1>1. ReaderTypes /\ nextRequestId \in Id /\ depth \in Depths /\ depth \in Nat \ {0} /\ TypeOK
      /\ ClientTypeOK
  BY ReaderTyped, DepthIs DEF IInv
<1>2. offset \in Nat /\ held \in Seq(Flight) /\ Len(held) <= depth /\ length \in Nat /\ first \in Nat
      /\ Chained(held, first, length, offset)
  BY <1>1 DEF ReaderTypes, Fills
<1>a. /\ more = TopUp(held, offset, length) /\ Issue(Reads(more, length), forgotten)
      /\ inflight' = held \o more /\ offset' = offset + Len(more) * length
      /\ UNCHANGED server /\ depth' = depth /\ Downloads /\ Downloads'
  BY DEF Fills
<1>b. /\ \A j \in DOMAIN held : Link(held[j].id, "read", held[j].at, length) /\ held[j].id \notin forgotten
      /\ \A j, k \in DOMAIN held : held[j].id = held[k].id => j = k
  BY DEF Fills
<1>3. /\ more \in Seq(Flight) /\ Len(more) = depth - Len(held)
      /\ depth - Len(held) \in Nat /\ depth - Len(held) <= IdModulus - 1
      /\ \A j \in 1..(depth - Len(held)) :
           more[j].at = offset + (j - 1) * length /\ more[j].id = NextId(j - 1)
  <2>1. /\ TopUp(held, offset, length) \in Seq(Flight)
        /\ Len(TopUp(held, offset, length)) = depth - Len(held)
        /\ \A j \in 1..(depth - Len(held)) :
             /\ TopUp(held, offset, length)[j].at = offset + (j - 1) * length
             /\ TopUp(held, offset, length)[j].id = NextId(j - 1)
        /\ depth - Len(held) \in Nat /\ depth - Len(held) <= IdModulus - 1
    BY <1>1, <1>2, TopUpIs
  <2>2. QED
    BY <1>a, <2>1
<1>7. PICK h \in Nat, m \in Nat : h = Len(held) /\ m = Len(more) /\ h + m = depth
  BY <1>1, <1>2, <1>3
<1>c. \A j \in 1..m : more[j].at = offset + (j - 1) * length /\ more[j].id = NextId(j - 1)
  BY <1>3, <1>7
<1>d. m <= IdModulus - 1 /\ IdModulus \in Nat
  BY <1>3, <1>7 DEF ClientAssumption
<1>4. PICK asked \in Seq(Question) :
        /\ asked = Reads(more, length) /\ Len(asked) = m
        /\ \A j \in 1..m : asked[j] = [op |-> "read", at |-> more[j].at, n |-> length]
  <2>1. more \in Seq(Flight) /\ length \in Nat
    BY <1>2, <1>3
  <2>2. /\ Reads(more, length) \in Seq(Question) /\ Len(Reads(more, length)) = Len(more)
        /\ \A j \in 1..Len(more) : Reads(more, length)[j] = [op |-> "read", at |-> more[j].at, n |-> length]
    BY <2>1, ReadsAre
  <2>3. QED
    BY <1>7, <2>2
<1>e. \A j \in 1..m : asked[j].op = "read" /\ asked[j].at = more[j].at /\ asked[j].n = length
  BY <1>4
<1>5. Proper(asked)
  BY <1>a, <1>4, <1>d, <1>e DEF Proper, Wire
<1>6. Moves(forgotten)
  BY <1>a, <1>4, <1>5 DEF Moves
<1>8. /\ held \o more \in Seq(Flight) /\ Len(held \o more) = h + m
      /\ \A i \in 1..(h + m) : (held \o more)[i] = IF i <= h THEN held[i] ELSE more[i - h]
  <2>1. held \in Seq(Flight) /\ more \in Seq(Flight)
    BY <1>2, <1>3
  <2>2. QED
    BY <1>7, <2>1, ConcatProperties
<1>9. inflight' \in Seq(Flight) /\ Len(inflight') = depth /\ DOMAIN inflight' = 1..(h + m)
      /\ (\A i \in 1..(h + m) : inflight'[i] = IF i <= h THEN held[i] ELSE more[i - h])
  BY <1>a, <1>7, <1>8
<1>10. inflight' # <<>>
  BY <1>1, <1>9
<1>11. Chained(inflight', first, length, offset')
  <2>1. \A j \in 1..Len(more) : more[j].at = offset + (j - 1) * length
    BY <1>7, <1>c
  <2>2. Chained(held \o more, first, length, offset + Len(more) * length)
    BY <1>2, <1>3, <2>1, ChainAppend
  <2>3. QED
    BY <1>a, <2>2
<1>12. offset' \in Nat
  <2>1. m * length \in Nat
    BY <1>2, Products
  <2>2. QED
    BY <1>a, <1>2, <1>7, <2>1
<1>13. ASSUME NEW j \in 1..(h + m)
       PROVE  Link(inflight[j].id, "read", inflight[j].at, length)'
  <2>1. CASE j <= h
    <3>1. j \in DOMAIN held /\ inflight'[j] = held[j]
      BY <1>7, <1>9, <2>1
    <3>2. PICK id \in Id, at \in Nat : id = held[j].id /\ at = held[j].at
      BY <1>2, <3>1, Flights
    <3>3. Link(id, "read", at, length) /\ id \notin forgotten
      BY <1>b, <3>1, <3>2
    <3>4. Link(id, "read", at, length)'
      BY <1>1, <1>6, <3>3, LinkMoved
    <3>5. QED
      BY <3>1, <3>2, <3>4
  <2>2. CASE ~(j <= h)
    <3>1. PICK k \in 1..m : k = j - h
      BY <2>2
    <3>2. inflight'[j] = more[k]
      BY <1>9, <2>2, <3>1
    <3>3. PICK id, at : id = NextId(k - 1) /\ at = more[k].at
      OBVIOUS
    <3>4. more[k].id = id
      BY <1>c, <3>3
    <3>5. Len(asked) <= IdModulus - 1 /\ k \in 1..Len(asked) /\ Issue(asked, forgotten)
      BY <1>a, <1>4, <1>d
    <3>6. Link(id, asked[k].op, asked[k].at, asked[k].n)'
      BY <1>1, <3>3, <3>5, LinkNew
    <3>7. Link(id, "read", at, length)'
      BY <1>e, <3>3, <3>6
    <3>8. QED
      BY <3>2, <3>3, <3>4, <3>7
  <2>3. QED
    BY <2>1, <2>2
<1>14. ASSUME NEW j \in 1..(h + m), NEW k \in 1..(h + m), j < k, inflight'[j].id = inflight'[k].id
       PROVE  FALSE
  <2>1. CASE k <= h
    <3>1. j \in DOMAIN held /\ k \in DOMAIN held /\ inflight'[j] = held[j] /\ inflight'[k] = held[k]
      BY <1>7, <1>9, <1>14, <2>1
    <3>2. j = k
      BY <1>b, <1>14, <3>1
    <3>3. QED
      BY <1>14, <3>2
  <2>2. CASE ~(k <= h)
    <3>1. PICK b \in 1..m : b = k - h
      BY <2>2
    <3>2. inflight'[k] = more[b]
      BY <1>9, <2>2, <3>1
    <3>3. inflight'[k].id = NextId(b - 1)
      BY <1>c, <3>2
    <3>4. CASE j <= h
      <4>1. j \in DOMAIN held /\ inflight'[j] = held[j]
        BY <1>7, <1>9, <3>4
      <4>2. held[j].id \in Id /\ promise[held[j].id] # Unused
        BY <1>b, <1>2, <4>1, Flights DEF Link
      <4>3. Len(asked) <= IdModulus - 1 /\ b \in 1..Len(asked) /\ Issue(asked, forgotten)
        BY <1>a, <1>4, <1>d
      <4>4. held[j].id # NextId(b - 1)
        BY <1>1, <4>2, <4>3, Kept
      <4>5. QED
        BY <1>14, <3>3, <4>1, <4>4
    <3>5. CASE ~(j <= h)
      <4>1. PICK a \in 1..m : a = j - h
        BY <3>5
      <4>2. inflight'[j] = more[a]
        BY <1>9, <3>5, <4>1
      <4>3. inflight'[j].id = NextId(a - 1)
        BY <1>c, <4>2
      <4>4. a - 1 \in 0..(IdModulus - 2) /\ b - 1 \in 0..(IdModulus - 2)
        BY <1>d
      <4>5. a - 1 = b - 1
        BY <1>1, <1>14, <3>3, <4>3, <4>4, NextIdInjective
      <4>6. QED
        BY <1>14, <3>1, <4>1, <4>5
    <3>6. QED
      BY <3>4, <3>5
  <2>3. QED
    BY <2>1, <2>2
<1>15. \A j, k \in DOMAIN inflight' : inflight'[j].id = inflight'[k].id => j = k
  <2>1. SUFFICES ASSUME NEW j \in 1..(h + m), NEW k \in 1..(h + m), inflight'[j].id = inflight'[k].id
                 PROVE  j = k
    BY <1>9
  <2>2. ~(j < k) /\ ~(k < j)
    BY <1>14, <2>1
  <2>3. QED
    BY <2>2
<1>16. QED
  BY <1>6, <1>9, <1>10, <1>11, <1>12, <1>13, <1>15 DEF Filled

LEMMA FirstRead ==
  ASSUME ClientAssumption, FileAssumption, IInv, NEW size \in BufferSizes, Read(size)
  PROVE  IInv'
<1>1. ReaderTypes /\ startOffset \in Nat /\ Downloads /\ TypeOK /\ pc = "readerIdle" /\ eof = "no"
      /\ leftover.n = 0
  BY ReaderTyped DEF IInv, Read, Downloads
<1>2. /\ UNCHANGED writer /\ UNCHANGED server
      /\ UNCHANGED <<depth, eof, leftover, delivered>>
      /\ pc' = "read" /\ into' = size
      /\ reqLen' = IF reqLen = 0 THEN Min({size, MaxPayload}) ELSE reqLen
      /\ awaited' = inflight'[1].id
  BY DEF Read
<1>3. Downloads' /\ startOffset' = startOffset /\ Pos' = Pos
  BY <1>1, <1>2 DEF Downloads, writer, Pos
<1>4. size \in Nat \ {0} /\ reqLen' \in Nat \ {0}
  <2>1. size \in Nat \ {0} /\ MaxPayload \in Nat \ {0} /\ reqLen \in Nat
    BY <1>1 DEF FileAssumption, ReaderTypes
  <2>2. Min({size, MaxPayload}) \in Nat \ {0}
    BY <2>1, MinOfTwo
  <2>3. QED
    BY <1>2, <2>1, <2>2
<1>5. inflight # <<>> => reqLen' = reqLen
  BY <1>1, <1>2 DEF IInv, Download, ReaderTypes
<1>6. Pos \in Nat
  <2>1. PICK l \in Nat, s \in Nat, r \in Nat : l = Len(delivered) /\ s = startOffset /\ r = leftover.n
    BY <1>1 DEF ReaderTypes
  <2>2. QED
    BY <2>1 DEF Pos
<1>7. PICK length \in Nat : length = reqLen'
  BY <1>4
<1>8. Chained(inflight, Pos, length, offset)
  <2>1. Chained(inflight, Pos, reqLen, offset)
    BY <1>1 DEF IInv, Order
  <2>2. QED
    BY <1>5, <1>7, <2>1 DEF Chained
<1>9. PICK more : more = TopUp(inflight, offset, length)
  OBVIOUS
<1>10. Issue(Reads(more, length), {}) /\ inflight' = inflight \o more /\ offset' = offset + Len(more) * length
  BY <1>7, <1>9 DEF Read
<1>11. inflight \in Seq(Flight) /\ Len(inflight) <= depth
  BY <1>1 DEF ReaderTypes
<1>12. /\ \A j \in DOMAIN inflight : Link(inflight[j].id, "read", inflight[j].at, length)
       /\ \A j, k \in DOMAIN inflight : inflight[j].id = inflight[k].id => j = k
  <2>1. /\ \A j \in DOMAIN inflight : Link(inflight[j].id, "read", inflight[j].at, reqLen)
        /\ \A j, k \in DOMAIN inflight : inflight[j].id = inflight[k].id => j = k
    BY <1>1 DEF IInv, Asking
  <2>2. DOMAIN inflight # {} => inflight # <<>>
    BY <1>11
  <2>3. QED
    BY <1>5, <1>7, <2>1, <2>2
<1>13. depth' = depth
  BY <1>2
<1>14. Fills(inflight, more, length, Pos, {})
  BY <1>1, <1>2, <1>3, <1>6, <1>7, <1>8, <1>9, <1>10, <1>11, <1>12, <1>13 DEF Fills
<1>b. Moves({}) /\ Filled(length, Pos)
  BY <1>14, ToppedUp
<1>15. Order'
  BY <1>3, <1>7, <1>b DEF Order, Chained, Filled
<1>16. Asking'
  BY <1>7, <1>b DEF Asking, Filled
<1>17. Download'
  BY <1>1, <1>2, <1>3, <1>4, <1>b DEF IInv, Download, Filled, writer, server, Source
<1>18. Got'
  BY <1>1, <1>2, <1>3 DEF IInv, Got
<1>19. ReaderTypes'
  <2>1. inflight'[1] \in Flight
    BY <1>b DEF Filled
  <2>2. awaited' \in Id
    BY <1>2, <2>1 DEF Flight
  <2>3. depth \in Nat /\ Len(inflight') <= depth'
    BY <1>13, <1>b, DepthIs DEF IInv, Filled
  <2>4. QED
    BY <1>1, <1>2, <1>4, <1>b, <2>2, <2>3 DEF ReaderTypes, Filled
<1>20. QED
  BY <1>1, <1>2, <1>b, <1>15, <1>16, <1>17, <1>18, <1>19, ReaderNext

LEMMA FullRead ==
  ASSUME ClientAssumption, FileAssumption, IInv, ReadFull
  PROVE  IInv'
<1>1. ReaderTypes /\ startOffset \in Nat /\ Downloads /\ TypeOK /\ pc = "read"
  BY ReaderTyped DEF IInv, ReadFull, Downloads
<1>2. /\ UNCHANGED writer /\ UNCHANGED server
      /\ UNCHANGED <<depth, awaited, into, reqLen, eof>>
      /\ pc' = "readerIdle" /\ Fulfilled(awaited, "data") /\ promise[awaited].n = reqLen
      /\ Returned(promise[awaited].at, promise[awaited].n)
  BY DEF ReadFull
<1>3. Downloads' /\ startOffset' = startOffset /\ depth' = depth
  BY <1>1, <1>2 DEF Downloads, writer
<1>4. PICK at \in Nat, n \in Nat : at = Pos /\ n = reqLen /\ promise[awaited].at = at
        /\ promise[awaited].n = n /\ at + n <= SourceLength /\ at = startOffset + Len(delivered)
  BY <1>1, <1>2, HeadAnswer DEF ReaderTypes
<1>5. /\ delivered' \in Seq(Nat) /\ leftover' \in [at : Nat, n : Nat]
      /\ Pos' = at + n /\ Got'
  BY <1>1, <1>2, <1>3, <1>4, HeadAnswer, ChunkGiven
<1>6. inflight # <<>> /\ inflight \in Seq(Flight) /\ awaited = inflight[1].id
      /\ Chained(inflight, at, n, offset) /\ offset \in Nat /\ Len(inflight) <= depth
  BY <1>1, <1>4, HeadAnswer DEF ReaderTypes
<1>7. PICK rest \in Seq(Flight) : rest = Tail(inflight) /\ Len(rest) = Len(inflight) - 1
        /\ Chained(rest, at + n, n, offset)
  BY <1>6, ChainTail
<1>8. \A j \in DOMAIN rest : rest[j] = inflight[j + 1] /\ j + 1 \in DOMAIN inflight /\ j + 1 # 1
                             /\ 1 \in DOMAIN inflight /\ j \in Nat
  <2>1. \A j \in 1..Len(rest) : rest[j] = inflight[j + 1]
    BY <1>6, <1>7, HeadTailProperties
  <2>2. PICK l \in Nat : l = Len(inflight) /\ l # 0 /\ DOMAIN inflight = 1..l /\ DOMAIN rest = 1..(l - 1)
    <3>1. Len(inflight) \in Nat /\ Len(inflight) # 0 /\ DOMAIN inflight = 1..Len(inflight)
      BY <1>6
    <3>2. DOMAIN rest = 1..Len(rest)
      BY <1>7
    <3>3. QED
      BY <1>7, <3>1, <3>2
  <2>3. Len(rest) = l - 1
    BY <1>7, <2>2
  <2>4. QED
    BY <2>1, <2>2, <2>3
<1>9. PICK more : more = TopUp(rest, offset, n)
  OBVIOUS
<1>10. Issue(Reads(more, n), {awaited}) /\ inflight' = rest \o more /\ offset' = offset + Len(more) * n
  BY <1>4, <1>7, <1>9 DEF ReadFull
<1>11. /\ \A j \in DOMAIN rest : Link(rest[j].id, "read", rest[j].at, n) /\ rest[j].id \notin {awaited}
       /\ \A j, k \in DOMAIN rest : rest[j].id = rest[k].id => j = k
  <2>1. /\ \A j \in DOMAIN inflight : Link(inflight[j].id, "read", inflight[j].at, n)
        /\ \A j, k \in DOMAIN inflight : inflight[j].id = inflight[k].id => j = k
    BY <1>1, <1>4 DEF IInv, Asking
  <2>2. \A j \in DOMAIN rest : Link(rest[j].id, "read", rest[j].at, n) /\ rest[j].id \notin {awaited}
    BY <1>6, <1>8, <2>1
  <2>3. ASSUME NEW j \in DOMAIN rest, NEW k \in DOMAIN rest, rest[j].id = rest[k].id PROVE j = k
    <3>1. j + 1 = k + 1
      BY <1>8, <2>1, <2>3
    <3>2. QED
      BY <1>8, <3>1
  <2>4. QED
    BY <2>2, <2>3
<1>12. Len(rest) <= depth
  <2>1. depth \in Nat /\ Len(inflight) \in Nat
    BY <1>6, DepthIs DEF IInv
  <2>2. QED
    BY <1>6, <1>7, <2>1
<1>13. at + n \in Nat
  OBVIOUS
<1>14. Fills(rest, more, n, at + n, {awaited})
  BY <1>1, <1>2, <1>3, <1>7, <1>9, <1>10, <1>11, <1>12, <1>13 DEF Fills
<1>b. Moves({awaited}) /\ Filled(n, at + n)
  BY <1>14, ToppedUp
<1>15. Order'
  BY <1>2, <1>4, <1>5, <1>b DEF Order, Chained, Filled
<1>16. Asking'
  BY <1>2, <1>4, <1>b DEF Asking, Filled
<1>17. Download'
  <2>1. reqLen > 0
    BY <1>1, <1>6 DEF IInv, Download
  <2>2. QED
    BY <1>1, <1>2, <1>3, <2>1 DEF IInv, Download, writer, server, Source
<1>18. ReaderTypes'
  <2>1. depth \in Nat /\ Len(inflight') <= depth'
    BY <1>3, <1>b, DepthIs DEF IInv, Filled
  <2>2. QED
    BY <1>1, <1>2, <1>5, <1>b, <2>1 DEF ReaderTypes, Filled
<1>19. QED
  BY <1>1, <1>2, <1>5, <1>b, <1>15, <1>16, <1>17, <1>18, ReaderNext

LEMMA ReaderKeeps ==
  ASSUME ClientAssumption, FileAssumption, IInv,
         \/ OpenRead \/ ReaderOpened \/ ReadFails \/ ReadEof \/ ReadShort \/ ReadFull
         \/ ReadsSettled \/ ReaderClosed \/ CloseRead
         \/ \E size \in BufferSizes : Read(size) \/ ReadLeftover(size)
  PROVE  IInv'
  BY ReaderOpens, ReaderCloses, LeftoverRead, ReadStops, ShortRead, FirstRead, FullRead

-----------------------------------------------------------------------------
(***************************************************************************)
(* The steps of a writer.                                                  *)
(***************************************************************************)
LEMMA CaughtBound ==
  ASSUME NEW s \in Seq(Flight), NEW d \in Nat, Len(s) < d, NEW a, NEW U, U \subseteq Ids(s) \cup {a}
  PROVE  Cardinality(U) <= d
<1>1. PICK l \in Nat : l = Len(s) /\ DOMAIN s = 1..l
  OBVIOUS
<1>2. PICK T : T = Ids(s) \cup {a}
  OBVIOUS
<1>3. PICK f : f = [j \in 1..(l + 1) |-> IF j <= l THEN s[j].id ELSE a]
  OBVIOUS
<1>4. f \in [1..(l + 1) -> T]
  <2>1. \A j \in 1..(l + 1) : j <= l => j \in 1..l
    OBVIOUS
  <2>2. \A j \in 1..(l + 1) : (IF j <= l THEN s[j].id ELSE a) \in T
    BY <1>1, <1>2, <2>1 DEF Ids
  <2>3. QED
    BY <1>3, <2>2
<1>5. \A t \in T : \E j \in 1..(l + 1) : f[j] = t
  <2>1. TAKE t \in T
  <2>2. CASE t = a
    <3>1. l + 1 \in 1..(l + 1) /\ ~(l + 1 <= l)
      OBVIOUS
    <3>2. QED
      BY <1>3, <2>2, <3>1
  <2>3. CASE t \in Ids(s)
    <3>1. PICK j \in 1..l : t = s[j].id
      BY <1>1, <2>3 DEF Ids
    <3>2. j \in 1..(l + 1) /\ j <= l
      OBVIOUS
    <3>3. QED
      BY <1>3, <3>1, <3>2
  <2>4. QED
    BY <1>2, <2>2, <2>3
<1>6. ExistsSurjection(1..(l + 1), T)
  BY <1>4, <1>5 DEF ExistsSurjection, Surjection
<1>7. IsFiniteSet(T) /\ Cardinality(T) <= l + 1
  <2>1. l + 1 \in Nat
    OBVIOUS
  <2>2. QED
    BY <1>6, <2>1, FS_NatSurjection, FS_SurjCardinalityBound
<1>8. IsFiniteSet(U) /\ Cardinality(U) <= Cardinality(T)
  BY <1>2, <1>7, FS_Subset
<1>9. Cardinality(U) \in Nat /\ Cardinality(T) \in Nat
  BY <1>7, <1>8, FS_CardinalityType
<1>10. QED
  BY <1>1, <1>7, <1>8, <1>9

WriterPc == {"writer", "stat", "openWrite", "writerIdle", "write", "drain", "drainAborted",
             "closeFailed", "closeWrite", "done"}

WriterTypes ==
  /\ pc \in WriterPc
  /\ awaited \in Id /\ inflight \in Seq(Flight)
  /\ offset \in Nat /\ startOffset \in Nat /\ remaining \in Nat
  /\ resuming \in BOOLEAN /\ failure \in BOOLEAN
  /\ uncaught \subseteq Id /\ attempts \in 0..MaxAttempts

LEMMA WriterTyped ==
  ASSUME TypeOK, ~Downloads
  PROVE  WriterTypes /\ nextRequestId \in Id /\ ClientTypeOK /\ depth \in Depths
  BY DEF TypeOK, WriterTypes, Flight, ClientTypeOK, Downloads, WriterPc

LEMMA WriterIsNotReader ==
  ASSUME pc \in WriterPc
  PROVE  ~Downloads
  BY DEF WriterPc, Downloads

LEMMA WriterNext ==
  ASSUME ClientAssumption, FileAssumption, IInv, ~Downloads, NEW forgotten, Moves(forgotten),
         UNCHANGED reader, WriterTypes', attempts' # 0, startOffset' <= Len(file),
         pc' = "stat" => resuming', Queue', Whole'
  PROVE  IInv'
<1>1. ClientTypeOK' /\ OnTheWay' /\ answers' = answers
  BY MovedTypes DEF IInv
<1>2. ~Downloads' /\ depth' = depth /\ UNCHANGED server /\ file' = file
  BY DEF Moves, server
<1>3. \A id \in Id : Sized(promise[id])'
  <2>1. TAKE id \in Id
  <2>2. promise'[id] \in {promise[id], Unused} \/ promise'[id].kind \in {"pending", "ended"}
    BY MovedPromise DEF IInv
  <2>3. Sized(promise[id])
    BY DEF IInv, Upload
  <2>4. QED
    BY <1>2, <2>2, <2>3 DEF Sized, Unused, Answer
<1>4. Upload'
  BY <1>1, <1>2, <1>3 DEF IInv, Upload, reader, Sized
<1>5. depth \in Nat \ {0}
  BY DepthIs DEF IInv
<1>6. Len(inflight') <= depth /\ Cardinality(uncaught') <= depth
  <2>1. CASE pc' \in Busy
    <3>1. PICK s \in Seq(Flight) : s = inflight' /\ Len(s) < depth
      BY <1>2, <2>1 DEF Queue, WriterTypes
    <3>2. PICK a, U : a = awaited' /\ U = uncaught' /\ U \subseteq Ids(s) \cup {a}
      BY <1>2, <2>1, <3>1 DEF Queue, Ids
    <3>3. Cardinality(U) <= depth
      BY <1>5, <3>1, <3>2, CaughtBound
    <3>4. QED
      BY <1>5, <3>1, <3>2, <3>3
  <2>2. CASE pc' \notin Busy
    <3>1. uncaught' = {} /\ inflight' = <<>>
      BY <1>2, <2>2 DEF Queue
    <3>2. Cardinality({}) = 0 /\ Len(<<>>) = 0
      BY FS_EmptySet
    <3>3. QED
      BY <1>5, <3>1, <3>2
  <2>3. QED
    BY <2>1, <2>2
<1>7. TypeOK'
  BY <1>1, <1>2, <1>6 DEF IInv, TypeOK, WriterTypes, WriterPc, Flight, reader, server
<1>8. Download' /\ Asking' /\ Got'
  BY <1>2 DEF Download, Asking, Got
<1>9. Order'
  BY <1>2 DEF Order, Downloads
<1>10. QED
  BY <1>1, <1>4, <1>7, <1>8, <1>9 DEF IInv

\* Outside Busy nothing is in flight; before the first attempt nothing has begun.
LEMMA Resting1 ==
  ASSUME IInv, ~Downloads
  PROVE  /\ pc \notin Busy => uncaught = {} /\ inflight = <<>>
         /\ startOffset <= Len(file) /\ Len(file) <= SourceLength
         /\ pc # "writer" => attempts # 0
         /\ attempts = 0 => sent = <<>> /\ file = <<>>
         /\ pc = "stat" => resuming
  BY DEF IInv, Queue, Upload

LEMMA WriterOpens ==
  ASSUME ClientAssumption, FileAssumption, IInv, OpenWrite
  PROVE  IInv'
<1>1. pc = "writer" /\ ~Downloads
  BY DEF OpenWrite, Downloads
<1>2. WriterTypes /\ nextRequestId \in Id /\ TypeOK
  BY <1>1, WriterTyped DEF IInv
<1>3. uncaught = {} /\ inflight = <<>> /\ (attempts = 0 => sent = <<>> /\ file = <<>>)
  BY <1>1, Resting1 DEF Busy
<1>4. /\ UNCHANGED <<depth, inflight, offset, reader, remaining, uncaught, server>>
      /\ attempts < MaxAttempts /\ attempts' = attempts + 1 /\ resuming' = (attempts > 0)
      /\ startOffset' = 0 /\ failure' = FALSE /\ awaited' = NextId(0)
      /\ IF resuming'
         THEN pc' = "stat" /\ Issue(<<Asked("stat", 0, 0)>>, {})
         ELSE pc' = "openWrite" /\ Issue(<<Asked("truncate", 0, 0)>>, {})
  <2>1. OpenFlags = IF resuming' THEN "open" ELSE "truncate"
    BY DEF OpenFlags
  <2>2. QED
    BY <2>1 DEF OpenWrite
<1>5. attempts' \in 0..MaxAttempts /\ attempts' # 0 /\ resuming' \in BOOLEAN
      /\ (resuming' <=> attempts # 0)
  <2>1. attempts \in Nat /\ MaxAttempts \in Nat
    BY <1>2 DEF WriterTypes, FileAssumption
  <2>2. attempts' \in 0..MaxAttempts /\ attempts' # 0
    BY <1>4, <2>1
  <2>3. attempts > 0 <=> attempts # 0
    BY <2>1
  <2>4. resuming' \in BOOLEAN /\ (resuming' <=> attempts > 0)
    <3>1. resuming' = (attempts > 0)
      BY DEF OpenWrite
    <3>2. CASE attempts > 0
      BY <3>1, <3>2
    <3>3. CASE ~(attempts > 0)
      <4>1. (attempts > 0) = FALSE
        BY <2>1, <3>3
      <4>2. resuming' = FALSE
        BY <3>1, <4>1
      <4>3. QED
        BY <3>3, <4>2
    <3>4. QED
      BY <3>2, <3>3
  <2>5. QED
    BY <2>2, <2>3, <2>4
<1>6. awaited' \in Id
  BY <1>2, <1>4, NextIdIn
<1>7. pc' \in {"stat", "openWrite"} /\ ~Downloads'
  BY <1>4 DEF Downloads
<1>8. Moves({})
  <2>1. CASE resuming'
    <3>1. Proper(<<Asked("stat", 0, 0)>>)
      BY <1>1, AskOne DEF Op
    <3>2. QED
      BY <1>1, <1>4, <1>7, <2>1, <3>1 DEF Moves, Downloads, server
  <2>2. CASE ~resuming'
    <3>1. Proper(<<Asked("truncate", 0, 0)>>)
      BY <1>1, <1>3, <1>5, <2>2, AskOne DEF Op
    <3>2. QED
      BY <1>1, <1>4, <1>7, <2>2, <3>1 DEF Moves, Downloads, server
  <2>3. QED
    BY <2>1, <2>2
<1>9. WriterTypes'
  BY <1>2, <1>4, <1>5, <1>6, <1>7 DEF WriterTypes, WriterPc
<1>10. Queue' /\ Whole'
  BY <1>3, <1>4, <1>7 DEF Queue, Whole, Busy
<1>11. startOffset' <= Len(file)
  BY <1>2, <1>4 DEF TypeOK
<1>12. QED
  BY <1>1, <1>4, <1>5, <1>8, <1>9, <1>10, <1>11, WriterNext

LEMMA WriterStats ==
  ASSUME ClientAssumption, FileAssumption, IInv, Statted
  PROVE  IInv'
<1>1. pc = "stat" /\ ~Downloads
  BY DEF Statted, Downloads
<1>2. WriterTypes /\ nextRequestId \in Id /\ TypeOK
  BY <1>1, WriterTyped DEF IInv
<1>3. uncaught = {} /\ inflight = <<>> /\ attempts # 0 /\ resuming /\ startOffset <= Len(file)
  BY <1>1, Resting1 DEF Busy
<1>4. UNCHANGED <<depth, inflight, offset, reader, failure, remaining, uncaught, attempts, server>>
  BY DEF Statted
<1>5. CASE promise[awaited].kind \in {"attrs", "missing"}
  <2>1. /\ startOffset' = promise[awaited].n
        /\ pc' = "openWrite" /\ awaited' = NextId(0) /\ resuming' = resuming
        /\ Issue(<<Asked("open", 0, 0)>>, {awaited})
    <3>1. resuming' = resuming => OpenFlags = "open"
      BY <1>3 DEF OpenFlags
    <3>2. QED
      BY <1>5, <3>1 DEF Statted
  <2>2. awaited \in Id /\ promise[awaited] \in Promise
    BY <1>2 DEF WriterTypes, TypeOK, ClientTypeOK
  <2>3. Sized(promise[awaited]) /\ Len(file) \in Nat
    BY <1>1, <1>2, <2>2 DEF IInv, Upload, TypeOK
  <2>4. startOffset' \in Nat /\ startOffset' <= Len(file)
    BY <1>5, <2>1, <2>2, <2>3 DEF Sized, Promise
  <2>5. awaited' \in Id
    BY <1>2, <2>1, NextIdIn
  <2>6. ~Downloads'
    BY <2>1 DEF Downloads
  <2>7. Moves({awaited})
    <3>1. Proper(<<Asked("open", 0, 0)>>)
      BY <1>1, AskOne DEF Op
    <3>2. QED
      BY <1>1, <1>4, <2>1, <2>6, <3>1 DEF Moves, Downloads, server
  <2>8. WriterTypes'
    BY <1>2, <1>4, <2>1, <2>4, <2>5 DEF WriterTypes, WriterPc
  <2>9. Queue' /\ Whole'
    BY <1>3, <1>4, <2>1 DEF Queue, Whole, Busy
  <2>10. QED
    BY <1>1, <1>3, <1>4, <2>1, <2>4, <2>7, <2>8, <2>9, WriterNext
<1>6. CASE ~(promise[awaited].kind \in {"attrs", "missing"})
  <2>1. pc' = "writer" /\ Forget({awaited}) /\ UNCHANGED <<startOffset, resuming, awaited>>
    BY <1>6 DEF Statted
  <2>2. ~Downloads'
    BY <2>1 DEF Downloads
  <2>3. Moves({awaited})
    BY <1>1, <1>4, <2>1, <2>2 DEF Moves, Downloads, server
  <2>4. WriterTypes'
    BY <1>2, <1>4, <2>1 DEF WriterTypes, WriterPc
  <2>5. Queue' /\ Whole'
    BY <1>3, <1>4, <2>1 DEF Queue, Whole, Busy
  <2>6. QED
    BY <1>1, <1>3, <1>4, <2>1, <2>3, <2>4, <2>5, WriterNext
<1>7. QED
  BY <1>5, <1>6

LEMMA WriterIsOpen ==
  ASSUME ClientAssumption, FileAssumption, IInv, WriterOpened
  PROVE  IInv'
<1>1. pc = "openWrite" /\ ~Downloads
  BY DEF WriterOpened, Downloads
<1>2. WriterTypes /\ TypeOK
  BY <1>1, WriterTyped DEF IInv
<1>3. uncaught = {} /\ inflight = <<>> /\ attempts # 0 /\ startOffset <= Len(file)
      /\ Len(file) <= SourceLength
  BY <1>1, Resting1 DEF Busy
<1>4. /\ UNCHANGED <<depth, awaited, inflight, reader, writer, server>>
      /\ offset' = startOffset /\ pc' \in {"writerIdle", "writer"} /\ Forget({awaited})
  BY DEF WriterOpened
<1>5. ~Downloads'
  BY <1>4 DEF Downloads
<1>6. Moves({awaited})
  BY <1>1, <1>4 DEF Moves, Downloads, server
<1>7. WriterTypes'
  BY <1>2, <1>4 DEF WriterTypes, WriterPc, writer
<1>8. startOffset \in Nat /\ startOffset <= SourceLength /\ depth \in Nat \ {0}
  <2>1. Len(file) \in Nat /\ SourceLength \in Nat /\ startOffset \in Nat
    BY <1>2 DEF TypeOK, FileAssumption
  <2>2. QED
    BY <1>3, <2>1, DepthIs DEF IInv
<1>9. Queue'
  <2>1. Len(<<>>) < depth
    BY <1>8
  <2>2. QED
    BY <1>3, <1>4, <1>8, <2>1 DEF Queue, Busy, writer
<1>10. Whole'
  <2>1. startOffset..(startOffset - 1) = {}
    BY <1>8
  <2>2. QED
    BY <1>4, <2>1 DEF Whole, writer
<1>11. startOffset' <= Len(file) /\ attempts' # 0
  BY <1>3, <1>4 DEF writer
<1>12. QED
  BY <1>1, <1>4, <1>6, <1>7, <1>9, <1>10, <1>11, WriterNext

LEMMA WriterIsClosed ==
  ASSUME ClientAssumption, FileAssumption, IInv, WriterClosed
  PROVE  IInv'
<1>1. pc \in {"closeWrite", "closeFailed"} /\ ~Downloads
  BY DEF WriterClosed, Downloads
<1>2. WriterTypes /\ TypeOK
  BY <1>1, WriterTyped DEF IInv
<1>3. uncaught = {} /\ inflight = <<>> /\ attempts # 0 /\ startOffset <= Len(file)
  BY <1>1, Resting1 DEF Busy
<1>4. /\ UNCHANGED <<depth, awaited, inflight, offset, reader, writer, server>>
      /\ pc' = "writer" \/ (pc' = "done" /\ pc = "closeWrite")
      /\ Forget({awaited})
  BY DEF WriterClosed
<1>5. Moves({awaited})
  BY <1>1, <1>4 DEF Moves, Downloads, server
<1>6. WriterTypes'
  BY <1>2, <1>4 DEF WriterTypes, WriterPc, writer
<1>7. Queue'
  BY <1>1, <1>3, <1>4 DEF IInv, Queue, Busy, writer
<1>8. Whole'
  BY <1>1, <1>4 DEF IInv, Whole, Busy, writer, server, Written
<1>9. startOffset' <= Len(file) /\ attempts' # 0 /\ pc' # "stat"
  BY <1>3, <1>4 DEF writer
<1>10. QED
  BY <1>1, <1>4, <1>5, <1>6, <1>7, <1>8, <1>9, WriterNext

\* The caller turns to close(): nothing else changes.
LEMMA WriterEnds ==
  ASSUME ClientAssumption, FileAssumption, IInv, CloseWrite \/ Abort
  PROVE  IInv'
<1>1. pc = "writerIdle" /\ ~Downloads
  BY DEF CloseWrite, Abort, Downloads
<1>2. WriterTypes /\ TypeOK
  BY <1>1, WriterTyped DEF IInv
<1>3. attempts # 0 /\ startOffset <= Len(file)
  BY <1>1, Resting1
<1>4. /\ UNCHANGED <<client, depth, awaited, inflight, offset, reader, writer, server>>
      /\ pc' = "drainAborted" \/ (pc' = "drain" /\ offset >= SourceLength)
  BY DEF CloseWrite, Abort
<1>5. Moves({})
  BY <1>1, <1>2, <1>4, MovesNothing DEF Moves, Downloads, server
<1>6. WriterTypes'
  BY <1>2, <1>4 DEF WriterTypes, WriterPc, writer
<1>7. Queue'
  BY <1>1, <1>4 DEF IInv, Queue, Busy, writer, client, Ids, Downloads
<1>8. Whole'
  BY <1>1, <1>4 DEF IInv, Whole, Busy, writer, server, Written, Owed, Link, Right, client
<1>9. startOffset' <= Len(file) /\ attempts' # 0 /\ pc' # "stat"
  BY <1>3, <1>4 DEF writer
<1>10. QED
  BY <1>1, <1>4, <1>5, <1>6, <1>7, <1>8, <1>9, WriterNext

LEMMA WriterDrained ==
  ASSUME ClientAssumption, FileAssumption, IInv, Drained
  PROVE  IInv'
<1>1. pc \in {"drain", "drainAborted"} /\ ~Downloads /\ pc \in Busy /\ pc # "write"
  BY DEF Drained, Downloads, Busy
<1>2. WriterTypes /\ TypeOK /\ nextRequestId \in Id
  BY <1>1, WriterTyped DEF IInv
<1>3. attempts # 0 /\ startOffset <= Len(file)
  BY <1>1, Resting1
<1>4. /\ UNCHANGED <<depth, offset, reader, writer, server>>
      /\ Ids(inflight) \cap uncaught = {} /\ inflight' = <<>>
      /\ pc' = (IF failure \/ pc = "drainAborted" THEN "closeFailed" ELSE "closeWrite")
      /\ awaited' = NextId(0) /\ Issue(<<Asked("close", 0, 0)>>, {})
  BY DEF Drained
<1>5. pc' = "closeFailed" \/ (pc' = "closeWrite" /\ ~failure /\ pc = "drain")
  BY <1>1, <1>4
<1>6. uncaught = {}
  <2>1. uncaught \subseteq Ids(inflight)
    BY <1>1 DEF IInv, Queue
  <2>2. QED
    BY <1>4, <2>1
<1>7. Moves({})
  <2>1. Proper(<<Asked("close", 0, 0)>>)
    BY <1>1, AskOne DEF Op
  <2>2. QED
    BY <1>1, <1>4, <1>5, <2>1 DEF Moves, Downloads, server
<1>8. awaited' \in Id
  BY <1>2, <1>4, NextIdIn
<1>9. WriterTypes'
  <2>1. <<>> \in Seq(Flight)
    OBVIOUS
  <2>2. QED
    BY <1>2, <1>4, <1>5, <1>8, <2>1 DEF WriterTypes, WriterPc, writer
<1>10. Queue'
  BY <1>1, <1>4, <1>5, <1>6 DEF IInv, Queue, Busy, writer
<1>11. Whole'
  BY <1>1, <1>4, <1>5, <1>6 DEF IInv, Whole, Busy, writer, server, Written, Owed
<1>12. startOffset' <= Len(file) /\ attempts' # 0 /\ pc' # "stat"
  BY <1>3, <1>4, <1>5 DEF writer
<1>13. QED
  BY <1>1, <1>4, <1>7, <1>9, <1>10, <1>11, <1>12, WriterNext

LEMMA OwedMoved ==
  ASSUME ClientAssumption, TypeOK, NEW forgotten, Moves(forgotten), NEW k \in Nat,
         NEW id \in uncaught, Link(id, "write", k, 1), id \notin forgotten, id \in uncaught'
  PROVE  Owed(k)'
<1>1. id \in Id
  BY DEF TypeOK
<1>2. Link(id, "write", k, 1)'
  BY <1>1, LinkMoved
<1>3. QED
  BY <1>2 DEF Owed

LEMMA CaughtWrite ==
  ASSUME ClientAssumption, FileAssumption, IInv, NEW id \in Id, WriteCaught(id)
  PROVE  IInv'
<1>1. pc \in Busy /\ ~Downloads /\ id \in uncaught
  BY DEF WriteCaught, IInv, Download, Queue
<1>2. WriterTypes /\ TypeOK
  BY <1>1, WriterTyped DEF IInv
<1>3. attempts # 0 /\ startOffset <= Len(file)
  BY <1>1, Resting1 DEF Busy
<1>4. /\ UNCHANGED <<depth, pc, awaited, inflight, offset, reader, resuming, startOffset, remaining,
                     attempts, server>>
      /\ uncaught' = uncaught \ {id}
      /\ failure' = (failure \/ ~Fulfilled(id, "ok"))
      /\ Forget({id})
  BY DEF WriteCaught
<1>5. Moves({id})
  BY <1>1, <1>4 DEF Moves, Downloads, server
<1>6. WriterTypes' /\ failure' \in BOOLEAN
  BY <1>2, <1>4 DEF WriterTypes
<1>7. Queue'
  <2>1. \A i \in uncaught' : promise'[i] # Unused
    <3>1. TAKE i \in uncaught'
    <3>2. i \in Id /\ i # id /\ promise[i] # Unused
      BY <1>1, <1>2, <1>4 DEF IInv, Queue, WriterTypes
    <3>3. promise'[i] = promise[i]
      BY <1>5, <3>2, MovedPromise DEF IInv
    <3>4. QED
      BY <3>2, <3>3
  <2>2. uncaught' \subseteq Ids(inflight) \cup (IF pc = "write" THEN {awaited} ELSE {})
    BY <1>1, <1>4 DEF IInv, Queue
  <2>3. QED
    BY <1>1, <1>4, <2>1, <2>2 DEF IInv, Queue, Ids
<1>8. Whole'
  <2>1. SUFFICES ASSUME ~failure', NEW k \in startOffset..(offset - 1)
                 PROVE  Written(k)' \/ Owed(k)'
    BY <1>1, <1>4 DEF Whole, Busy
  <2>2. ~failure /\ Fulfilled(id, "ok")
    BY <1>4, <2>1
  <2>3. k \in Nat
    BY <1>2, <2>1 DEF WriterTypes
  <2>4. Written(k) \/ Owed(k)
    BY <1>1, <2>1, <2>2 DEF IInv, Whole
  <2>5. CASE Written(k)
    BY <1>4, <2>5 DEF Written, server
  <2>6. CASE Owed(k)
    <3>1. PICK i \in uncaught : Link(i, "write", k, 1)
      BY <2>6 DEF Owed
    <3>2. CASE i = id
      <4>1. Written(k)
        BY <2>2, <3>1, <3>2 DEF Link, Right, Fulfilled
      <4>2. QED
        BY <1>4, <4>1 DEF Written, server
    <3>3. CASE i # id
      <4>1. i \in uncaught' /\ i \notin {id}
        BY <1>4, <3>3
      <4>2. QED
        BY <1>2, <1>5, <2>3, <3>1, <4>1, OwedMoved
    <3>4. QED
      BY <3>2, <3>3
  <2>7. QED
    BY <2>4, <2>5, <2>6
<1>9. startOffset' <= Len(file) /\ attempts' # 0 /\ pc' # "stat"
  BY <1>1, <1>3, <1>4 DEF Busy
<1>10. QED
  BY <1>1, <1>4, <1>5, <1>6, <1>7, <1>8, <1>9, WriterNext

\* The writes that write() issues before its next await.
LEMMA WritesAre ==
  ASSUME ClientAssumption, nextRequestId \in Id, offset \in Nat, NEW n \in Nat
  PROVE  /\ Writes(n) \in Seq(Flight) /\ Len(Writes(n)) = n
         /\ \A j \in 1..n : Writes(n)[j].at = offset + j - 1 /\ Writes(n)[j].id = NextId(j - 1)
<1>1. PICK f : f = Writes(n)
  OBVIOUS
<1>2. f = [j \in 1..n |-> [at |-> offset + j - 1, id |-> NextId(j - 1)]]
  BY <1>1 DEF Writes
<1>3. \A j \in 1..n : f[j] = [at |-> offset + j - 1, id |-> NextId(j - 1)] /\ f[j] \in Flight
  <2>1. TAKE j \in 1..n
  <2>2. offset + j - 1 \in Nat /\ j - 1 \in Nat
    OBVIOUS
  <2>3. NextId(j - 1) \in Id
    BY <2>2, NextIdIn
  <2>4. QED
    BY <1>2, <2>2, <2>3 DEF Flight
<1>4. f = [j \in 1..n |-> f[j]] /\ DOMAIN f = 1..n
  BY <1>2
<1>5. f \in [1..n -> Flight]
  BY <1>3, <1>4
<1>6. f \in Seq(Flight) /\ Len(f) = n
  BY <1>5
<1>7. \A j \in 1..n : f[j].at = offset + j - 1 /\ f[j].id = NextId(j - 1)
  <2>1. TAKE j \in 1..n
  <2>2. PICK a, i : a = offset + j - 1 /\ i = NextId(j - 1)
    OBVIOUS
  <2>3. f[j] = [at |-> a, id |-> i]
    BY <1>3, <2>2
  <2>4. f[j].at = a /\ f[j].id = i
    BY <2>3
  <2>5. QED
    BY <2>2, <2>4
<1>8. QED
  BY <1>1, <1>6, <1>7

LEMMA WritesAsked ==
  ASSUME NEW more \in Seq(Flight), NEW f,
         f = [j \in 1..Len(more) |-> Asked("write", more[j].at, 1)]
  PROVE  /\ f \in Seq(Question) /\ Len(f) = Len(more)
         /\ \A j \in 1..Len(more) : f[j] = [op |-> "write", at |-> more[j].at, n |-> 1]
<1>1. Len(more) \in Nat /\ (\A j \in 1..Len(more) : more[j].at \in Nat)
  BY Flights
<1>2. \A j \in 1..Len(more) : f[j] = [op |-> "write", at |-> more[j].at, n |-> 1] /\ f[j] \in Question
  BY <1>1 DEF Asked, Question, Op
<1>3. f \in [1..Len(more) -> Question]
  BY <1>2
<1>4. f \in Seq(Question) /\ Len(f) = Len(more)
  BY <1>1, <1>3
<1>5. QED
  BY <1>2, <1>4

\* Where one write after the other is answered, there is no gap to write past.
LEMMA NoGap ==
  ASSUME IInv, ~Downloads, depth = 1, pc \in Busy, ~failure, uncaught \subseteq Ids(inflight)
  PROVE  offset <= Len(file)
<1>1. TypeOK /\ startOffset \in Nat /\ offset \in Nat /\ inflight \in Seq(Flight)
  BY WriterTyped DEF IInv, WriterTypes
<1>2. Len(inflight) < 1
  BY DEF IInv, Queue
<1>3. inflight = <<>>
  BY <1>1, <1>2
<1>4. uncaught = {}
  BY <1>3 DEF Ids
<1>5. \A k \in startOffset..(offset - 1) : Written(k)
  BY <1>4 DEF IInv, Whole, Owed
<1>6. Len(file) \in Nat /\ startOffset <= Len(file) /\ startOffset <= offset
  BY <1>1, Resting1 DEF IInv, Queue, TypeOK
<1>7. CASE offset = startOffset
  BY <1>6, <1>7
<1>8. CASE offset > startOffset
  <2>1. offset - 1 \in startOffset..(offset - 1)
    BY <1>1, <1>8
  <2>2. offset - 1 + 1 <= Len(file)
    BY <1>5, <2>1 DEF Written
  <2>3. QED
    BY <1>1, <2>2
<1>9. QED
  BY <1>1, <1>6, <1>7, <1>8

LEMMA IdsConcat ==
  ASSUME NEW s \in Seq(Flight), NEW t \in Seq(Flight)
  PROVE  Ids(s \o t) = Ids(s) \cup Ids(t)
<1>1. PICK a \in Nat, b \in Nat : a = Len(s) /\ b = Len(t) /\ DOMAIN s = 1..a /\ DOMAIN t = 1..b
  OBVIOUS
<1>2. PICK u \in Seq(Flight) : u = s \o t /\ Len(u) = a + b
        /\ \A i \in 1..(a + b) : u[i] = IF i <= a THEN s[i] ELSE t[i - a]
  <2>1. /\ s \o t \in Seq(Flight) /\ Len(s \o t) = Len(s) + Len(t)
        /\ \A i \in 1..(Len(s) + Len(t)) : (s \o t)[i] = IF i <= Len(s) THEN s[i] ELSE t[i - Len(s)]
    BY ConcatProperties
  <2>2. QED
    BY <1>1, <2>1
<1>3. DOMAIN u = 1..(a + b)
  BY <1>2
<1>4. ASSUME NEW x \in Ids(u) PROVE x \in Ids(s) \cup Ids(t)
  <2>1. PICK i \in 1..(a + b) : x = u[i].id
    BY <1>3, <1>4 DEF Ids
  <2>2. CASE i <= a
    <3>1. i \in 1..a /\ u[i] = s[i]
      BY <1>2, <2>2
    <3>2. QED
      BY <1>1, <2>1, <3>1 DEF Ids
  <2>3. CASE ~(i <= a)
    <3>1. i - a \in 1..b /\ u[i] = t[i - a]
      BY <1>2, <2>3
    <3>2. QED
      BY <1>1, <2>1, <3>1 DEF Ids
  <2>4. QED
    BY <2>2, <2>3
<1>5. ASSUME NEW x \in Ids(s) PROVE x \in Ids(u)
  <2>1. PICK i \in 1..a : x = s[i].id
    BY <1>1, <1>5 DEF Ids
  <2>2. i \in 1..(a + b) /\ u[i] = s[i]
    BY <1>2
  <2>3. QED
    BY <1>3, <2>1, <2>2 DEF Ids
<1>6. ASSUME NEW x \in Ids(t) PROVE x \in Ids(u)
  <2>1. PICK i \in 1..b : x = t[i].id
    BY <1>1, <1>6 DEF Ids
  <2>2. i + a \in 1..(a + b) /\ ~(i + a <= a) /\ i + a - a = i
    OBVIOUS
  <2>3. u[i + a] = t[i]
    BY <1>2, <2>2
  <2>4. QED
    BY <1>3, <2>1, <2>2, <2>3 DEF Ids
<1>7. QED
  BY <1>2, <1>4, <1>5, <1>6

LEMMA IdsTail ==
  ASSUME NEW s \in Seq(Flight), s # <<>>
  PROVE  /\ Ids(s) = Ids(Tail(s)) \cup {Head(s).id} /\ Head(s).id \in Id
         /\ Tail(s) \in Seq(Flight) /\ Len(Tail(s)) = Len(s) - 1
<1>1. PICK t \in Seq(Flight) : t = Tail(s) /\ Len(t) = Len(s) - 1
        /\ \A i \in 1..Len(t) : t[i] = s[i + 1]
  BY HeadTailProperties
<1>2. PICK l \in Nat : l = Len(s) /\ l > 0 /\ DOMAIN s = 1..l
  <2>1. PICK l \in Nat : l = Len(s) /\ DOMAIN s = 1..l
    OBVIOUS
  <2>2. l # 0
    BY <2>1, EmptySeq
  <2>3. QED
    BY <2>1, <2>2
<1>3. DOMAIN t = 1..(l - 1) /\ Head(s) = s[1] /\ (\A i \in 1..(l - 1) : t[i] = s[i + 1])
  BY <1>1, <1>2
<1>4. ASSUME NEW x \in Ids(s) PROVE x \in Ids(t) \cup {Head(s).id}
  <2>1. PICK i \in 1..l : x = s[i].id
    BY <1>2, <1>4 DEF Ids
  <2>2. CASE i = 1
    BY <1>3, <2>1, <2>2
  <2>3. CASE i # 1
    <3>1. i - 1 \in 1..(l - 1) /\ i - 1 + 1 = i
      BY <2>3
    <3>2. t[i - 1] = s[i]
      BY <1>3, <3>1
    <3>3. QED
      BY <1>3, <2>1, <3>1, <3>2 DEF Ids
  <2>4. QED
    BY <2>2, <2>3
<1>5. ASSUME NEW x \in Ids(t) PROVE x \in Ids(s)
  <2>1. PICK i \in 1..(l - 1) : x = t[i].id
    BY <1>3, <1>5 DEF Ids
  <2>2. i + 1 \in 1..l /\ t[i] = s[i + 1]
    BY <1>3
  <2>3. QED
    BY <1>2, <2>1, <2>2 DEF Ids
<1>6. Head(s).id \in Ids(s) /\ Head(s).id \in Id
  <2>1. 1 \in DOMAIN s
    BY <1>2
  <2>2. QED
    BY <1>3, <2>1, Flights
<1>7. QED
  BY <1>1, <1>4, <1>5, <1>6

LEMMA WritesOn ==
  ASSUME ClientAssumption, FileAssumption, IInv, ~Downloads, pc \in {"writerIdle", "write"}, ~failure,
         NEW left \in Nat, WriteOn(left), offset + left <= SourceLength, uncaught \subseteq Ids(inflight),
         UNCHANGED <<depth, reader, resuming, startOffset, failure, attempts, server>>
  PROVE  IInv'
<1>1. WriterTypes /\ TypeOK /\ ClientTypeOK /\ nextRequestId \in Id /\ depth \in Nat \ {0}
      /\ depth <= IdModulus - 1 /\ IdModulus \in Nat
  BY WriterTyped, DepthIs DEF IInv, ClientAssumption
<1>2. attempts # 0 /\ startOffset <= Len(file) /\ pc \in Busy
  BY Resting1 DEF Busy
<1>3. inflight \in Seq(Flight) /\ offset \in Nat /\ startOffset \in Nat /\ SourceLength \in Nat
      /\ uncaught \subseteq Id
  BY <1>1 DEF WriterTypes, FileAssumption
<1>4. PICK h \in Nat : h = Len(inflight) /\ h < depth
  BY <1>2, <1>3 DEF IInv, Queue
<1>5. PICK n \in Nat :
        /\ n = Min({left, depth - Len(inflight)})
        /\ n = (IF left <= depth - h THEN left ELSE depth - h)
  <2>1. depth - h \in Nat
    BY <1>1, <1>4
  <2>2. Min({left, depth - h}) = IF left <= depth - h THEN left ELSE depth - h
    BY <2>1, MinOfTwo
  <2>3. QED
    BY <1>4, <2>1, <2>2
<1>6. n <= left /\ h + n <= depth /\ n <= IdModulus - 1 /\ (n = 0 => left = 0)
      /\ (h + n # depth => n = left)
  BY <1>1, <1>4, <1>5
<1>7. PICK more \in Seq(Flight) :
        /\ more = Writes(n) /\ Len(more) = n
        /\ \A j \in 1..n : more[j].at = offset + j - 1 /\ more[j].id = NextId(j - 1)
  BY <1>1, <1>3, WritesAre
<1>8. PICK asked \in Seq(Question) :
        /\ asked = [j \in 1..n |-> Asked("write", more[j].at, 1)] /\ Len(asked) = n
        /\ \A j \in 1..n : asked[j] = [op |-> "write", at |-> more[j].at, n |-> 1]
  <2>1. PICK f : f = [j \in 1..n |-> Asked("write", more[j].at, 1)]
    OBVIOUS
  <2>2. f = [j \in 1..Len(more) |-> Asked("write", more[j].at, 1)]
    BY <1>7, <2>1
  <2>3. f \in Seq(Question) /\ Len(f) = Len(more)
        /\ \A j \in 1..Len(more) : f[j] = [op |-> "write", at |-> more[j].at, n |-> 1]
    BY <2>2, WritesAsked
  <2>4. QED
    BY <1>7, <2>1, <2>3
<1>9. \A j \in 1..n : asked[j].op = "write" /\ asked[j].at = offset + j - 1 /\ asked[j].n = 1
  <2>1. \A j \in 1..n : asked[j].op = "write" /\ asked[j].at = more[j].at /\ asked[j].n = 1
    <3>1. TAKE j \in 1..n
    <3>2. asked[j] = [op |-> "write", at |-> more[j].at, n |-> 1]
      BY <1>8
    <3>3. QED
      BY <3>2
  <2>2. QED
    BY <1>7, <2>1
<1>10. PICK all \in Seq(Flight), full \in BOOLEAN :
        /\ all = inflight \o more /\ Len(all) = h + n /\ Ids(all) = Ids(inflight) \cup Ids(more)
        /\ full = (n > 0 /\ Len(all) = depth)
  <2>1. inflight \o more \in Seq(Flight) /\ Len(inflight \o more) = Len(inflight) + Len(more)
    BY <1>3, <1>7, ConcatProperties
  <2>2. Ids(inflight \o more) = Ids(inflight) \cup Ids(more)
    BY <1>3, <1>7, IdsConcat
  <2>3. QED
    BY <1>4, <1>7, <2>1, <2>2
<1>a. full <=> n > 0 /\ h + n = depth
  <2>1. full <=> n > 0 /\ Len(all) = depth
    BY <1>10
  <2>2. Len(all) = h + n
    BY <1>10
  <2>3. QED
    BY <2>1, <2>2
<1>11. /\ Issue(asked, {})
       /\ offset' = offset + n /\ remaining' = left - n
       /\ uncaught' = uncaught \cup Ids(more)
       /\ inflight' = IF full THEN Tail(all) ELSE all
       /\ awaited' = IF full THEN Head(all).id ELSE awaited
       /\ pc' = IF full THEN "write" ELSE "writerIdle"
  BY <1>5, <1>7, <1>8, <1>10 DEF WriteOn
<1>12. pc' \in {"writerIdle", "write"} /\ ~Downloads'
  BY <1>11 DEF Downloads
<1>13. Proper(asked)
  <2>1. ASSUME NEW j \in 1..n PROVE Wire(asked[j], j) /\ asked[j].op # "truncate"
    <3>1. offset + j - 1 < SourceLength
      BY <1>3, <1>6
    <3>2. ASSUME depth = 1 PROVE offset + j - 1 <= Len(file)
      <4>1. offset <= Len(file)
        BY <1>2, <3>2, NoGap
      <4>2. j = 1
        BY <1>4, <1>6, <3>2
      <4>3. QED
        BY <1>3, <4>1, <4>2
    <3>3. QED
      BY <1>9, <3>1, <3>2 DEF Wire
  <2>2. QED
    BY <1>6, <1>8, <2>1 DEF Proper
<1>14. Moves({})
  BY <1>11, <1>12, <1>13 DEF Moves, Downloads, server
<1>15. \A j \in DOMAIN more : more[j].id \in Id
  BY Flights
<1>16. Ids(more) \subseteq Id
  BY <1>15 DEF Ids
<1>17. /\ inflight' \in Seq(Flight) /\ Len(inflight') < depth /\ awaited' \in Id
       /\ Ids(all) \subseteq Ids(inflight') \cup (IF pc' = "write" THEN {awaited'} ELSE {})
  <2>1. CASE full
    <3>1. all # <<>>
      <4>1. h + n > 0 /\ h + n # 0
        BY <1>a, <2>1
      <4>2. Len(all) # 0
        BY <1>10, <4>1
      <4>3. QED
        BY <4>2, EmptySeq
    <3>2. /\ Ids(all) = Ids(Tail(all)) \cup {Head(all).id} /\ Head(all).id \in Id
          /\ Tail(all) \in Seq(Flight) /\ Len(Tail(all)) = Len(all) - 1
      BY <3>1, IdsTail
    <3>3. Len(Tail(all)) < depth
      <4>1. Len(Tail(all)) = h + n - 1
        BY <1>10, <3>2
      <4>2. h + n - 1 < depth
        BY <1>6, <1>1
      <4>3. QED
        BY <4>1, <4>2
    <3>4. inflight' = Tail(all) /\ awaited' = Head(all).id /\ pc' = "write"
      BY <1>11, <2>1
    <3>5. QED
      BY <3>2, <3>3, <3>4
  <2>2. CASE ~full
    <3>1. inflight' = all /\ awaited' = awaited
      BY <1>11, <2>2
    <3>2. h + n < depth
      BY <1>1, <1>4, <1>6, <1>a, <2>2
    <3>3. QED
      BY <1>1, <1>10, <3>1, <3>2 DEF WriterTypes
  <2>3. QED
    BY <2>1, <2>2
<1>18. offset' \in Nat /\ remaining' \in Nat /\ offset' <= SourceLength /\ startOffset <= offset'
       /\ offset' + remaining' <= SourceLength
  <2>1. offset' = offset + n /\ remaining' = left - n
    BY <1>11
  <2>2. startOffset <= offset
    BY <1>2 DEF IInv, Queue
  <2>3. QED
    BY <1>3, <1>6, <2>1, <2>2
<1>19. WriterTypes'
  BY <1>1, <1>3, <1>11, <1>12, <1>16, <1>17, <1>18 DEF WriterTypes, WriterPc
<1>20. \A j \in 1..n : /\ NextId(j - 1) \in Ids(more) /\ NextId(j - 1) \in uncaught'
                       /\ promise'[NextId(j - 1)] # Unused
  <2>1. TAKE j \in 1..n
  <2>2. j \in DOMAIN more /\ more[j].id = NextId(j - 1)
    BY <1>7
  <2>3. NextId(j - 1) \in Ids(more)
    BY <2>2 DEF Ids
  <2>4. Len(asked) <= IdModulus - 1 /\ j \in 1..Len(asked)
    BY <1>6, <1>8
  <2>5. promise'[NextId(j - 1)] # Unused
    BY <1>1, <1>11, <2>4, Issued
  <2>6. QED
    BY <1>11, <2>3, <2>5
<1>21. \A id \in uncaught' : promise'[id] # Unused
  <2>1. TAKE id \in uncaught'
  <2>2. CASE id \in uncaught
    <3>1. id \in Id /\ promise[id] # Unused
      BY <1>3, <2>2 DEF IInv, Queue
    <3>2. promise'[id] = promise[id]
      BY <1>1, <1>14, <3>1, MovedPromise
    <3>3. QED
      BY <3>1, <3>2
  <2>3. CASE id \in Ids(more)
    <3>1. PICK j \in 1..n : id = NextId(j - 1)
      BY <1>7, <2>3 DEF Ids
    <3>2. QED
      BY <1>20, <3>1
  <2>4. QED
    BY <1>11, <2>2, <2>3
<1>22. Queue'
  <2>1. uncaught' \subseteq Ids(inflight') \cup (IF pc' = "write" THEN {awaited'} ELSE {})
    BY <1>10, <1>11, <1>17
  <2>2. uncaught' \subseteq (Ids(inflight) \cup (IF pc = "write" THEN {awaited} ELSE {}))'
    BY <2>1 DEF Ids
  <2>3. depth' = depth /\ startOffset' = startOffset
    OBVIOUS
  <2>4. QED
    BY <1>12, <1>17, <1>18, <1>21, <2>2, <2>3 DEF Queue, Busy
<1>23. Whole'
  <2>1. ASSUME NEW k \in startOffset..(offset + n - 1) PROVE Written(k)' \/ Owed(k)'
    <3>2. k \in Nat
      BY <1>3
    <3>3. CASE k < offset
      <4>1. Written(k) \/ Owed(k)
        BY <1>2, <1>3, <3>3 DEF IInv, Whole
      <4>2. CASE Written(k)
        BY <4>2 DEF Written, server
      <4>3. CASE Owed(k)
        <5>1. PICK id \in uncaught : Link(id, "write", k, 1)
          BY <4>3 DEF Owed
        <5>2. id \in uncaught' /\ id \notin {}
          BY <1>11
        <5>3. QED
          BY <1>1, <1>14, <3>2, <5>1, <5>2, OwedMoved
      <4>4. QED
        BY <4>1, <4>2, <4>3
    <3>4. CASE ~(k < offset)
      <4>1. PICK j \in 1..n : k = offset + j - 1
        <5>1. k - offset + 1 \in 1..n /\ k = offset + (k - offset + 1) - 1
          BY <1>3, <3>4
        <5>2. QED
          BY <5>1
      <4>2. PICK id : id = NextId(j - 1)
        OBVIOUS
      <4>3. Len(asked) <= IdModulus - 1 /\ j \in 1..Len(asked)
        BY <1>6, <1>8
      <4>4. Link(id, asked[j].op, asked[j].at, asked[j].n)'
        BY <1>1, <1>11, <4>2, <4>3, LinkNew
      <4>5. Link(id, "write", k, 1)'
        BY <1>9, <4>1, <4>4
      <4>6. id \in uncaught'
        BY <1>20, <4>2
      <4>7. QED
        BY <4>5, <4>6 DEF Owed
    <3>5. QED
      BY <3>3, <3>4
  <2>2. \A k \in startOffset'..(offset' - 1) : Written(k)' \/ Owed(k)'
    <3>1. startOffset' = startOffset /\ offset' - 1 = offset + n - 1
      BY <1>3, <1>11
    <3>2. QED
      BY <2>1, <3>1
  <2>3. pc' \notin {"closeWrite", "done"}
    BY <1>12
  <2>4. QED
    BY <2>2, <2>3 DEF Whole
<1>24. startOffset' <= Len(file) /\ attempts' # 0 /\ pc' # "stat"
  BY <1>2, <1>12
<1>25. QED
  BY <1>14, <1>19, <1>22, <1>23, <1>24, WriterNext

LEMMA WriteBegins ==
  ASSUME ClientAssumption, FileAssumption, IInv, NEW size \in ChunkSizes, Write(size)
  PROVE  IInv'
<1>1. /\ pc = "writerIdle" /\ ~failure /\ offset + size <= SourceLength /\ WriteOn(size)
      /\ UNCHANGED <<depth, reader, resuming, startOffset, failure, attempts, server>>
  BY DEF Write
<1>2. ~Downloads /\ size \in Nat
  BY <1>1 DEF Downloads, FileAssumption
<1>3. uncaught \subseteq Ids(inflight)
  BY <1>1, <1>2 DEF IInv, Queue, Busy
<1>4. QED
  BY <1>1, <1>2, <1>3, WritesOn

LEMMA WriteGoesOn ==
  ASSUME ClientAssumption, FileAssumption, IInv, WriteResumes
  PROVE  IInv'
<1>1. /\ pc = "write" /\ awaited \notin uncaught
      /\ UNCHANGED <<depth, reader, resuming, startOffset, failure, attempts, server>>
  BY DEF WriteResumes
<1>2. ~Downloads /\ pc \in Busy
  BY <1>1 DEF Downloads, Busy
<1>3. WriterTypes /\ TypeOK
  BY <1>2, WriterTyped DEF IInv
<1>4. uncaught \subseteq Ids(inflight) /\ offset + remaining <= SourceLength
      /\ remaining \in Nat /\ offset \in Nat /\ SourceLength \in Nat
  BY <1>1, <1>2, <1>3 DEF IInv, Queue, WriterTypes, FileAssumption
<1>5. CASE ~failure
  <2>1. WriteOn(remaining)
    BY <1>5 DEF WriteResumes
  <2>2. QED
    BY <1>1, <1>2, <1>4, <1>5, <2>1, WritesOn
<1>6. CASE failure
  <2>1. pc' = "writerIdle" /\ remaining' = 0 /\ UNCHANGED <<client, awaited, inflight, offset, uncaught>>
    BY <1>6 DEF WriteResumes
  <2>2. Moves({})
    BY <1>1, <1>2, <1>3, <2>1, MovesNothing DEF Moves, Downloads, server
  <2>3. WriterTypes'
    BY <1>1, <1>3, <2>1 DEF WriterTypes, WriterPc
  <2>4. offset <= SourceLength
    BY <1>4
  <2>5. Queue'
    BY <1>1, <1>2, <1>4, <2>1, <2>4 DEF IInv, Queue, Busy, client, Ids
  <2>6. Whole'
    BY <1>1, <1>6, <2>1 DEF Whole
  <2>7. startOffset' <= Len(file) /\ attempts' # 0 /\ pc' # "stat"
    BY <1>1, <1>2, <2>1, Resting1
  <2>8. QED
    BY <1>1, <1>2, <2>2, <2>3, <2>5, <2>6, <2>7, WriterNext
<1>7. QED
  BY <1>5, <1>6

LEMMA WriterKeeps ==
  ASSUME ClientAssumption, FileAssumption, IInv,
         \/ Writing \/ OpenWrite \/ CloseWrite \/ Abort
         \/ \E size \in ChunkSizes : Write(size)
         \/ \E id \in Id : WriteCaught(id)
  PROVE  IInv'
  BY WriterOpens, WriterStats, WriterIsOpen, WriterIsClosed, WriterEnds, WriterDrained, CaughtWrite,
     WriteBegins, WriteGoesOn DEF Writing

-----------------------------------------------------------------------------
(***************************************************************************)
(* The invariant, and what it says of the file.                            *)
(***************************************************************************)
LEMMA Initially ==
  ASSUME ClientAssumption, FileAssumption, Init
  PROVE  IInv
<1>1. SourceLength \in Nat /\ Depths \subseteq Nat \ {0} /\ ReadFrom \subseteq 0..SourceLength
      /\ MaxAttempts \in Nat /\ MaxFailures \in Nat
  BY DEF FileAssumption
<1>2. ClientTypeOK /\ nextRequestId \in Id /\ sent = <<>> /\ answers = {}
      /\ promise = [id \in Id |-> Unused]
  <2>1. nextRequestId \in Id
    BY DEF Init, ClientInit, ClientAssumption
  <2>2. Unused \in Promise
    BY DEF Unused, Answer, Promise
  <2>3. QED
    BY <2>1, <2>2 DEF Init, ClientInit, ClientTypeOK
<1>3. Source \in Seq(0..SourceLength) /\ Len(Source) = SourceLength
  BY <1>1 DEF Source
<1>4. TypeOK
  <2>1. file \in Seq(0..SourceLength) /\ offset \in Nat /\ exists \in BOOLEAN
        /\ pc \in {"reader", "writer"}
    <3>1. \/ pc = "reader" /\ offset \in ReadFrom /\ exists = TRUE /\ file = Source
          \/ pc = "writer" /\ offset = 0 /\ exists = FALSE /\ file = <<>>
      BY DEF Init
    <3>2. <<>> \in Seq(0..SourceLength) /\ ReadFrom \subseteq Nat
      BY <1>1
    <3>3. CASE pc = "reader" /\ offset \in ReadFrom /\ exists = TRUE /\ file = Source
      <4>1. file \in Seq(0..SourceLength) /\ offset \in Nat
        BY <1>3, <3>2, <3>3
      <4>2. exists \in BOOLEAN
        BY <3>3
      <4>3. QED
        BY <3>3, <4>1, <4>2
    <3>4. CASE pc = "writer" /\ offset = 0 /\ exists = FALSE /\ file = <<>>
      <4>1. file \in Seq(0..SourceLength) /\ offset \in Nat
        BY <3>2, <3>4
      <4>2. exists \in BOOLEAN
        BY <3>4
      <4>3. QED
        BY <3>4, <4>1, <4>2
    <3>5. QED
      BY <3>1, <3>3, <3>4
  <2>2. inflight \in Seq([at : Nat, id : Id]) /\ Len(inflight) <= depth /\ delivered \in Seq(Nat)
    BY <1>1 DEF Init
  <2>3. uncaught \subseteq Id /\ Cardinality(uncaught) <= depth
    <3>1. uncaught = {} /\ depth \in Nat
      BY <1>1 DEF Init
    <3>2. QED
      BY <3>1, FS_EmptySet
  <2>4. /\ depth \in Depths /\ awaited = nextRequestId /\ startOffset = offset
        /\ into = 0 /\ reqLen = 0 /\ remaining = 0 /\ attempts = 0 /\ failures = 0
        /\ eof = "no" /\ leftover = [at |-> 0, n |-> 0] /\ resuming = FALSE /\ failure = FALSE
    BY DEF Init
  <2>5. leftover \in [at : Nat, n : Nat] /\ {offset, into, reqLen, startOffset, remaining} \subseteq Nat
    BY <2>1, <2>4
  <2>8. {resuming, failure, exists} \subseteq BOOLEAN
    <3>1. resuming \in BOOLEAN /\ failure \in BOOLEAN
      BY <2>4
    <3>2. QED
      BY <2>1, <3>1
  <2>6. attempts \in 0..MaxAttempts /\ failures \in 0..MaxFailures
    BY <1>1, <2>4
  <2>7. QED
    BY <1>2, <2>1, <2>2, <2>3, <2>4, <2>5, <2>6, <2>8 DEF TypeOK
<1>5. OnTheWay
  BY <1>2 DEF OnTheWay
<1>6. CASE pc = "reader"
  <2>1. Downloads /\ file = Source /\ exists /\ offset \in 0..SourceLength /\ startOffset = offset
    BY <1>1, <1>6 DEF Init, Downloads
  <2>2. Pos = offset
    BY <1>1, <2>1 DEF Pos, Init
  <2>3. Download /\ Asking /\ Order
    BY <1>6, <2>1, <2>2 DEF Download, Asking, Order, Chained, Init
  <2>4. Got
    BY <1>6, <2>1, <2>2 DEF Got, Init
  <2>5. QED
    BY <1>4, <1>5, <2>1, <2>3, <2>4 DEF IInv, Upload, Queue, Whole
<1>7. CASE pc = "writer"
  <2>1. ~Downloads /\ file = <<>> /\ offset = 0 /\ startOffset = 0 /\ Len(file) = 0
    BY <1>7 DEF Init, Downloads
  <2>2. \A id \in Id : Sized(promise[id])
    BY <1>2 DEF Sized, Unused, Answer
  <2>3. Upload
    BY <1>1, <1>2, <1>7, <2>1, <2>2 DEF Upload, Init
  <2>4. Queue
    BY <1>7 DEF Queue, Busy, Init
  <2>5. Whole
    BY <1>7 DEF Whole, Busy
  <2>6. Download /\ Asking /\ Order /\ Got
    BY <1>7, <2>1 DEF Download, Asking, Order, Got
  <2>7. QED
    BY <1>4, <1>5, <2>3, <2>4, <2>5, <2>6 DEF IInv
<1>8. QED
  BY <1>6, <1>7 DEF Init

LEMMA Inductive ==
  ASSUME ClientAssumption, FileAssumption, IInv, [Next]_vars
  PROVE  IInv'
<1>1. CASE Reading \/ CloseRead \/ \E size \in BufferSizes : Read(size) \/ ReadLeftover(size)
  BY <1>1, ReaderKeeps DEF Reading
<1>2. CASE \/ Writing \/ OpenWrite \/ CloseWrite \/ Abort
           \/ \E size \in ChunkSizes : Write(size)
           \/ \E id \in Id : WriteCaught(id)
  BY <1>2, WriterKeeps
<1>3. CASE Serving \/ Refuse \/ Arrives \/ ChannelEnds \/ \E id \in Id : Expires(id)
  BY <1>3, WorldKeeps DEF Outside, Serving
<1>4. CASE UNCHANGED vars
  <2>1. Downloads' = Downloads /\ Pos' = Pos
    BY <1>4 DEF vars, Downloads, Pos, reader, writer
  <2>2. TypeOK' /\ OnTheWay' /\ Download'
    <3>1. TypeOK'
      BY <1>4 DEF vars, client, reader, writer, server, IInv, TypeOK, ClientTypeOK
    <3>2. OnTheWay'
      BY <1>4, <2>1 DEF vars, client, server, IInv, OnTheWay, Wire
    <3>3. Download'
      BY <1>4, <2>1 DEF vars, reader, writer, server, IInv, Download
    <3>4. QED
      BY <3>1, <3>2, <3>3
  <2>3. Asking' /\ Order' /\ Got'
    BY <1>4, <2>1 DEF vars, client, reader, writer, server, IInv, Asking, Link, Right, Written, Order,
                      Chained, Got
  <2>4. Upload' /\ Queue'
    BY <1>4, <2>1 DEF vars, client, reader, writer, server, IInv, Upload, Sized, Queue, Ids
  <2>5. Whole'
    BY <1>4, <2>1 DEF vars, client, reader, writer, server, IInv, Whole, Written, Owed, Link, Right
  <2>6. QED
    BY <2>2, <2>3, <2>4, <2>5 DEF IInv
<1>5. QED
  BY <1>1, <1>2, <1>3, <1>4 DEF Next

LEMMA Invariant == Spec => []IInv
<1>1. ClientAssumption /\ FileAssumption
  BY ClientAssumption, FileAssumption
<1>2. Init => IInv
  BY <1>1, Initially
<1>3. IInv /\ [Next]_vars => IInv'
  BY <1>1, Inductive
<1>4. QED
  BY <1>2, <1>3, PTL DEF Spec

\* A handle never has more than depth requests in flight, nor more writes than that
\* whose failure it has not seen yet, whatever buffers and chunks it is called with
\* and however late the answers come (backpressure, SftpFS.ts:279-280).
THEOREM TypeCorrect == Spec => []TypeOK
<1>1. IInv => TypeOK
  BY DEF IInv
<1>2. QED
  BY <1>1, Invariant, PTL

\* What a reader returns is the file, from the offset it was opened at, every byte once
\* and in order: reads that are answered out of order, that return less than they were
\* asked for, or that fail, lose nothing and repeat nothing; and the end that it
\* reports is the end of the file (SftpFS.ts:164-175).
THEOREM ReadersGetTheFile == Spec => []ReadsTheFile
<1>1. ASSUME IInv PROVE ReadsTheFile
  <2>1. CASE Downloads
    <3>1. \A k \in DOMAIN delivered : delivered[k] = startOffset + k
      BY <1>1, <2>1 DEF IInv, Got
    <3>2. ASSUME eof = "end" PROVE startOffset + Len(delivered) = SourceLength
      <4>1. leftover.n = 0 /\ Pos = SourceLength
        BY <1>1, <2>1, <3>2 DEF IInv, Got
      <4>2. startOffset \in Nat /\ Len(delivered) \in Nat
        BY <1>1 DEF IInv, TypeOK
      <4>3. QED
        BY <4>1, <4>2 DEF Pos
    <3>3. QED
      BY <3>1, <3>2 DEF ReadsTheFile
  <2>2. CASE ~Downloads
    BY <1>1, <2>2 DEF IInv, Upload, ReadsTheFile
  <2>3. QED
    BY <2>1, <2>2
<1>2. QED
  BY <1>1, Invariant, PTL

\* When the close() of a writer succeeds, every byte that the handle was responsible for
\* is in the file, and the file is as long as the source: a write that failed, or whose
\* answer never came, is seen first; and an upload with one request in flight leaves no
\* gap for a later attempt to resume after.
THEOREM ClosedFilesAreWhole == Spec => []ClosedIsWhole
<1>1. ASSUME IInv, pc = "done"
      PROVE  /\ Len(file) = SourceLength
             /\ \A k \in 1..SourceLength : file[k] = k \/ (k <= startOffset /\ depth > 1)
  <2>1. ~Downloads
    BY <1>1 DEF Downloads
  <2>2. /\ offset >= SourceLength /\ Len(file) <= SourceLength /\ startOffset <= Len(file)
        /\ \A k \in startOffset..(offset - 1) : Written(k)
        /\ depth = 1 => \A k \in DOMAIN file : file[k] = k
    BY <1>1, <2>1 DEF IInv, Queue, Upload, Whole
  <2>3. /\ offset \in Nat /\ startOffset \in Nat /\ SourceLength \in Nat /\ depth \in Nat \ {0}
        /\ Len(file) \in Nat /\ DOMAIN file = 1..Len(file)
    <3>1. offset \in Nat /\ startOffset \in Nat /\ file \in Seq(0..SourceLength) /\ depth \in Depths
      BY <1>1 DEF IInv, TypeOK
    <3>2. SourceLength \in Nat /\ Depths \subseteq Nat \ {0}
      BY FileAssumption DEF FileAssumption
    <3>3. QED
      BY <3>1, <3>2
  <2>a. offset \in Nat /\ startOffset \in Nat /\ SourceLength \in Nat
    BY <2>3
  <2>4. Len(file) = SourceLength
    <3>1. PICK l \in Nat : l = Len(file) /\ l <= SourceLength /\ startOffset <= l
      BY <2>2, <2>3
    <3>2. CASE startOffset < SourceLength
      <4>1. SourceLength - 1 \in startOffset..(offset - 1)
        BY <2>2, <2>3, <3>2
      <4>2. SourceLength - 1 + 1 <= Len(file)
        BY <2>2, <4>1 DEF Written
      <4>3. SourceLength - 1 + 1 <= l
        BY <3>1, <4>2
      <4>4. l = SourceLength
        BY <2>a, <3>1, <4>3
      <4>5. QED
        BY <3>1, <4>4
    <3>3. CASE ~(startOffset < SourceLength)
      <4>1. l = SourceLength
        BY <2>a, <3>1, <3>3
      <4>2. QED
        BY <3>1, <4>1
    <3>4. QED
      BY <3>2, <3>3
  <2>5. ASSUME NEW k \in 1..SourceLength PROVE file[k] = k \/ (k <= startOffset /\ depth > 1)
    <3>1. CASE k > startOffset
      <4>1. k - 1 \in startOffset..(offset - 1) /\ k - 1 + 1 = k
        BY <2>2, <2>3, <3>1
      <4>2. QED
        BY <2>2, <4>1 DEF Written
    <3>2. CASE depth = 1
      BY <2>2, <2>3, <2>4, <3>2
    <3>3. QED
      BY <2>3, <3>1, <3>2
  <2>6. QED
    BY <2>4, <2>5
<1>2. IInv => ClosedIsWhole
  BY <1>1 DEF ClosedIsWhole
<1>3. QED
  BY <1>2, Invariant, PTL

=============================================================================
