----------------------------- MODULE SshChannel -----------------------------
(***************************************************************************)
(* src/ssh/channel.ts (class SshChannel): one channel of an SSH connection *)
(* with flow control in both directions, between the code that writes to   *)
(* it, the SFTP framer that reads from it, the transport of SshClient and  *)
(* an external peer.                                                       *)
(*                                                                         *)
(* Every write() is an asynchronous function, suspended in writer[w]; an   *)
(* action is the code from one await to the next.  Payloads are numbers of *)
(* bytes: write w has Length[w], a chunk says where in its write it starts.*)
(* eof(), which nobody calls, changes nothing here and is left out.        *)
(***************************************************************************)
EXTENDS Integers, Sequences, FiniteSetsExt

CONSTANTS NumWrites,   \* bound: calls of write()
          Length,      \* the bytes of each
          MaxPacket,   \* maxPacket
          PeerWindow,  \* the window that the peer opens the channel with
          LocalWindow, \* initialLocalWindow
          MaxChunks,   \* bound: chunks the peer sends
          ChunkSizes,  \* how long they are
          Grants       \* how much window the peer grants at a time

WriteId == 1..NumWrites

ASSUME ChannelAssumption ==
  /\ NumWrites \in Nat /\ MaxChunks \in Nat
  /\ Length \in [WriteId -> Nat \ {0}]
  /\ MaxPacket \in Nat \ {0} /\ PeerWindow \in Nat \ {0} /\ LocalWindow \in Nat \ {0}
  /\ ChunkSizes \subseteq 1..LocalWindow /\ Grants \subseteq 1..PeerWindow

VARIABLES
  begun,        \* writes 1..begun have been called
  writer,       \* where each write is suspended
  offset,       \* its bytes that have been handed to send()
  remoteWindow, localWindow,
  inbound,      \* how many chunks nobody has read yet
  reader,       \* the framer: about to read(), waiting in readWaiters, told the end
  eofReceived, closed,
  closer,       \* the await of close()
  registered,   \* SshClient's map channels has the channel
  out,          \* what send() has taken and not put on the wire
  up,           \* the connection
  toPeer, fromPeer,        \* the wire
  peerWindow, peerCredit,  \* what the peer still takes, and may still send
  peerDone,     \* the peer has sent nothing final, EOF, or CLOSE
  chunks,       \* chunks the peer has sent
  read,         \* history: chunks the framer has got
  arrived       \* history: the write and the offset up to which bytes have arrived

writing  == <<begun, writer, offset>>
windows  == <<remoteWindow, localWindow>>
reading  == <<inbound, reader, eofReceived, read>>
ending   == <<closed, closer, registered>>
peer     == <<peerWindow, peerCredit, peerDone, chunks, arrived>>
vars     == <<writing, windows, reading, ending, out, up, toPeer, fromPeer, peer>>

Data(w, at, n) == [kind |-> "data", write |-> w, at |-> at, n |-> n]
Plain(kind, n) == [kind |-> kind, write |-> 0, at |-> 0, n |-> n]
Message == [kind : {"data", "adjust", "eof", "close"}, write : Nat, at : Nat, n : Nat]

-----------------------------------------------------------------------------
(***************************************************************************)
(* Writing.                                                                *)
(***************************************************************************)

Settled == {"ok", "failed"}

Write ==
  /\ begun < NumWrites
  /\ begun' = begun + 1
  /\ writer' = [writer EXCEPT ![begun'] = "chained"]
  /\ UNCHANGED <<offset, windows, reading, ending, out, up, toPeer, fromPeer, peer>>

\* Slip: writes are not chained.
TurnOfAny(w) == TRUE

\* writeChain: a write begins when the one before it has settled.
Turn(w) == \A v \in 1..(w - 1) : writer[v] \in Settled

\* Slip: the window is not looked at.
ChunkOfPacket(w) == Min({MaxPacket, Length[w] - offset[w]})

ChunkSize(w) == Min({MaxPacket, remoteWindow, Length[w] - offset[w]})

\* An iteration of the loop of doWrite, up to its await.
DoWrite(w) ==
  /\ \/ writer[w] = "chained" /\ Turn(w)
     \/ writer[w] \in {"woken", "sent"}
  /\ IF offset[w] < Length[w] /\ ~closed /\ remoteWindow > 0
     THEN /\ writer' = [writer EXCEPT ![w] = "send"]
          /\ offset' = [offset EXCEPT ![w] = @ + ChunkSize(w)]
          /\ remoteWindow' = remoteWindow - ChunkSize(w)
          /\ out' = Append(out, Data(w, offset[w], ChunkSize(w)))
     ELSE /\ writer' = [writer EXCEPT ![w] = IF offset[w] = Length[w] THEN "ok"
                                            ELSE IF closed THEN "failed" ELSE "window"]
          /\ UNCHANGED <<offset, remoteWindow, out>>
  /\ UNCHANGED <<begun, localWindow, reading, ending, up, toPeer, fromPeer, peer>>

\* Waiters are resolved: they will look at the window again.
Woken == [w \in WriteId |-> IF writer[w] = "window" THEN "woken" ELSE writer[w]]

-----------------------------------------------------------------------------
(***************************************************************************)
(* Reading and closing.                                                    *)
(***************************************************************************)

Read ==
  /\ reader = "ready"
  /\ IF inbound > 0
     THEN inbound' = inbound - 1 /\ read' = read + 1 /\ reader' = reader
     ELSE /\ reader' = IF eofReceived \/ closed THEN "ended" ELSE "waiting"
          /\ UNCHANGED <<inbound, read>>
  /\ UNCHANGED <<writing, windows, eofReceived, ending, out, up, toPeer, fromPeer, peer>>

\* Waiting readers see the end.
ToldEnd == IF reader = "waiting" THEN "ended" ELSE reader

\* teardown()
Teardown == closed' = TRUE /\ writer' = Woken /\ reader' = ToldEnd

Close ==
  /\ ~closed
  /\ closed' = TRUE /\ closer' = "send"
  /\ out' = Append(out, Plain("close", 0))
  /\ UNCHANGED <<writing, windows, reading, registered, up, toPeer, fromPeer, peer>>

\* The send of close() resolves.  If it rejects, close() rejects and does no more.
CloseSent ==
  /\ closer = "sent"
  /\ closer' = "done"
  /\ Teardown
  /\ UNCHANGED <<begun, offset, windows, inbound, eofReceived, read, registered, out, up,
                 toPeer, fromPeer, peer>>

\* onClose(), which does nothing when the channel is closed already.
OnClose ==
  IF closed THEN UNCHANGED <<closed, writer, reader>> ELSE Teardown

-----------------------------------------------------------------------------
(***************************************************************************)
(* The transport: SshClient.send and the dispatcher of its read loop.      *)
(***************************************************************************)

\* The transport writes the first packet, or rejects its send.
Transmit ==
  /\ out # << >>
  /\ out' = Tail(out)
  /\ toPeer' = IF up THEN Append(toPeer, Head(out)) ELSE toPeer
  /\ writer' = IF Head(out).kind = "data"
               THEN [writer EXCEPT ![Head(out).write] = IF up THEN "sent" ELSE "failed"]
               ELSE writer
  /\ closer' = IF Head(out).kind = "close" THEN (IF up THEN "sent" ELSE "rejected")
               ELSE closer
  /\ UNCHANGED <<begun, offset, windows, reading, closed, registered, up, fromPeer, peer>>

\* The next packet of the peer.
Receive(kind) ==
  /\ fromPeer # << >> /\ Head(fromPeer).kind = kind
  /\ fromPeer' = Tail(fromPeer)
  /\ UNCHANGED <<begun, offset, up, toPeer, peer, closer>>

\* Slip: half of the window is granted, not what has been used of it.
GrantsHalf(window) == LocalWindow \div 2

\* What onData grants again.
Replenish(window) == LocalWindow - window

OnData ==
  /\ registered /\ Receive("data")
  /\ IF reader = "waiting"
     THEN /\ reader' = "ready" /\ read' = read + 1
          /\ inbound' = inbound
     ELSE inbound' = inbound + 1 /\ UNCHANGED <<reader, read>>
  /\ LET window == localWindow - Head(fromPeer).n IN
     IF 2 * window < LocalWindow
     THEN /\ localWindow' = LocalWindow
          /\ out' = Append(out, Plain("adjust", Replenish(window)))
     ELSE localWindow' = window /\ UNCHANGED out
  /\ UNCHANGED <<writer, remoteWindow, eofReceived, closed, registered>>

\* Slip: a writer that waits is not woken.
OnWindowAdjustSilent ==
  /\ registered /\ Receive("adjust")
  /\ remoteWindow' = remoteWindow + Head(fromPeer).n
  /\ UNCHANGED <<writer, localWindow, reading, closed, registered, out>>

OnWindowAdjust ==
  /\ registered /\ Receive("adjust")
  /\ remoteWindow' = remoteWindow + Head(fromPeer).n
  /\ writer' = IF remoteWindow' > 0 THEN Woken ELSE writer
  /\ UNCHANGED <<localWindow, reading, closed, registered, out>>

OnEof ==
  /\ registered /\ Receive("eof")
  /\ eofReceived' = TRUE /\ reader' = ToldEnd
  /\ UNCHANGED <<writer, windows, inbound, read, closed, registered, out>>

\* CHANNEL_CLOSE of the peer: onClose(), and the map forgets the channel.
OnPeerClose ==
  /\ registered /\ Receive("close")
  /\ OnClose
  /\ registered' = FALSE
  /\ UNCHANGED <<windows, inbound, eofReceived, read, out>>

\* teardownChannels() when the read loop of the transport ends.
TransportEnds ==
  /\ ~up /\ registered
  /\ OnClose
  /\ registered' = FALSE
  /\ UNCHANGED <<begun, offset, windows, inbound, eofReceived, read, closer, out, up,
                 toPeer, fromPeer, peer>>

\* The connection breaks, or the user disconnects: what is on its way is lost.
Lose ==
  /\ up /\ up' = FALSE
  /\ toPeer' = << >> /\ fromPeer' = << >>
  /\ UNCHANGED <<writing, windows, reading, ending, out, peer>>

-----------------------------------------------------------------------------
(***************************************************************************)
(* The external peer, which keeps to the windows (RFC 4254, 5.2).          *)
(***************************************************************************)
local == <<writing, windows, reading, ending, out, up>>

PeerSends(n) ==
  /\ up /\ peerDone = "no" /\ chunks < MaxChunks /\ n <= peerCredit
  /\ chunks' = chunks + 1 /\ peerCredit' = peerCredit - n
  /\ fromPeer' = Append(fromPeer, Plain("data", n))
  /\ UNCHANGED <<local, toPeer, peerWindow, peerDone, arrived>>

PeerGrants(n) ==
  /\ up /\ peerDone # "close" /\ peerWindow + n <= PeerWindow
  /\ peerWindow' = peerWindow + n
  /\ fromPeer' = Append(fromPeer, Plain("adjust", n))
  /\ UNCHANGED <<local, toPeer, peerCredit, peerDone, chunks, arrived>>

PeerEnds(kind) ==
  /\ up /\ peerDone # "close" /\ peerDone # kind
  /\ peerDone' = kind
  /\ fromPeer' = Append(fromPeer, Plain(kind, 0))
  /\ UNCHANGED <<local, toPeer, peerWindow, peerCredit, chunks, arrived>>

PeerReads ==
  /\ toPeer # << >>
  /\ toPeer' = Tail(toPeer)
  /\ LET m == Head(toPeer) IN
     /\ peerWindow' = IF m.kind = "data" THEN peerWindow - m.n ELSE peerWindow
     /\ arrived' = IF m.kind = "data" THEN <<m.write, m.at + m.n>> ELSE arrived
     /\ peerCredit' = IF m.kind = "adjust" THEN peerCredit + m.n ELSE peerCredit
     /\ IF m.kind = "close" /\ peerDone # "close"
        THEN peerDone' = "close" /\ fromPeer' = Append(fromPeer, Plain("close", 0))
        ELSE UNCHANGED <<peerDone, fromPeer>>
  /\ UNCHANGED <<local, chunks>>

-----------------------------------------------------------------------------
Init ==
  /\ begun = 0 /\ writer = [w \in WriteId |-> "none"] /\ offset = [w \in WriteId |-> 0]
  /\ remoteWindow = PeerWindow /\ localWindow = LocalWindow
  /\ inbound = 0 /\ reader = "ready" /\ eofReceived = FALSE /\ read = 0
  /\ closed = FALSE /\ closer = "none" /\ registered = TRUE
  /\ out = << >> /\ up = TRUE /\ toPeer = << >> /\ fromPeer = << >>
  /\ peerWindow = PeerWindow /\ peerCredit = LocalWindow /\ peerDone = "no"
  /\ chunks = 0 /\ arrived = <<0, 0>>

\* What the runtime does: it resumes what has been resolved and delivers packets.
Runtime ==
  \/ \E w \in WriteId : DoWrite(w)
  \/ Read \/ CloseSent
  \/ OnData \/ OnWindowAdjust \/ OnEof \/ OnPeerClose \/ TransportEnds

Peer ==
  \/ \E n \in ChunkSizes : PeerSends(n)
  \/ \E n \in Grants : PeerGrants(n)
  \/ \E kind \in {"eof", "close"} : PeerEnds(kind)

Next == Runtime \/ Write \/ Close \/ Transmit \/ Lose \/ Peer \/ PeerReads

\* A peer that goes on reading grants a window again that is used up.
PeerGoesOn == peerWindow = 0 /\ \E n \in Grants : PeerGrants(n)

Fairness ==
  WF_vars(Runtime) /\ WF_vars(Transmit) /\ WF_vars(PeerReads) /\ WF_vars(PeerGoesOn)

Spec == Init /\ [][Next]_vars /\ Fairness

-----------------------------------------------------------------------------
TypeOK ==
  /\ begun \in 0..NumWrites
  /\ writer \in [WriteId -> {"none", "chained", "window", "woken", "send", "sent"} \cup Settled]
  /\ offset \in [WriteId -> Nat] /\ \A w \in WriteId : offset[w] <= Length[w]
  /\ remoteWindow \in 0..PeerWindow /\ localWindow \in 0..LocalWindow
  /\ inbound \in 0..MaxChunks /\ reader \in {"ready", "waiting", "ended"}
  /\ eofReceived \in BOOLEAN /\ closed \in BOOLEAN /\ registered \in BOOLEAN
  /\ closer \in {"none", "send", "sent", "rejected", "done"}
  /\ out \in Seq(Message) /\ toPeer \in Seq(Message) /\ fromPeer \in Seq(Message)
  /\ up \in BOOLEAN /\ peerDone \in {"no", "eof", "close"}
  /\ peerWindow \in 0..PeerWindow /\ peerCredit \in 0..LocalWindow
  /\ chunks \in 0..MaxChunks /\ read \in 0..MaxChunks
  /\ arrived \in (0..NumWrites) \X Nat

Total(w) == LET upTo[i \in 0..Len(w)] == IF i = 0 THEN 0 ELSE upTo[i - 1] + w[i] IN upTo[Len(w)]
Sum(kind, s) == Total([i \in 1..Len(s) |-> IF s[i].kind = kind THEN s[i].n ELSE 0])

\* The two ends agree on both windows, up to what is on its way: no byte of window
\* is granted twice, used twice or lost, so neither end ever sends too much and
\* neither starves.
WindowsAgree ==
  up /\ registered =>
    /\ remoteWindow + Sum("data", toPeer \o out) + Sum("adjust", fromPeer) = peerWindow
    /\ peerCredit + Sum("data", fromPeer) + Sum("adjust", toPeer \o out) = localWindow

\* Both byte streams stay whole.  The bytes of a write arrive together, in order, and
\* after those of the writes called before it: chunks of two SFTP packets are never
\* mixed (channel.ts:142-145).  And the framer is told the end only after it has got
\* every chunk the peer sent, if the end is the peer's and the connection is up.
Follows(m, w, end) ==
  \/ m.write = w /\ m.at = end
  \/ m.write = w + 1 /\ m.at = 0 /\ (w = 0 \/ end = Length[w])
Before(i) == {j \in 1..(i - 1) : toPeer[j].kind = "data"}
StreamsIntact ==
  /\ \A i \in 1..Len(toPeer) : toPeer[i].kind = "data" =>
       IF Before(i) = {} THEN Follows(toPeer[i], arrived[1], arrived[2])
       ELSE \E j \in Before(i) : /\ \A k \in Before(i) : k <= j
                                 /\ Follows(toPeer[i], toPeer[j].write, toPeer[j].at + toPeer[j].n)
  /\ reader = "ended" /\ closer = "none" /\ up => read = chunks

\* Whoever waits on the channel is released.  Every write settles while the peer
\* goes on reading, or when it closes the channel or the connection is lost; close()
\* releases the framer too (channel.ts:250), unless its own message is lost with the
\* connection: what a close() that failed leaves waiting is excepted.
WaitersReleased ==
  /\ \A w \in WriteId : w <= begun ~> writer[w] \in Settled \/ closer = "rejected"
  /\ closer = "send" ~> closer = "rejected" \/ (reader = "ended" /\ closed)
=============================================================================
