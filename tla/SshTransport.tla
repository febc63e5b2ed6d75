---------------------------- MODULE SshTransport ----------------------------
(***************************************************************************)
(* src/ssh/SshClient.ts (class SshClient) once the subsystem is open: the  *)
(* chain of sends, the read loop, key re-exchange (RFC 4253, 9), keepalive *)
(* and teardown, against an external server.  SshConnection puts the       *)
(* handshake before it and states what is checked of both.                 *)
(*                                                                         *)
(* pc is the await at which the read loop is suspended, inside             *)
(* handleGlobalRequest or performRekey too.  An action is the code from    *)
(* one await to the next.  A packet is its kind.                           *)
(***************************************************************************)
EXTENDS Integers, Sequences

CONSTANTS MaxData,           \* bound: channel messages the client sends
          MaxKeepalives,     \* bound: keepalive requests the client sends
          MaxClientRekeys,   \* bound: calls of requestRekey() that act
          MaxServerRekeys,   \* bound: exchanges the server starts
          MaxServerMessages  \* bound: other messages of the server

ASSUME TransportAssumption ==
  /\ MaxData \in Nat /\ MaxKeepalives \in Nat
  /\ MaxClientRekeys \in Nat /\ MaxServerRekeys \in Nat /\ MaxServerMessages \in Nat

\* Message numbers below 50 (and the identification line), and from 50 on.
Transport  == {"ID", "KEXINIT", "ECDH_INIT", "ECDH_REPLY", "NEWKEYS", "DISCONNECT",
               "SERVICE_REQUEST", "SERVICE_ACCEPT"}
Connection == {"DATA", "GLOBAL_REQUEST", "REQUEST_FAILURE", "USERAUTH_REQUEST",
               "USERAUTH_SUCCESS", "USERAUTH_FAILURE", "CHANNEL_OPEN", "OPEN_CONFIRMATION",
               "OPEN_FAILURE", "CHANNEL_REQUEST", "CHANNEL_SUCCESS", "CHANNEL_FAILURE"}
Packet     == Transport \cup Connection

Receiving == {"recv", "recvReply", "recvNewkeys"}
Sending   == {"sendFailure", "sendKexInit", "sendEcdhInit", "sendNewkeys"}
\* Awaits inside performRekey.
Driving   == {"sendKexInit", "sendEcdhInit", "recvReply", "sendNewkeys", "recvNewkeys"}

VARIABLES
  chain,      \* sendChain: packets that wait for the previous write
  held,       \* sends that await rekeyGate
  gate,       \* rekeyGate is not null
  sentRekeyKexInit,  \* is not null
  pc,
  c2sCipher, s2cCipher,  \* how often each cipher has been replaced
  closed, notifiedClosed,
  leaving,    \* disconnect() awaits its last send
  up,         \* the stream takes writes
  c2s, s2c,   \* the TCP connection; with each packet of s2c, the cipher it is under
  server,     \* the server's side of an exchange: none, sent its KEXINIT, its NEWKEYS
  sealed,     \* the server's sending cipher
  data, keepalives, clientRekeys, serverRekeys, messages,  \* counts, for the bounds
  newkeys     \* history: NEWKEYS packets that have left the chain

sends   == <<chain, held, gate>>
ciphers == <<c2sCipher, s2cCipher>>
closing == <<closed, notifiedClosed, leaving, up>>
peer    == <<server, sealed>>
counts  == <<data, keepalives, clientRekeys, serverRekeys, messages>>
vars    == <<sends, sentRekeyKexInit, pc, ciphers, closing, c2s, s2c, peer, counts, newkeys>>

-----------------------------------------------------------------------------
(***************************************************************************)
(* send()                                                                  *)
(***************************************************************************)

\* Slip: the message joins the chain whatever its number.
SendUnheld(p) ==
  chain' = Append(chain, p) /\ held' = held

\* The gate is looked at when send() is called.
Send(p) ==
  IF gate' /\ p \in Connection
  THEN held' = Append(held, p) /\ chain' = chain
  ELSE chain' = Append(chain, p) /\ held' = held

\* closeRekeyGate(): every send that awaits the gate goes on, in order, before
\* any other code runs.
CloseRekeyGate ==
  /\ gate' = FALSE
  /\ held' = << >>
  /\ chain' = chain \o held

\* teardownChannels(): the stream is closed, unless disconnect() is to do it.
Teardown ==
  /\ closed' = TRUE
  /\ up' = (up /\ closed)
  /\ notifiedClosed' = TRUE
  /\ UNCHANGED leaving

\* The chain goes on to the next packet: it is encoded and written.
Transmit ==
  /\ chain # << >>
  /\ chain' = Tail(chain)
  /\ IF up
     THEN c2s' = Append(c2s, Head(chain)) /\ UNCHANGED closing
     ELSE /\ c2s' = c2s
          /\ IF Head(chain) = "GLOBAL_REQUEST" THEN Teardown ELSE UNCHANGED closing
  /\ newkeys' = IF Head(chain) = "NEWKEYS" THEN newkeys + 1 ELSE newkeys
  /\ UNCHANGED <<held, gate, sentRekeyKexInit, pc, ciphers, s2c, peer, counts>>

-----------------------------------------------------------------------------
(***************************************************************************)
(* What the client's other code calls.                                     *)
(***************************************************************************)

\* A channel sends: data, a window adjustment, EOF or CLOSE.
SendData ==
  /\ data < MaxData
  /\ data' = data + 1
  /\ gate' = gate /\ Send("DATA")
  /\ UNCHANGED <<sentRekeyKexInit, pc, ciphers, closing, c2s, s2c, peer,
                 keepalives, clientRekeys, serverRekeys, messages, newkeys>>

Keepalive ==
  /\ ~closed /\ keepalives < MaxKeepalives
  /\ keepalives' = keepalives + 1
  /\ gate' = gate /\ Send("GLOBAL_REQUEST")
  /\ UNCHANGED <<sentRekeyKexInit, pc, ciphers, closing, c2s, s2c, peer,
                 data, clientRekeys, serverRekeys, messages, newkeys>>

RequestRekey ==
  /\ ~closed /\ ~gate /\ ~sentRekeyKexInit
  /\ clientRekeys < MaxClientRekeys
  /\ clientRekeys' = clientRekeys + 1
  /\ gate' = TRUE /\ sentRekeyKexInit' = TRUE
  /\ Send("KEXINIT")
  /\ UNCHANGED <<pc, ciphers, closing, c2s, s2c, peer,
                 data, keepalives, serverRekeys, messages, newkeys>>

Disconnect ==
  /\ ~leaving
  /\ leaving' = TRUE /\ closed' = TRUE /\ notifiedClosed' = TRUE
  /\ gate' = gate /\ Send("DISCONNECT")
  /\ UNCHANGED <<sentRekeyKexInit, pc, ciphers, up, c2s, s2c, peer, counts, newkeys>>

Waiting(p) == \E i \in 1..Len(chain) : chain[i] = p

\* disconnect() goes on, with stream.close().
Disconnected ==
  /\ leaving /\ up /\ ~Waiting("DISCONNECT")
  /\ up' = FALSE
  /\ UNCHANGED <<sends, sentRekeyKexInit, pc, ciphers, closed, notifiedClosed, leaving,
                 c2s, s2c, peer, counts, newkeys>>

-----------------------------------------------------------------------------
(***************************************************************************)
(* readLoop(), handleGlobalRequest() and performRekey().                   *)
(***************************************************************************)

\* The next packet of the server, of this kind.
Receive(kind) ==
  /\ s2c # << >> /\ Head(s2c)[1] = kind
  /\ s2c' = Tail(s2c)

\* The read loop ends with an error or with the server's DISCONNECT.  Only
\* performRekey has a `finally` that closes the gate.
LoopEnds ==
  /\ pc' = "ended"
  /\ Teardown
  /\ IF pc \in Driving
     THEN sentRekeyKexInit' = FALSE /\ CloseRekeyGate
     ELSE UNCHANGED <<sentRekeyKexInit, sends>>
  /\ UNCHANGED <<ciphers, c2s, peer, counts, newkeys>>

\* recv() rejects.
ReceiveFails ==
  /\ pc \in Receiving /\ ~up
  /\ LoopEnds /\ s2c' = s2c

ReadDisconnect ==
  /\ pc \in Receiving
  /\ Receive("DISCONNECT")
  /\ LoopEnds

\* A channel message goes to its channel; during an exchange, too.
ReadChannelMessage ==
  /\ pc \in Receiving
  /\ Receive("DATA")
  /\ UNCHANGED <<sends, sentRekeyKexInit, pc, ciphers, closing, c2s, peer, counts, newkeys>>

ReadGlobalRequest ==
  /\ pc \in Receiving
  /\ Receive("GLOBAL_REQUEST")
  /\ gate' = gate
  /\ IF pc = "recv"
     THEN pc' = "sendFailure" /\ Send("REQUEST_FAILURE")
     ELSE UNCHANGED <<pc, chain, held>>
  /\ UNCHANGED <<sentRekeyKexInit, ciphers, closing, c2s, peer, counts, newkeys>>

\* performRekey begins: the KEXINIT of requestRekey() is reused.
BeginRekey ==
  /\ pc = "recv"
  /\ Receive("KEXINIT")
  /\ gate' = TRUE
  /\ IF sentRekeyKexInit
     THEN pc' = "sendEcdhInit" /\ Send("ECDH_INIT")
     ELSE pc' = "sendKexInit" /\ Send("KEXINIT")
  /\ UNCHANGED <<sentRekeyKexInit, ciphers, closing, c2s, peer, counts, newkeys>>

\* An algorithm of the server is not supported.
NegotiationFails ==
  /\ pc = "recv"
  /\ Receive("KEXINIT")
  /\ pc' = "ended" /\ Teardown
  /\ sentRekeyKexInit' = FALSE /\ CloseRekeyGate
  /\ UNCHANGED <<ciphers, c2s, peer, counts, newkeys>>

\* The packet that the read loop is sending.
OwnPacket ==
  CASE pc = "sendFailure"  -> "REQUEST_FAILURE"
    [] pc = "sendKexInit"  -> "KEXINIT"
    [] pc = "sendEcdhInit" -> "ECDH_INIT"
    [] pc = "sendNewkeys"  -> "NEWKEYS"

Settled ==
  /\ pc \in Sending
  /\ ~Waiting(OwnPacket) /\ \A i \in 1..Len(held) : held[i] # OwnPacket

\* Its send resolves.
FailureSent ==
  /\ pc = "sendFailure" /\ Settled /\ up
  /\ pc' = "recv"
  /\ UNCHANGED <<sends, sentRekeyKexInit, ciphers, closing, c2s, s2c, peer, counts, newkeys>>

KexInitSent ==
  /\ pc = "sendKexInit" /\ Settled /\ up
  /\ pc' = "sendEcdhInit"
  /\ gate' = gate /\ Send("ECDH_INIT")
  /\ UNCHANGED <<sentRekeyKexInit, ciphers, closing, c2s, s2c, peer, counts, newkeys>>

EcdhInitSent ==
  /\ pc = "sendEcdhInit" /\ Settled /\ up
  /\ pc' = "recvReply"
  /\ UNCHANGED <<sends, sentRekeyKexInit, ciphers, closing, c2s, s2c, peer, counts, newkeys>>

NewkeysSent ==
  /\ pc = "sendNewkeys" /\ Settled /\ up
  /\ pc' = "recvNewkeys"
  /\ c2sCipher' = c2sCipher + 1
  /\ UNCHANGED <<sends, sentRekeyKexInit, s2cCipher, closing, c2s, s2c, peer, counts, newkeys>>

\* Its send rejects (or the stream fails just after it, which comes to the same).
SendFails ==
  /\ Settled /\ ~up
  /\ LoopEnds /\ s2c' = s2c

\* The reply is accepted, or the signature or the host key is not.
ReadReply(accepted) ==
  /\ pc = "recvReply"
  /\ Receive("ECDH_REPLY")
  /\ IF accepted
     THEN /\ pc' = "sendNewkeys"
          /\ gate' = gate /\ Send("NEWKEYS")
          /\ UNCHANGED <<sentRekeyKexInit, closing, ciphers, c2s, peer, counts, newkeys>>
     ELSE LoopEnds

\* Slip: the client's cipher is replaced here, too.
ReadNewkeysSwapsBoth ==
  /\ pc = "recvNewkeys"
  /\ Receive("NEWKEYS")
  /\ pc' = "recv"
  /\ c2sCipher' = c2sCipher + 1 /\ s2cCipher' = s2cCipher + 1
  /\ sentRekeyKexInit' = FALSE /\ CloseRekeyGate
  /\ UNCHANGED <<closing, c2s, peer, counts, newkeys>>

\* Slip: the gate stays when the exchange is over.
ReadNewkeysLeavesGate ==
  /\ pc = "recvNewkeys"
  /\ Receive("NEWKEYS")
  /\ pc' = "recv"
  /\ s2cCipher' = s2cCipher + 1
  /\ sentRekeyKexInit' = FALSE
  /\ UNCHANGED <<sends, c2sCipher, closing, c2s, peer, counts, newkeys>>

ReadNewkeys ==
  /\ pc = "recvNewkeys"
  /\ Receive("NEWKEYS")
  /\ pc' = "recv"
  /\ s2cCipher' = s2cCipher + 1
  /\ sentRekeyKexInit' = FALSE /\ CloseRekeyGate
  /\ UNCHANGED <<c2sCipher, closing, c2s, peer, counts, newkeys>>

-----------------------------------------------------------------------------
(***************************************************************************)
(* The external server, which follows RFC 4253: between its KEXINIT and    *)
(* its NEWKEYS it sends nothing else, and the two directions change keys   *)
(* after the NEWKEYS of each.                                              *)
(***************************************************************************)
Seal(kind) == <<kind, sealed>>

ServerSends(kind) ==
  /\ server # "kexinit" /\ up
  /\ messages < MaxServerMessages
  /\ messages' = messages + 1
  /\ s2c' = Append(s2c, Seal(kind))
  /\ UNCHANGED <<sends, sentRekeyKexInit, pc, ciphers, closing, c2s, peer, data, keepalives,
                 clientRekeys, serverRekeys, newkeys>>

ServerRekeys ==
  /\ server = "none" /\ up
  /\ serverRekeys < MaxServerRekeys
  /\ serverRekeys' = serverRekeys + 1
  /\ server' = "kexinit"
  /\ s2c' = Append(s2c, Seal("KEXINIT"))
  /\ UNCHANGED <<sends, sentRekeyKexInit, pc, ciphers, closing, c2s, sealed, data,
                 keepalives, clientRekeys, messages, newkeys>>

ServerReads ==
  /\ c2s # << >>
  /\ c2s' = Tail(c2s)
  /\ CASE Head(c2s) = "KEXINIT" /\ server = "none" ->
            /\ server' = "kexinit"
            /\ s2c' = Append(s2c, Seal("KEXINIT"))
            /\ UNCHANGED sealed
       [] Head(c2s) = "ECDH_INIT" ->
            /\ server' = "newkeys"
            /\ s2c' = s2c \o <<Seal("ECDH_REPLY"), Seal("NEWKEYS")>>
            /\ sealed' = sealed + 1
       [] Head(c2s) = "NEWKEYS" ->
            server' = "none" /\ UNCHANGED <<s2c, sealed>>
       [] OTHER -> UNCHANGED <<s2c, peer>>
  /\ UNCHANGED <<sends, sentRekeyKexInit, pc, ciphers, closing, counts, newkeys>>

\* The TCP connection breaks.
Lose ==
  /\ up
  /\ up' = FALSE
  /\ UNCHANGED <<sends, sentRekeyKexInit, pc, ciphers, closed, notifiedClosed, leaving,
                 c2s, s2c, peer, counts, newkeys>>

-----------------------------------------------------------------------------
\* All but ReadReply, whose host key SshConnection has.
ReadLoop ==
  \/ ReceiveFails \/ ReadDisconnect \/ ReadChannelMessage \/ ReadGlobalRequest
  \/ BeginRekey \/ NegotiationFails
  \/ FailureSent \/ KexInitSent \/ EcdhInitSent \/ NewkeysSent \/ SendFails
  \/ ReadNewkeys

Client == SendData \/ Keepalive \/ RequestRekey \/ Disconnect

-----------------------------------------------------------------------------
\* The first exchange, and those that follow it.
Exchanges == 1 + MaxClientRekeys + MaxServerRekeys

TransportTypeOK ==
  /\ chain \in Seq(Packet) /\ held \in Seq(Packet)
  /\ gate \in BOOLEAN /\ sentRekeyKexInit \in BOOLEAN
  /\ c2sCipher \in 0..Exchanges /\ s2cCipher \in 0..Exchanges /\ sealed \in 0..Exchanges
  /\ closed \in BOOLEAN /\ notifiedClosed \in BOOLEAN /\ leaving \in BOOLEAN
  /\ up \in BOOLEAN
  /\ c2s \in Seq(Packet)
  /\ s2c \in Seq(Packet \X (0..Exchanges))
  /\ server \in {"none", "kexinit", "newkeys"}
  /\ data \in 0..MaxData /\ keepalives \in 0..MaxKeepalives
  /\ clientRekeys \in 0..MaxClientRekeys /\ serverRekeys \in 0..MaxServerRekeys
  /\ messages \in 0..MaxServerMessages /\ newkeys \in 0..Exchanges
=============================================================================
