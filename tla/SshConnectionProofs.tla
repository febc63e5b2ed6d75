-------------------------- MODULE SshConnectionProofs --------------------------
(***************************************************************************)
(* Keys change between the packets that both sides mean, and credentials   *)
(* leave only under them, to the host key that was accepted and that stays *)
(* the connection's while it is stored: proved for any number of messages, *)
(* keepalives and exchanges from either side.  Then how many keys there    *)
(* can be, which types the ciphers and their numbers.                      *)
(***************************************************************************)
EXTENDS SshConnection, SequenceTheorems, TLAPS

No(kind, q)       == \A i \in 1..Len(q) : q[i] # kind
OnlyAt(k, kind, q) == \A i \in 1..Len(q) : q[i] = kind <=> i = k
One(kind, q)      == \E k \in 1..Len(q) : OnlyAt(k, kind, q)

(***************************************************************************)
(* What the proof needs of the types.                                      *)
(***************************************************************************)
States == Handshaking \cup {"trust", "failed"} \cup Receiving \cup Sending \cup {"ended"}

\* The messages of the dialogue up to the one that ends its exchange, and after it.
Before == {"ID", "KEXINIT", "ECDH_INIT"}
After  == {"SERVICE_REQUEST", "USERAUTH_REQUEST", "CHANNEL_OPEN", "CHANNEL_REQUEST"}

Types ==
  /\ chain \in Seq(Packet) /\ held \in Seq(Connection) /\ c2s \in Seq(Packet)
  /\ s2c \in Seq(Packet \X Nat)
  /\ gate \in BOOLEAN /\ up \in BOOLEAN
  /\ c2sCipher \in Nat /\ s2cCipher \in Nat /\ sealed \in Nat /\ newkeys \in Nat
  /\ pc \in States /\ asked \in Before \cup {"NEWKEYS"} \cup After \cup {"open"}
  /\ known \in {"none", "same", "other"}

(***************************************************************************)
(* The dialogue sends one message at a time, and nothing else sends.       *)
(***************************************************************************)
InDialogue ==
  /\ asked = "open" <=> pc \notin Handshaking \cup {"trust", "failed"}
  /\ asked # "open" =>
       /\ ~gate /\ held = << >>
       /\ pc = "sendAsked" => chain \in {<< >>, <<asked>>}
       /\ pc = "sendRefusal" => chain \in {<< >>, <<"REQUEST_FAILURE">>} /\ asked # "NEWKEYS"
       /\ pc \in {"recvAnswer", "trust"} => chain = << >>
       /\ pc = "failed" => ~up \/ chain = << >>
       /\ pc = "trust" => asked = "ECDH_INIT"
  /\ pc \in Driving => gate

(***************************************************************************)
(* The client's sending cipher, and the NEWKEYS that have left the chain.  *)
(* From the NEWKEYS in the chain until the cipher is replaced nothing but  *)
(* disconnect()'s packet follows.                                          *)
(***************************************************************************)
\* The chain during an exchange, from its NEWKEYS on.
LastNewkeys == \E k \in 1..Len(chain) :
                 OnlyAt(k, "NEWKEYS", chain) /\ \A i \in (k + 1)..Len(chain) : chain[i] = "DISCONNECT"
OnlyDisconnect == \A i \in 1..Len(chain) : chain[i] = "DISCONNECT"

SendingKeys ==
  \/ pc = "failed"
  \/ asked \in Before /\ newkeys = 0 /\ c2sCipher = 0
  \/ /\ asked = "NEWKEYS" /\ c2sCipher = 0
     /\ pc = "sendAsked" \/ newkeys = 1
     /\ newkeys = IF chain = << >> THEN 1 ELSE 0
  \/ asked \in After /\ newkeys = 1 /\ c2sCipher = 1
  \/ asked = "open" /\ ~up
  \/ asked = "open" /\ pc # "sendNewkeys" /\ No("NEWKEYS", chain) /\ newkeys = c2sCipher
  \/ asked = "open" /\ pc = "sendNewkeys" /\ LastNewkeys /\ newkeys = c2sCipher
  \/ asked = "open" /\ pc = "sendNewkeys" /\ OnlyDisconnect /\ newkeys = c2sCipher + 1

(***************************************************************************)
(* The server's messages under way: either all are under the keys that the *)
(* client reads with, or there is one NEWKEYS, and those after it are      *)
(* under the next.                                                         *)
(***************************************************************************)
Quiet ==
  /\ sealed = s2cCipher
  /\ \A i \in 1..Len(s2c) : s2c[i][1] \notin {"NEWKEYS", "ECDH_REPLY"} /\ s2c[i][2] = s2cCipher

InFlight ==
  /\ sealed = s2cCipher + 1
  /\ \E k \in 1..Len(s2c) : \A i \in 1..Len(s2c) :
       /\ s2c[i][1] = "NEWKEYS" <=> i = k
       /\ s2c[i][1] = "ECDH_REPLY" => i < k
       /\ s2c[i][2] = IF i <= k THEN s2cCipher ELSE s2cCipher + 1

Replied == InFlight /\ \E i \in 1..Len(s2c) : s2c[i][1] = "ECDH_REPLY"

(***************************************************************************)
(* An exchange has one ECDH_INIT, which is somewhere until it is answered, *)
(* unless the stream failed under it.                                      *)
(***************************************************************************)
NoInit  == No("ECDH_INIT", chain) /\ No("ECDH_INIT", c2s)
Idle    == NoInit /\ Quiet
Asking  == \/ One("ECDH_INIT", chain) /\ No("ECDH_INIT", c2s) /\ Quiet
           \/ No("ECDH_INIT", chain) /\ One("ECDH_INIT", c2s) /\ Quiet
           \/ NoInit /\ Replied
           \/ NoInit /\ Quiet /\ ~up
Changing == NoInit /\ InFlight

ReceivingKeys ==
  \/ pc \in {"failed", "ended"}
  \/ asked \in {"ID", "KEXINIT"} /\ Idle /\ s2cCipher = 0
  \/ asked = "ECDH_INIT" /\ pc # "trust" /\ Asking /\ s2cCipher = 0
  \/ pc = "trust" /\ Changing /\ s2cCipher = 0
  \/ asked = "NEWKEYS" /\ Changing /\ s2cCipher = 0
  \/ asked \in After /\ Idle /\ s2cCipher = 1
  \/ asked = "open" /\ pc \in {"recv", "sendFailure", "sendKexInit"} /\ Idle
  \/ asked = "open" /\ pc \in {"sendEcdhInit", "recvReply"} /\ Asking
  \/ asked = "open" /\ pc \in {"sendNewkeys", "recvNewkeys"} /\ Changing

\* The server makes a request only under keys.
RequestsSealed == \A i \in 1..Len(s2c) : s2c[i][1] = "GLOBAL_REQUEST" => s2c[i][2] > 0

(***************************************************************************)
(* Credentials.                                                            *)
(***************************************************************************)
CredentialsSafe == c2sCipher > 0 /\ s2cCipher > 0

Credentials ==
  /\ asked \in After \cup {"open"} => CredentialsSafe
  /\ ~No("USERAUTH_REQUEST", chain) \/ ~No("USERAUTH_REQUEST", c2s) => CredentialsSafe
  /\ No("USERAUTH_REQUEST", held)

\* They are asked for once, and under way only until the server answers.
NoResult == \A i \in 1..Len(s2c) : s2c[i][1] \notin {"USERAUTH_SUCCESS", "USERAUTH_FAILURE"}
NoneSent == No("USERAUTH_REQUEST", chain) /\ No("USERAUTH_REQUEST", c2s)
OneSent  == \/ One("USERAUTH_REQUEST", chain) /\ No("USERAUTH_REQUEST", c2s)
            \/ No("USERAUTH_REQUEST", chain) /\ One("USERAUTH_REQUEST", c2s)

Underway ==
  /\ asked \in Before \cup {"NEWKEYS", "SERVICE_REQUEST"} => NoneSent /\ NoResult
  /\ NoneSent \/ (asked = "USERAUTH_REQUEST" /\ OneSent /\ NoResult)

(***************************************************************************)
(* Host keys.                                                              *)
(***************************************************************************)
KeyStored == \/ known = "same" /\ key = "same"
             \/ known = "none" /\ ~writable

KeyTaken ==
  /\ writable \in BOOLEAN /\ key \in {"none"} \cup HostKeys
  /\ asked \in Before => key = "none"
  /\ asked \in {"NEWKEYS"} \cup After => key = "same"
  /\ asked = "open" => key # "none"
  /\ pc = "trust" => known # "other"
  /\ key # "none" => KeyStored

IInv == Types /\ InDialogue /\ SendingKeys /\ ReceivingKeys /\ RequestsSealed /\ Credentials
        /\ Underway /\ KeyTaken

-----------------------------------------------------------------------------
(***************************************************************************)
(* Sequences of packets.                                                   *)
(***************************************************************************)
LEMMA NoAppend ==
  ASSUME NEW q \in Seq(Packet), NEW e \in Packet, NEW kind, No(kind, q), e # kind
  PROVE  No(kind, Append(q, e))
  BY DEF No

LEMMA NoTail ==
  ASSUME NEW q \in Seq(Packet), q # << >>, NEW kind, No(kind, q)
  PROVE  No(kind, Tail(q)) /\ Head(q) # kind
<1>1. /\ Len(Tail(q)) = Len(q) - 1 /\ Len(q) \in Nat \ {0} /\ Head(q) = q[1]
      /\ \A i \in 1..Len(Tail(q)) : Tail(q)[i] = q[i + 1]
  OBVIOUS
<1>2. QED  BY <1>1 DEF No

LEMMA NoConcat ==
  ASSUME NEW q \in Seq(Packet), NEW r \in Seq(Packet), NEW kind, No(kind, q), No(kind, r)
  PROVE  No(kind, q \o r)
<1>1. /\ Len(q \o r) = Len(q) + Len(r) /\ Len(q) \in Nat /\ Len(r) \in Nat
      /\ \A i \in 1..Len(q \o r) : (q \o r)[i] = IF i <= Len(q) THEN q[i] ELSE r[i - Len(q)]
  OBVIOUS
<1>2. QED  BY <1>1 DEF No

LEMMA OneAppended ==
  ASSUME NEW q \in Seq(Packet), NEW kind \in Packet, No(kind, q)
  PROVE  /\ Len(q) + 1 \in 1..Len(Append(q, kind)) /\ OnlyAt(Len(q) + 1, kind, Append(q, kind))
         /\ One(kind, Append(q, kind))
<1>1. OnlyAt(Len(q) + 1, kind, Append(q, kind))
  BY DEF OnlyAt, No
<1>2. Len(q) + 1 \in 1..Len(Append(q, kind))
  OBVIOUS
<1>3. QED  BY <1>1, <1>2 DEF One

LEMMA OneAppend ==
  ASSUME NEW q \in Seq(Packet), NEW e \in Packet, NEW kind, One(kind, q), e # kind
  PROVE  One(kind, Append(q, e))
<1>1. PICK k \in 1..Len(q) : OnlyAt(k, kind, q)
  BY DEF One
<1>2. OnlyAt(k, kind, Append(q, e)) /\ k \in 1..Len(Append(q, e))
  BY <1>1 DEF OnlyAt
<1>3. QED  BY <1>2 DEF One

LEMMA OneTail ==
  ASSUME NEW q \in Seq(Packet), q # << >>, NEW kind, One(kind, q)
  PROVE  IF Head(q) = kind THEN No(kind, Tail(q)) ELSE One(kind, Tail(q))
<1>1. /\ Len(Tail(q)) = Len(q) - 1 /\ Len(q) \in Nat \ {0} /\ Head(q) = q[1]
      /\ \A i \in 1..Len(Tail(q)) : Tail(q)[i] = q[i + 1]
  OBVIOUS
<1>2. PICK k \in 1..Len(q) : OnlyAt(k, kind, q)
  BY DEF One
<1>3. CASE Head(q) = kind
  <2>1. k = 1  BY <1>1, <1>2, <1>3 DEF OnlyAt
  <2>2. QED  BY <1>1, <1>2, <1>3, <2>1 DEF OnlyAt, No
<1>4. CASE Head(q) # kind
  <2>1. k - 1 \in 1..Len(Tail(q)) /\ OnlyAt(k - 1, kind, Tail(q))
    BY <1>1, <1>2, <1>4 DEF OnlyAt
  <2>2. QED  BY <1>4, <2>1 DEF One
<1>5. QED  BY <1>3, <1>4

(***************************************************************************)
(* The read loop, with the reply of an exchange.                           *)
(***************************************************************************)
Loop == ReadLoop \/ \E accepted \in BOOLEAN : ReadReply(accepted)

LEMMA RuntimeStep ==
  ASSUME Runtime
  PROVE  Dialogue \/ (Loop /\ UNCHANGED dialogue)
<1>1. ASSUME NEW signed, NEW shown, ReadRekeyReply(signed, shown)
      PROVE  Loop /\ UNCHANGED dialogue
  <2> DEFINE accepted == VerifyHostSignature(signed) /\ CheckHostKey(shown) # "mismatch"
  <2>1. ReadReply(accepted) /\ UNCHANGED dialogue
    BY <1>1, Zenon DEF ReadRekeyReply
  <2>2. accepted \in BOOLEAN
    OBVIOUS
  <2>3. QED  BY <2>1, <2>2, Zenon DEF Loop
<1>2. ASSUME ReadLoop, UNCHANGED <<dialogue, key>>  PROVE Loop /\ UNCHANGED dialogue
  BY <1>2 DEF Loop
<1>3. QED  BY <1>1, <1>2 DEF Runtime

\* What stands in a sequence after two elements are appended to it.
LEMMA PairAppended ==
  ASSUME NEW S, NEW s \in Seq(S), NEW a, NEW b, {a, b} \subseteq S
  PROVE  \A i \in 1..Len(s \o <<a, b>>) : \/ i \in 1..Len(s) /\ (s \o <<a, b>>)[i] = s[i]
                                          \/ (s \o <<a, b>>)[i] \in {a, b}
<1> DEFINE t == <<a, b>>
<1>1. t \in Seq(S) /\ Len(t) = 2 /\ t[1] = a /\ t[2] = b  OBVIOUS
<1> HIDE DEF t
<1>2. Len(s) \in Nat  BY LenProperties
<1>3. /\ Len(s \o t) = Len(s) + 2
      /\ \A i \in 1..(Len(s) + 2) : (s \o t)[i] = IF i <= Len(s) THEN s[i] ELSE t[i - Len(s)]
  <2>1. /\ Len(s \o t) = Len(s) + Len(t)
        /\ \A i \in 1..Len(s) + Len(t) :
             (s \o t)[i] = IF i <= Len(s) THEN s[i] ELSE t[i - Len(s)]
    BY <1>1, ConcatProperties, Zenon
  <2>2. QED  BY <1>1, <2>1
<1>4. SUFFICES ASSUME NEW i \in 1..Len(s \o t)
      PROVE  (i \in 1..Len(s) /\ (s \o t)[i] = s[i]) \/ (s \o t)[i] \in {a, b}
  BY DEF t
<1>5. CASE i <= Len(s)  BY <1>2, <1>3, <1>5
<1>6. CASE ~(i <= Len(s))
  <2>1. i - Len(s) \in {1, 2}  BY <1>2, <1>3, <1>6
  <2>2. QED  BY <1>1, <1>2, <1>3, <1>6, <2>1
<1>7. QED  BY <1>5, <1>6

(***************************************************************************)
(* Steps and types.                                                        *)
(***************************************************************************)
LEMMA Kinds ==
  /\ Connection \subseteq Packet
  /\ Before \cup {"NEWKEYS"} \cup After \subseteq Packet
  BY DEF Before, After, Packet, Transport, Connection

LEMMA Typed ==
  ASSUME Types
  PROVE  /\ \A kind \in Packet : gate' \in BOOLEAN /\ Send(kind) =>
              chain' \in Seq(Packet) /\ held' \in Seq(Connection)
         /\ CloseRekeyGate => chain' \in Seq(Packet) /\ held' \in Seq(Connection) /\ gate' = FALSE
         /\ \A kind : Receive(kind) => s2c' \in Seq(Packet \X Nat)
         /\ \A kind \in Packet : s2c' = Append(s2c, Seal(kind)) => s2c' \in Seq(Packet \X Nat)
<1> USE DEF Types
<1>1. ASSUME NEW kind \in Packet, gate' \in BOOLEAN, Send(kind)
      PROVE  chain' \in Seq(Packet) /\ held' \in Seq(Connection)
  <2>1. \/ kind \in Connection /\ held' = Append(held, kind) /\ chain' = chain
        \/ chain' = Append(chain, kind) /\ held' = held
    BY <1>1, Zenon DEF Send
  <2>2. kind \in Connection => Append(held, kind) \in Seq(Connection)
    OBVIOUS
  <2>3. Append(chain, kind) \in Seq(Packet)
    OBVIOUS
  <2>4. QED  BY <2>1, <2>2, <2>3
<1>2. ASSUME CloseRekeyGate
      PROVE  chain' \in Seq(Packet) /\ held' \in Seq(Connection) /\ gate' = FALSE
  <2>1. held \in Seq(Packet)
    BY Kinds
  <2>2. QED  BY <1>2, <2>1 DEF CloseRekeyGate
<1>3. ASSUME NEW kind, Receive(kind)
      PROVE  s2c' \in Seq(Packet \X Nat)
  BY <1>3 DEF Receive
<1>4. ASSUME NEW kind \in Packet, s2c' = Append(s2c, Seal(kind))
      PROVE  s2c' \in Seq(Packet \X Nat)
  BY <1>4 DEF Seal
<1>5. QED  BY <1>1, <1>2, <1>3, <1>4

LEMMA Asks ==
  ASSUME Types, NEW kind \in Before \cup {"NEWKEYS"} \cup After, Ask(kind)
  PROVE  /\ chain' \in Seq(Packet) /\ held' \in Seq(Connection) /\ gate' \in BOOLEAN
         /\ pc' \in States /\ asked' \in Before \cup {"NEWKEYS"} \cup After \cup {"open"}
<1>1. kind \in Packet /\ gate' \in BOOLEAN /\ Send(kind)
  BY Kinds DEF Ask, Types
<1>2. chain' \in Seq(Packet) /\ held' \in Seq(Connection)
  BY <1>1, Typed
<1>3. QED  BY <1>1, <1>2 DEF Ask, States, Handshaking

LEMMA DialogueTypes ==
  ASSUME Types, Dialogue \/ \E accepted \in BOOLEAN : Trusted(accepted)
  PROVE  Types'
<1> USE DEF Types, sends, ciphers, closing, peer, counts, dialogue, store
<1>1. \A kind \in Before \cup {"NEWKEYS"} \cup After : Ask(kind) =>
         /\ chain' \in Seq(Packet) /\ held' \in Seq(Connection) /\ gate' \in BOOLEAN
         /\ pc' \in States /\ asked' \in Before \cup {"NEWKEYS"} \cup After \cup {"open"}
  BY Asks
<1>2. \A kind : Receive(kind) => s2c' \in Seq(Packet \X Nat)
  BY Typed
<1>3. Fail =>
         /\ chain' \in Seq(Packet) /\ held' \in Seq(Connection) /\ gate' \in BOOLEAN
         /\ pc' \in States /\ asked' \in Before \cup {"NEWKEYS"} \cup After \cup {"open"}
  BY DEF Fail, States
<1>4. "recvAnswer" \in States /\ "trust" \in States /\ "recv" \in States /\ "sendRefusal" \in States
  BY DEF States, Handshaking, Receiving
<1> USE DEF Answered, Before, After
<1>5. ASSUME NEW found \in BOOLEAN, ReadIdentification(found)  PROVE Types'
  BY <1>1, <1>2, <1>3, <1>5 DEF ReadIdentification
<1>6. ASSUME NEW missing \in SUBSET Choices, ReadServerKexInit(Choices \ missing)  PROVE Types'
  BY <1>1, <1>2, <1>3, <1>6 DEF ReadServerKexInit
<1>7. ASSUME NEW signed, NEW hasCallback \in BOOLEAN, ReadHostKey(signed, hasCallback)
      PROVE  Types'
  BY <1>2, <1>3, <1>4, <1>7 DEF ReadHostKey
<1>8. ASSUME ReadFirstNewkeys  PROVE Types'
  BY <1>1, <1>2, <1>8 DEF ReadFirstNewkeys, BuildCiphers, NextKeys
<1>9. ASSUME NEW credentials, ReadServiceAccept(credentials)  PROVE Types'
  BY <1>1, <1>2, <1>3, <1>9 DEF ReadServiceAccept
<1>10. ASSUME ReadAuthResult  PROVE Types'
  BY <1>1, <1>2, <1>3, <1>10 DEF ReadAuthResult
<1>11. ASSUME ReadChannelOpened  PROVE Types'
  BY <1>1, <1>2, <1>3, <1>11 DEF ReadChannelOpened
<1>12. ASSUME ReadSubsystem  PROVE Types'
  BY <1>2, <1>3, <1>4, <1>12 DEF ReadSubsystem
<1>13. ASSUME AskedSent  PROVE Types'
  BY <1>4, <1>13 DEF AskedSent
<1>14. ASSUME ReadUnexpected  PROVE Types'
  BY <1>14 DEF ReadUnexpected
<1>15. ASSUME ReadRequest  PROVE Types'
  <2>1. "REQUEST_FAILURE" \in Packet
    BY DEF Packet, Connection
  <2>2. chain' \in Seq(Packet) /\ held' \in Seq(Connection)
    BY <1>15, <2>1, Typed DEF ReadRequest
  <2>3. QED  BY <1>2, <1>4, <1>15, <2>2 DEF ReadRequest
<1>16. ASSUME RefusalSent  PROVE Types'
  BY <1>4, <1>16 DEF RefusalSent
<1>17. ASSUME Broken  PROVE Types'
  BY <1>2, <1>3, <1>17 DEF Broken
<1>18. ASSUME NEW accepted \in BOOLEAN, Trusted(accepted)  PROVE Types'
  BY <1>1, <1>3, <1>18 DEF Trusted, RememberHost
<1>19. QED
  BY <1>5, <1>6, <1>7, <1>8, <1>9, <1>10, <1>11, <1>12, <1>13, <1>14, <1>15, <1>16, <1>17, <1>18
     DEF Dialogue

LEMMA LoopTypes ==
  ASSUME Types, InDialogue, Loop, UNCHANGED dialogue
  PROVE  Types'
<1> USE DEF Types, sends, ciphers, closing, peer, counts, dialogue, store
<1>1. \A kind \in {"ECDH_INIT", "KEXINIT", "NEWKEYS", "REQUEST_FAILURE"} :
        gate' \in BOOLEAN /\ Send(kind) => chain' \in Seq(Packet) /\ held' \in Seq(Connection)
  <2>1. {"ECDH_INIT", "KEXINIT", "NEWKEYS", "REQUEST_FAILURE"} \subseteq Packet
    BY DEF Packet, Transport, Connection
  <2>2. QED  BY <2>1, Typed
<1>2. \A kind : Receive(kind) => s2c' \in Seq(Packet \X Nat)
  BY Typed
<1>3. CloseRekeyGate => chain' \in Seq(Packet) /\ held' \in Seq(Connection) /\ gate' = FALSE
  BY Typed
<1>4. {"recv", "recvReply", "recvNewkeys", "sendFailure", "sendKexInit", "sendEcdhInit",
       "sendNewkeys", "ended"} \subseteq States
  BY DEF States, Receiving, Sending
<1>5. Teardown => up' \in BOOLEAN
  BY DEF Teardown
<1>6. ASSUME LoopEnds, s2c' \in Seq(Packet \X Nat)  PROVE Types'
  BY <1>3, <1>4, <1>5, <1>6 DEF Loop, LoopEnds
<1>7. ASSUME ReceiveFails  PROVE Types'
  BY <1>6, <1>7 DEF ReceiveFails
<1>8. ASSUME ReadDisconnect  PROVE Types'
  BY <1>2, <1>6, <1>8 DEF ReadDisconnect
<1>9. ASSUME ReadChannelMessage  PROVE Types'
  BY <1>2, <1>9 DEF ReadChannelMessage
<1>10. ASSUME ReadGlobalRequest  PROVE Types'
  BY <1>1, <1>2, <1>4, <1>10 DEF ReadGlobalRequest
<1>11. ASSUME BeginRekey  PROVE Types'
  BY <1>1, <1>2, <1>4, <1>11 DEF BeginRekey
<1>12. ASSUME NegotiationFails  PROVE Types'
  BY <1>2, <1>3, <1>4, <1>5, <1>12 DEF NegotiationFails
<1>13. ASSUME NEW accepted \in BOOLEAN, ReadReply(accepted)  PROVE Types'
  BY <1>1, <1>2, <1>4, <1>6, <1>13 DEF ReadReply
<1>14. ASSUME FailureSent  PROVE Types'
  BY <1>4, <1>14 DEF FailureSent
<1>15. ASSUME KexInitSent  PROVE Types'
  BY <1>1, <1>4, <1>15 DEF KexInitSent
<1>16. ASSUME EcdhInitSent  PROVE Types'
  BY <1>4, <1>16 DEF EcdhInitSent
<1>17. ASSUME NewkeysSent  PROVE Types'
  BY <1>4, <1>17 DEF NewkeysSent
<1>18. ASSUME SendFails  PROVE Types'
  BY <1>6, <1>18 DEF SendFails
<1>19. ASSUME ReadNewkeys  PROVE Types'
  <2>1. s2cCipher' \in Nat /\ UNCHANGED <<c2sCipher, sealed, newkeys, up, c2s, asked, known>>
    BY <1>19 DEF ReadNewkeys
  <2>2. s2c' \in Seq(Packet \X Nat) /\ pc' \in States
    BY <1>2, <1>4, <1>19 DEF ReadNewkeys
  <2>3. chain' \in Seq(Packet) /\ held' \in Seq(Connection) /\ gate' \in BOOLEAN
    BY <1>3, <1>19 DEF ReadNewkeys
  <2>4. QED  BY <2>1, <2>2, <2>3
<1>20. QED
  BY <1>7, <1>8, <1>9, <1>10, <1>11, <1>12, <1>13, <1>14, <1>15, <1>16, <1>17, <1>18, <1>19
     DEF Loop, ReadLoop

LEMMA TypesStep ==
  ASSUME Types, InDialogue, [Next]_allVars
  PROVE  Types'
<1> USE DEF Types, vars, sends, ciphers, closing, peer, counts, dialogue, store
<1>1. \A kind \in Packet : s2c' = Append(s2c, Seal(kind)) => s2c' \in Seq(Packet \X Nat)
  BY Typed
<1>2. CASE Runtime \/ \E accepted \in BOOLEAN : Trusted(accepted)
  BY <1>2, RuntimeStep, DialogueTypes, LoopTypes
<1>3. CASE Sends
  <2>1. chain' \in Seq(Packet) /\ Head(chain) \in Packet
    BY <1>3 DEF Sends, Transmit
  <2>2. c2s' \in Seq(Packet)
    <3>1. Append(c2s, Head(chain)) \in Seq(Packet)
      BY <2>1
    <3>2. QED  BY <1>3, <3>1 DEF Sends, Transmit
  <2>3. QED  BY <1>3, <2>1, <2>2 DEF Sends, Transmit, Teardown
<1>4. CASE Opened
  <2>1. ASSUME NEW kind \in {"DATA", "GLOBAL_REQUEST", "KEXINIT", "DISCONNECT"},
               gate' \in BOOLEAN, Send(kind)
        PROVE  chain' \in Seq(Packet) /\ held' \in Seq(Connection)
    <3>1. kind \in Packet
      BY DEF Packet, Transport, Connection
    <3>2. QED  BY <2>1, <3>1, Typed
  <2>2. CASE SendData
    BY <1>4, <2>1, <2>2 DEF Opened, SendData
  <2>3. CASE Keepalive
    BY <1>4, <2>1, <2>3 DEF Opened, Keepalive
  <2>4. CASE RequestRekey
    BY <1>4, <2>1, <2>4 DEF Opened, RequestRekey
  <2>5. CASE Disconnect
    BY <1>4, <2>1, <2>5 DEF Opened, Disconnect
  <2>6. CASE Disconnected
    BY <1>4, <2>6 DEF Opened, Disconnected
  <2>7. QED  BY <1>4, <2>2, <2>3, <2>4, <2>5, <2>6 DEF Opened, Client
<1>5. CASE Reads
  <2>1. "KEXINIT" \in Packet /\ "ECDH_REPLY" \in Packet /\ "NEWKEYS" \in Packet
    BY DEF Packet, Transport
  <2>2. sealed' \in Nat /\ c2s' \in Seq(Packet)
    BY <1>5 DEF Reads, ServerReads
  <2>3. s2c \o <<Seal("ECDH_REPLY"), Seal("NEWKEYS")>> \in Seq(Packet \X Nat)
    <3>1. Seal("ECDH_REPLY") \in Packet \X Nat /\ Seal("NEWKEYS") \in Packet \X Nat
      BY <2>1 DEF Seal
    <3>2. <<Seal("ECDH_REPLY"), Seal("NEWKEYS")>> \in Seq(Packet \X Nat)
      BY <3>1
    <3>3. QED  BY <3>2
  <2>4. \/ s2c' = Append(s2c, Seal("KEXINIT")) \/ s2c' = s2c
        \/ s2c' = s2c \o <<Seal("ECDH_REPLY"), Seal("NEWKEYS")>>
    BY <1>5 DEF Reads, ServerReads
  <2>5. s2c' \in Seq(Packet \X Nat)
    BY <1>1, <2>1, <2>3, <2>4
  <2>6. QED  BY <1>5, <2>2, <2>5 DEF Reads, ServerReads
<1>6. CASE ServerAnswers
  <2>1. PICK kind \in Answers(Head(c2s)) : s2c' = Append(s2c, Seal(kind))
    BY <1>6 DEF ServerAnswers
  <2>2. kind \in Packet
    BY DEF Answers, Packet, Transport, Connection
  <2>3. s2c' \in Seq(Packet \X Nat)
    BY <1>1, <2>1, <2>2
  <2>4. QED  BY <1>6, <2>3 DEF ServerAnswers
<1>7. CASE ServerSpeaks /\ UNCHANGED dialogue
  <2>1. {"DISCONNECT", "GLOBAL_REQUEST", "KEXINIT", "DATA"} \subseteq Packet
    BY DEF Packet, Transport, Connection
  <2>2. s2c' \in Seq(Packet \X Nat)
    BY <1>1, <1>7, <2>1 DEF ServerSpeaks, ServerSends, ServerRekeys
  <2>3. QED  BY <1>7, <2>2 DEF ServerSpeaks, ServerSends, ServerRekeys
<1>8. CASE Lose /\ UNCHANGED dialogue
  BY <1>8 DEF Lose
<1>9. CASE UNCHANGED allVars
  BY <1>9 DEF allVars
<1>10. QED
  BY <1>2, <1>3, <1>4, <1>5, <1>6, <1>7, <1>8, <1>9 DEF Next

-----------------------------------------------------------------------------
(***************************************************************************)
(* The dialogue.                                                           *)
(***************************************************************************)
DialogueKinds == Before \cup {"NEWKEYS"} \cup After

LEMMA AskedOne ==
  ASSUME Types, InDialogue, pc \in {"recvAnswer", "trust"}, NEW kind \in DialogueKinds, Ask(kind)
  PROVE  /\ chain' = <<kind>> /\ held' = << >> /\ ~gate' /\ asked' = kind /\ pc' = "sendAsked"
         /\ kind # "open"
<1>1. asked # "open" /\ ~gate /\ held = << >> /\ chain = << >>
  BY DEF InDialogue, Handshaking
<1>2. kind # "open"
  BY DEF DialogueKinds, Before, After
<1>3. chain' = Append(chain, kind) /\ held' = held /\ ~gate'
  BY <1>1 DEF Ask, Send
<1>4. QED  BY <1>1, <1>2, <1>3 DEF Ask

\* The server makes no request between the keys of connect().
LEMMA NoRequestUnderway ==
  ASSUME Types, ReceivingKeys, RequestsSealed, asked = "NEWKEYS", pc = "recvAnswer"
  PROVE  ~Receive("GLOBAL_REQUEST")
<1>1. SUFFICES ASSUME s2c # << >>, Head(s2c)[1] = "GLOBAL_REQUEST"  PROVE FALSE
  BY DEF Receive
<1>2. Len(s2c) \in Nat \ {0} /\ Head(s2c) = s2c[1] /\ 1 \in 1..Len(s2c)
  BY <1>1 DEF Types
<1>3. InFlight /\ s2cCipher = 0
  BY DEF ReceivingKeys, Changing, Before, After
<1>4. PICK k \in 1..Len(s2c) : s2c[1][2] = IF 1 <= k THEN s2cCipher ELSE s2cCipher + 1
  BY <1>2, <1>3 DEF InFlight
<1>5. s2c[1][2] = 0
  BY <1>3, <1>4
<1>6. QED  BY <1>1, <1>2, <1>5 DEF RequestsSealed

LEMMA DialogueStep ==
  ASSUME IInv, [Next]_allVars
  PROVE  InDialogue'
<1> USE DEF IInv, sends, ciphers, closing, peer, counts, dialogue, store
<1>1. \A kind \in DialogueKinds : Ask(kind) /\ pc \in {"recvAnswer", "trust"} => InDialogue'
  <2>1. SUFFICES ASSUME NEW kind \in DialogueKinds, Ask(kind), pc \in {"recvAnswer", "trust"}
                 PROVE  InDialogue'
    OBVIOUS
  <2>2. QED  BY <2>1, AskedOne DEF InDialogue, Handshaking, Driving
<1>2. Fail /\ (pc \in {"recvAnswer", "trust"} \/ (~up /\ pc \in Handshaking)) /\ up' = up => InDialogue'
  BY DEF Fail, InDialogue, Handshaking, Driving
<1>3. ASSUME Dialogue \/ \E accepted \in BOOLEAN : Trusted(accepted)  PROVE InDialogue'
  <2> USE DEF Answered, DialogueKinds, Before, After
  <2>1. ASSUME NEW found \in BOOLEAN, ReadIdentification(found)  PROVE InDialogue'
    BY <1>1, <1>2, <2>1 DEF ReadIdentification
  <2>2. ASSUME NEW missing \in SUBSET Choices, ReadServerKexInit(Choices \ missing)  PROVE InDialogue'
    BY <1>1, <1>2, <2>2 DEF ReadServerKexInit
  <2>3. ASSUME NEW signed, NEW hasCallback \in BOOLEAN, ReadHostKey(signed, hasCallback)
        PROVE  InDialogue'
    BY <1>2, <2>3 DEF ReadHostKey, InDialogue, Handshaking, Driving
  <2>4. ASSUME ReadFirstNewkeys  PROVE InDialogue'
    BY <1>1, <2>4 DEF ReadFirstNewkeys
  <2>5. ASSUME NEW credentials, ReadServiceAccept(credentials)  PROVE InDialogue'
    BY <1>1, <1>2, <2>5 DEF ReadServiceAccept
  <2>6. ASSUME ReadAuthResult  PROVE InDialogue'
    BY <1>1, <1>2, <2>6 DEF ReadAuthResult
  <2>7. ASSUME ReadChannelOpened  PROVE InDialogue'
    BY <1>1, <1>2, <2>7 DEF ReadChannelOpened
  <2>8. ASSUME ReadSubsystem  PROVE InDialogue'
    BY <1>2, <2>8 DEF ReadSubsystem, InDialogue, Handshaking, Driving
  <2>9. ASSUME AskedSent  PROVE InDialogue'
    <3>1. chain = << >>
      <4>1. chain # <<asked>>
        BY <2>9 DEF AskedSent, Waiting
      <4>2. QED  BY <2>9, <4>1 DEF AskedSent, InDialogue, Handshaking
    <3>2. QED  BY <2>9, <3>1 DEF AskedSent, InDialogue, Handshaking, Driving
  <2>10. ASSUME ReadUnexpected  PROVE InDialogue'
    BY <2>10 DEF ReadUnexpected, InDialogue, Handshaking, Driving
  <2>11. ASSUME ReadRequest  PROVE InDialogue'
    <3>1. asked # "NEWKEYS"
      BY <2>11, NoRequestUnderway DEF ReadRequest
    <3>2. chain' = <<"REQUEST_FAILURE">> /\ held' = << >> /\ ~gate'
      BY <2>11 DEF ReadRequest, Send, InDialogue, Handshaking
    <3>3. QED  BY <2>11, <3>1, <3>2 DEF ReadRequest, InDialogue, Handshaking, Driving
  <2>12. ASSUME RefusalSent  PROVE InDialogue'
    <3>1. chain = << >>
      <4>1. chain # <<"REQUEST_FAILURE">>
        BY <2>12 DEF RefusalSent, Waiting
      <4>2. QED  BY <2>12, <4>1 DEF RefusalSent, InDialogue, Handshaking
    <3>2. QED  BY <2>12, <3>1 DEF RefusalSent, InDialogue, Handshaking, Driving
  <2>13. ASSUME Broken  PROVE InDialogue'
    BY <1>2, <2>13 DEF Broken
  <2>14. ASSUME NEW accepted \in BOOLEAN, Trusted(accepted)  PROVE InDialogue'
    BY <1>1, <1>2, <2>14 DEF Trusted
  <2>15. QED
    BY <1>3, <2>1, <2>2, <2>3, <2>4, <2>5, <2>6, <2>7, <2>8, <2>9, <2>10, <2>11, <2>12, <2>13, <2>14
       DEF Dialogue
<1>4. ASSUME Loop, UNCHANGED dialogue  PROVE InDialogue'
  <2>1. /\ asked' = "open" /\ pc' \in {"recv", "recvReply", "recvNewkeys", "sendFailure",
            "sendKexInit", "sendEcdhInit", "sendNewkeys", "ended"}
        /\ pc' \in Driving => gate'
    BY <1>4 DEF Loop, ReadLoop, ReceiveFails, ReadDisconnect, ReadChannelMessage, ReadGlobalRequest,
                BeginRekey, NegotiationFails, ReadReply, FailureSent, KexInitSent, EcdhInitSent,
                NewkeysSent, SendFails, ReadNewkeys, LoopEnds, Settled, InDialogue, Handshaking,
                Receiving, Sending, Driving
  <2>2. QED  BY <2>1 DEF InDialogue, Handshaking
<1>5. CASE Sends
  <2>1. chain = << >> \/ Len(chain) \in Nat
    BY DEF Types
  <2>2. ASSUME NEW p, chain = <<p>>  PROVE Tail(chain) = << >>
    BY <2>2
  <2>3. QED  BY <1>5, <2>2 DEF Sends, Transmit, Teardown, InDialogue, Handshaking, Driving
<1>6. CASE Opened
  <2>1. asked' = "open" /\ pc' = pc /\ (gate => gate')
    BY <1>6 DEF Opened, Client, SendData, Keepalive, RequestRekey, Disconnect, Disconnected
  <2>2. QED  BY <1>6, <2>1 DEF Opened, InDialogue, Handshaking, Driving
<1>7. CASE Reads \/ ServerAnswers \/ (ServerSpeaks /\ UNCHANGED dialogue)
           \/ (Lose /\ UNCHANGED dialogue) \/ UNCHANGED allVars
  BY <1>7 DEF Reads, ServerReads, ServerAnswers, ServerSpeaks, ServerSends, ServerRekeys, Lose, allVars, vars, InDialogue, Handshaking, Driving
<1>8. QED
  BY <1>3, <1>4, <1>5, <1>6, <1>7, RuntimeStep DEF Next

-----------------------------------------------------------------------------
(***************************************************************************)
(* The sending side.                                                       *)
(***************************************************************************)

LEMMA LastNewkeysTail ==
  ASSUME Types, chain # << >>, chain' = Tail(chain), LastNewkeys
  PROVE  IF Head(chain) = "NEWKEYS" THEN OnlyDisconnect' ELSE LastNewkeys'
<1>1. /\ Len(Tail(chain)) = Len(chain) - 1 /\ Len(chain) \in Nat \ {0} /\ Head(chain) = chain[1]
      /\ \A i \in 1..Len(Tail(chain)) : Tail(chain)[i] = chain[i + 1]
  BY DEF Types
<1>2. PICK k \in 1..Len(chain) :
        OnlyAt(k, "NEWKEYS", chain) /\ \A i \in (k + 1)..Len(chain) : chain[i] = "DISCONNECT"
  BY DEF LastNewkeys
<1>3. CASE Head(chain) = "NEWKEYS"
  <2>1. k = 1  BY <1>1, <1>2, <1>3 DEF OnlyAt
  <2>2. QED  BY <1>1, <1>2, <1>3, <2>1 DEF OnlyDisconnect
<1>4. CASE Head(chain) # "NEWKEYS"
  <2>1. k # 1  BY <1>1, <1>2, <1>4 DEF OnlyAt
  <2>2. k - 1 \in 1..Len(Tail(chain)) /\ OnlyAt(k - 1, "NEWKEYS", Tail(chain))
    BY <1>1, <1>2, <2>1 DEF OnlyAt
  <2>3. \A i \in k..Len(Tail(chain)) : Tail(chain)[i] = "DISCONNECT"
    BY <1>1, <1>2
  <2>4. QED  BY <1>4, <2>2, <2>3 DEF LastNewkeys
<1>5. QED  BY <1>3, <1>4

LEMMA LastNewkeysAppend ==
  ASSUME Types, chain' = Append(chain, "DISCONNECT")
  PROVE  (LastNewkeys => LastNewkeys') /\ (OnlyDisconnect => OnlyDisconnect')
<1>1. /\ Len(chain') = Len(chain) + 1 /\ Len(chain) \in Nat
      /\ \A i \in 1..Len(chain') : chain'[i] = IF i <= Len(chain) THEN chain[i] ELSE "DISCONNECT"
  BY DEF Types
<1>2. ASSUME NEW k \in 1..Len(chain), OnlyAt(k, "NEWKEYS", chain),
             \A i \in (k + 1)..Len(chain) : chain[i] = "DISCONNECT"
      PROVE  LastNewkeys'
  <2>1. k \in 1..Len(chain') /\ OnlyAt(k, "NEWKEYS", chain')
    BY <1>1, <1>2 DEF OnlyAt
  <2>2. \A i \in (k + 1)..Len(chain') : chain'[i] = "DISCONNECT"
    BY <1>1, <1>2
  <2>3. QED  BY <2>1, <2>2 DEF LastNewkeys
<1>3. QED  BY <1>1, <1>2 DEF LastNewkeys, OnlyDisconnect

\* No packet but NEWKEYS puts one in the chain.
LEMMA NoNewkeysSent ==
  ASSUME Types, NEW kind \in Packet \ {"NEWKEYS"}, Send(kind), No("NEWKEYS", chain)
  PROVE  No("NEWKEYS", chain')
<1>1. chain' = chain \/ chain' = Append(chain, kind)
  BY DEF Send
<1>2. No("NEWKEYS", Append(chain, kind))
  BY NoAppend DEF Types
<1>3. QED  BY <1>1, <1>2

\* What the gate held is not of the transport's kinds.
LEMMA NothingReleased ==
  ASSUME Types, CloseRekeyGate, NEW kind \in Packet \ Connection, No(kind, chain)
  PROVE  No(kind, chain')
<1>1. No(kind, held) /\ held \in Seq(Packet)
  BY Kinds DEF No, Types
<1>2. QED  BY <1>1, NoConcat DEF Types, CloseRekeyGate

LEMMA SendingDialogue ==
  ASSUME IInv, Dialogue \/ \E accepted \in BOOLEAN : Trusted(accepted)
  PROVE  SendingKeys'
<1> USE DEF IInv, sends, ciphers, closing, peer, counts, dialogue, Answered, DialogueKinds, Before, After
<1>1. pc \in {"recvAnswer", "trust"} => \A kind \in DialogueKinds : Ask(kind) =>
        chain' = <<kind>> /\ asked' = kind /\ pc' = "sendAsked"
  BY AskedOne
<1>2. Fail => SendingKeys'
  BY DEF Fail, SendingKeys
<1>3. ASSUME NEW found \in BOOLEAN, ReadIdentification(found)  PROVE SendingKeys'
  BY <1>1, <1>2, <1>3 DEF ReadIdentification, SendingKeys
<1>4. ASSUME NEW missing \in SUBSET Choices, ReadServerKexInit(Choices \ missing)  PROVE SendingKeys'
  BY <1>1, <1>2, <1>4 DEF ReadServerKexInit, SendingKeys
<1>5. ASSUME NEW signed, NEW hasCallback \in BOOLEAN, ReadHostKey(signed, hasCallback)
      PROVE  SendingKeys'
  BY <1>2, <1>5 DEF ReadHostKey, SendingKeys
<1>6. ASSUME ReadFirstNewkeys  PROVE SendingKeys'
  BY <1>1, <1>6 DEF ReadFirstNewkeys, BuildCiphers, NextKeys, SendingKeys
<1>7. ASSUME NEW credentials, ReadServiceAccept(credentials)  PROVE SendingKeys'
  BY <1>1, <1>2, <1>7 DEF ReadServiceAccept, SendingKeys
<1>8. ASSUME ReadAuthResult  PROVE SendingKeys'
  BY <1>1, <1>2, <1>8 DEF ReadAuthResult, SendingKeys
<1>9. ASSUME ReadChannelOpened  PROVE SendingKeys'
  BY <1>1, <1>2, <1>9 DEF ReadChannelOpened, SendingKeys
<1>10. ASSUME ReadSubsystem  PROVE SendingKeys'
  <2>1. Fail \/ (pc = "recvAnswer" /\ asked = "CHANNEL_REQUEST" /\ asked' = "open" /\ pc' = "recv"
                 /\ UNCHANGED <<chain, c2sCipher, newkeys>>)
    BY <1>10 DEF ReadSubsystem
  <2>2. pc = "recvAnswer" => No("NEWKEYS", chain)
    BY DEF InDialogue, Handshaking, No
  <2>3. QED  BY <1>2, <2>1, <2>2 DEF SendingKeys
<1>11. ASSUME AskedSent  PROVE SendingKeys'
  <2>1. chain = << >> /\ asked # "open"
    <3>1. chain # <<asked>>
      BY <1>11 DEF AskedSent, Waiting
    <3>2. QED  BY <1>11, <3>1 DEF AskedSent, InDialogue, Handshaking
  <2>2. QED  BY <1>11, <2>1 DEF AskedSent, SendingKeys
<1>12. ASSUME ReadUnexpected  PROVE SendingKeys'
  BY <1>12 DEF ReadUnexpected, SendingKeys
<1>13. ASSUME ReadRequest  PROVE SendingKeys'
  BY <1>13, NoRequestUnderway DEF ReadRequest, InDialogue, Handshaking, SendingKeys
<1>14. ASSUME RefusalSent  PROVE SendingKeys'
  BY <1>14 DEF RefusalSent, InDialogue, Handshaking, SendingKeys
<1>15. ASSUME Broken  PROVE SendingKeys'
  BY <1>2, <1>15 DEF Broken
<1>16. ASSUME NEW accepted \in BOOLEAN, Trusted(accepted)  PROVE SendingKeys'
  BY <1>1, <1>2, <1>16 DEF Trusted, InDialogue, SendingKeys
<1>17. QED
  BY <1>3, <1>4, <1>5, <1>6, <1>7, <1>8, <1>9, <1>10, <1>11, <1>12, <1>13, <1>14, <1>15, <1>16
     DEF Dialogue

LEMMA SendingLoop ==
  ASSUME IInv, Loop, UNCHANGED dialogue
  PROVE  SendingKeys'
<1> USE DEF IInv, sends, ciphers, closing, peer, counts, dialogue, store
<1>1. asked = "open" /\ asked' = "open"
  BY DEF Loop, ReadLoop, ReceiveFails, ReadDisconnect, ReadChannelMessage, ReadGlobalRequest,
         BeginRekey, NegotiationFails, ReadReply, FailureSent, KexInitSent, EcdhInitSent,
         NewkeysSent, SendFails, ReadNewkeys, Settled, InDialogue, Handshaking,
         Receiving, Sending
<1>2. pc \in States \ {"failed"}
  BY <1>1 DEF InDialogue, Types
<1>3. \/ ~up
      \/ pc # "sendNewkeys" /\ No("NEWKEYS", chain) /\ newkeys = c2sCipher
      \/ pc = "sendNewkeys" /\ LastNewkeys /\ newkeys = c2sCipher
      \/ pc = "sendNewkeys" /\ OnlyDisconnect /\ newkeys = c2sCipher + 1
  BY <1>1, <1>2 DEF SendingKeys, Before, After
\* With the stream closed there is nothing more to show.
<1>4. up' => up
  BY DEF Loop, ReadLoop, ReceiveFails, ReadDisconnect, ReadChannelMessage, ReadGlobalRequest,
         BeginRekey, NegotiationFails, ReadReply, FailureSent, KexInitSent, EcdhInitSent,
         NewkeysSent, SendFails, ReadNewkeys, LoopEnds, Teardown
<1>5. CASE ~up
  BY <1>1, <1>4, <1>5 DEF SendingKeys
<1> DEFINE Free     == pc # "sendNewkeys" /\ No("NEWKEYS", chain) /\ newkeys = c2sCipher
           FreeNext == pc' # "sendNewkeys" /\ No("NEWKEYS", chain') /\ newkeys' = c2sCipher'
<1>6. FreeNext => SendingKeys'
  BY <1>1 DEF SendingKeys
<1>7. up /\ pc # "sendNewkeys" => Free
  BY <1>3
<1>8. CASE up
  <2>1. \A kind \in {"REQUEST_FAILURE", "KEXINIT", "ECDH_INIT"} :
          Send(kind) /\ No("NEWKEYS", chain) => No("NEWKEYS", chain')
    <3>1. {"REQUEST_FAILURE", "KEXINIT", "ECDH_INIT"} \subseteq Packet \ {"NEWKEYS"}
      BY DEF Packet, Transport, Connection
    <3>2. QED  BY <3>1, NoNewkeysSent
  <2>2. CloseRekeyGate /\ No("NEWKEYS", chain) => No("NEWKEYS", chain')
    <3>1. "NEWKEYS" \in Packet \ Connection
      BY DEF Packet, Transport, Connection
    <3>2. QED  BY <3>1, NothingReleased
  <2>3. ASSUME LoopEnds, pc \in Receiving  PROVE FreeNext
    BY <1>7, <1>8, <2>2, <2>3 DEF Loop, LoopEnds, Receiving
  <2>4. CASE ReceiveFails \/ SendFails
    BY <1>8, <2>4 DEF ReceiveFails, SendFails
  <2>5. CASE ReadDisconnect
    BY <1>6, <2>3, <2>5 DEF ReadDisconnect
  <2>6. CASE ReadChannelMessage
    BY <1>6, <1>7, <1>8, <2>6 DEF ReadChannelMessage, Receiving
  <2>7. CASE ReadGlobalRequest
    BY <1>6, <1>7, <1>8, <2>1, <2>7 DEF ReadGlobalRequest, Receiving
  <2>8. CASE BeginRekey
    BY <1>6, <1>7, <1>8, <2>1, <2>8 DEF BeginRekey
  <2>9. CASE NegotiationFails
    BY <1>6, <1>7, <1>8, <2>2, <2>9 DEF NegotiationFails
  <2>10. ASSUME NEW accepted \in BOOLEAN, ReadReply(accepted)  PROVE SendingKeys'
    <3>1. CASE accepted
      <4>1. gate' /\ Send("NEWKEYS") /\ pc' = "sendNewkeys" /\ UNCHANGED <<c2sCipher, newkeys>>
        BY <2>10, <3>1 DEF ReadReply, InDialogue, Driving
      <4>2. Free
        BY <1>7, <1>8, <2>10 DEF ReadReply
      <4>3. "NEWKEYS" \in Packet \ Connection
        BY DEF Packet, Transport, Connection
      <4>4. chain' = Append(chain, "NEWKEYS")
        BY <4>1, <4>3 DEF Send
      <4>5. Len(chain) + 1 \in 1..Len(chain') /\ OnlyAt(Len(chain) + 1, "NEWKEYS", chain')
        BY <4>2, <4>3, <4>4, OneAppended DEF Types
      <4>6. \A i \in (Len(chain) + 1 + 1)..Len(chain') : chain'[i] = "DISCONNECT"
        BY <4>3, <4>4 DEF Types
      <4>7. LastNewkeys'
        BY <4>5, <4>6 DEF LastNewkeys
      <4>8. QED  BY <1>1, <4>1, <4>2, <4>7 DEF SendingKeys
    <3>2. CASE ~accepted
      BY <1>6, <2>3, <2>10, <3>2 DEF ReadReply, Receiving
    <3>3. QED  BY <3>1, <3>2
  <2>11. CASE FailureSent
    BY <1>6, <1>7, <1>8, <2>11 DEF FailureSent
  <2>12. CASE KexInitSent
    BY <1>6, <1>7, <1>8, <2>1, <2>12 DEF KexInitSent
  <2>13. CASE EcdhInitSent
    BY <1>6, <1>7, <1>8, <2>13 DEF EcdhInitSent
  <2>14. CASE NewkeysSent
    <3>1. No("NEWKEYS", chain)
      BY <2>14 DEF NewkeysSent, Settled, OwnPacket, Waiting, No
    <3>2. ~LastNewkeys
      BY <3>1 DEF LastNewkeys, OnlyAt, No
    <3>3. newkeys = c2sCipher + 1
      BY <1>3, <1>8, <2>14, <3>2 DEF NewkeysSent
    <3>4. QED  BY <1>6, <2>14, <3>1, <3>3 DEF NewkeysSent
  <2>15. CASE ReadNewkeys
    BY <1>6, <1>7, <1>8, <2>2, <2>15 DEF ReadNewkeys
  <2>16. QED
    BY <2>4, <2>5, <2>6, <2>7, <2>8, <2>9, <2>10, <2>11, <2>12, <2>13, <2>14, <2>15, <1>6 DEF Loop, ReadLoop
<1>9. QED  BY <1>5, <1>8

LEMMA SendingStep ==
  ASSUME IInv, [Next]_allVars
  PROVE  SendingKeys'
<1> USE DEF IInv, sends, ciphers, closing, peer, counts, dialogue, store
<1>1. CASE Runtime \/ \E accepted \in BOOLEAN : Trusted(accepted)
  BY <1>1, RuntimeStep, SendingDialogue, SendingLoop
<1>2. CASE Sends
  <2>1. chain # << >> /\ chain' = Tail(chain) /\ (up' => up) /\ UNCHANGED <<pc, asked, c2sCipher>>
        /\ newkeys' = IF Head(chain) = "NEWKEYS" THEN newkeys + 1 ELSE newkeys
    BY <1>2 DEF Sends, Transmit, Teardown
  <2>2. CASE pc = "failed" \/ (asked = "open" /\ ~up)
    BY <2>1, <2>2 DEF SendingKeys
  <2>3. CASE asked # "open" /\ pc # "failed"
    <3>1. chain = <<asked>> \/ (chain = <<"REQUEST_FAILURE">> /\ asked # "NEWKEYS")
      BY <2>1, <2>3 DEF InDialogue, Handshaking, Types, States
    <3>2. Tail(chain) = << >> /\ Head(chain) \in {asked, "REQUEST_FAILURE"}
      <4>1. \A p : Tail(<<p>>) = << >> /\ Head(<<p>>) = p
        OBVIOUS
      <4>2. QED  BY <3>1, <4>1
    <3>3. asked = "NEWKEYS" => Head(chain) = "NEWKEYS"
      BY <3>1
    <3>4. QED  BY <2>1, <2>3, <3>1, <3>2, <3>3 DEF SendingKeys, Before, After, InDialogue, Handshaking
  <2>4. CASE asked = "open" /\ up
    <3>1. CASE No("NEWKEYS", chain) /\ pc # "sendNewkeys" /\ newkeys = c2sCipher
      <4>1. No("NEWKEYS", chain') /\ Head(chain) # "NEWKEYS"
        BY <2>1, <3>1, NoTail DEF Types
      <4>2. QED  BY <2>1, <2>4, <3>1, <4>1 DEF SendingKeys
    <3>2. CASE LastNewkeys /\ pc = "sendNewkeys" /\ newkeys = c2sCipher
      BY <2>1, <2>4, <3>2, LastNewkeysTail DEF SendingKeys
    <3>3. CASE OnlyDisconnect /\ pc = "sendNewkeys" /\ newkeys = c2sCipher + 1
      <4>1. OnlyDisconnect' /\ Head(chain) = "DISCONNECT"
        <5>1. /\ Len(Tail(chain)) = Len(chain) - 1 /\ Len(chain) \in Nat \ {0} /\ Head(chain) = chain[1]
              /\ \A i \in 1..Len(Tail(chain)) : Tail(chain)[i] = chain[i + 1]
          BY <2>1 DEF Types
        <5>2. QED  BY <2>1, <3>3, <5>1 DEF OnlyDisconnect
      <4>2. QED  BY <2>1, <2>4, <3>3, <4>1 DEF SendingKeys
    <3>4. pc # "failed"
      BY <2>4 DEF InDialogue
    <3>5. QED  BY <2>4, <3>1, <3>2, <3>3, <3>4 DEF SendingKeys, Before, After
  <2>5. QED  BY <2>2, <2>3, <2>4
<1>3. CASE Opened
  <2>1. asked = "open" /\ asked' = "open" /\ pc' = pc /\ (up' => up) /\ UNCHANGED <<c2sCipher, newkeys>>
    BY <1>3 DEF Opened, Client, SendData, Keepalive, RequestRekey, Disconnect, Disconnected
  <2>2. pc # "failed"
    BY <2>1 DEF InDialogue
  <2>3. \/ chain' = chain
        \/ chain' = Append(chain, "DISCONNECT")
        \/ ~gate /\ \E kind \in {"DATA", "GLOBAL_REQUEST", "KEXINIT"} : chain' = Append(chain, kind)
    BY <1>3 DEF Opened, Client, SendData, Keepalive, RequestRekey, Disconnect, Disconnected, Send,
                Connection
  <2>4. CASE ~up
    BY <2>1, <2>4 DEF SendingKeys
  <2>5. CASE up /\ pc # "sendNewkeys"
    <3>1. No("NEWKEYS", chain) /\ newkeys = c2sCipher
      BY <2>1, <2>2, <2>5 DEF SendingKeys, Before, After
    <3>2. \A kind \in {"DATA", "GLOBAL_REQUEST", "KEXINIT", "DISCONNECT"} :
            No("NEWKEYS", Append(chain, kind))
      <4>1. {"DATA", "GLOBAL_REQUEST", "KEXINIT", "DISCONNECT"} \subseteq Packet \ {"NEWKEYS"}
        BY DEF Packet, Transport, Connection
      <4>2. QED  BY <3>1, <4>1, NoAppend DEF Types
    <3>3. No("NEWKEYS", chain')
      BY <2>3, <3>1, <3>2
    <3>4. QED  BY <2>1, <2>5, <3>1, <3>3 DEF SendingKeys
  <2>6. CASE up /\ pc = "sendNewkeys"
    <3>1. chain' = chain \/ chain' = Append(chain, "DISCONNECT")
      BY <2>3, <2>6 DEF InDialogue, Driving
    <3>2. (LastNewkeys => LastNewkeys') /\ (OnlyDisconnect => OnlyDisconnect')
      BY <3>1, LastNewkeysAppend DEF LastNewkeys, OnlyDisconnect
    <3>3. QED  BY <2>1, <2>6, <3>2 DEF SendingKeys, Before, After
  <2>7. QED  BY <2>4, <2>5, <2>6
<1>4. CASE Reads \/ ServerAnswers \/ (ServerSpeaks /\ UNCHANGED dialogue)
           \/ (Lose /\ UNCHANGED dialogue) \/ UNCHANGED allVars
  <2>1. UNCHANGED <<chain, pc, asked, c2sCipher, newkeys>> /\ (up' => up)
    BY <1>4 DEF Reads, ServerReads, ServerAnswers, ServerSpeaks, ServerSends, ServerRekeys, Lose,
                allVars, vars
  <2>2. QED  BY <2>1 DEF SendingKeys, LastNewkeys, OnlyDisconnect
<1>5. QED
  BY <1>1, <1>2, <1>3, <1>4 DEF Next

-----------------------------------------------------------------------------
(***************************************************************************)
(* The receiving side: what is under way from the server.                  *)
(***************************************************************************)
LEMMA UnderwayHead ==
  ASSUME Types, s2c # << >>
  PROVE  /\ Quiet \/ InFlight => Head(s2c)[2] = s2cCipher
         /\ Quiet => Head(s2c)[1] \notin {"NEWKEYS", "ECDH_REPLY"}
         /\ Replied => Head(s2c)[1] # "NEWKEYS"
<1>1. Len(s2c) \in Nat \ {0} /\ Head(s2c) = s2c[1] /\ 1 \in 1..Len(s2c)
  BY DEF Types
<1>2. ASSUME InFlight  PROVE Head(s2c)[2] = s2cCipher
  BY <1>1, <1>2 DEF InFlight
<1>3. ASSUME Replied, Head(s2c)[1] = "NEWKEYS"  PROVE FALSE
  <2>1. PICK k \in 1..Len(s2c) : \A i \in 1..Len(s2c) :
          /\ s2c[i][1] = "NEWKEYS" <=> i = k
          /\ s2c[i][1] = "ECDH_REPLY" => i < k
    BY <1>3 DEF Replied, InFlight
  <2>2. k = 1
    BY <1>1, <1>3, <2>1
  <2>3. QED  BY <1>1, <1>3, <2>1, <2>2 DEF Replied
<1>4. QED  BY <1>1, <1>2, <1>3 DEF Quiet

LEMMA UnderwayRead ==
  ASSUME Types, s2c # << >>, s2c' = Tail(s2c), Head(s2c)[1] # "NEWKEYS",
         UNCHANGED <<s2cCipher, sealed>>
  PROVE  /\ Quiet => Quiet'
         /\ InFlight => InFlight'
         /\ Replied /\ Head(s2c)[1] # "ECDH_REPLY" => Replied'
<1>1. /\ Len(s2c') = Len(s2c) - 1 /\ Len(s2c) \in Nat \ {0} /\ Head(s2c) = s2c[1]
      /\ \A i \in 1..Len(s2c') : s2c'[i] = s2c[i + 1]
  BY DEF Types
<1>2. Quiet => Quiet'
  BY <1>1 DEF Quiet
<1>3. ASSUME InFlight  PROVE InFlight'
  <2>1. PICK k \in 1..Len(s2c) : \A i \in 1..Len(s2c) :
          /\ s2c[i][1] = "NEWKEYS" <=> i = k
          /\ s2c[i][1] = "ECDH_REPLY" => i < k
          /\ s2c[i][2] = IF i <= k THEN s2cCipher ELSE s2cCipher + 1
    BY <1>3 DEF InFlight
  <2>2. k # 1
    BY <1>1, <2>1
  <2>3. k - 1 \in 1..Len(s2c')
    BY <1>1, <2>2
  <2>4. \A i \in 1..Len(s2c') :
          /\ s2c'[i][1] = "NEWKEYS" <=> i = k - 1
          /\ s2c'[i][1] = "ECDH_REPLY" => i < k - 1
          /\ s2c'[i][2] = IF i <= k - 1 THEN s2cCipher ELSE s2cCipher + 1
    <3>1. TAKE i \in 1..Len(s2c')
    <3>2. i + 1 \in 1..Len(s2c) /\ s2c'[i] = s2c[i + 1]
      BY <1>1
    <3>3. QED  BY <2>1, <3>2
  <2>5. QED  BY <1>3, <2>3, <2>4 DEF InFlight
<1>4. ASSUME Replied, Head(s2c)[1] # "ECDH_REPLY"  PROVE Replied'
  <2>1. PICK i \in 1..Len(s2c) : s2c[i][1] = "ECDH_REPLY"
    BY <1>4 DEF Replied
  <2>2. i - 1 \in 1..Len(s2c') /\ s2c'[i - 1] = s2c[i]
    BY <1>1, <1>4, <2>1
  <2>3. QED  BY <1>3, <1>4, <2>1, <2>2 DEF Replied
<1>5. QED  BY <1>2, <1>3, <1>4

LEMMA UnderwaySent ==
  ASSUME Types, NEW kind \in Packet \ {"NEWKEYS", "ECDH_REPLY"}, s2c' = Append(s2c, Seal(kind)),
         UNCHANGED <<s2cCipher, sealed>>
  PROVE  (Quiet => Quiet') /\ (InFlight => InFlight') /\ (Replied => Replied')
<1>1. /\ Len(s2c') = Len(s2c) + 1 /\ Len(s2c) \in Nat
      /\ \A i \in 1..Len(s2c) : s2c'[i] = s2c[i]
      /\ s2c'[Len(s2c) + 1] = <<kind, sealed>>
  BY DEF Types, Seal
<1>2. \A i \in 1..Len(s2c') : i \in 1..Len(s2c) \/ i = Len(s2c) + 1
  BY <1>1
<1>3. ASSUME Quiet  PROVE Quiet'
  BY <1>1, <1>2, <1>3 DEF Quiet
<1>4. ASSUME InFlight  PROVE InFlight'
  <2>1. PICK k \in 1..Len(s2c) : \A i \in 1..Len(s2c) :
          /\ s2c[i][1] = "NEWKEYS" <=> i = k
          /\ s2c[i][1] = "ECDH_REPLY" => i < k
          /\ s2c[i][2] = IF i <= k THEN s2cCipher ELSE s2cCipher + 1
    BY <1>4 DEF InFlight
  <2>2. k \in 1..Len(s2c') /\ k # Len(s2c) + 1 /\ ~(Len(s2c) + 1 <= k)
    BY <1>1
  <2>3. \A i \in 1..Len(s2c') :
          /\ s2c'[i][1] = "NEWKEYS" <=> i = k
          /\ s2c'[i][1] = "ECDH_REPLY" => i < k
          /\ s2c'[i][2] = IF i <= k THEN s2cCipher ELSE s2cCipher + 1
    <3>1. TAKE i \in 1..Len(s2c')
    <3>2. CASE i \in 1..Len(s2c)
      BY <1>1, <2>1, <3>2
    <3>3. CASE i = Len(s2c) + 1
      <4>1. s2c'[i][1] = kind /\ s2c'[i][2] = sealed
        BY <1>1, <3>3
      <4>2. QED  BY <1>4, <2>2, <3>3, <4>1 DEF InFlight
    <3>4. QED  BY <1>2, <3>2, <3>3
  <2>4. QED  BY <1>4, <2>2, <2>3 DEF InFlight
<1>5. ASSUME Replied  PROVE Replied'
  <2>1. PICK i \in 1..Len(s2c) : s2c[i][1] = "ECDH_REPLY"
    BY <1>5 DEF Replied
  <2>2. i \in 1..Len(s2c') /\ s2c'[i][1] = "ECDH_REPLY"
    BY <1>1, <2>1
  <2>3. QED  BY <1>4, <1>5, <2>2 DEF Replied
<1>6. QED  BY <1>3, <1>4, <1>5

LEMMA ReplySent ==
  ASSUME Types, Quiet, s2c' = s2c \o <<Seal("ECDH_REPLY"), Seal("NEWKEYS")>>,
         sealed' = sealed + 1, s2cCipher' = s2cCipher
  PROVE  Replied'
<1> DEFINE n == Len(s2c)
<1>1. /\ n \in Nat /\ Len(s2c') = n + 2
      /\ \A i \in 1..n : s2c'[i] = s2c[i]
      /\ s2c'[n + 1] = <<"ECDH_REPLY", sealed>> /\ s2c'[n + 2] = <<"NEWKEYS", sealed>>
  BY DEF Types, Seal
<1>2. \A i \in 1..Len(s2c') : i \in 1..n \/ i = n + 1 \/ i = n + 2
  BY <1>1
<1>3. n + 2 \in 1..Len(s2c') /\ n + 1 \in 1..Len(s2c') /\ \A i \in 1..n : i < n + 2
  BY <1>1
<1> HIDE DEF n
<1>4. \A i \in 1..Len(s2c') :
        /\ s2c'[i][1] = "NEWKEYS" <=> i = n + 2
        /\ s2c'[i][1] = "ECDH_REPLY" => i < n + 2
        /\ s2c'[i][2] = IF i <= n + 2 THEN s2cCipher ELSE s2cCipher + 1
  <2>1. TAKE i \in 1..Len(s2c')
  <2>2. CASE i \in 1..n
    <3>1. s2c'[i] = s2c[i] /\ i \in 1..Len(s2c)
      BY <1>1, <2>2 DEF n
    <3>2. s2c'[i][1] \notin {"NEWKEYS", "ECDH_REPLY"} /\ s2c'[i][2] = s2cCipher
      BY <3>1 DEF Quiet
    <3>3. i # n + 2 /\ i <= n + 2
      BY <1>1, <2>2
    <3>4. QED  BY <3>2, <3>3
  <2>3. CASE i = n + 1
    <3>1. s2c'[i] = <<"ECDH_REPLY", s2cCipher>>
      BY <1>1, <2>3 DEF Quiet
    <3>2. i # n + 2 /\ i <= n + 2 /\ i < n + 2
      BY <1>1, <2>3
    <3>3. QED  BY <3>1, <3>2
  <2>4. CASE i = n + 2
    <3>1. s2c'[i] = <<"NEWKEYS", s2cCipher>>
      BY <1>1, <2>4 DEF Quiet
    <3>2. i <= n + 2
      BY <1>1, <2>4
    <3>3. QED  BY <2>4, <3>1, <3>2
  <2>5. QED  BY <1>2, <2>2, <2>3, <2>4
<1>5. InFlight'
  BY <1>3, <1>4 DEF InFlight, Quiet
<1>6. QED  BY <1>1, <1>3, <1>5 DEF Replied

LEMMA NewkeysRead ==
  ASSUME Types, InFlight, s2c # << >>, Head(s2c)[1] = "NEWKEYS", s2c' = Tail(s2c),
         s2cCipher' = s2cCipher + 1, sealed' = sealed
  PROVE  Quiet'
<1>1. /\ Len(s2c') = Len(s2c) - 1 /\ Len(s2c) \in Nat \ {0} /\ Head(s2c) = s2c[1]
      /\ \A i \in 1..Len(s2c') : s2c'[i] = s2c[i + 1]
  BY DEF Types
<1>2. PICK k \in 1..Len(s2c) : \A i \in 1..Len(s2c) :
        /\ s2c[i][1] = "NEWKEYS" <=> i = k
        /\ s2c[i][1] = "ECDH_REPLY" => i < k
        /\ s2c[i][2] = IF i <= k THEN s2cCipher ELSE s2cCipher + 1
  BY DEF InFlight
<1>3. k = 1
  BY <1>1, <1>2
<1>4. \A i \in 1..Len(s2c') : s2c'[i][1] \notin {"NEWKEYS", "ECDH_REPLY"} /\ s2c'[i][2] = s2cCipher + 1
  <2>1. TAKE i \in 1..Len(s2c')
  <2>2. i + 1 \in 1..Len(s2c) /\ i + 1 # 1 /\ ~(i + 1 < 1) /\ ~(i + 1 <= 1) /\ s2c'[i] = s2c[i + 1]
    BY <1>1
  <2>3. QED  BY <1>2, <1>3, <2>2
<1>5. QED  BY <1>4 DEF Quiet, InFlight

(***************************************************************************)
(* The receiving side: where the ECDH_INIT of an exchange is.              *)
(***************************************************************************)

\* A step that leaves the phase of the exchange as it is.
LEMMA SamePhase ==
  ASSUME ReceivingKeys, UNCHANGED <<pc, asked, s2cCipher>>,
         Idle => Idle', Asking => Asking', Changing => Changing'
  PROVE  ReceivingKeys'
  BY DEF ReceivingKeys

\* What is not an ECDH_INIT joins the chain, or nothing.
LEMMA ChainGrows ==
  ASSUME Types, NEW kind \in Packet \ {"ECDH_INIT"}, chain' \in {chain, Append(chain, kind)},
         UNCHANGED <<c2s, s2c, s2cCipher, sealed>>, up' => up
  PROVE  (Idle => Idle') /\ (Asking => Asking') /\ (Changing => Changing') /\ (NoInit => NoInit')
<1>1. No("ECDH_INIT", chain) => No("ECDH_INIT", chain')
  BY NoAppend DEF Types
<1>2. One("ECDH_INIT", chain) => One("ECDH_INIT", chain')
  BY OneAppend DEF Types
<1>3. (Quiet => Quiet') /\ (InFlight => InFlight') /\ (Replied => Replied')
  BY DEF Quiet, InFlight, Replied
<1>4. NoInit => NoInit'
  BY <1>1 DEF NoInit
<1>5. QED  BY <1>1, <1>2, <1>3, <1>4 DEF Idle, Asking, Changing

\* The ECDH_INIT leaves the chain for the connection, or is lost with it.
LEMMA ChainShrinks ==
  ASSUME Types, Transmit
  PROVE  (Idle => Idle') /\ (Asking => Asking') /\ (Changing => Changing')
<1>1. /\ chain # << >> /\ chain' = Tail(chain) /\ Head(chain) \in Packet
      /\ UNCHANGED <<s2c, s2cCipher, sealed>>
      /\ (up /\ c2s' = Append(c2s, Head(chain))) \/ (~up /\ c2s' = c2s /\ ~up')
  BY DEF Types, Transmit, Teardown, ciphers, peer, closing
<1>2. (Quiet => Quiet') /\ (InFlight => InFlight') /\ (Replied => Replied')
  BY <1>1 DEF Quiet, InFlight, Replied
<1>3. No("ECDH_INIT", chain) => No("ECDH_INIT", chain') /\ Head(chain) # "ECDH_INIT"
  BY <1>1, NoTail DEF Types
<1>4. One("ECDH_INIT", chain) =>
        IF Head(chain) = "ECDH_INIT" THEN No("ECDH_INIT", chain') ELSE One("ECDH_INIT", chain')
  BY <1>1, OneTail DEF Types
<1>5. Head(chain) # "ECDH_INIT" =>
        (No("ECDH_INIT", c2s) => No("ECDH_INIT", c2s')) /\ (One("ECDH_INIT", c2s) => One("ECDH_INIT", c2s'))
  BY <1>1, NoAppend, OneAppend DEF Types
<1>6. Head(chain) = "ECDH_INIT" /\ No("ECDH_INIT", c2s) =>
        IF up THEN One("ECDH_INIT", c2s') ELSE No("ECDH_INIT", c2s') /\ ~up'
  BY <1>1, OneAppended DEF Types
<1>7. NoInit => NoInit'
  BY <1>3, <1>5 DEF NoInit
<1>8. ASSUME Asking  PROVE Asking'
  <2>1. CASE One("ECDH_INIT", chain) /\ No("ECDH_INIT", c2s) /\ Quiet
    BY <1>2, <1>4, <1>5, <1>6, <2>1 DEF Asking, NoInit
  <2>2. CASE No("ECDH_INIT", chain) /\ One("ECDH_INIT", c2s) /\ Quiet
    BY <1>2, <1>3, <1>5, <2>2 DEF Asking
  <2>3. CASE NoInit /\ Replied
    BY <1>2, <1>7, <2>3 DEF Asking
  <2>4. CASE NoInit /\ Quiet /\ ~up
    BY <1>1, <1>2, <1>7, <2>4 DEF Asking
  <2>5. QED  BY <1>8, <2>1, <2>2, <2>3, <2>4 DEF Asking
<1>9. QED  BY <1>2, <1>7, <1>8 DEF Idle, Changing

\* The server takes a packet of the client's, and may say something.
LEMMA ServerTakes ==
  ASSUME Types, c2s # << >>, c2s' = Tail(c2s), UNCHANGED <<chain, up, s2cCipher>>,
         IF Head(c2s) = "ECDH_INIT"
         THEN /\ s2c' = s2c \o <<Seal("ECDH_REPLY"), Seal("NEWKEYS")>>
              /\ sealed' = sealed + 1
         ELSE /\ \/ s2c' = s2c
                 \/ \E kind \in Packet \ {"NEWKEYS", "ECDH_REPLY"} : s2c' = Append(s2c, Seal(kind))
              /\ sealed' = sealed
  PROVE  (Idle => Idle') /\ (Asking => Asking') /\ (Changing => Changing')
<1>1. No("ECDH_INIT", c2s) => No("ECDH_INIT", c2s') /\ Head(c2s) # "ECDH_INIT"
  BY NoTail DEF Types
<1>2. One("ECDH_INIT", c2s) =>
        IF Head(c2s) = "ECDH_INIT" THEN No("ECDH_INIT", c2s') ELSE One("ECDH_INIT", c2s')
  BY OneTail DEF Types
<1>3. NoInit => NoInit' /\ Head(c2s) # "ECDH_INIT"
  BY <1>1 DEF NoInit
<1>4. Head(c2s) # "ECDH_INIT" =>
        (Quiet => Quiet') /\ (InFlight => InFlight') /\ (Replied => Replied')
  <2>1. SUFFICES ASSUME Head(c2s) # "ECDH_INIT"
                 PROVE  (Quiet => Quiet') /\ (InFlight => InFlight') /\ (Replied => Replied')
    OBVIOUS
  <2>2. CASE s2c' = s2c
    BY <2>1, <2>2 DEF Quiet, InFlight, Replied
  <2>3. CASE \E kind \in Packet \ {"NEWKEYS", "ECDH_REPLY"} : s2c' = Append(s2c, Seal(kind))
    BY <2>1, <2>3, UnderwaySent
  <2>4. QED  BY <2>1, <2>2, <2>3
<1>5. Head(c2s) = "ECDH_INIT" /\ Quiet => Replied'
  BY ReplySent
<1>6. ASSUME Asking  PROVE Asking'
  <2>1. CASE One("ECDH_INIT", chain) /\ No("ECDH_INIT", c2s) /\ Quiet
    <3>1. One("ECDH_INIT", chain')
      BY <2>1
    <3>2. QED  BY <1>1, <1>4, <2>1, <3>1 DEF Asking
  <2>2. CASE No("ECDH_INIT", chain) /\ One("ECDH_INIT", c2s) /\ Quiet
    <3>1. No("ECDH_INIT", chain')
      BY <2>2
    <3>2. QED  BY <1>2, <1>4, <1>5, <2>2, <3>1 DEF Asking, NoInit
  <2>3. CASE NoInit /\ Replied
    BY <1>3, <1>4, <2>3 DEF Asking
  <2>4. CASE NoInit /\ Quiet /\ ~up
    BY <1>3, <1>4, <2>4 DEF Asking
  <2>5. QED  BY <1>6, <2>1, <2>2, <2>3, <2>4 DEF Asking
<1>7. QED  BY <1>3, <1>4, <1>6 DEF Idle, Changing

\* The client reads a packet that does not take the exchange any further.
LEMMA ClientReads ==
  ASSUME Types, s2c # << >>, s2c' = Tail(s2c), UNCHANGED <<c2s, s2cCipher, sealed, up>>,
         No("ECDH_INIT", chain) => No("ECDH_INIT", chain'),
         One("ECDH_INIT", chain) => One("ECDH_INIT", chain')
  PROVE  /\ Idle => Idle'
         /\ Head(s2c)[1] # "ECDH_REPLY" /\ Asking => Asking'
         /\ Head(s2c)[1] # "NEWKEYS" /\ Changing => Changing'
         /\ Head(s2c)[1] = "ECDH_REPLY" /\ Asking => Changing'
<1>1. Quiet => Head(s2c)[1] \notin {"NEWKEYS", "ECDH_REPLY"}
  BY UnderwayHead
<1>2. Replied => Head(s2c)[1] # "NEWKEYS"
  BY UnderwayHead
<1>3. Head(s2c)[1] # "NEWKEYS" => (Quiet => Quiet') /\ (InFlight => InFlight')
        /\ (Replied /\ Head(s2c)[1] # "ECDH_REPLY" => Replied')
  BY UnderwayRead
<1>4. NoInit => NoInit'
  BY DEF NoInit
<1>5. /\ One("ECDH_INIT", c2s) => One("ECDH_INIT", c2s')
      /\ No("ECDH_INIT", c2s) => No("ECDH_INIT", c2s')
  OBVIOUS
<1>6. Idle => Idle'
  BY <1>1, <1>3, <1>4 DEF Idle
<1>7. Head(s2c)[1] # "ECDH_REPLY" /\ Asking => Asking'
  BY <1>1, <1>2, <1>3, <1>4, <1>5 DEF Asking
<1>8. Head(s2c)[1] # "NEWKEYS" /\ Changing => Changing'
  BY <1>3, <1>4 DEF Changing
<1>9. Head(s2c)[1] = "ECDH_REPLY" /\ Asking => Changing'
  BY <1>1, <1>2, <1>3, <1>4 DEF Asking, Changing, Replied
<1>10. QED  BY <1>6, <1>7, <1>8, <1>9

LEMMA OnlyOne ==
  \A p, kind : p # kind => No(kind, <<p>>) /\ One(p, <<p>>) /\ ~One(kind, << >>)
<1>1. SUFFICES ASSUME NEW p, NEW kind, p # kind
               PROVE  No(kind, <<p>>) /\ One(p, <<p>>) /\ ~One(kind, << >>)
  OBVIOUS
<1>2. Len(<<p>>) = 1 /\ <<p>>[1] = p /\ Len(<< >>) = 0
  OBVIOUS
<1>3. 1 \in 1..Len(<<p>>) /\ OnlyAt(1, p, <<p>>)
  BY <1>2 DEF OnlyAt
<1>4. QED  BY <1>1, <1>2, <1>3 DEF No, One

LEMMA ReceivingDialogue ==
  ASSUME IInv, Dialogue \/ \E accepted \in BOOLEAN : Trusted(accepted)
  PROVE  ReceivingKeys'
<1> USE DEF IInv, sends, ciphers, closing, peer, counts, dialogue, Answered, DialogueKinds, Before, After
<1>1. pc \in {"recvAnswer", "trust"} => \A kind \in DialogueKinds : Ask(kind) =>
        chain' = <<kind>> /\ asked' = kind /\ pc' = "sendAsked"
  BY AskedOne
<1>2. Fail => ReceivingKeys'
  BY DEF Fail, ReceivingKeys
<1>3. pc \in {"recvAnswer", "trust"} => asked # "open" /\ chain = << >>
  BY DEF InDialogue, Handshaking
<1>4. ASSUME NEW kind \in DialogueKinds \ {"ECDH_INIT"}, Ask(kind), pc = "recvAnswer",
             NEW request, Receive(request), UNCHANGED <<c2s, s2cCipher, sealed>>, Idle
      PROVE  Idle'
  <2>1. chain' = <<kind>>
    BY <1>1, <1>4
  <2>2. No("ECDH_INIT", chain') /\ No("ECDH_INIT", c2s')
    BY <1>4, <2>1, OnlyOne DEF Idle, NoInit
  <2>3. Quiet'
    BY <1>4, UnderwayHead, UnderwayRead DEF Receive, Idle
  <2>4. QED  BY <2>2, <2>3 DEF Idle, NoInit
<1>5. ASSUME NEW found \in BOOLEAN, ReadIdentification(found)  PROVE ReceivingKeys'
  <2>1. CASE found
    <3>1. Idle /\ s2cCipher = 0
      BY <1>5 DEF ReadIdentification, ReceivingKeys
    <3>2. Idle'
      BY <1>4, <1>5, <2>1, <3>1 DEF ReadIdentification
    <3>3. QED  BY <1>1, <1>5, <2>1, <3>1, <3>2 DEF ReadIdentification, ReceivingKeys
  <2>2. CASE ~found
    BY <1>2, <1>5, <2>2 DEF ReadIdentification
  <2>3. QED  BY <2>1, <2>2
<1>6. ASSUME NEW missing \in SUBSET Choices, ReadServerKexInit(Choices \ missing)
      PROVE  ReceivingKeys'
  <2>1. CASE Ask("ECDH_INIT")
    <3>1. Idle /\ s2cCipher = 0 /\ pc = "recvAnswer" /\ UNCHANGED <<c2s, s2cCipher, sealed>>
          /\ Receive("KEXINIT")
      BY <1>6 DEF ReadServerKexInit, ReceivingKeys
    <3>2. chain' = <<"ECDH_INIT">> /\ asked' = "ECDH_INIT" /\ pc' = "sendAsked"
      BY <1>1, <2>1, <3>1
    <3>3. One("ECDH_INIT", chain')
      BY <3>2, OnlyOne
    <3>4. No("ECDH_INIT", c2s')
      BY <3>1 DEF Idle, NoInit
    <3>5. Quiet'
      BY <3>1, UnderwayHead, UnderwayRead DEF Receive, Idle
    <3>6. QED  BY <3>1, <3>2, <3>3, <3>4, <3>5 DEF Asking, ReceivingKeys
  <2>2. CASE Fail
    BY <1>2, <2>2
  <2>3. QED  BY <1>6, <2>1, <2>2 DEF ReadServerKexInit
<1>7. ASSUME NEW signed, NEW hasCallback \in BOOLEAN, ReadHostKey(signed, hasCallback)
      PROVE  ReceivingKeys'
  <2>1. CASE Fail
    BY <1>2, <2>1
  <2>2. CASE ~Fail
    <3>1. /\ pc' = "trust" /\ UNCHANGED <<chain, c2s, s2cCipher, sealed, up>>
          /\ s2c # << >> /\ s2c' = Tail(s2c) /\ Head(s2c)[1] = "ECDH_REPLY"
      BY <1>7, <2>2 DEF ReadHostKey, Receive
    <3>2. Asking /\ s2cCipher = 0
      BY <1>7 DEF ReadHostKey, ReceivingKeys
    <3>3. Changing'
      BY <3>1, <3>2, ClientReads
    <3>4. QED  BY <3>1, <3>2, <3>3 DEF ReceivingKeys
  <2>3. QED  BY <2>1, <2>2
<1>8. ASSUME NEW accepted \in BOOLEAN, Trusted(accepted)  PROVE ReceivingKeys'
  <2>1. CASE accepted
    <3>1. Changing /\ s2cCipher = 0 /\ pc = "trust" /\ UNCHANGED <<c2s, s2c, s2cCipher, sealed>>
      BY <1>8, <2>1 DEF Trusted, ReceivingKeys, InDialogue
    <3>2. chain' = <<"NEWKEYS">> /\ asked' = "NEWKEYS"
      BY <1>1, <1>8, <2>1 DEF Trusted
    <3>3. No("ECDH_INIT", chain') /\ No("ECDH_INIT", c2s')
      BY <3>1, <3>2, OnlyOne DEF Changing, NoInit
    <3>4. Changing'
      BY <3>1, <3>3 DEF Changing, NoInit, InFlight
    <3>5. QED  BY <3>1, <3>2, <3>4 DEF ReceivingKeys
  <2>2. CASE ~accepted
    BY <1>2, <1>8, <2>2 DEF Trusted
  <2>3. QED  BY <2>1, <2>2
<1>9. ASSUME ReadFirstNewkeys  PROVE ReceivingKeys'
  <2>1. /\ Changing /\ s2cCipher = 0 /\ pc = "recvAnswer" /\ UNCHANGED <<c2s, sealed>>
        /\ s2cCipher' = 1 /\ Receive("NEWKEYS")
    BY <1>9 DEF ReadFirstNewkeys, BuildCiphers, NextKeys, ReceivingKeys
  <2>2. chain' = <<"SERVICE_REQUEST">> /\ asked' = "SERVICE_REQUEST"
    BY <1>1, <1>9 DEF ReadFirstNewkeys
  <2>3. No("ECDH_INIT", chain') /\ No("ECDH_INIT", c2s')
    BY <2>1, <2>2, OnlyOne DEF Changing, NoInit
  <2>4. Quiet'
    BY <2>1, NewkeysRead DEF Changing, Receive
  <2>5. QED  BY <2>1, <2>2, <2>3, <2>4 DEF ReceivingKeys, Idle, NoInit
<1>10. ASSUME ReadServiceAccept("privateKey") \/ ReadServiceAccept("password")
              \/ ReadServiceAccept("none") \/ ReadAuthResult \/ ReadChannelOpened \/ ReadSubsystem
       PROVE  ReceivingKeys'
  <2>1. /\ Idle /\ s2cCipher = 1 /\ pc = "recvAnswer" /\ UNCHANGED <<c2s, s2cCipher, sealed, up>>
        /\ \E request : Receive(request)
    BY <1>10 DEF ReadServiceAccept, ReadAuthResult, ReadChannelOpened, ReadSubsystem, ReceivingKeys
  <2>2. CASE Fail
    BY <1>2, <2>2
  <2>3. CASE \E kind \in {"USERAUTH_REQUEST", "CHANNEL_OPEN", "CHANNEL_REQUEST"} : Ask(kind)
    <3>1. PICK kind \in {"USERAUTH_REQUEST", "CHANNEL_OPEN", "CHANNEL_REQUEST"} : Ask(kind)
      BY <2>3
    <3>2. Idle'
      BY <1>4, <2>1, <3>1
    <3>3. asked' = kind
      BY <1>1, <2>1, <3>1
    <3>4. QED  BY <2>1, <3>1, <3>2, <3>3 DEF ReceivingKeys
  <2>4. CASE asked' = "open" /\ pc' = "recv" /\ UNCHANGED chain
    <3>1. Idle'
      BY <2>1, <2>4, ClientReads DEF Receive
    <3>2. QED  BY <2>4, <3>1 DEF ReceivingKeys
  <2>5. QED
    BY <1>10, <2>2, <2>3, <2>4
       DEF ReadServiceAccept, ReadAuthResult, ReadChannelOpened, ReadSubsystem
<1>11. ASSUME AskedSent \/ RefusalSent  PROVE ReceivingKeys'
  <2>1. /\ pc \in Handshaking /\ pc' = "recvAnswer"
        /\ UNCHANGED <<asked, chain, c2s, s2c, s2cCipher, sealed, up>>
    BY <1>11 DEF AskedSent, RefusalSent, Handshaking
  <2>2. (Idle => Idle') /\ (Asking => Asking') /\ (Changing => Changing')
    BY <2>1 DEF Idle, Asking, Changing, NoInit, Quiet, InFlight, Replied
  <2>3. QED  BY <2>1, <2>2 DEF ReceivingKeys, InDialogue, Handshaking
<1>12. ASSUME ReadUnexpected  PROVE ReceivingKeys'
  <2>1. /\ s2c # << >> /\ s2c' = Tail(s2c) /\ Head(s2c)[1] \notin Expected
        /\ pc = "recvAnswer" /\ UNCHANGED <<pc, asked, chain, c2s, s2cCipher, sealed, up>>
    BY <1>12 DEF ReadUnexpected
  <2>2. /\ asked = "ECDH_INIT" => Head(s2c)[1] # "ECDH_REPLY"
        /\ asked = "NEWKEYS" => Head(s2c)[1] # "NEWKEYS"
    BY <2>1 DEF Expected
  <2>3. /\ Idle => Idle'
        /\ asked = "ECDH_INIT" /\ Asking => Asking'
        /\ asked = "NEWKEYS" /\ Changing => Changing'
    BY <2>1, <2>2, ClientReads
  <2>4. QED  BY <2>1, <2>3, <1>3 DEF ReceivingKeys
<1>13. ASSUME ReadRequest  PROVE ReceivingKeys'
  <2>1. /\ s2c # << >> /\ s2c' = Tail(s2c) /\ Head(s2c)[1] = "GLOBAL_REQUEST"
        /\ pc = "recvAnswer" /\ pc' = "sendRefusal" /\ UNCHANGED <<asked, c2s, s2cCipher, sealed, up>>
    BY <1>13 DEF ReadRequest, Receive
  <2>2. chain = << >> /\ chain' = <<"REQUEST_FAILURE">>
    BY <1>13, <2>1 DEF ReadRequest, Send, InDialogue, Handshaking
  <2>3. /\ No("ECDH_INIT", chain) => No("ECDH_INIT", chain')
        /\ One("ECDH_INIT", chain) => One("ECDH_INIT", chain')
    BY <2>2, OnlyOne
  <2>4. (Idle => Idle') /\ (Asking => Asking') /\ (Changing => Changing')
    BY <2>1, <2>3, ClientReads
  <2>5. QED  BY <2>1, <2>4, <1>3 DEF ReceivingKeys
<1>14. ASSUME Broken  PROVE ReceivingKeys'
  BY <1>2, <1>14 DEF Broken
<1>15. QED
  BY <1>5, <1>6, <1>7, <1>8, <1>9, <1>10, <1>11, <1>12, <1>13, <1>14 DEF Dialogue

LEMMA ReceivingLoop ==
  ASSUME IInv, Loop, UNCHANGED dialogue
  PROVE  ReceivingKeys'
<1> USE DEF IInv, sends, ciphers, closing, peer, counts, dialogue, store
<1>1. asked = "open" /\ asked' = "open" /\ pc \notin {"failed", "ended"}
  BY DEF Loop, ReadLoop, ReceiveFails, ReadDisconnect, ReadChannelMessage, ReadGlobalRequest,
         BeginRekey, NegotiationFails, ReadReply, FailureSent, KexInitSent, EcdhInitSent,
         NewkeysSent, SendFails, ReadNewkeys, Settled, InDialogue, Handshaking,
         Receiving, Sending
<1>2. /\ pc \in {"recv", "sendFailure", "sendKexInit"} => Idle
      /\ pc \in {"sendEcdhInit", "recvReply"} => Asking
      /\ pc \in {"sendNewkeys", "recvNewkeys"} => Changing
  BY <1>1 DEF ReceivingKeys, InDialogue, Handshaking, Before, After
<1>3. /\ pc' = "ended" => ReceivingKeys'
      /\ pc' \in {"recv", "sendFailure", "sendKexInit"} /\ Idle' => ReceivingKeys'
      /\ pc' \in {"sendEcdhInit", "recvReply"} /\ Asking' => ReceivingKeys'
      /\ pc' \in {"sendNewkeys", "recvNewkeys"} /\ Changing' => ReceivingKeys'
  BY <1>1 DEF ReceivingKeys
<1>4. ASSUME NEW kind \in {"REQUEST_FAILURE", "KEXINIT", "NEWKEYS"}, Send(kind)
      PROVE  chain' \in {chain, Append(chain, kind)} /\ kind \in Packet \ {"ECDH_INIT"}
             /\ (No("ECDH_INIT", chain) => No("ECDH_INIT", chain'))
             /\ (One("ECDH_INIT", chain) => One("ECDH_INIT", chain'))
  <2>1. kind \in Packet \ {"ECDH_INIT"}
    BY DEF Packet, Transport, Connection
  <2>2. chain' \in {chain, Append(chain, kind)}
    BY <1>4 DEF Send
  <2>3. QED  BY <2>1, <2>2, NoAppend, OneAppend DEF Types
<1>5. ASSUME Send("ECDH_INIT"), NoInit, Quiet', c2s' = c2s  PROVE Asking'
  <2>1. "ECDH_INIT" \in Packet \ Connection
    BY DEF Packet, Transport, Connection
  <2>2. chain' = Append(chain, "ECDH_INIT")
    BY <1>5, <2>1 DEF Send
  <2>3. One("ECDH_INIT", chain') /\ No("ECDH_INIT", c2s')
    BY <1>5, <2>1, <2>2, OneAppended DEF NoInit, Types
  <2>4. QED  BY <1>5, <2>3 DEF Asking
<1>6. CASE ReceiveFails \/ SendFails \/ ReadDisconnect \/ NegotiationFails
  BY <1>3, <1>6 DEF ReceiveFails, SendFails, ReadDisconnect, NegotiationFails, LoopEnds
<1>7. CASE ReadChannelMessage \/ ReadGlobalRequest
  <2>1. /\ pc \in Receiving /\ s2c # << >> /\ s2c' = Tail(s2c)
        /\ Head(s2c)[1] \in {"DATA", "GLOBAL_REQUEST"}
        /\ UNCHANGED <<c2s, s2cCipher, sealed, up>>
        /\ \/ pc' = pc /\ chain' = chain
           \/ pc = "recv" /\ pc' = "sendFailure" /\ Send("REQUEST_FAILURE")
    BY <1>7 DEF ReadChannelMessage, ReadGlobalRequest, Receive
  <2>2. /\ No("ECDH_INIT", chain) => No("ECDH_INIT", chain')
        /\ One("ECDH_INIT", chain) => One("ECDH_INIT", chain')
    BY <1>4, <2>1
  <2>3. (Idle => Idle') /\ (Asking => Asking') /\ (Changing => Changing')
    BY <2>1, <2>2, ClientReads
  <2>4. QED  BY <1>2, <1>3, <2>1, <2>3 DEF Receiving
<1>8. CASE BeginRekey
  <2>1. /\ Idle /\ s2c # << >> /\ s2c' = Tail(s2c) /\ Head(s2c)[1] = "KEXINIT"
        /\ UNCHANGED <<c2s, s2cCipher, sealed, up>>
        /\ \/ pc' = "sendEcdhInit" /\ Send("ECDH_INIT")
           \/ pc' = "sendKexInit" /\ Send("KEXINIT")
    BY <1>2, <1>8 DEF BeginRekey, Receive
  <2>2. Quiet'
    BY <2>1, UnderwayRead DEF Idle
  <2>3. CASE pc' = "sendEcdhInit" /\ Send("ECDH_INIT")
    BY <1>3, <1>5, <2>1, <2>2, <2>3 DEF Idle
  <2>4. CASE pc' = "sendKexInit" /\ Send("KEXINIT")
    <3>1. NoInit'
      BY <1>4, <2>1, <2>4 DEF Idle, NoInit
    <3>2. QED  BY <1>3, <2>2, <2>4, <3>1 DEF Idle
  <2>5. QED  BY <2>1, <2>3, <2>4
<1>9. ASSUME NEW accepted \in BOOLEAN, ReadReply(accepted)  PROVE ReceivingKeys'
  <2>1. CASE accepted
    <3>1. /\ Asking /\ s2c # << >> /\ s2c' = Tail(s2c) /\ Head(s2c)[1] = "ECDH_REPLY"
          /\ UNCHANGED <<c2s, s2cCipher, sealed, up>> /\ pc' = "sendNewkeys" /\ Send("NEWKEYS")
      BY <1>2, <1>9, <2>1 DEF ReadReply, Receive
    <3>2. /\ No("ECDH_INIT", chain) => No("ECDH_INIT", chain')
          /\ One("ECDH_INIT", chain) => One("ECDH_INIT", chain')
      BY <1>4, <3>1
    <3>3. Changing'
      BY <3>1, <3>2, ClientReads
    <3>4. QED  BY <1>3, <3>1, <3>3
  <2>2. CASE ~accepted
    BY <1>3, <1>9, <2>2 DEF ReadReply, LoopEnds
  <2>3. QED  BY <2>1, <2>2
<1>10. CASE FailureSent \/ EcdhInitSent \/ NewkeysSent
  <2>1. UNCHANGED <<chain, c2s, s2c, s2cCipher, sealed, up>>
    BY <1>10 DEF FailureSent, EcdhInitSent, NewkeysSent
  <2>2. (Idle => Idle') /\ (Asking => Asking') /\ (Changing => Changing')
    BY <2>1 DEF Idle, Asking, Changing, NoInit, Quiet, InFlight, Replied
  <2>3. QED  BY <1>2, <1>3, <1>10, <2>2 DEF FailureSent, EcdhInitSent, NewkeysSent
<1>11. CASE KexInitSent
  <2>1. /\ Idle /\ pc' = "sendEcdhInit" /\ Send("ECDH_INIT")
        /\ UNCHANGED <<c2s, s2c, s2cCipher, sealed>>
    BY <1>2, <1>11 DEF KexInitSent
  <2>2. Quiet'
    BY <2>1 DEF Idle, Quiet
  <2>3. QED  BY <1>3, <1>5, <2>1, <2>2 DEF Idle
<1>12. CASE ReadNewkeys
  <2>1. /\ Changing /\ s2c # << >> /\ s2c' = Tail(s2c) /\ Head(s2c)[1] = "NEWKEYS" /\ pc' = "recv"
        /\ s2cCipher' = s2cCipher + 1 /\ UNCHANGED <<c2s, sealed>> /\ CloseRekeyGate
    BY <1>2, <1>12 DEF ReadNewkeys, Receive
  <2>2. Quiet'
    BY <2>1, NewkeysRead DEF Changing
  <2>3. "ECDH_INIT" \in Packet \ Connection
    BY DEF Packet, Transport, Connection
  <2>4. NoInit'
    BY <2>1, <2>3, NothingReleased DEF Changing, NoInit
  <2>5. QED  BY <1>3, <2>1, <2>2, <2>4 DEF Idle
<1>13. QED
  BY <1>6, <1>7, <1>8, <1>9, <1>10, <1>11, <1>12 DEF Loop, ReadLoop

LEMMA ReceivingStep ==
  ASSUME IInv, [Next]_allVars
  PROVE  ReceivingKeys'
<1> USE DEF IInv, sends, ciphers, closing, peer, counts, dialogue, store
<1>1. CASE Runtime \/ \E accepted \in BOOLEAN : Trusted(accepted)
  BY <1>1, RuntimeStep, ReceivingDialogue, ReceivingLoop
<1>2. CASE Sends
  BY <1>2, ChainShrinks, SamePhase DEF Sends, Transmit
<1>3. CASE Opened
  <2>1. \E kind \in {"DATA", "GLOBAL_REQUEST", "KEXINIT", "DISCONNECT"} :
          chain' \in {chain, Append(chain, kind)}
    BY <1>3 DEF Opened, Client, SendData, Keepalive, RequestRekey, Disconnect, Disconnected, Send
  <2>2. {"DATA", "GLOBAL_REQUEST", "KEXINIT", "DISCONNECT"} \subseteq Packet \ {"ECDH_INIT"}
    BY DEF Packet, Transport, Connection
  <2>3. UNCHANGED <<pc, asked, c2s, s2c, s2cCipher, sealed>> /\ (up' => up)
    BY <1>3 DEF Opened, Client, SendData, Keepalive, RequestRekey, Disconnect, Disconnected
  <2>4. (Idle => Idle') /\ (Asking => Asking') /\ (Changing => Changing')
    BY <2>1, <2>2, <2>3, ChainGrows
  <2>5. QED  BY <2>3, <2>4, SamePhase
<1>4. CASE Reads
  <2>1. c2s # << >> /\ c2s' = Tail(c2s) /\ UNCHANGED <<chain, up, s2cCipher, pc, asked>>
    BY <1>4 DEF Reads, ServerReads
  <2>2. "KEXINIT" \in Packet \ {"NEWKEYS", "ECDH_REPLY"}
    BY DEF Packet, Transport
  <2>3. IF Head(c2s) = "ECDH_INIT"
        THEN /\ s2c' = s2c \o <<Seal("ECDH_REPLY"), Seal("NEWKEYS")>>
             /\ sealed' = sealed + 1
        ELSE (s2c' = s2c \/ s2c' = Append(s2c, Seal("KEXINIT"))) /\ sealed' = sealed
    BY <1>4 DEF Reads, ServerReads
  <2>4. (Idle => Idle') /\ (Asking => Asking') /\ (Changing => Changing')
    BY <2>1, <2>2, <2>3, ServerTakes
  <2>5. QED  BY <2>1, <2>4, SamePhase
<1>5. CASE ServerAnswers
  <2>1. PICK kind \in Answers(Head(c2s)) : s2c' = Append(s2c, Seal(kind))
    BY <1>5 DEF ServerAnswers
  <2>2. kind \in Packet \ {"NEWKEYS", "ECDH_REPLY"} /\ Head(c2s) # "ECDH_INIT"
    BY DEF Answers, Packet, Transport, Connection
  <2>3. c2s # << >> /\ c2s' = Tail(c2s) /\ UNCHANGED <<chain, up, s2cCipher, sealed, pc, asked>>
    BY <1>5 DEF ServerAnswers
  <2>4. (Idle => Idle') /\ (Asking => Asking') /\ (Changing => Changing')
    BY <2>1, <2>2, <2>3, ServerTakes
  <2>5. QED  BY <2>3, <2>4, SamePhase
<1>6. CASE ServerSpeaks /\ UNCHANGED dialogue
  <2>1. PICK kind \in {"DISCONNECT", "GLOBAL_REQUEST", "KEXINIT", "DATA"} : s2c' = Append(s2c, Seal(kind))
    BY <1>6 DEF ServerSpeaks, ServerSends, ServerRekeys
  <2>2. kind \in Packet \ {"NEWKEYS", "ECDH_REPLY"}
    BY DEF Packet, Transport, Connection
  <2>3. UNCHANGED <<chain, c2s, up, s2cCipher, sealed, pc, asked>>
    BY <1>6 DEF ServerSpeaks, ServerSends, ServerRekeys
  <2>4. (Quiet => Quiet') /\ (InFlight => InFlight') /\ (Replied => Replied')
    BY <2>1, <2>2, <2>3, UnderwaySent
  <2>5. (Idle => Idle') /\ (Asking => Asking') /\ (Changing => Changing')
    BY <2>3, <2>4 DEF Idle, Asking, Changing, NoInit
  <2>6. QED  BY <2>3, <2>5, SamePhase
<1>7. CASE (Lose /\ UNCHANGED dialogue) \/ UNCHANGED allVars
  <2>1. UNCHANGED <<chain, c2s, s2c, s2cCipher, sealed, pc, asked>> /\ (up' => up)
    BY <1>7 DEF Lose, allVars, vars
  <2>2. (Idle => Idle') /\ (Asking => Asking') /\ (Changing => Changing')
    BY <2>1 DEF Idle, Asking, Changing, NoInit, Quiet, InFlight, Replied
  <2>3. QED  BY <2>1, <2>2, SamePhase
<1>8. QED
  BY <1>1, <1>2, <1>3, <1>4, <1>5, <1>6, <1>7 DEF Next

-----------------------------------------------------------------------------
(***************************************************************************)
(* The server's requests, and the user's credentials.                      *)
(***************************************************************************)
\* What can happen to the messages under way from the server.
LEMMA MessagesStep ==
  ASSUME [Next]_allVars
  PROVE  \/ s2c' = s2c \/ (s2c # << >> /\ s2c' = Tail(s2c)) \/ ServerAnswers
         \/ \E kind \in {"DISCONNECT", "KEXINIT", "DATA"} : s2c' = Append(s2c, Seal(kind))
         \/ s2c' = Append(s2c, Seal("GLOBAL_REQUEST")) /\ sealed > 0
         \/ s2c' = s2c \o <<Seal("ECDH_REPLY"), Seal("NEWKEYS")>>
<1> USE DEF sends, ciphers, closing, peer, counts, dialogue, store
<1>1. CASE Dialogue
  BY <1>1 DEF Dialogue, ReadIdentification, ReadServerKexInit, ReadHostKey, ReadFirstNewkeys,
              ReadServiceAccept, ReadAuthResult, ReadChannelOpened, ReadSubsystem, AskedSent,
              ReadUnexpected, ReadRequest, RefusalSent, Broken, Answered, Receive
<1>2. CASE Loop
  BY <1>2 DEF Loop, ReadLoop, ReceiveFails, ReadDisconnect, ReadChannelMessage, ReadGlobalRequest,
              BeginRekey, NegotiationFails, ReadReply, FailureSent, KexInitSent, EcdhInitSent,
              NewkeysSent, SendFails, ReadNewkeys, Receive
<1>3. CASE Reads
  BY <1>3 DEF Reads, ServerReads
<1>4. CASE ServerSpeaks
  BY <1>4 DEF ServerSpeaks, ServerSends, ServerRekeys
<1>5. CASE Sends \/ Opened \/ Lose \/ UNCHANGED allVars \/ \E accepted \in BOOLEAN : Trusted(accepted)
  BY <1>5 DEF Sends, Transmit, Opened, Client, SendData, Keepalive, RequestRekey, Disconnect,
              Disconnected, Lose, Trusted, allVars, vars
<1>6. QED
  BY <1>1, <1>2, <1>3, <1>4, <1>5, RuntimeStep DEF Next

LEMMA RequestsStep ==
  ASSUME IInv, [Next]_allVars
  PROVE  RequestsSealed'
<1> USE DEF IInv
<1>1. ASSUME s2c # << >>, s2c' = Tail(s2c)  PROVE RequestsSealed'
  <2>1. \A i \in 1..Len(s2c') : i + 1 \in 1..Len(s2c) /\ s2c'[i] = s2c[i + 1]
    BY <1>1 DEF Types
  <2>2. QED  BY <2>1 DEF RequestsSealed
<1>2. ASSUME NEW kind, s2c' = Append(s2c, Seal(kind)), kind # "GLOBAL_REQUEST" \/ sealed > 0
      PROVE  RequestsSealed'
  <2>1. \A i \in 1..Len(s2c') : (i \in 1..Len(s2c) /\ s2c'[i] = s2c[i]) \/ s2c'[i] = <<kind, sealed>>
    BY <1>2 DEF Types, Seal
  <2>2. QED  BY <1>2, <2>1 DEF RequestsSealed
<1>3. ASSUME s2c' = s2c \o <<Seal("ECDH_REPLY"), Seal("NEWKEYS")>>  PROVE RequestsSealed'
  <2>1. \A i \in 1..Len(s2c') : \/ i \in 1..Len(s2c) /\ s2c'[i] = s2c[i]
                                \/ s2c'[i] \in {<<"ECDH_REPLY", sealed>>, <<"NEWKEYS", sealed>>}
    <3>1. /\ s2c \in Seq(Packet \X Nat)
          /\ {<<"ECDH_REPLY", sealed>>, <<"NEWKEYS", sealed>>} \subseteq Packet \X Nat
      BY DEF Types, Packet, Transport
    <3>2. s2c' = s2c \o << <<"ECDH_REPLY", sealed>>, <<"NEWKEYS", sealed>> >>
      BY <1>3 DEF Seal
    <3>3. QED  BY <3>1, <3>2, PairAppended
  <2>2. QED  BY <2>1 DEF RequestsSealed
<1>4. ASSUME s2c' = s2c  PROVE RequestsSealed'
  BY <1>4 DEF RequestsSealed
<1>5. CASE ServerAnswers
  <2>1. PICK kind \in Answers(Head(c2s)) : s2c' = Append(s2c, Seal(kind))
    BY <1>5 DEF ServerAnswers
  <2>2. kind # "GLOBAL_REQUEST"
    BY DEF Answers
  <2>3. QED  BY <1>2, <2>1, <2>2
<1>6. QED  BY <1>1, <1>2, <1>3, <1>4, <1>5, MessagesStep

\* Ciphers are only replaced, never taken away.
LEMMA SafeStep ==
  ASSUME IInv, [Next]_allVars
  PROVE  CredentialsSafe => CredentialsSafe'
<1> USE DEF IInv, Types, sends, ciphers, closing, peer, counts, dialogue, store
<1>1. (c2sCipher > 0 => c2sCipher' > 0) /\ (s2cCipher > 0 => s2cCipher' > 0)
  <2>1. c2sCipher' \in {c2sCipher, c2sCipher + 1} /\ s2cCipher' \in {s2cCipher, s2cCipher + 1}
    BY DEF Next, Runtime, ReadRekeyReply, Loop, Dialogue, ReadIdentification, ReadServerKexInit, ReadHostKey, ReadFirstNewkeys,
           ReadServiceAccept, ReadAuthResult, ReadChannelOpened, ReadSubsystem, AskedSent,
           ReadUnexpected, ReadRequest, RefusalSent, Broken, Trusted, BuildCiphers, NextKeys,
           Loop, ReadLoop, ReceiveFails, ReadDisconnect, ReadChannelMessage, ReadGlobalRequest,
           BeginRekey, NegotiationFails, ReadReply, FailureSent, KexInitSent, EcdhInitSent,
           NewkeysSent, SendFails, ReadNewkeys, LoopEnds, Sends, Transmit, Opened, Client, SendData,
           Keepalive, RequestRekey, Disconnect, Disconnected, Reads, ServerReads, ServerAnswers,
           ServerSpeaks, ServerSends, ServerRekeys, Lose, allVars, vars
  <2>2. QED  BY <2>1
<1>2. QED  BY <1>1 DEF CredentialsSafe

\* USERAUTH_REQUEST is sent when the service is accepted, and is never held.
LEMMA UserauthSent ==
  ASSUME Types, No("USERAUTH_REQUEST", held), NEW kind \in Packet \ {"USERAUTH_REQUEST"}, Send(kind)
  PROVE  /\ No("USERAUTH_REQUEST", chain) => No("USERAUTH_REQUEST", chain')
         /\ No("USERAUTH_REQUEST", held')
<1>1. \/ chain' = chain /\ held' = Append(held, kind)
      \/ chain' = Append(chain, kind) /\ held' = held
  BY DEF Send
<1>2. held \in Seq(Packet)
  BY Kinds DEF Types
<1>3. No("USERAUTH_REQUEST", Append(held, kind))
  BY <1>2, NoAppend
<1>4. No("USERAUTH_REQUEST", chain) => No("USERAUTH_REQUEST", Append(chain, kind))
  BY NoAppend DEF Types
<1>5. QED  BY <1>1, <1>3, <1>4

LEMMA UserauthStep ==
  ASSUME IInv, [Next]_allVars
  PROVE  /\ No("USERAUTH_REQUEST", held')
         /\ No("USERAUTH_REQUEST", chain) /\ No("USERAUTH_REQUEST", c2s) =>
              \/ No("USERAUTH_REQUEST", chain') /\ No("USERAUTH_REQUEST", c2s')
              \/ asked = "SERVICE_REQUEST" /\ pc = "recvAnswer" /\ Ask("USERAUTH_REQUEST") /\ c2s' = c2s
<1> USE DEF IInv, Types, Credentials, sends, ciphers, closing, peer, counts, dialogue, store
<1> DEFINE Kept == /\ No("USERAUTH_REQUEST", held')
                   /\ No("USERAUTH_REQUEST", chain) => No("USERAUTH_REQUEST", chain')
                   /\ c2s' = c2s
           Goal == /\ No("USERAUTH_REQUEST", held')
                   /\ No("USERAUTH_REQUEST", chain) /\ No("USERAUTH_REQUEST", c2s) =>
                        \/ No("USERAUTH_REQUEST", chain') /\ No("USERAUTH_REQUEST", c2s')
                        \/ /\ asked = "SERVICE_REQUEST" /\ pc = "recvAnswer" /\ Ask("USERAUTH_REQUEST")
                           /\ c2s' = c2s
<1>1. Kept => Goal
  OBVIOUS
<1>2. \A kind \in Packet \ {"USERAUTH_REQUEST"} : Send(kind) =>
        /\ No("USERAUTH_REQUEST", chain) => No("USERAUTH_REQUEST", chain')
        /\ No("USERAUTH_REQUEST", held')
  BY UserauthSent
<1>3. UNCHANGED <<chain, held, c2s>> => Kept
  OBVIOUS
<1>4. CloseRekeyGate => /\ No("USERAUTH_REQUEST", held')
                        /\ No("USERAUTH_REQUEST", chain) => No("USERAUTH_REQUEST", chain')
  <2>1. held \in Seq(Packet) /\ No("USERAUTH_REQUEST", << >>)
    BY Kinds DEF No
  <2>2. No("USERAUTH_REQUEST", chain) => No("USERAUTH_REQUEST", chain \o held)
    BY <2>1, NoConcat
  <2>3. QED  BY <2>1, <2>2 DEF CloseRekeyGate
<1> HIDE DEF Kept, Goal
<1>5. CASE Dialogue \/ \E accepted \in BOOLEAN : Trusted(accepted)
  <2>1. c2s' = c2s
    BY <1>5 DEF Dialogue, ReadIdentification, ReadServerKexInit, ReadHostKey, ReadFirstNewkeys,
                ReadServiceAccept, ReadAuthResult, ReadChannelOpened, ReadSubsystem, AskedSent,
                ReadUnexpected, ReadRequest, RefusalSent, Broken, Trusted
  <2>2. \/ UNCHANGED <<chain, held>>
        \/ \E kind \in {"KEXINIT", "ECDH_INIT", "NEWKEYS", "SERVICE_REQUEST", "CHANNEL_OPEN",
                        "CHANNEL_REQUEST", "REQUEST_FAILURE"} : Send(kind)
        \/ asked = "SERVICE_REQUEST" /\ pc = "recvAnswer" /\ Ask("USERAUTH_REQUEST")
    BY <1>5 DEF Dialogue, ReadIdentification, ReadServerKexInit, ReadHostKey, ReadFirstNewkeys,
                ReadServiceAccept, ReadAuthResult, ReadChannelOpened, ReadSubsystem, AskedSent,
                ReadUnexpected, ReadRequest, RefusalSent, Broken, Trusted, Fail, Answered, Ask
  <2>3. {"KEXINIT", "ECDH_INIT", "NEWKEYS", "SERVICE_REQUEST", "CHANNEL_OPEN",
         "CHANNEL_REQUEST", "REQUEST_FAILURE"} \subseteq Packet \ {"USERAUTH_REQUEST"}
    BY DEF Packet, Transport, Connection
  <2>4. CASE UNCHANGED <<chain, held>>
    BY <1>1, <1>3, <2>1, <2>4
  <2>5. CASE \E kind \in {"KEXINIT", "ECDH_INIT", "NEWKEYS", "SERVICE_REQUEST", "CHANNEL_OPEN",
                          "CHANNEL_REQUEST", "REQUEST_FAILURE"} : Send(kind)
    BY <1>1, <1>2, <2>1, <2>3, <2>5 DEF Kept
  <2>6. CASE asked = "SERVICE_REQUEST" /\ pc = "recvAnswer" /\ Ask("USERAUTH_REQUEST")
    <3>1. "USERAUTH_REQUEST" \in DialogueKinds
      BY DEF DialogueKinds, After
    <3>2. held' = << >>
      BY <2>6, <3>1, AskedOne
    <3>3. QED  BY <2>1, <2>6, <3>2 DEF Goal, No
  <2>7. QED  BY <2>2, <2>4, <2>5, <2>6 DEF Goal
<1>6. CASE Loop
  <2>1. c2s' = c2s
    BY <1>6 DEF Loop, ReadLoop, ReceiveFails, ReadDisconnect, ReadChannelMessage, ReadGlobalRequest,
                BeginRekey, NegotiationFails, ReadReply, FailureSent, KexInitSent, EcdhInitSent,
                NewkeysSent, SendFails, ReadNewkeys, LoopEnds
  <2>2. \/ UNCHANGED <<chain, held>> \/ CloseRekeyGate
        \/ \E kind \in {"KEXINIT", "ECDH_INIT", "NEWKEYS", "REQUEST_FAILURE"} : Send(kind)
    BY <1>6 DEF Loop, ReadLoop, ReceiveFails, ReadDisconnect, ReadChannelMessage, ReadGlobalRequest,
                BeginRekey, NegotiationFails, ReadReply, FailureSent, KexInitSent, EcdhInitSent,
                NewkeysSent, SendFails, ReadNewkeys, LoopEnds
  <2>3. {"KEXINIT", "ECDH_INIT", "NEWKEYS", "REQUEST_FAILURE"} \subseteq Packet \ {"USERAUTH_REQUEST"}
    BY DEF Packet, Transport, Connection
  <2>4. Kept
    BY <1>2, <1>3, <1>4, <2>1, <2>2, <2>3 DEF Kept
  <2>5. QED  BY <1>1, <2>4 DEF Goal
<1>7. CASE Sends
  <2>1. chain # << >> /\ chain' = Tail(chain) /\ held' = held /\ c2s' \in {c2s, Append(c2s, Head(chain))}
    BY <1>7 DEF Sends, Transmit
  <2>2. No("USERAUTH_REQUEST", chain) => No("USERAUTH_REQUEST", chain') /\ Head(chain) # "USERAUTH_REQUEST"
    BY <2>1, NoTail
  <2>3. Head(chain) \in Packet
    BY <2>1
  <2>4. No("USERAUTH_REQUEST", chain) /\ No("USERAUTH_REQUEST", c2s) => No("USERAUTH_REQUEST", c2s')
    BY <2>1, <2>2, <2>3, NoAppend
  <2>5. QED  BY <2>1, <2>2, <2>4
<1>8. CASE Opened
  <2>1. c2s' = c2s
    BY <1>8 DEF Opened, Client, SendData, Keepalive, RequestRekey, Disconnect, Disconnected
  <2>2. \/ UNCHANGED <<chain, held>>
        \/ \E kind \in {"DATA", "GLOBAL_REQUEST", "KEXINIT", "DISCONNECT"} : Send(kind)
    BY <1>8 DEF Opened, Client, SendData, Keepalive, RequestRekey, Disconnect, Disconnected
  <2>3. {"DATA", "GLOBAL_REQUEST", "KEXINIT", "DISCONNECT"} \subseteq Packet \ {"USERAUTH_REQUEST"}
    BY DEF Packet, Transport, Connection
  <2>4. Kept
    BY <1>2, <1>3, <2>1, <2>2, <2>3 DEF Kept
  <2>5. QED  BY <1>1, <2>4 DEF Goal
<1>9. CASE Reads \/ ServerAnswers
  <2>1. UNCHANGED <<chain, held>> /\ c2s # << >> /\ c2s' = Tail(c2s)
    BY <1>9 DEF Reads, ServerReads, ServerAnswers
  <2>2. QED  BY <2>1, NoTail
<1>10. CASE (ServerSpeaks \/ Lose) \/ UNCHANGED allVars
  <2>1. UNCHANGED <<chain, held, c2s>>
    BY <1>10 DEF ServerSpeaks, ServerSends, ServerRekeys, Lose, allVars, vars
  <2>2. QED  BY <2>1
<1>11. QED
  BY <1>5, <1>6, <1>7, <1>8, <1>9, <1>10, RuntimeStep DEF Next

\* How the dialogue comes to have a host key, ciphers and credentials.
LEMMA AskedStep ==
  ASSUME IInv, [Next]_allVars
  PROVE  /\ writable' = writable
         /\ \/ asked' = asked /\ UNCHANGED <<known, key>>
               /\ (pc' = "trust" => pc = "trust" \/ CheckHostKey("same") # "mismatch")
            \/ UNCHANGED <<known, key>> /\ asked \in Before /\ asked' \in Before /\ pc' # "trust"
            \/ /\ UNCHANGED <<known, key>> /\ pc' # "trust"
               /\ asked \in After /\ asked' \in (After \cup {"open"}) \ {"SERVICE_REQUEST"}
            \/ /\ pc = "trust" /\ pc' # "trust" /\ asked' = "NEWKEYS" /\ key' = "same"
               /\ known' = IF CheckHostKey("same") = "new" /\ writable THEN "same" ELSE known
            \/ /\ asked = "NEWKEYS" /\ asked' \in After /\ pc' # "trust" /\ UNCHANGED <<known, key>>
               /\ c2sCipher' = c2sCipher + 1 /\ s2cCipher' = s2cCipher + 1
            \/ /\ asked = "open" /\ asked' = asked /\ known' = known /\ pc' # "trust"
               /\ \E shown \in HostKeys : CheckHostKey(shown) # "mismatch" /\ key' = shown
<1> USE DEF sends, ciphers, closing, peer, counts, dialogue, store, Before, After
<1>1. CASE Dialogue
  BY <1>1 DEF Dialogue, ReadIdentification, ReadServerKexInit, ReadHostKey, ReadFirstNewkeys,
           BuildCiphers, NextKeys, ReadServiceAccept, ReadAuthResult, ReadChannelOpened,
           ReadSubsystem, AskedSent, ReadUnexpected, ReadRequest, RefusalSent, Broken, Fail,
           Answered, Ask
<1>2. ASSUME NEW accepted \in BOOLEAN, Trusted(accepted)
      PROVE  /\ writable' = writable
             /\ \/ asked' = asked /\ UNCHANGED <<known, key>> /\ pc' # "trust"
                \/ /\ pc = "trust" /\ pc' # "trust" /\ asked' = "NEWKEYS" /\ key' = "same"
                   /\ known' = IF CheckHostKey("same") = "new" /\ writable THEN "same" ELSE known
  BY <1>2 DEF Trusted, Fail, Ask, RememberHost
<1>3. CASE ReadLoop /\ UNCHANGED <<dialogue, key>>
  BY <1>3 DEF ReadLoop, ReceiveFails, ReadDisconnect, ReadChannelMessage, ReadGlobalRequest,
              BeginRekey, NegotiationFails, FailureSent, KexInitSent, EcdhInitSent,
              NewkeysSent, SendFails, ReadNewkeys, LoopEnds
<1>4. ASSUME NEW signed \in Signatures, NEW shown \in HostKeys, ReadRekeyReply(signed, shown)
      PROVE  /\ UNCHANGED <<asked, known, writable>> /\ pc' # "trust"
             /\ \/ key' = key
                \/ asked = "open" /\ CheckHostKey(shown) # "mismatch" /\ key' = shown
  <2>1. asked = "open"
    BY <1>4 DEF ReadRekeyReply, ReadReply, IInv, InDialogue, Handshaking
  <2>2. pc' # "trust"
    BY <1>4 DEF ReadRekeyReply, ReadReply, LoopEnds
  <2>3. QED  BY <1>4, <2>1, <2>2 DEF ReadRekeyReply
<1>5. CASE Sends \/ Opened \/ Reads \/ ServerAnswers \/ ((ServerSpeaks \/ Lose) /\ UNCHANGED <<dialogue, key>>)
           \/ UNCHANGED allVars
  BY <1>5 DEF Sends, Transmit, Opened, Client, SendData, Keepalive, RequestRekey, Disconnect,
              Disconnected, Reads, ServerReads, ServerAnswers, ServerSpeaks, ServerSends,
              ServerRekeys, Lose, allVars, vars
<1>6. QED
  BY <1>1, <1>2, <1>3, <1>4, <1>5 DEF Next, Runtime

LEMMA KeyStep ==
  ASSUME IInv, [Next]_allVars
  PROVE  KeyTaken' /\ (known' # known => known = "none")
<1> USE DEF IInv
<1>1. known \in {"none", "same", "other"}
  BY DEF Types
<1>2. /\ CheckHostKey("same") = IF known = "none" THEN "new" ELSE IF known = "same" THEN "match" ELSE "mismatch"
      /\ \A shown \in HostKeys : CheckHostKey(shown) # "mismatch" => known \in {"none", shown}
  BY <1>1 DEF CheckHostKey, HostKeys
<1>3. pc = "trust" => asked \in Before
  BY DEF InDialogue, Before
<1>4. /\ asked \in Before \cup {"NEWKEYS"} \cup After \cup {"open"}
      /\ key = "none" \/ (known = "same" /\ key = "same") \/ (known = "none" /\ ~writable)
  BY DEF Types, KeyTaken, KeyStored
<1>5. writable' = writable /\ writable \in BOOLEAN
  BY AskedStep DEF KeyTaken
<1> USE DEF KeyTaken, KeyStored, HostKeys, Before, After
<1>6. CASE /\ asked' = asked /\ UNCHANGED <<known, key>>
           /\ (pc' = "trust" => pc = "trust" \/ CheckHostKey("same") # "mismatch")
  BY <1>1, <1>2, <1>4, <1>5, <1>6
<1>7. CASE UNCHANGED <<known, key>> /\ asked \in Before /\ asked' \in Before /\ pc' # "trust"
  BY <1>4, <1>5, <1>7
<1>8. CASE /\ UNCHANGED <<known, key>> /\ pc' # "trust"
           /\ asked \in After /\ asked' \in (After \cup {"open"}) \ {"SERVICE_REQUEST"}
  BY <1>4, <1>5, <1>8
<1>9. CASE /\ pc = "trust" /\ pc' # "trust" /\ asked' = "NEWKEYS" /\ key' = "same"
           /\ known' = IF CheckHostKey("same") = "new" /\ writable THEN "same" ELSE known
  BY <1>1, <1>2, <1>5, <1>9
<1>10. CASE asked = "NEWKEYS" /\ asked' \in After /\ pc' # "trust" /\ UNCHANGED <<known, key>>
  BY <1>4, <1>5, <1>10
<1>11. CASE /\ asked = "open" /\ asked' = asked /\ known' = known /\ pc' # "trust"
            /\ \E shown \in HostKeys : CheckHostKey(shown) # "mismatch" /\ key' = shown
  <2>1. key # "none"
    BY <1>11
  <2>2. QED  BY <1>1, <1>2, <1>4, <1>5, <1>11, <2>1
<1>12. QED
  BY <1>6, <1>7, <1>8, <1>9, <1>10, <1>11, AskedStep

LEMMA CredentialsStep ==
  ASSUME IInv, [Next]_allVars
  PROVE  Credentials'
<1> USE DEF IInv
<1>1. CredentialsSafe => CredentialsSafe'
  BY SafeStep
<1>2. c2sCipher \in Nat /\ s2cCipher \in Nat
  BY DEF Types
<1>4. asked' \in After \cup {"open"} => CredentialsSafe'
  <2>1. asked \in After \cup {"open"} => CredentialsSafe'
    BY <1>1 DEF Credentials
  <2>2. CASE asked = "NEWKEYS" /\ c2sCipher' = c2sCipher + 1 /\ s2cCipher' = s2cCipher + 1
    BY <1>2, <2>2 DEF CredentialsSafe
  <2>3. CASE asked' = asked \/ asked' \in Before \/ asked \in After \/ asked' = "NEWKEYS"
    BY <2>1, <2>3 DEF Before, After
  <2>4. QED  BY <2>2, <2>3, AskedStep
<1>7. ~No("USERAUTH_REQUEST", chain') \/ ~No("USERAUTH_REQUEST", c2s') => CredentialsSafe'
  <2>1. SUFFICES ASSUME ~CredentialsSafe
                 PROVE  No("USERAUTH_REQUEST", chain') /\ No("USERAUTH_REQUEST", c2s')
    BY <1>1
  <2>2. asked # "SERVICE_REQUEST" /\ No("USERAUTH_REQUEST", chain) /\ No("USERAUTH_REQUEST", c2s)
    BY <2>1 DEF Credentials, After
  <2>3. QED  BY <2>2, UserauthStep
<1>8. No("USERAUTH_REQUEST", held')
  BY UserauthStep
<1>9. QED  BY <1>4, <1>7, <1>8 DEF Credentials

(***************************************************************************)
(* Credentials under way.                                                  *)
(***************************************************************************)
LEMMA ResultStep ==
  ASSUME IInv, [Next]_allVars, NoResult
  PROVE  NoResult' \/ (ServerAnswers /\ Head(c2s) = "USERAUTH_REQUEST")
<1> USE DEF IInv, NoResult
<1>1. ASSUME s2c # << >>, s2c' = Tail(s2c)  PROVE NoResult'
  <2>1. \A i \in 1..Len(s2c') : i + 1 \in 1..Len(s2c) /\ s2c'[i] = s2c[i + 1]
    BY <1>1 DEF Types
  <2>2. QED  BY <2>1
<1>2. ASSUME NEW kind, s2c' = Append(s2c, Seal(kind)), kind \notin {"USERAUTH_SUCCESS", "USERAUTH_FAILURE"}
      PROVE  NoResult'
  <2>1. \A i \in 1..Len(s2c') : (i \in 1..Len(s2c) /\ s2c'[i] = s2c[i]) \/ s2c'[i] = <<kind, sealed>>
    BY <1>2 DEF Types, Seal
  <2>2. QED  BY <1>2, <2>1
<1>3. ASSUME s2c' = s2c \o <<Seal("ECDH_REPLY"), Seal("NEWKEYS")>>  PROVE NoResult'
  <2>1. \A i \in 1..Len(s2c') : \/ i \in 1..Len(s2c) /\ s2c'[i] = s2c[i]
                                \/ s2c'[i] \in {<<"ECDH_REPLY", sealed>>, <<"NEWKEYS", sealed>>}
    <3>1. /\ s2c \in Seq(Packet \X Nat)
          /\ {<<"ECDH_REPLY", sealed>>, <<"NEWKEYS", sealed>>} \subseteq Packet \X Nat
      BY DEF Types, Packet, Transport
    <3>2. s2c' = s2c \o << <<"ECDH_REPLY", sealed>>, <<"NEWKEYS", sealed>> >>
      BY <1>3 DEF Seal
    <3>3. QED  BY <3>1, <3>2, PairAppended
  <2>2. QED  BY <2>1
<1>4. CASE ServerAnswers
  <2>1. PICK kind \in Answers(Head(c2s)) : s2c' = Append(s2c, Seal(kind))
    BY <1>4 DEF ServerAnswers
  <2>2. Head(c2s) = "USERAUTH_REQUEST" \/ kind \notin {"USERAUTH_SUCCESS", "USERAUTH_FAILURE"}
    BY DEF Answers
  <2>3. QED  BY <1>2, <1>4, <2>1, <2>2
<1>5. s2c' = s2c => NoResult'
  OBVIOUS
<1>6. ASSUME NEW kind \in {"DISCONNECT", "KEXINIT", "DATA", "GLOBAL_REQUEST"}, s2c' = Append(s2c, Seal(kind))
      PROVE  NoResult'
  BY <1>2, <1>6
<1> HIDE DEF NoResult, IInv
<1>7. QED  BY <1>1, <1>3, <1>4, <1>5, <1>6, MessagesStep

\* The dialogue waits for their result: nothing else asks, and the server answers once.
LEMMA SentStep ==
  ASSUME IInv, [Next]_allVars, asked = "USERAUTH_REQUEST", OneSent, NoResult
  PROVE  asked' = asked /\ (NoneSent' \/ (OneSent' /\ NoResult'))
<1> USE DEF IInv, Types, sends, ciphers, closing, peer, counts, dialogue, store
<1>1. ~gate /\ pc \in Handshaking \cup {"failed"} /\ asked # "open"
  BY DEF InDialogue, Handshaking
<1>2. \A kind : Receive(kind) => kind \notin {"USERAUTH_SUCCESS", "USERAUTH_FAILURE"}
  <2>1. s2c # << >> => 1 \in 1..Len(s2c) /\ Head(s2c) = s2c[1]
    OBVIOUS
  <2>2. QED  BY <2>1 DEF Receive, NoResult
<1>3. ASSUME NEW kind \in Packet \ {"USERAUTH_REQUEST"}, chain' = Append(chain, kind), c2s' = c2s
      PROVE  OneSent'
  BY <1>3, NoAppend, OneAppend DEF OneSent
<1>4. ASSUME chain' = chain, c2s # << >>, c2s' = Tail(c2s)
      PROVE  IF Head(c2s) = "USERAUTH_REQUEST" THEN NoneSent' ELSE OneSent'
  BY <1>4, NoTail, OneTail DEF OneSent, NoneSent
<1>5. UNCHANGED <<chain, c2s>> => OneSent'
  BY DEF OneSent
<1>6. NoResult' \/ (ServerAnswers /\ Head(c2s) = "USERAUTH_REQUEST")
  BY ResultStep
<1>7. CASE Dialogue \/ \E accepted \in BOOLEAN : Trusted(accepted)
  <2>1. "REQUEST_FAILURE" \in Packet \ {"USERAUTH_REQUEST"}
    BY DEF Packet, Connection
  <2>2. /\ asked' = asked /\ c2s' = c2s
        /\ chain' = chain \/ chain' = Append(chain, "REQUEST_FAILURE")
    BY <1>1, <1>2, <1>7 DEF Dialogue, ReadIdentification, ReadServerKexInit, ReadHostKey, ReadFirstNewkeys,
                ReadServiceAccept, ReadAuthResult, ReadChannelOpened, ReadSubsystem, AskedSent,
                ReadUnexpected, ReadRequest, RefusalSent, Broken, Trusted, Answered, Fail, Send, Handshaking
  <2>3. ~ServerAnswers
    <3>1. c2s # << >> => Len(Tail(c2s)) # Len(c2s)
      OBVIOUS
    <3>2. QED  BY <2>2, <3>1 DEF ServerAnswers
  <2>4. QED  BY <1>3, <1>5, <1>6, <2>1, <2>2, <2>3
<1>8. CASE Sends
  <2>1. UNCHANGED asked /\ chain # << >> /\ chain' = Tail(chain) /\ s2c' = s2c
    BY <1>8 DEF Sends, Transmit
  <2>2. c2s' = c2s \/ c2s' = Append(c2s, Head(chain))
    BY <1>8 DEF Sends, Transmit
  <2>3. Head(chain) \in Packet
    BY <2>1
  <2>4. CASE One("USERAUTH_REQUEST", chain) /\ No("USERAUTH_REQUEST", c2s) /\ Head(chain) = "USERAUTH_REQUEST"
    <3>1. No("USERAUTH_REQUEST", chain')
      BY <2>1, <2>4, OneTail
    <3>2. No("USERAUTH_REQUEST", c2s') \/ One("USERAUTH_REQUEST", c2s')
      BY <2>2, <2>3, <2>4, OneAppended
    <3>3. QED  BY <2>1, <3>1, <3>2 DEF OneSent, NoneSent, NoResult
  <2>5. CASE One("USERAUTH_REQUEST", chain) /\ No("USERAUTH_REQUEST", c2s) /\ Head(chain) # "USERAUTH_REQUEST"
    <3>1. One("USERAUTH_REQUEST", chain')
      BY <2>1, <2>5, OneTail
    <3>2. No("USERAUTH_REQUEST", c2s')
      BY <2>2, <2>3, <2>5, NoAppend
    <3>3. QED  BY <2>1, <3>1, <3>2 DEF OneSent, NoResult
  <2>6. CASE No("USERAUTH_REQUEST", chain) /\ One("USERAUTH_REQUEST", c2s)
    <3>1. No("USERAUTH_REQUEST", chain') /\ Head(chain) # "USERAUTH_REQUEST"
      BY <2>1, <2>6, NoTail
    <3>2. One("USERAUTH_REQUEST", c2s')
      BY <2>2, <2>3, <2>6, <3>1, OneAppend
    <3>3. QED  BY <2>1, <3>1, <3>2 DEF OneSent, NoResult
  <2>7. QED  BY <2>4, <2>5, <2>6 DEF OneSent
<1>9. CASE Reads \/ ServerAnswers
  <2>1. UNCHANGED <<asked, chain>> /\ c2s # << >> /\ c2s' = Tail(c2s)
    BY <1>9 DEF Reads, ServerReads, ServerAnswers
  <2>2. QED  BY <1>4, <1>6, <2>1
<1>10. CASE ((ServerSpeaks \/ Lose) /\ UNCHANGED <<dialogue, key>>) \/ UNCHANGED allVars
  <2>1. UNCHANGED <<asked, chain, c2s>>
    BY <1>10 DEF ServerSpeaks, ServerSends, ServerRekeys, Lose, allVars, vars
  <2>2. ~ServerAnswers
    <3>1. c2s # << >> => Len(Tail(c2s)) # Len(c2s)
      OBVIOUS
    <3>2. QED  BY <2>1, <3>1 DEF ServerAnswers
  <2>3. QED  BY <1>5, <1>6, <2>1, <2>2
<1>11. CASE Loop
  BY <1>1, <1>11 DEF Loop, ReadLoop, ReceiveFails, ReadDisconnect, ReadChannelMessage, ReadGlobalRequest,
                BeginRekey, NegotiationFails, ReadReply, FailureSent, KexInitSent, EcdhInitSent,
                NewkeysSent, SendFails, ReadNewkeys, Settled, Receiving, Sending, Handshaking
<1>12. CASE Opened
  BY <1>1, <1>12 DEF Opened
<1>13. QED
  BY <1>7, <1>8, <1>9, <1>10, <1>11, <1>12, RuntimeStep DEF Next

LEMMA UnderwayStep ==
  ASSUME IInv, [Next]_allVars
  PROVE  Underway'
<1> USE DEF IInv
<1>1. CASE OneSent /\ ~NoneSent
  <2>1. asked = "USERAUTH_REQUEST" /\ NoResult
    BY <1>1 DEF Underway
  <2>2. asked' = asked /\ (NoneSent' \/ (OneSent' /\ NoResult'))
    BY <1>1, <2>1, SentStep
  <2>3. QED  BY <2>1, <2>2 DEF Underway, Before
<1>2. CASE /\ asked = "SERVICE_REQUEST" /\ pc = "recvAnswer" /\ Ask("USERAUTH_REQUEST")
           /\ c2s' = c2s /\ NoneSent
  <2>1. "USERAUTH_REQUEST" \in DialogueKinds
    BY DEF DialogueKinds, After
  <2>2. chain' = <<"USERAUTH_REQUEST">> /\ asked' = "USERAUTH_REQUEST"
    BY <1>2, <2>1, AskedOne
  <2>3. One("USERAUTH_REQUEST", chain') /\ No("USERAUTH_REQUEST", c2s')
    <3>1. 1 \in 1..Len(chain') /\ OnlyAt(1, "USERAUTH_REQUEST", chain')
      BY <2>2 DEF OnlyAt
    <3>2. QED  BY <1>2, <3>1 DEF One, NoneSent
  <2>4. NoResult'
    <3>1. ~ServerAnswers
      <4>1. c2s # << >> => Len(Tail(c2s)) # Len(c2s)
        BY DEF Types
      <4>2. QED  BY <1>2, <4>1 DEF ServerAnswers
    <3>2. QED  BY <1>2, <3>1, ResultStep DEF Underway
  <2>5. QED  BY <2>2, <2>3, <2>4 DEF Underway, OneSent, Before
<1>3. CASE NoneSent /\ NoneSent'
  <2>1. SUFFICES ASSUME asked' \in Before \cup {"NEWKEYS", "SERVICE_REQUEST"}
                 PROVE  NoResult'
    BY <1>3 DEF Underway
  <2>2. asked \in Before \cup {"NEWKEYS", "SERVICE_REQUEST"}
    BY <2>1, AskedStep DEF Before, After, InDialogue
  <2>3. NoResult
    BY <2>2 DEF Underway
  <2>4. c2s # << >> => Head(c2s) # "USERAUTH_REQUEST"
    BY <1>3, NoTail DEF NoneSent, Types
  <2>5. QED  BY <2>3, <2>4, ResultStep DEF ServerAnswers
<1>4. QED  BY <1>1, <1>2, <1>3, UserauthStep DEF Underway, NoneSent

-----------------------------------------------------------------------------
(***************************************************************************)
(* The theorems.                                                           *)
(***************************************************************************)
LEMMA Initially == Init => IInv
<1> SUFFICES ASSUME Init  PROVE IInv
  OBVIOUS
<1> USE DEF Init
<1>1. Types
  <2>1. "ID" \in Packet
    BY DEF Packet, Transport
  <2>2. <<"ID">> \in Seq(Packet) /\ << <<"ID", 0>> >> \in Seq(Packet \X Nat)
    BY <2>1
  <2>3. held \in Seq(Connection) /\ c2s \in Seq(Packet)
    OBVIOUS
  <2>4. chain \in Seq(Packet) /\ s2c \in Seq(Packet \X Nat)
    BY <2>2
  <2>5. pc \in States /\ asked \in Before
    BY DEF States, Handshaking, Before
  <2>6. QED  BY <2>3, <2>4, <2>5 DEF Types
<1>2. InDialogue
  BY DEF InDialogue, Handshaking, Driving
<1>3. SendingKeys
  BY DEF SendingKeys, Before
<1>4. NoInit /\ No("USERAUTH_REQUEST", chain) /\ No("USERAUTH_REQUEST", c2s) /\ No("USERAUTH_REQUEST", held)
  BY OnlyOne DEF NoInit, No
<1>5. s2c[1] = <<"ID", 0>> /\ Len(s2c) = 1
  OBVIOUS
<1>6. Quiet /\ RequestsSealed
  BY <1>5 DEF Quiet, RequestsSealed
<1>7. ReceivingKeys
  BY <1>4, <1>6 DEF ReceivingKeys, Idle
<1>8. Credentials
  BY <1>4 DEF Credentials, After
<1>9. Underway
  BY <1>4, <1>5 DEF Underway, NoneSent, NoResult
<1>10. KeyTaken
  BY DEF KeyTaken, Before, After
<1>11. QED  BY <1>1, <1>2, <1>3, <1>6, <1>7, <1>8, <1>9, <1>10 DEF IInv

LEMMA Inductive == Spec => []IInv
<1>1. IInv /\ [Next]_allVars => IInv'
  BY TypesStep, DialogueStep, SendingStep, ReceivingStep, RequestsStep, CredentialsStep,
     UnderwayStep, KeyStep DEF IInv
<1>2. QED  BY Initially, <1>1, PTL DEF Spec

\* A packet is written with the keys of the last NEWKEYS before it, and the next to
\* be read is opened with the keys it was sealed with, in connect() and in every
\* exchange that performRekey() runs, whoever starts it.
THEOREM KeysChangeTogether == Spec => []KeyBoundary
<1>1. IInv => KeyBoundary
  <2>1. SUFFICES ASSUME IInv  PROVE KeyBoundary
    OBVIOUS
  <2> USE <2>1 DEF IInv
  <2>2. ASSUME up, chain # << >>, Head(chain) # "DISCONNECT"  PROVE c2sCipher = newkeys
    <3>1. Len(chain) \in Nat \ {0} /\ Head(chain) = chain[1]
      BY <2>2 DEF Types
    <3>2. ~OnlyDisconnect
      BY <2>2, <3>1 DEF OnlyDisconnect
    <3>3. pc # "failed"
      BY <2>2 DEF InDialogue, Handshaking
    <3>4. QED  BY <2>2, <3>2, <3>3 DEF SendingKeys, Types
  <2>3. ASSUME s2c # << >>, pc \in Receiving \cup {"recvAnswer"}  PROVE Head(s2c)[2] = s2cCipher
    <3>1. Quiet \/ InFlight
      BY <2>3 DEF ReceivingKeys, Idle, Asking, Changing, Replied, Receiving
    <3>2. QED  BY <2>3, <3>1, UnderwayHead
  <2>4. QED  BY <2>2, <2>3 DEF KeyBoundary
<1>2. QED  BY Inductive, <1>1, PTL

\* The credentials leave only under keys in both directions, to the host key that was
\* accepted; that key is stored and stays the connection's through every exchange, save
\* where localStorage has not taken it; and no answer of the user's replaces a stored key.
THEOREM CredentialsStayGuarded == Spec => CredentialsGuarded
<1> DEFINE Guarded == /\ \A packets \in {chain', c2s'} :
                           (\E i \in 1..Len(packets) : packets[i] = "USERAUTH_REQUEST") =>
                             c2sCipher' > 0 /\ s2cCipher' > 0 /\ key' = "same"
                      /\ \/ key' = "none"
                         \/ known' = "same" /\ key' = "same"
                         \/ known' = "none" /\ ~writable'
                      /\ known' # known => known = "none"
<1>1. IInv /\ [Next]_allVars => Guarded
  <2>1. SUFFICES ASSUME IInv, [Next]_allVars  PROVE Guarded
    OBVIOUS
  <2>2. Credentials' /\ Underway' /\ KeyTaken' /\ (known' # known => known = "none")
    BY <2>1, CredentialsStep, UnderwayStep, KeyStep
  <2>3. ~NoneSent' => c2sCipher' > 0 /\ s2cCipher' > 0 /\ key' = "same"
    BY <2>2 DEF Credentials, CredentialsSafe, NoneSent, Underway, KeyTaken, After
  <2>4. QED  BY <2>2, <2>3 DEF KeyTaken, KeyStored, NoneSent, No
<1>2. QED  BY Inductive, <1>1, PTL DEF Spec, CredentialsGuarded

-----------------------------------------------------------------------------
(***************************************************************************)
(* How many exchanges there can be.  The server numbers its keys; each     *)
(* number is paid for by the first exchange, by a call of requestRekey()   *)
(* or by one that the server started.  A KEXINIT of the client's starts an *)
(* exchange only if the server has not started one, so it is enough to     *)
(* know whether one is under way, and that none follows an ECDH_INIT.      *)
(***************************************************************************)
\* What the client has sent or is sending, and what comes of it.
Ahead == c2s \o chain
Has(kind, q)   == \E i \in 1..Len(q) : q[i] = kind
Said(kind)     == \E i \in 1..Len(s2c) : s2c[i][1] = kind

MayFollow(b, a) ==
  /\ b # "ID"
  /\ b = "KEXINIT" => a # "ECDH_INIT"
  /\ b \in {"ECDH_INIT", "NEWKEYS"} => a # b
Orderly(q) == \A i, j \in 1..Len(q) : i < j => MayFollow(q[j], q[i])

First == server = "none" /\ sealed = 0

AheadOrder ==
  /\ Orderly(Ahead)
  /\ Has("ID", Ahead) => First
  /\ Has("ECDH_INIT", Ahead) => server = "kexinit" /\ ~Said("KEXINIT")
  /\ Has("NEWKEYS", Ahead) => server = "newkeys" /\ ~Said("ECDH_REPLY")

ServerOrder ==
  /\ \A i, j \in 1..Len(s2c) : i # j /\ s2c[i][1] = s2c[j][1] => s2c[i][1] \notin {"KEXINIT", "ECDH_REPLY"}
  /\ Said("KEXINIT") => server = "kexinit"
  /\ Said("ECDH_REPLY") => server = "newkeys"
  /\ server = "newkeys" => sealed > 0
  /\ \A i \in 1..Len(s2c) : s2c[i][2] <= sealed

Turn ==
  /\ pc = "sendKexInit" => server = "kexinit" /\ ~Said("KEXINIT")
  /\ pc = "trust" => server = "newkeys" /\ ~Said("ECDH_REPLY") /\ ~Has("NEWKEYS", Ahead)
  /\ First => asked \in {"ID", "KEXINIT"}
  /\ pc = "ended" => closed

Begun == IF server = "kexinit" \/ Has("KEXINIT", Ahead) THEN 1 ELSE 0

Budget == ~First => sealed + Begun <= 1 + clientRekeys + serverRekeys

InStep ==
  /\ s2cCipher <= sealed /\ c2sCipher <= sealed
  /\ pc = "recvNewkeys" => c2sCipher = s2cCipher + 1
  /\ pc \notin {"recvNewkeys", "ended"} => c2sCipher = s2cCipher

\* The dialogue and the read loop are out of the steps that send NEWKEYS.
Between == pc \notin {"sendNewkeys", "ended", "failed"} /\ asked # "NEWKEYS"

NewkeysLeft ==
  /\ newkeys + (IF Has("NEWKEYS", chain) THEN 1 ELSE 0) <= sealed
  /\ Between => newkeys <= c2sCipher /\ ~Has("NEWKEYS", chain)

Counters ==
  /\ sentRekeyKexInit \in BOOLEAN /\ closed \in BOOLEAN /\ notifiedClosed \in BOOLEAN
  /\ leaving \in BOOLEAN /\ server \in {"none", "kexinit", "newkeys"}
  /\ data \in 0..MaxData /\ keepalives \in 0..MaxKeepalives
  /\ clientRekeys \in 0..MaxClientRekeys /\ serverRekeys \in 0..MaxServerRekeys
  /\ messages \in 0..MaxServerMessages

Counted == Counters /\ AheadOrder /\ ServerOrder /\ Turn /\ Budget /\ InStep /\ NewkeysLeft

-----------------------------------------------------------------------------
(***************************************************************************)
(* What a step does to what is ahead, and to what the server has said.     *)
(***************************************************************************)
Special == {"ID", "KEXINIT", "ECDH_INIT", "NEWKEYS"}

OnceEach == \A i, j \in 1..Len(s2c) : i # j /\ s2c[i][1] = s2c[j][1] => s2c[i][1] \notin {"KEXINIT", "ECDH_REPLY"}
Numbers  == \A i \in 1..Len(s2c) : s2c[i][2] <= sealed

\* Nothing that matters to an exchange is added.
Fewer ==
  /\ Orderly(Ahead) => Orderly(Ahead)'
  /\ \A kind \in Special : Has(kind, Ahead)' => Has(kind, Ahead)
  /\ Has("NEWKEYS", chain)' => Has("NEWKEYS", chain)

Adds(p) ==
  /\ /\ Orderly(Ahead) /\ p # "ID"
     /\ p = "KEXINIT" => ~Has("ECDH_INIT", Ahead)
     /\ p \in {"ECDH_INIT", "NEWKEYS"} => ~Has(p, Ahead)
     => Orderly(Ahead)'
  /\ \A kind \in Special : Has(kind, Ahead)' <=> Has(kind, Ahead) \/ kind = p
  /\ Has("NEWKEYS", chain)' <=> Has("NEWKEYS", chain) \/ p = "NEWKEYS"

Hears ==
  /\ OnceEach => OnceEach'
  /\ Numbers => Numbers'
  /\ \A kind \in {"KEXINIT", "ECDH_REPLY"} : Said(kind)' => Said(kind)

Thins(v, w) ==
  \E f \in [1..Len(v) -> 1..Len(w)] :
    /\ \A i \in 1..Len(v) : v[i] = w[f[i]]
    /\ \A i, j \in 1..Len(v) : i < j => f[i] < f[j]

LEMMA ThinsKeeps ==
  ASSUME NEW v \in Seq(Packet), NEW w \in Seq(Packet), Thins(v, w)
  PROVE  /\ Orderly(w) => Orderly(v)
         /\ \A kind : Has(kind, v) => Has(kind, w)
<1>1. PICK f \in [1..Len(v) -> 1..Len(w)] :
        /\ \A i \in 1..Len(v) : v[i] = w[f[i]]
        /\ \A i, j \in 1..Len(v) : i < j => f[i] < f[j]
  BY DEF Thins
<1>2. \A i \in 1..Len(v) : f[i] \in 1..Len(w)
  BY <1>1
<1>3. Orderly(w) => Orderly(v)
  BY <1>1, <1>2, Zenon DEF Orderly
<1>4. \A kind : Has(kind, v) => Has(kind, w)
  BY <1>1, <1>2, Zenon DEF Has
<1>5. QED  BY <1>3, <1>4

LEMMA HasConcat ==
  ASSUME NEW q \in Seq(Packet), NEW r \in Seq(Packet)
  PROVE  \A kind : Has(kind, q \o r) <=> Has(kind, q) \/ Has(kind, r)
<1>1. /\ Len(q \o r) = Len(q) + Len(r) /\ Len(q) \in Nat /\ Len(r) \in Nat
      /\ \A i \in 1..Len(q \o r) : (q \o r)[i] = IF i <= Len(q) THEN q[i] ELSE r[i - Len(q)]
  OBVIOUS
<1>2. \A i \in 1..Len(q) : i \in 1..Len(q \o r) /\ (q \o r)[i] = q[i]
  BY <1>1
<1>3. \A i \in 1..Len(r) : Len(q) + i \in 1..Len(q \o r) /\ (q \o r)[Len(q) + i] = r[i]
  BY <1>1
<1>4. \A i \in 1..Len(q \o r) : \/ i \in 1..Len(q)
                                \/ i - Len(q) \in 1..Len(r) /\ (q \o r)[i] = r[i - Len(q)]
  BY <1>1
<1>5. QED  BY <1>2, <1>3, <1>4, Zenon DEF Has

LEMMA OrderlyConcat ==
  ASSUME NEW q \in Seq(Packet), NEW r \in Seq(Packet), Orderly(q), Orderly(r),
         \A i \in 1..Len(q), j \in 1..Len(r) : MayFollow(r[j], q[i])
  PROVE  Orderly(q \o r)
<1>1. /\ Len(q \o r) = Len(q) + Len(r) /\ Len(q) \in Nat /\ Len(r) \in Nat
      /\ \A i \in 1..Len(q \o r) : (q \o r)[i] = IF i <= Len(q) THEN q[i] ELSE r[i - Len(q)]
  OBVIOUS
<1>2. ASSUME NEW i \in 1..Len(q \o r), NEW j \in 1..Len(q \o r), i < j
      PROVE  MayFollow((q \o r)[j], (q \o r)[i])
  <2>1. CASE j <= Len(q)
    <3>1. i \in 1..Len(q) /\ j \in 1..Len(q) /\ (q \o r)[i] = q[i] /\ (q \o r)[j] = q[j]
      BY <1>1, <1>2, <2>1
    <3>2. QED  BY <1>2, <3>1 DEF Orderly
  <2>2. CASE i > Len(q)
    <3>1. /\ i - Len(q) \in 1..Len(r) /\ j - Len(q) \in 1..Len(r) /\ i - Len(q) < j - Len(q)
          /\ (q \o r)[i] = r[i - Len(q)] /\ (q \o r)[j] = r[j - Len(q)]
      BY <1>1, <1>2, <2>2
    <3>2. QED  BY <3>1 DEF Orderly
  <2>3. CASE i <= Len(q) /\ j > Len(q)
    <3>1. /\ i \in 1..Len(q) /\ j - Len(q) \in 1..Len(r)
          /\ (q \o r)[i] = q[i] /\ (q \o r)[j] = r[j - Len(q)]
      BY <1>1, <1>2, <2>3
    <3>2. QED  BY <3>1
  <2>4. QED  BY <1>1, <1>2, <2>1, <2>2, <2>3
<1>3. QED  BY <1>2 DEF Orderly

LEMMA Sent ==
  ASSUME Types, NEW p \in Packet, c2s' = c2s, chain' = Append(chain, p)
  PROVE  Adds(p)
<1> USE DEF Types
<1> DEFINE one == <<p>>
<1>1. one \in Seq(Packet) /\ Len(one) = 1 /\ one[1] = p
  OBVIOUS
<1>2. chain' = chain \o one /\ Ahead \in Seq(Packet) /\ Ahead' = Ahead \o one
  BY DEF Ahead
<1> HIDE DEF one
<1>3. \A kind : Has(kind, one) <=> kind = p
  BY <1>1 DEF Has
<1>4. \A kind : Has(kind, Ahead)' <=> Has(kind, Ahead) \/ kind = p
  <2>1. \A kind : Has(kind, Ahead \o one) <=> Has(kind, Ahead) \/ Has(kind, one)
    BY <1>1, <1>2, HasConcat
  <2>2. QED  BY <1>2, <1>3, <2>1 DEF Has
<1>5. Has("NEWKEYS", chain)' <=> Has("NEWKEYS", chain) \/ p = "NEWKEYS"
  <2>1. \A kind : Has(kind, chain \o one) <=> Has(kind, chain) \/ Has(kind, one)
    BY <1>1, HasConcat
  <2>2. Has("NEWKEYS", chain)' <=> Has("NEWKEYS", chain \o one)
    BY <1>2 DEF Has
  <2>3. QED  BY <1>3, <2>1, <2>2
<1>6. ASSUME Orderly(Ahead), p # "ID", p = "KEXINIT" => ~Has("ECDH_INIT", Ahead),
             p \in {"ECDH_INIT", "NEWKEYS"} => ~Has(p, Ahead)
      PROVE  Orderly(Ahead)'
  <2>1. \A i \in 1..Len(Ahead), j \in 1..Len(one) : MayFollow(one[j], Ahead[i])
    BY <1>1, <1>6 DEF MayFollow, Has
  <2>2. Orderly(one)
    BY <1>1 DEF Orderly
  <2>3. Orderly(Ahead \o one)
    BY <1>1, <1>2, <1>6, <2>1, <2>2, OrderlyConcat
  <2>4. QED  BY <1>2, <2>3 DEF Orderly
<1>7. QED  BY <1>4, <1>5, <1>6 DEF Adds

LEMMA MiddleThins ==
  ASSUME NEW q \in Seq(Packet), NEW r \in Seq(Packet), r # << >>
  PROVE  Thins(q \o Tail(r), q \o r)
<1>1. PICK n \in Nat, m \in Nat : n = Len(q) /\ m = Len(r) /\ m > 0
  OBVIOUS
<1>2. /\ Len(q \o r) = n + m
      /\ \A i \in 1..(n + m) : (q \o r)[i] = IF i <= n THEN q[i] ELSE r[i - n]
  BY <1>1
<1>3. /\ Tail(r) \in Seq(Packet) /\ Len(Tail(r)) = m - 1 /\ Head(r) = r[1]
      /\ \A i \in 1..(m - 1) : Tail(r)[i] = r[i + 1]
  BY <1>1
<1>4. PICK v : v = q \o Tail(r)
  OBVIOUS
<1>5. /\ Len(v) = n + m - 1
      /\ \A i \in 1..(n + m - 1) : v[i] = IF i <= n THEN q[i] ELSE Tail(r)[i - n]
  BY <1>1, <1>3, <1>4
<1> DEFINE f == [i \in 1..(n + m - 1) |-> IF i <= n THEN i ELSE i + 1]
<1>6. f \in [1..Len(v) -> 1..Len(q \o r)]
  BY <1>1, <1>2, <1>5
<1>7. ASSUME NEW i \in 1..Len(v)  PROVE v[i] = (q \o r)[f[i]]
  <2>1. i \in 1..(n + m - 1) /\ f[i] \in 1..(n + m) /\ f[i] = IF i <= n THEN i ELSE i + 1
    BY <1>1, <1>5
  <2>2. CASE i <= n
    BY <1>2, <1>5, <2>1, <2>2
  <2>3. CASE i > n
    <3>1. i - n \in 1..(m - 1) /\ (i + 1) - n = (i - n) + 1 /\ ~(i + 1 <= n) /\ ~(i <= n)
      BY <1>1, <2>1, <2>3
    <3>2. Tail(r)[i - n] = r[(i - n) + 1]
      BY <1>3, <3>1
    <3>3. v[i] = Tail(r)[i - n]
      BY <1>5, <2>1, <3>1
    <3>4. (q \o r)[i + 1] = r[(i + 1) - n]
      BY <1>2, <2>1, <3>1
    <3>5. QED  BY <2>1, <3>1, <3>2, <3>3, <3>4
  <2>4. QED  BY <1>1, <2>1, <2>2, <2>3
<1>8. \A i, j \in 1..Len(v) : i < j => f[i] < f[j]
  BY <1>1, <1>5
<1> HIDE DEF f
<1>9. Thins(v, q \o r)
  BY <1>6, <1>7, <1>8 DEF Thins
<1>10. QED  BY <1>4, <1>9

LEMMA HeadPasses ==
  ASSUME NEW q \in Seq(Packet), NEW r \in Seq(Packet), r # << >>
  PROVE  Append(q, Head(r)) \o Tail(r) = q \o r
<1>1. Head(r) \in Packet /\ Tail(r) \in Seq(Packet) /\ r = <<Head(r)>> \o Tail(r)
  OBVIOUS
<1>2. Append(q, Head(r)) = q \o <<Head(r)>>
  BY <1>1
<1>3. (q \o <<Head(r)>>) \o Tail(r) = q \o (<<Head(r)>> \o Tail(r))
  BY <1>1
<1>4. QED  BY <1>1, <1>2, <1>3

LEMMA HeadGoes ==
  ASSUME NEW q \in Seq(Packet), NEW r \in Seq(Packet), q # << >>
  PROVE  Tail(q) \o r = Tail(q \o r) /\ Head(q) = Head(q \o r) /\ q \o r # << >>
  OBVIOUS

LEMMA TailThins ==
  ASSUME NEW w \in Seq(Packet), w # << >>
  PROVE  /\ Thins(Tail(w), w) /\ Has(Head(w), w)
         /\ Orderly(w) => \A kind : Has(kind, Tail(w)) => MayFollow(kind, Head(w))
<1>1. /\ Len(w) \in Nat \ {0} /\ Len(Tail(w)) = Len(w) - 1 /\ Head(w) = w[1] /\ 1 \in 1..Len(w)
      /\ \A i \in 1..Len(Tail(w)) : Tail(w)[i] = w[i + 1]
  OBVIOUS
<1>2. \A i \in 1..Len(Tail(w)) : i + 1 \in 1..Len(w) /\ 1 < i + 1
  BY <1>1
<1> DEFINE f == [i \in 1..Len(Tail(w)) |-> i + 1]
<1>3. f \in [1..Len(Tail(w)) -> 1..Len(w)] /\ \A i \in 1..Len(Tail(w)) : f[i] = i + 1
  BY <1>2
<1>4. \A i, j \in 1..Len(Tail(w)) : i < j => f[i] < f[j]
  BY <1>1, <1>3
<1> HIDE DEF f
<1>5. Thins(Tail(w), w)
  BY <1>1, <1>3, <1>4 DEF Thins
<1>6. Orderly(w) => \A kind : Has(kind, Tail(w)) => MayFollow(kind, Head(w))
  BY <1>1, <1>2 DEF Orderly, Has
<1>7. QED  BY <1>1, <1>5, <1>6 DEF Has

LEMMA Written ==
  ASSUME Types, Transmit
  PROVE  Fewer
<1> USE DEF Types
<1>1. chain # << >> /\ chain' = Tail(chain) /\ c2s' \in {c2s, Append(c2s, Head(chain))}
  BY DEF Transmit
<1>2. c2s \o chain \in Seq(Packet) /\ c2s \o Tail(chain) \in Seq(Packet) /\ Tail(chain) \in Seq(Packet)
  BY <1>1
<1>3. Thins(c2s \o Tail(chain), c2s \o chain) /\ Thins(Tail(chain), chain)
  BY <1>1, MiddleThins, TailThins
<1>4. /\ Orderly(c2s \o chain) => Orderly(c2s \o Tail(chain))
      /\ \A kind : Has(kind, c2s \o Tail(chain)) => Has(kind, c2s \o chain)
  BY <1>2, <1>3, ThinsKeeps
<1>5. \A kind : Has(kind, Tail(chain)) => Has(kind, chain)
  BY <1>2, <1>3, ThinsKeeps
<1>6. Append(c2s, Head(chain)) \o Tail(chain) = c2s \o chain
  BY <1>1, HeadPasses
<1>7. Ahead' \in {c2s \o chain, c2s \o Tail(chain)} /\ Ahead = c2s \o chain
  BY <1>1, <1>6 DEF Ahead
<1>8. QED  BY <1>1, <1>4, <1>5, <1>7 DEF Fewer, Has, Orderly

LEMMA Released ==
  ASSUME Types, CloseRekeyGate, c2s' = c2s
  PROVE  Fewer
<1> USE DEF Types
<1>1. held \in Seq(Packet) /\ \A j \in 1..Len(held) : held[j] \in Connection
  BY Kinds
<1>2. chain' = chain \o held
  BY DEF CloseRekeyGate
<1>3. Ahead \in Seq(Packet) /\ Ahead' = Ahead \o held
  <2>1. c2s \in Seq(Packet) /\ chain \in Seq(Packet)
    OBVIOUS
  <2>2. c2s \o chain \in Seq(Packet) /\ c2s \o (chain \o held) = (c2s \o chain) \o held
    BY <1>1, <2>1, ConcatAssociative, ConcatProperties
  <2>3. QED  BY <1>2, <2>2 DEF Ahead
<1>4. Connection \cap Special = {}
  BY DEF Connection, Special
<1>5. \A kind \in Special : ~Has(kind, held)
  BY <1>1, <1>4 DEF Has
<1>6. \A kind : Has(kind, Ahead \o held) <=> Has(kind, Ahead) \/ Has(kind, held)
  BY <1>1, <1>3, HasConcat
<1>7. \A kind : Has(kind, chain \o held) <=> Has(kind, chain) \/ Has(kind, held)
  BY <1>1, HasConcat
<1>8. Orderly(held) /\ \A i \in 1..Len(Ahead), j \in 1..Len(held) : MayFollow(held[j], Ahead[i])
  BY <1>1, <1>4 DEF MayFollow, Special, Orderly
<1>9. Orderly(Ahead) => Orderly(Ahead \o held)
  BY <1>1, <1>3, <1>8, OrderlyConcat
<1>10. Orderly(Ahead) => Orderly(Ahead)'
  BY <1>3, <1>9 DEF Orderly
<1>11. \A kind \in Special : Has(kind, Ahead)' => Has(kind, Ahead)
  BY <1>3, <1>5, <1>6 DEF Has
<1>12. Has("NEWKEYS", chain)' => Has("NEWKEYS", chain)
  BY <1>2, <1>5, <1>7 DEF Has, Special
<1>13. QED  BY <1>10, <1>11, <1>12 DEF Fewer

LEMMA Taken ==
  ASSUME Types, c2s # << >>, c2s' = Tail(c2s), chain' = chain
  PROVE  /\ Fewer
         /\ Has(Head(c2s), Ahead)
         /\ Orderly(Ahead) => \A kind \in Special : Has(kind, Ahead)' => MayFollow(kind, Head(c2s))
<1> USE DEF Types
<1>1. /\ Ahead \in Seq(Packet) /\ Ahead # << >> /\ Head(c2s) = Head(Ahead)
      /\ Tail(c2s) \o chain = Tail(Ahead) /\ Tail(Ahead) \in Seq(Packet)
  <2>1. c2s \in Seq(Packet) /\ chain \in Seq(Packet) /\ c2s \o chain \in Seq(Packet)
    OBVIOUS
  <2>2. /\ Tail(c2s) \o chain = Tail(c2s \o chain) /\ Head(c2s) = Head(c2s \o chain)
        /\ c2s \o chain # << >>
    BY <2>1, HeadGoes
  <2>3. Tail(c2s \o chain) \in Seq(Packet)
    BY <2>1, <2>2
  <2>4. QED  BY <2>1, <2>2, <2>3 DEF Ahead
<1>2. Ahead' = Tail(Ahead)
  BY <1>1 DEF Ahead
<1>3. /\ Thins(Tail(Ahead), Ahead) /\ Has(Head(Ahead), Ahead)
      /\ Orderly(Ahead) => \A kind : Has(kind, Tail(Ahead)) => MayFollow(kind, Head(Ahead))
  BY <1>1, TailThins
<1>4. (Orderly(Ahead) => Orderly(Tail(Ahead))) /\ \A kind : Has(kind, Tail(Ahead)) => Has(kind, Ahead)
  BY <1>1, <1>3, ThinsKeeps
<1>5. QED  BY <1>1, <1>2, <1>3, <1>4 DEF Fewer, Has, Orderly

LEMMA Unmoved ==
  ASSUME UNCHANGED <<c2s, chain>>
  PROVE  Fewer
BY DEF Fewer, Ahead, Has, Orderly

LEMMA Unheard ==
  ASSUME UNCHANGED <<s2c, sealed>>
  PROVE  Hears
BY DEF Hears, OnceEach, Numbers, Said

LEMMA Heard ==
  ASSUME Types, s2c # << >>, s2c' = Tail(s2c), UNCHANGED sealed
  PROVE  /\ Hears /\ Said(Head(s2c)[1])
         /\ \A kind \in {"KEXINIT", "ECDH_REPLY"} : OnceEach /\ kind = Head(s2c)[1] => ~Said(kind)'
<1> USE DEF Types
<1>1. /\ Len(s2c) \in Nat \ {0} /\ Len(s2c') = Len(s2c) - 1 /\ Head(s2c) = s2c[1] /\ 1 \in 1..Len(s2c)
      /\ \A i \in 1..Len(s2c') : s2c'[i] = s2c[i + 1] /\ i + 1 \in 1..Len(s2c) /\ i + 1 # 1
  OBVIOUS
<1>2. OnceEach => OnceEach'
  BY <1>1 DEF OnceEach
<1>3. Numbers => Numbers'
  BY <1>1 DEF Numbers
<1>4. \A kind : Said(kind)' => Said(kind)
  BY <1>1 DEF Said
<1>5. \A kind \in {"KEXINIT", "ECDH_REPLY"} : OnceEach /\ kind = Head(s2c)[1] => ~Said(kind)'
  BY <1>1 DEF OnceEach, Said
<1>6. Said(Head(s2c)[1])
  BY <1>1 DEF Said
<1>7. QED  BY <1>2, <1>3, <1>4, <1>5, <1>6 DEF Hears

LEMMA Told ==
  ASSUME Types, NEW kind \in Packet, s2c' = Append(s2c, Seal(kind)), UNCHANGED sealed
  PROVE  /\ OnceEach /\ (kind \in {"KEXINIT", "ECDH_REPLY"} => ~Said(kind)) => OnceEach'
         /\ Numbers => Numbers'
         /\ \A other : Said(other)' <=> Said(other) \/ other = kind
<1> USE DEF Types
<1>1. PICK n \in Nat : n = Len(s2c)
  OBVIOUS
<1>2. /\ Len(s2c') = n + 1 /\ s2c'[n + 1] = Seal(kind)
      /\ \A i \in 1..n : s2c'[i] = s2c[i]
  BY <1>1
<1>3. Seal(kind)[1] = kind /\ Seal(kind)[2] = sealed
  BY DEF Seal
<1>4. \A i \in 1..(n + 1) : i \in 1..n \/ i = n + 1
  OBVIOUS
<1>5. OnceEach /\ (kind \in {"KEXINIT", "ECDH_REPLY"} => ~Said(kind)) => OnceEach'
  BY <1>1, <1>2, <1>3, <1>4 DEF OnceEach, Said
<1>6. Numbers => Numbers'
  BY <1>1, <1>2, <1>3, <1>4 DEF Numbers
<1>7. \A other : Said(other)' <=> Said(other) \/ other = kind
  BY <1>1, <1>2, <1>3, <1>4 DEF Said
<1>8. QED  BY <1>5, <1>6, <1>7

-----------------------------------------------------------------------------
(***************************************************************************)
(* The order of the exchange, and what it has cost, under a step of the    *)
(* client's.                                                               *)
(***************************************************************************)
Orders == AheadOrder /\ ServerOrder /\ Budget

LEMMA BudgetStays ==
  ASSUME Counters, Budget, sealed \in Nat, UNCHANGED <<server, sealed, serverRekeys>>,
         clientRekeys' \in {clientRekeys, clientRekeys + 1},
         Begun' <= Begun \/ First \/ clientRekeys' = clientRekeys + 1
  PROVE  Budget'
<1>1. First' <=> First
  BY DEF First
<1>2. clientRekeys \in Nat /\ serverRekeys \in Nat
  BY TransportAssumption DEF Counters
<1>3. ASSUME ~First  PROVE sealed' + Begun' <= 1 + clientRekeys' + serverRekeys'
  <2>1. PICK b \in {0, 1}, c \in {0, 1} : b = Begun /\ c = Begun'
    BY DEF Begun
  <2>2. sealed + b <= 1 + clientRekeys + serverRekeys /\ (c <= b \/ clientRekeys' = clientRekeys + 1)
    BY <1>3, <2>1 DEF Budget
  <2>3. CASE clientRekeys' = clientRekeys
    <3>1. sealed + c <= 1 + clientRekeys + serverRekeys
      BY <1>2, <2>2, <2>3
    <3>2. QED  BY <2>1, <2>3, <3>1
  <2>4. CASE clientRekeys' = clientRekeys + 1
    <3>1. sealed + c <= 1 + (clientRekeys + 1) + serverRekeys
      BY <1>2, <2>2
    <3>2. QED  BY <2>1, <2>4, <3>1
  <2>5. QED  BY <2>3, <2>4
<1>4. QED  BY <1>1, <1>3 DEF Budget

LEMMA NothingAdded ==
  ASSUME Counted, Types, Fewer, Hears, UNCHANGED <<server, sealed, clientRekeys, serverRekeys>>
  PROVE  Orders'
<1> USE DEF Counted, Types
<1>1. AheadOrder'
  BY DEF AheadOrder, Fewer, Hears, Special, First
<1>2. ServerOrder'
  BY DEF ServerOrder, Hears, OnceEach, Numbers
<1>3. Begun' <= Begun
  BY DEF Begun, Fewer, Special
<1>4. Budget'
  BY <1>3, BudgetStays
<1>5. QED  BY <1>1, <1>2, <1>4 DEF Orders

LEMMA OneAdded ==
  ASSUME Counted, Types, NEW p \in Packet \ {"ID"}, Adds(p), Hears,
         UNCHANGED <<server, sealed, serverRekeys>>,
         clientRekeys' \in {clientRekeys, clientRekeys + 1},
         p = "KEXINIT" => /\ ~Has("ECDH_INIT", Ahead)
                          /\ First \/ server = "kexinit" \/ clientRekeys' = clientRekeys + 1,
         p = "ECDH_INIT" => ~Has(p, Ahead) /\ server = "kexinit" /\ ~Said("KEXINIT")',
         p = "NEWKEYS" => ~Has(p, Ahead) /\ server = "newkeys" /\ ~Said("ECDH_REPLY")'
  PROVE  Orders'
<1> USE DEF Counted, Types
<1>1. Orderly(Ahead)'
  BY DEF Adds, AheadOrder
<1>2. Has("ID", Ahead)' => First'
  BY DEF Adds, AheadOrder, Special, First
<1>3. Has("ECDH_INIT", Ahead)' => server' = "kexinit" /\ ~Said("KEXINIT")'
  BY DEF Adds, AheadOrder, Special, Hears
<1>4. Has("NEWKEYS", Ahead)' => server' = "newkeys" /\ ~Said("ECDH_REPLY")'
  BY DEF Adds, AheadOrder, Special, Hears
<1>5. AheadOrder'
  BY <1>1, <1>2, <1>3, <1>4 DEF AheadOrder
<1>6. ServerOrder'
  BY DEF ServerOrder, Hears, OnceEach, Numbers
<1>7. Has("KEXINIT", Ahead)' => Has("KEXINIT", Ahead) \/ p = "KEXINIT"
  BY DEF Adds, Special
<1>8. Budget'
  <2>1. Begun' <= Begun \/ First \/ clientRekeys' = clientRekeys + 1
    BY <1>7 DEF Begun
  <2>2. QED  BY <2>1, BudgetStays
<1>9. QED  BY <1>5, <1>6, <1>8 DEF Orders

(***************************************************************************)
(* Steps of the client.                                                    *)
(***************************************************************************)
\* The phases that the invariant of the keys knows.
LEMMA NoInitAhead ==
  ASSUME Types, NoInit
  PROVE  ~Has("ECDH_INIT", Ahead)
<1>1. \A kind : Has(kind, Ahead) <=> Has(kind, c2s) \/ Has(kind, chain)
  BY HasConcat DEF Types, Ahead
<1>2. QED  BY <1>1 DEF NoInit, No, Has

LEMMA InChainAhead ==
  ASSUME Types
  PROVE  Has("NEWKEYS", chain) => Has("NEWKEYS", Ahead)
BY HasConcat DEF Types, Ahead

LEMMA SaidReply ==
  ASSUME Types, Said("ECDH_REPLY"), Asking
  PROVE  sealed = s2cCipher + 1
BY DEF Said, Asking, Quiet, Replied, InFlight

LEMMA DialogueOrders ==
  ASSUME IInv, Counted, Dialogue \/ \E accepted \in BOOLEAN : Trusted(accepted)
  PROVE  Orders'
<1> USE DEF IInv, Answered, ciphers, closing, peer, counts, sends, dialogue, store
<1>1. ASSUME Hears, UNCHANGED <<c2s, chain, server, sealed, clientRekeys, serverRekeys>>
      PROVE  Orders'
  BY <1>1, Unmoved, NothingAdded
<1>2. ASSUME NEW kind, Receive(kind), UNCHANGED sealed
      PROVE  /\ Hears /\ Said(kind)
             /\ kind \in {"KEXINIT", "ECDH_REPLY"} => ~Said(kind)'
  BY <1>2, Heard DEF Receive, Counted, ServerOrder, OnceEach
<1>3. ASSUME NEW kind \in DialogueKinds, Ask(kind), asked # "open", UNCHANGED c2s
      PROVE  Adds(kind) /\ kind \in Packet
  <2>1. ~gate
    BY <1>3 DEF InDialogue
  <2>2. chain' = Append(chain, kind)
    BY <1>3, <2>1 DEF Ask, Send
  <2>3. kind \in Packet
    BY Kinds DEF DialogueKinds
  <2>4. QED  BY <1>3, <2>2, <2>3, Sent
<1>4. ASSUME NEW found \in BOOLEAN, ReadIdentification(found)  PROVE Orders'
  <2>1. Hears
    BY <1>2, <1>4 DEF ReadIdentification
  <2>2. CASE ~found
    BY <1>1, <1>4, <2>1, <2>2 DEF ReadIdentification, Fail
  <2>3. CASE found
    <3>1. Adds("KEXINIT") /\ "KEXINIT" \in Packet
      BY <1>3, <1>4, <2>3 DEF ReadIdentification, DialogueKinds, Before
    <3>2. ~Has("ECDH_INIT", Ahead) /\ sealed = 0
      BY <1>4, NoInitAhead DEF ReadIdentification, ReceivingKeys, Idle, Quiet, Before, After
    <3>3. First \/ server = "kexinit"
      BY <3>2 DEF First, Counted, ServerOrder, Counters
    <3>4. QED  BY <1>4, <2>1, <3>1, <3>2, <3>3, OneAdded DEF ReadIdentification
  <2>4. QED  BY <2>2, <2>3
<1>5. ASSUME NEW missing \in SUBSET Choices, ReadServerKexInit(Choices \ missing)  PROVE Orders'
  <2>1. Hears /\ Said("KEXINIT") /\ ~Said("KEXINIT")'
    BY <1>2, <1>5 DEF ReadServerKexInit
  <2>2. CASE Fail
    BY <1>1, <1>5, <2>1, <2>2 DEF ReadServerKexInit, Fail
  <2>3. CASE Ask("ECDH_INIT")
    <3>1. Adds("ECDH_INIT") /\ "ECDH_INIT" \in Packet
      BY <1>3, <1>5, <2>3 DEF ReadServerKexInit, DialogueKinds, Before
    <3>2. ~Has("ECDH_INIT", Ahead)
      BY <1>5, NoInitAhead DEF ReadServerKexInit, ReceivingKeys, Idle, Before, After
    <3>3. server = "kexinit"
      BY <2>1 DEF Counted, ServerOrder
    <3>4. QED  BY <1>5, <2>1, <3>1, <3>2, <3>3, OneAdded DEF ReadServerKexInit
  <2>4. QED  BY <1>5, <2>2, <2>3 DEF ReadServerKexInit
<1>6. ASSUME NEW signed, NEW hasCallback \in BOOLEAN, ReadHostKey(signed, hasCallback)
      PROVE  Orders'
  BY <1>1, <1>2, <1>6 DEF ReadHostKey, Fail
<1>7. ASSUME NEW kind \in After, Ask(kind), asked # "open", Hears,
             UNCHANGED <<c2s, server, sealed, clientRekeys, serverRekeys>>
      PROVE  Orders'
  <2>1. Adds(kind) /\ kind \in Packet
    BY <1>3, <1>7 DEF DialogueKinds
  <2>2. kind \notin Special
    BY DEF After, Special
  <2>3. QED  BY <1>7, <2>1, <2>2, OneAdded DEF Special
<1>8. ASSUME ReadFirstNewkeys  PROVE Orders'
  BY <1>2, <1>7, <1>8 DEF ReadFirstNewkeys, After
<1>9. ASSUME NEW credentials, ReadServiceAccept(credentials)  PROVE Orders'
  <2>1. Hears
    BY <1>2, <1>9 DEF ReadServiceAccept
  <2>2. QED  BY <1>1, <1>7, <1>9, <2>1 DEF ReadServiceAccept, Fail, After
<1>10. ASSUME ReadAuthResult  PROVE Orders'
  <2>1. Hears
    BY <1>2, <1>10 DEF ReadAuthResult
  <2>2. QED  BY <1>1, <1>7, <1>10, <2>1 DEF ReadAuthResult, Fail, After
<1>11. ASSUME ReadChannelOpened  PROVE Orders'
  <2>1. Hears
    BY <1>2, <1>11 DEF ReadChannelOpened
  <2>2. QED  BY <1>1, <1>7, <1>11, <2>1 DEF ReadChannelOpened, Fail, After
<1>12. ASSUME ReadSubsystem  PROVE Orders'
  <2>1. Hears
    BY <1>2, <1>12 DEF ReadSubsystem
  <2>2. QED  BY <1>1, <1>12, <2>1 DEF ReadSubsystem, Fail
<1>13. ASSUME AskedSent \/ RefusalSent  PROVE Orders'
  BY <1>1, <1>13, Unheard DEF AskedSent, RefusalSent
<1>14. ASSUME ReadUnexpected  PROVE Orders'
  BY <1>1, <1>14, Heard DEF ReadUnexpected
<1>15. ASSUME ReadRequest  PROVE Orders'
  <2>1. Hears
    BY <1>2, <1>15 DEF ReadRequest
  <2>2. ~gate /\ "REQUEST_FAILURE" \in Packet /\ "REQUEST_FAILURE" \notin Special
    BY <1>15 DEF ReadRequest, InDialogue, Handshaking, Packet, Connection, Special
  <2>3. chain' = Append(chain, "REQUEST_FAILURE")
    BY <1>15, <2>2 DEF ReadRequest, Send
  <2>4. Adds("REQUEST_FAILURE")
    BY <1>15, <2>2, <2>3, Sent DEF ReadRequest
  <2>5. QED  BY <1>15, <2>1, <2>2, <2>4, OneAdded DEF ReadRequest, Special
<1>16. ASSUME Broken  PROVE Orders'
  <2>1. Hears
    BY <1>2, <1>16, Unheard DEF Broken
  <2>2. QED  BY <1>1, <1>16, <2>1 DEF Broken, Fail
<1>17. ASSUME NEW accepted \in BOOLEAN, Trusted(accepted)  PROVE Orders'
  <2>1. Hears
    BY <1>17, Unheard DEF Trusted
  <2>2. CASE ~accepted
    BY <1>1, <1>17, <2>1, <2>2 DEF Trusted, Fail
  <2>3. CASE accepted
    <3>1. asked # "open"
      BY <1>17 DEF Trusted, InDialogue
    <3>2. Adds("NEWKEYS") /\ "NEWKEYS" \in Packet
      BY <1>3, <1>17, <2>3, <3>1 DEF Trusted, DialogueKinds
    <3>3. ~Has("NEWKEYS", Ahead) /\ server = "newkeys" /\ ~Said("ECDH_REPLY")'
      BY <1>17, <2>1 DEF Trusted, Counted, Turn, Hears
    <3>4. QED  BY <1>17, <2>1, <3>2, <3>3, OneAdded DEF Trusted
  <2>4. QED  BY <2>2, <2>3
<1>18. QED
  BY <1>4, <1>5, <1>6, <1>8, <1>9, <1>10, <1>11, <1>12, <1>13, <1>14, <1>15, <1>16, <1>17
     DEF Dialogue

LEMMA LoopOrders ==
  ASSUME IInv, Counted, Loop, UNCHANGED dialogue
  PROVE  Orders'
<1> USE DEF IInv, ciphers, closing, peer, counts, sends, dialogue, store
<1>1. ASSUME Hears, UNCHANGED <<c2s, chain, server, sealed, clientRekeys, serverRekeys>>
      PROVE  Orders'
  BY <1>1, Unmoved, NothingAdded
<1>2. ASSUME NEW kind, Receive(kind), UNCHANGED sealed
      PROVE  /\ Hears /\ Said(kind)
             /\ kind \in {"KEXINIT", "ECDH_REPLY"} => ~Said(kind)'
  BY <1>2, Heard DEF Receive, Counted, ServerOrder, OnceEach
<1>3. ASSUME NEW kind \in Transport, gate' \in BOOLEAN, Send(kind), UNCHANGED c2s
      PROVE  Adds(kind) /\ kind \in Packet
  <2>1. chain' = Append(chain, kind)
    BY <1>3 DEF Send, Transport, Connection
  <2>2. kind \in Packet
    BY DEF Packet
  <2>3. QED  BY <1>3, <2>1, <2>2, Sent
<1>4. ASSUME LoopEnds, Hears, UNCHANGED <<clientRekeys, serverRekeys>>  PROVE Orders'
  BY <1>1, <1>4, Released, NothingAdded DEF Loop, LoopEnds
<1>5. ASSUME ReceiveFails \/ SendFails  PROVE Orders'
  BY <1>4, <1>5, Unheard DEF ReceiveFails, SendFails, LoopEnds
<1>6. ASSUME ReadDisconnect  PROVE Orders'
  BY <1>2, <1>4, <1>6 DEF ReadDisconnect, LoopEnds
<1>7. ASSUME ReadChannelMessage  PROVE Orders'
  BY <1>1, <1>2, <1>7 DEF ReadChannelMessage
<1>8. ASSUME ReadGlobalRequest  PROVE Orders'
  <2>1. Hears
    BY <1>2, <1>8 DEF ReadGlobalRequest
  <2>2. "REQUEST_FAILURE" \in Packet /\ "REQUEST_FAILURE" \notin Special
    BY DEF Packet, Connection, Special
  <2>3. chain' = chain \/ chain' = Append(chain, "REQUEST_FAILURE")
    BY <1>8, Zenon DEF ReadGlobalRequest, Send
  <2>4. CASE chain' = chain
    BY <1>1, <1>8, <2>1, <2>4 DEF ReadGlobalRequest
  <2>5. CASE chain' = Append(chain, "REQUEST_FAILURE")
    <3>1. Adds("REQUEST_FAILURE")
      BY <1>8, <2>2, <2>5, Sent DEF ReadGlobalRequest
    <3>2. QED  BY <1>8, <2>1, <2>2, <3>1, OneAdded DEF ReadGlobalRequest, Special
  <2>6. QED  BY <2>3, <2>4, <2>5
<1>9. ASSUME BeginRekey  PROVE Orders'
  <2>1. Hears /\ Said("KEXINIT") /\ ~Said("KEXINIT")'
    BY <1>2, <1>9 DEF BeginRekey
  <2>2. server = "kexinit" /\ ~Has("ECDH_INIT", Ahead)
    <3>1. NoInit
      BY <1>9 DEF BeginRekey, ReceivingKeys, Idle, InDialogue, Handshaking, Before, After
    <3>2. QED  BY <2>1, <3>1, NoInitAhead DEF Counted, ServerOrder
  <2>3. CASE Send("ECDH_INIT")
    <3>1. Adds("ECDH_INIT") /\ "ECDH_INIT" \in Packet
      BY <1>3, <1>9, <2>3 DEF BeginRekey, Transport
    <3>2. QED  BY <1>9, <2>1, <2>2, <3>1, OneAdded DEF BeginRekey
  <2>4. CASE Send("KEXINIT")
    <3>1. Adds("KEXINIT") /\ "KEXINIT" \in Packet
      BY <1>3, <1>9, <2>4 DEF BeginRekey, Transport
    <3>2. QED  BY <1>9, <2>1, <2>2, <3>1, OneAdded DEF BeginRekey
  <2>5. QED  BY <1>9, <2>3, <2>4 DEF BeginRekey
<1>10. ASSUME NegotiationFails  PROVE Orders'
  BY <1>2, <1>10, Released, NothingAdded DEF NegotiationFails
<1>11. ASSUME NEW accepted \in BOOLEAN, ReadReply(accepted)  PROVE Orders'
  <2>1. Hears /\ Said("ECDH_REPLY") /\ ~Said("ECDH_REPLY")'
    BY <1>2, <1>11 DEF ReadReply, LoopEnds
  <2>2. CASE LoopEnds
    BY <1>4, <1>11, <2>1, <2>2 DEF ReadReply, LoopEnds
  <2>3. CASE Send("NEWKEYS") /\ accepted
    <3>1. Adds("NEWKEYS") /\ "NEWKEYS" \in Packet
      BY <1>3, <1>11, <2>3 DEF ReadReply, Transport, Types
    <3>2. server = "newkeys" /\ ~Has("NEWKEYS", Ahead)
      BY <2>1 DEF Counted, ServerOrder, AheadOrder
    <3>3. QED  BY <1>11, <2>1, <2>3, <3>1, <3>2, OneAdded DEF ReadReply
  <2>4. QED  BY <1>11, <2>2, <2>3 DEF ReadReply
<1>12. ASSUME FailureSent \/ EcdhInitSent \/ NewkeysSent  PROVE Orders'
  BY <1>1, <1>12, Unheard DEF FailureSent, EcdhInitSent, NewkeysSent
<1>13. ASSUME KexInitSent  PROVE Orders'
  <2>1. Adds("ECDH_INIT") /\ "ECDH_INIT" \in Packet
    BY <1>3, <1>13 DEF KexInitSent, Transport, Types
  <2>2. NoInit
    BY <1>13 DEF KexInitSent, ReceivingKeys, Idle, InDialogue, Handshaking, Before, After
  <2>3. Hears
    BY <1>13, Unheard DEF KexInitSent
  <2>4. server = "kexinit" /\ ~Said("KEXINIT")'
    BY <1>13, <2>3 DEF KexInitSent, Counted, Turn, Hears
  <2>5. QED  BY <1>13, <2>1, <2>2, <2>3, <2>4, NoInitAhead, OneAdded DEF KexInitSent
<1>14. ASSUME ReadNewkeys  PROVE Orders'
  BY <1>2, <1>14, Released, NothingAdded DEF ReadNewkeys
<1>15. QED
  BY <1>5, <1>6, <1>7, <1>8, <1>9, <1>10, <1>11, <1>12, <1>13, <1>14 DEF Loop, ReadLoop

LEMMA ClientOrders ==
  ASSUME IInv, Counted, Sends \/ Opened \/ (Lose /\ UNCHANGED dialogue) \/ UNCHANGED allVars
  PROVE  Orders'
<1> USE DEF IInv, ciphers, closing, peer, counts, sends, dialogue, store
<1>1. ASSUME UNCHANGED <<c2s, chain, s2c, server, sealed, clientRekeys, serverRekeys>>
      PROVE  Orders'
  BY <1>1, Unmoved, Unheard, NothingAdded
<1>2. ASSUME Sends  PROVE Orders'
  BY <1>2, Written, Unheard, NothingAdded DEF Sends, Transmit
<1>3. ASSUME NEW kind \in Packet \ Special, Send(kind),
             UNCHANGED <<c2s, s2c, server, sealed, clientRekeys, serverRekeys>>
      PROVE  Orders'
  <2>1. chain' = chain \/ chain' = Append(chain, kind)
    BY <1>3, Zenon DEF Send
  <2>2. CASE chain' = chain
    BY <1>1, <1>3, <2>2
  <2>3. CASE chain' = Append(chain, kind)
    <3>1. Adds(kind)
      BY <1>3, <2>3, Sent
    <3>2. QED  BY <1>3, <3>1, Unheard, OneAdded DEF Special
  <2>4. QED  BY <2>1, <2>2, <2>3
<1>4. {"DATA", "GLOBAL_REQUEST", "DISCONNECT"} \subseteq Packet \ Special
  BY DEF Packet, Transport, Connection, Special
<1>5. ASSUME SendData \/ Keepalive \/ Disconnect  PROVE Orders'
  BY <1>3, <1>4, <1>5 DEF SendData, Keepalive, Disconnect
<1>6. ASSUME RequestRekey, asked = "open"  PROVE Orders'
  <2>1. chain' = Append(chain, "KEXINIT") /\ "KEXINIT" \in Packet
    BY <1>6 DEF RequestRekey, Send, Connection, Packet, Transport
  <2>2. Adds("KEXINIT")
    BY <1>6, <2>1, Sent DEF RequestRekey
  <2>3. NoInit
    BY <1>6 DEF RequestRekey, ReceivingKeys, Idle, InDialogue, Handshaking, Driving, Before, After,
                Counted, Turn, Types, States, Receiving, Sending
  <2>4. QED  BY <1>6, <2>1, <2>2, <2>3, NoInitAhead, Unheard, OneAdded DEF RequestRekey
<1>7. ASSUME Disconnected \/ Lose \/ UNCHANGED allVars  PROVE Orders'
  BY <1>1, <1>7 DEF Disconnected, Lose, allVars, vars
<1>8. QED
  BY <1>2, <1>5, <1>6, <1>7 DEF Opened, Client

(***************************************************************************)
(* Steps of the server.                                                    *)
(***************************************************************************)
LEMMA ReadsOrders ==
  ASSUME IInv, Counted, Reads
  PROVE  Orders' /\ Numbers' /\ sealed' >= sealed
<1> USE DEF IInv, ciphers, closing, peer, counts, sends, dialogue, store
<1> DEFINE head == Head(c2s)
<1>1. c2s # << >> /\ c2s' = Tail(c2s) /\ chain' = chain /\ UNCHANGED <<clientRekeys, serverRekeys, asked, pc>>
  BY DEF Reads, ServerReads
<1>2. /\ Fewer /\ Has(head, Ahead)
      /\ \A kind \in Special : Has(kind, Ahead)' => MayFollow(kind, head)
  BY <1>1, Taken DEF Counted, AheadOrder
<1>3. Numbers /\ OnceEach /\ sealed \in Nat /\ Types
  BY DEF Counted, ServerOrder, Numbers, OnceEach, Types
<1> HIDE DEF head
<1>4. CASE head = "KEXINIT" /\ server = "none"
  <2>1. server' = "kexinit" /\ s2c' = Append(s2c, Seal("KEXINIT")) /\ sealed' = sealed
    BY <1>4 DEF Reads, ServerReads, head
  <2>2. ~Said("KEXINIT") /\ ~Said("ECDH_REPLY") /\ ~Has("ECDH_INIT", Ahead) /\ ~Has("NEWKEYS", Ahead)
    BY <1>4 DEF Counted, ServerOrder, AheadOrder
  <2>3. "KEXINIT" \in Packet
    BY DEF Packet, Transport
  <2>4. OnceEach' /\ Numbers' /\ \A other : Said(other)' <=> Said(other) \/ other = "KEXINIT"
    BY <1>3, <2>1, <2>2, <2>3, Told
  <2>5. AheadOrder'
    BY <1>2, <1>4, <2>1, <2>2 DEF Fewer, Counted, AheadOrder, Special, MayFollow
  <2>6. ServerOrder'
    BY <1>3, <2>1, <2>2, <2>4 DEF ServerOrder, OnceEach, Numbers
  <2>7. Budget'
    <3>1. Begun' = 1 /\ Begun = 1
      BY <1>2, <1>4, <2>1 DEF Begun
    <3>2. clientRekeys \in Nat /\ serverRekeys \in Nat
      BY TransportAssumption DEF Counted, Counters
    <3>3. sealed + 1 <= 1 + clientRekeys + serverRekeys
      BY <1>3, <1>4, <3>1, <3>2 DEF Counted, Budget, First
    <3>4. QED  BY <1>1, <2>1, <3>1, <3>3 DEF Budget
  <2>8. QED  BY <1>3, <2>1, <2>4, <2>5, <2>6, <2>7 DEF Orders
<1>5. CASE head = "ECDH_INIT"
  <2>1. /\ server' = "newkeys" /\ sealed' = sealed + 1
        /\ s2c' = s2c \o <<Seal("ECDH_REPLY"), Seal("NEWKEYS")>>
    BY <1>5 DEF Reads, ServerReads, head
  <2>2. server = "kexinit" /\ ~Said("KEXINIT") /\ ~Said("ECDH_REPLY") /\ ~Has("NEWKEYS", Ahead)
    BY <1>2, <1>5 DEF Counted, ServerOrder, AheadOrder
  <2>3. /\ OnceEach' /\ Numbers'
        /\ \A other : Said(other)' <=> Said(other) \/ other \in {"ECDH_REPLY", "NEWKEYS"}
    <3>1. PICK n \in Nat : n = Len(s2c)
      BY <1>3 DEF Types
    <3>2. /\ Len(s2c') = n + 2 /\ s2c'[n + 1] = <<"ECDH_REPLY", sealed>> /\ s2c'[n + 2] = <<"NEWKEYS", sealed>>
          /\ \A i \in 1..n : s2c'[i] = s2c[i]
      BY <1>3, <2>1, <3>1 DEF Types, Seal
    <3>3. \A i \in 1..(n + 2) : i \in 1..n \/ i = n + 1 \/ i = n + 2
      OBVIOUS
    <3>4. \A i \in 1..n : s2c[i][1] \notin {"KEXINIT", "ECDH_REPLY"}
      BY <2>2, <3>1 DEF Said
    <3>5. OnceEach'
      BY <3>2, <3>3, <3>4 DEF OnceEach
    <3>6. Numbers'
      <4>1. ASSUME NEW i \in 1..(n + 2)  PROVE s2c'[i][2] <= sealed + 1
        <5>1. CASE i \in 1..n
          <6>1. s2c[i] \in Packet \X Nat /\ s2c[i][2] \in Nat /\ s2c[i][2] <= sealed
            BY <1>3, <3>1, <5>1 DEF Types, Numbers
          <6>2. QED  BY <1>3, <3>2, <5>1, <6>1
        <5>2. CASE i = n + 1 \/ i = n + 2
          BY <1>3, <3>2, <5>2
        <5>3. QED  BY <3>3, <5>1, <5>2
      <4>2. QED  BY <2>1, <3>2, <4>1 DEF Numbers
    <3>7. \A other : Said(other)' <=> Said(other) \/ other \in {"ECDH_REPLY", "NEWKEYS"}
      BY <3>1, <3>2, <3>3 DEF Said
    <3>8. QED  BY <3>5, <3>6, <3>7
  <2>4. ~Has("KEXINIT", Ahead)' /\ ~Has("ECDH_INIT", Ahead)' /\ ~Has("ID", Ahead)'
    BY <1>2, <1>5 DEF MayFollow, Special
  <2>5. AheadOrder'
    BY <1>2, <2>1, <2>2, <2>4 DEF Fewer, Counted, AheadOrder, Special
  <2>6. ServerOrder'
    <3>1. ~Said("KEXINIT")' /\ sealed' > 0 /\ server' = "newkeys"
      BY <1>3, <2>1, <2>2, <2>3
    <3>2. QED  BY <2>3, <3>1 DEF ServerOrder, OnceEach, Numbers
  <2>7. Budget'
    <3>1. Begun' = 0 /\ Begun = 1
      BY <2>1, <2>2, <2>4 DEF Begun
    <3>2. clientRekeys \in Nat /\ serverRekeys \in Nat
      BY TransportAssumption DEF Counted, Counters
    <3>3. sealed + 1 <= 1 + clientRekeys + serverRekeys
      BY <1>3, <2>2, <3>1, <3>2 DEF Counted, Budget, First
    <3>4. QED  BY <1>1, <1>3, <2>1, <3>1, <3>3 DEF Budget
  <2>8. QED  BY <1>3, <2>1, <2>3, <2>5, <2>6, <2>7 DEF Orders
<1>6. CASE head = "NEWKEYS"
  <2>1. server' = "none" /\ UNCHANGED <<s2c, sealed>>
    BY <1>6 DEF Reads, ServerReads, head
  <2>2. server = "newkeys" /\ sealed > 0 /\ ~Said("KEXINIT") /\ ~Said("ECDH_REPLY") /\ ~Has("ECDH_INIT", Ahead)
    BY <1>2, <1>6 DEF Counted, ServerOrder, AheadOrder
  <2>3. ~Has("NEWKEYS", Ahead)' /\ ~Has("ID", Ahead)' /\ ~Has("ECDH_INIT", Ahead)'
    BY <1>2, <1>6, <2>2 DEF MayFollow, Special, Fewer
  <2>4. AheadOrder'
    BY <1>2, <2>3 DEF Fewer, Counted, AheadOrder
  <2>5. ServerOrder' /\ Numbers'
    BY <1>3, <2>1, <2>2 DEF Counted, ServerOrder, Said, Numbers
  <2>6. Budget'
    <3>1. Begun' \in {0, 1} /\ Begun \in {0, 1} /\ (Begun' = 0 \/ Begun = 1)
      BY <1>2, <2>1 DEF Begun, Fewer, Special
    <3>2. clientRekeys \in Nat /\ serverRekeys \in Nat
      BY TransportAssumption DEF Counted, Counters
    <3>3. sealed + Begun <= 1 + clientRekeys + serverRekeys
      BY <2>2 DEF Counted, Budget, First
    <3>4. sealed + Begun' <= 1 + clientRekeys + serverRekeys
      <4>1. PICK b \in {0, 1}, c \in {0, 1} : b = Begun /\ c = Begun' /\ (c = 0 \/ b = 1)
        BY <3>1
      <4>2. sealed + b <= 1 + clientRekeys + serverRekeys
        BY <3>3, <4>1
      <4>3. c <= b
        BY <4>1
      <4>4. sealed + c <= 1 + clientRekeys + serverRekeys
        BY <1>3, <3>2, <4>2, <4>3
      <4>5. QED  BY <4>1, <4>4
    <3>5. QED  BY <1>1, <2>1, <3>4 DEF Budget
  <2>7. QED  BY <1>3, <2>1, <2>4, <2>5, <2>6 DEF Orders
<1>7. CASE /\ head # "ECDH_INIT" /\ head # "NEWKEYS" /\ ~(head = "KEXINIT" /\ server = "none")
  <2>1. UNCHANGED <<s2c, server, sealed>>
    BY <1>7 DEF Reads, ServerReads, head
  <2>2. Orders'
    BY <1>1, <1>2, <1>3, <2>1, Unheard, NothingAdded
  <2>3. QED  BY <1>3, <2>1, <2>2 DEF Numbers
<1>8. QED  BY <1>4, <1>5, <1>6, <1>7

LEMMA AnswersOrders ==
  ASSUME IInv, Counted, ServerAnswers
  PROVE  Orders'
<1> USE DEF IInv, ciphers, closing, peer, counts, sends, dialogue, store
<1>1. /\ c2s # << >> /\ c2s' = Tail(c2s) /\ chain' = chain
      /\ UNCHANGED <<clientRekeys, serverRekeys, sealed>> /\ server # "kexinit"
  BY DEF ServerAnswers
<1>2. PICK kind \in Answers(Head(c2s)) : /\ s2c' = Append(s2c, Seal(kind))
                                         /\ server' = IF kind = "KEXINIT" THEN "kexinit" ELSE server
  BY DEF ServerAnswers
<1>3. /\ Fewer /\ Has(Head(c2s), Ahead)
      /\ \A other \in Special : Has(other, Ahead)' => MayFollow(other, Head(c2s))
  BY <1>1, Taken DEF Counted, AheadOrder
<1>4. kind \in Packet /\ kind # "ECDH_REPLY" /\ (kind = "KEXINIT" => Head(c2s) = "ID")
  BY DEF Answers, Packet, Transport, Connection
<1>5. ~Said("KEXINIT")
  BY <1>1 DEF Counted, ServerOrder
<1>6. Numbers /\ OnceEach /\ sealed \in Nat /\ Types
  BY DEF Counted, ServerOrder, Numbers, OnceEach, Types
<1>7. OnceEach' /\ Numbers' /\ \A other : Said(other)' <=> Said(other) \/ other = kind
  BY <1>1, <1>2, <1>4, <1>5, <1>6, Told
<1>8. CASE kind # "KEXINIT"
  <2>1. Hears /\ server' = server
    BY <1>2, <1>4, <1>7, <1>8 DEF Hears
  <2>2. QED  BY <1>1, <1>3, <1>6, <2>1, NothingAdded
<1>9. CASE kind = "KEXINIT"
  <2>1. server = "none" /\ sealed = 0 /\ Head(c2s) = "ID"
    BY <1>3, <1>4, <1>9 DEF Counted, AheadOrder, First
  <2>2. ~Said("ECDH_REPLY") /\ ~Has("ECDH_INIT", Ahead) /\ ~Has("NEWKEYS", Ahead)
    BY <2>1 DEF Counted, ServerOrder, AheadOrder
  <2>3. AheadOrder'
    BY <1>3, <2>1, <2>2 DEF Fewer, Counted, AheadOrder, Special, MayFollow
  <2>4. ServerOrder'
    BY <1>2, <1>7, <1>9, <2>2 DEF ServerOrder, OnceEach, Numbers
  <2>5. Budget'
    <3>1. Begun' = 1
      BY <1>2, <1>9 DEF Begun
    <3>2. clientRekeys \in Nat /\ serverRekeys \in Nat
      BY TransportAssumption DEF Counted, Counters
    <3>3. QED  BY <1>1, <2>1, <3>1, <3>2 DEF Budget
  <2>6. QED  BY <2>3, <2>4, <2>5 DEF Orders
<1>10. QED  BY <1>8, <1>9

LEMMA SpeaksOrders ==
  ASSUME IInv, Counted, ServerSpeaks
  PROVE  Orders'
<1> USE DEF IInv, ciphers, closing, peer, counts, sends, dialogue, store
<1>1. Numbers /\ OnceEach /\ sealed \in Nat /\ Types
  BY DEF Counted, ServerOrder, Numbers, OnceEach, Types
<1>2. ASSUME NEW kind \in {"DISCONNECT", "GLOBAL_REQUEST", "DATA"}, ServerSends(kind)
      PROVE  Orders'
  <2>1. kind \in Packet
    BY DEF Packet, Transport, Connection
  <2>2. Hears
    BY <1>1, <1>2, <2>1, Told DEF ServerSends, Hears
  <2>3. QED  BY <1>1, <1>2, <2>2, Unmoved, NothingAdded DEF ServerSends
<1>3. ASSUME ServerRekeys, sealed > 0  PROVE Orders'
  <2>1. "KEXINIT" \in Packet /\ ~Said("KEXINIT") /\ ~Said("ECDH_REPLY")
    BY <1>3 DEF ServerRekeys, Counted, ServerOrder, Packet, Transport
  <2>2. OnceEach' /\ Numbers' /\ \A other : Said(other)' <=> Said(other) \/ other = "KEXINIT"
    BY <1>1, <1>3, <2>1, Told DEF ServerRekeys
  <2>3. ~Has("ECDH_INIT", Ahead) /\ ~Has("NEWKEYS", Ahead) /\ ~Has("ID", Ahead)
    BY <1>3 DEF ServerRekeys, Counted, AheadOrder, First
  <2>4. \A kind : Has(kind, Ahead)' <=> Has(kind, Ahead)
    BY <1>3 DEF ServerRekeys, Has, Ahead
  <2>5. AheadOrder'
    BY <1>3, <2>3, <2>4, Unmoved DEF ServerRekeys, Counted, AheadOrder, Fewer
  <2>6. ServerOrder'
    BY <1>3, <2>1, <2>2 DEF ServerRekeys, ServerOrder, OnceEach, Numbers
  <2>7. Budget'
    <3>1. Begun' = 1 /\ Begun \in {0, 1}
      BY <1>3 DEF ServerRekeys, Begun
    <3>2. clientRekeys \in Nat /\ serverRekeys \in Nat
      BY TransportAssumption DEF Counted, Counters
    <3>3. sealed + Begun <= 1 + clientRekeys + serverRekeys
      BY <1>3 DEF Counted, Budget, First
    <3>4. sealed <= 1 + clientRekeys + serverRekeys
      BY <1>1, <3>1, <3>2, <3>3
    <3>5. sealed' = sealed /\ clientRekeys' = clientRekeys /\ serverRekeys' = serverRekeys + 1
      BY <1>3 DEF ServerRekeys
    <3>6. QED  BY <1>1, <3>1, <3>2, <3>4, <3>5 DEF Budget
  <2>8. QED  BY <2>5, <2>6, <2>7 DEF Orders
<1>4. QED  BY <1>2, <1>3 DEF ServerSpeaks

LEMMA OrdersStep ==
  ASSUME IInv, Counted, [Next]_allVars
  PROVE  Orders' /\ sealed' >= sealed
<1> USE DEF IInv, Types, ciphers, closing, peer, counts, sends, dialogue, store
<1>1. CASE Runtime \/ \E accepted \in BOOLEAN : Trusted(accepted)
  <2>1. sealed' = sealed
    BY <1>1 DEF Runtime, ReadRekeyReply, Loop, Dialogue, ReadIdentification, ReadServerKexInit, ReadHostKey, ReadFirstNewkeys,
           ReadServiceAccept, ReadAuthResult, ReadChannelOpened, ReadSubsystem, AskedSent,
           ReadUnexpected, ReadRequest, RefusalSent, Broken, Trusted,
           Loop, ReadLoop, ReceiveFails, ReadDisconnect, ReadChannelMessage, ReadGlobalRequest,
           BeginRekey, NegotiationFails, ReadReply, FailureSent, KexInitSent, EcdhInitSent,
           NewkeysSent, SendFails, ReadNewkeys, LoopEnds
  <2>2. QED  BY <1>1, <2>1, RuntimeStep, DialogueOrders, LoopOrders
<1>2. CASE Sends \/ Opened \/ (Lose /\ UNCHANGED dialogue) \/ UNCHANGED allVars
  <2>1. sealed' = sealed
    BY <1>2 DEF Sends, Transmit, Opened, Client, SendData, Keepalive, RequestRekey, Disconnect,
                Disconnected, Lose, allVars, vars
  <2>2. QED  BY <1>2, <2>1, ClientOrders
<1>3. CASE Reads
  BY <1>3, ReadsOrders
<1>4. CASE ServerAnswers \/ (ServerSpeaks /\ UNCHANGED dialogue)
  <2>1. sealed' = sealed
    BY <1>4 DEF ServerAnswers, ServerSpeaks, ServerSends, ServerRekeys
  <2>2. QED  BY <1>4, <2>1, AnswersOrders, SpeaksOrders
<1>5. QED  BY <1>1, <1>2, <1>3, <1>4 DEF Next

LEMMA CountersStep ==
  ASSUME IInv, Counted, [Next]_allVars
  PROVE  Counters'
<1> USE TransportAssumption DEF Counted, Counters, ciphers, closing, peer, counts, sends, dialogue, store
<1>1. CASE Dialogue \/ \E accepted \in BOOLEAN : Trusted(accepted)
  <2>1. UNCHANGED <<sentRekeyKexInit, closed, notifiedClosed, leaving, server, counts>>
    BY <1>1 DEF Dialogue, ReadIdentification, ReadServerKexInit, ReadHostKey, ReadFirstNewkeys,
           ReadServiceAccept, ReadAuthResult, ReadChannelOpened, ReadSubsystem, AskedSent,
           ReadUnexpected, ReadRequest, RefusalSent, Broken, Trusted
  <2>2. QED  BY <2>1
<1>2. CASE Loop /\ UNCHANGED dialogue
  <2>1. /\ UNCHANGED <<server, counts>>
        /\ UNCHANGED sentRekeyKexInit \/ sentRekeyKexInit' = FALSE
        /\ UNCHANGED <<closed, notifiedClosed, leaving>> \/ Teardown
    BY <1>2 DEF Loop, ReadLoop, ReceiveFails, ReadDisconnect, ReadChannelMessage, ReadGlobalRequest,
           BeginRekey, NegotiationFails, ReadReply, FailureSent, KexInitSent, EcdhInitSent,
           NewkeysSent, SendFails, ReadNewkeys, LoopEnds
  <2>2. QED  BY <2>1 DEF Teardown
<1>3. CASE Sends
  <2>1. /\ UNCHANGED <<sentRekeyKexInit, server, counts>>
        /\ closed' \in {closed, TRUE} /\ notifiedClosed' \in {notifiedClosed, TRUE} /\ leaving' = leaving
    BY <1>3 DEF Sends, Transmit, Teardown
  <2>2. QED  BY <2>1
<1>4. CASE Opened
  <2>1. SendData \/ Keepalive \/ Disconnect \/ Disconnected => UNCHANGED <<sentRekeyKexInit, server, clientRekeys, serverRekeys, messages>>
    BY DEF SendData, Keepalive, Disconnect, Disconnected
  <2>2. SendData \/ Keepalive => Counters'
    BY <2>1 DEF SendData, Keepalive
  <2>3. RequestRekey => Counters'
    BY DEF RequestRekey
  <2>4. Disconnect \/ Disconnected => Counters'
    BY <2>1 DEF Disconnect, Disconnected
  <2>5. QED  BY <1>4, <2>2, <2>3, <2>4 DEF Opened, Client
<1>5. CASE Reads
  BY <1>5 DEF Reads, ServerReads
<1>6. CASE ServerAnswers
  <2>1. UNCHANGED <<sentRekeyKexInit, closed, notifiedClosed, leaving, counts>>
        /\ server' \in {server, "kexinit"}
    BY <1>6 DEF ServerAnswers
  <2>2. QED  BY <2>1
<1>7. CASE (ServerSpeaks \/ Lose) /\ UNCHANGED dialogue
  BY <1>7 DEF ServerSpeaks, ServerSends, ServerRekeys, Lose
<1>8. CASE UNCHANGED allVars
  BY <1>8 DEF allVars, vars
<1>9. QED  BY <1>1, <1>2, <1>3, <1>4, <1>5, <1>6, <1>7, <1>8, RuntimeStep DEF Next

(***************************************************************************)
(* Whose turn it is.                                                       *)
(***************************************************************************)
\* A server in the middle of an exchange only waits for the ECDH_INIT, and after
\* its NEWKEYS only for the client's.
LEMMA ServerHolds ==
  ASSUME IInv, Counted, NoInit, Reads \/ ServerAnswers \/ ServerSpeaks
  PROVE  /\ server = "kexinit" => UNCHANGED <<server, s2c>>
         /\ server = "newkeys" /\ ~Has("NEWKEYS", Ahead) /\ ~Said("ECDH_REPLY") =>
              server' = server /\ ~Said("ECDH_REPLY")'
<1> USE DEF IInv, Types, Counted
<1>1. ~Has("ECDH_INIT", Ahead)
  BY NoInitAhead
<1>2. CASE Reads
  <2>1. Has(Head(c2s), Ahead)
    BY <1>2, Taken DEF Reads, ServerReads, sends
  <2>2. server = "kexinit" => ~Has("NEWKEYS", Ahead)
    BY DEF AheadOrder
  <2>3. Head(c2s) # "ECDH_INIT"
    BY <1>1, <2>1
  <2>4. server \in {"kexinit", "newkeys"} /\ ~Has("NEWKEYS", Ahead) => UNCHANGED <<server, s2c>>
    BY <1>2, <2>1, <2>3 DEF Reads, ServerReads, peer
  <2>5. QED  BY <2>2, <2>4 DEF Said
<1>3. CASE ServerAnswers
  <2>1. PICK kind \in Answers(Head(c2s)) : /\ s2c' = Append(s2c, Seal(kind))
                                           /\ server' = IF kind = "KEXINIT" THEN "kexinit" ELSE server
    BY <1>3 DEF ServerAnswers
  <2>2. c2s # << >> /\ c2s' = Tail(c2s) /\ chain' = chain /\ UNCHANGED sealed /\ server # "kexinit"
    BY <1>3 DEF ServerAnswers, sends
  <2>3. kind \in Packet /\ kind # "ECDH_REPLY" /\ (kind = "KEXINIT" => Head(c2s) = "ID")
    BY DEF Answers, Packet, Transport, Connection
  <2>4. server = "newkeys" => Head(c2s) # "ID"
    BY <2>2, Taken DEF AheadOrder, First
  <2>5. Said("ECDH_REPLY")' => Said("ECDH_REPLY")
    BY <2>1, <2>2, <2>3, Told
  <2>6. QED  BY <2>1, <2>2, <2>3, <2>4, <2>5
<1>4. CASE ServerSpeaks
  <2>1. ASSUME NEW kind \in {"DISCONNECT", "GLOBAL_REQUEST", "DATA"}, ServerSends(kind)
        PROVE  server # "kexinit" /\ server' = server /\ (Said("ECDH_REPLY")' => Said("ECDH_REPLY"))
    <3>1. kind \in Packet
      BY DEF Packet, Transport, Connection
    <3>2. QED  BY <2>1, <3>1, Told DEF ServerSends, peer
  <2>2. ServerRekeys => server = "none"
    BY DEF ServerRekeys
  <2>3. QED  BY <1>4, <2>1, <2>2 DEF ServerSpeaks
<1>5. QED  BY <1>2, <1>3, <1>4

LEMMA TurnStep ==
  ASSUME IInv, Counted, [Next]_allVars
  PROVE  Turn'
<1> USE DEF IInv, ciphers, closing, peer, counts, sends, dialogue, store
\* The server, and those who do not move the dialogue or the read loop.
<1>1. CASE Reads \/ ServerAnswers \/ (ServerSpeaks /\ UNCHANGED dialogue)
  <2>1. UNCHANGED <<pc, asked, closed, chain>>
    BY <1>1 DEF Reads, ServerReads, ServerAnswers, ServerSpeaks, ServerSends, ServerRekeys
  <2>2. pc \in {"sendKexInit", "trust"} => NoInit
    BY DEF ReceivingKeys, Idle, Changing, InDialogue, Handshaking, Before, After
  <2>3. Has("NEWKEYS", Ahead)' => Has("NEWKEYS", Ahead)
    <3>1. UNCHANGED <<c2s, chain>> \/ (c2s # << >> /\ c2s' = Tail(c2s) /\ chain' = chain)
      BY <1>1 DEF Reads, ServerReads, ServerAnswers, ServerSpeaks, ServerSends, ServerRekeys
    <3>2. Fewer
      BY <3>1, Unmoved, Taken
    <3>3. QED  BY <3>2 DEF Fewer, Special
  <2>4. pc' = "sendKexInit" => server' = "kexinit" /\ ~Said("KEXINIT")'
    BY <1>1, <2>1, <2>2, ServerHolds DEF Counted, Turn, Said
  <2>5. pc' = "trust" => server' = "newkeys" /\ ~Said("ECDH_REPLY")' /\ ~Has("NEWKEYS", Ahead)'
    BY <1>1, <2>1, <2>2, <2>3, ServerHolds DEF Counted, Turn
  <2>6. First' => First
    <3>1. server = "newkeys" => sealed > 0
      BY DEF Counted, ServerOrder
    <3>2. server' = "none" => server # "kexinit"
      <4>1. CASE Reads
        <5>1. Has(Head(c2s), Ahead)
          BY <4>1, Taken DEF Reads, ServerReads
        <5>2. server = "kexinit" => Head(c2s) # "NEWKEYS"
          BY <5>1 DEF Counted, AheadOrder
        <5>3. QED  BY <4>1, <5>2 DEF Reads, ServerReads
      <4>2. QED  BY <1>1, <4>1 DEF ServerAnswers, ServerSpeaks, ServerSends, ServerRekeys
    <3>3. sealed \in Nat /\ sealed' >= sealed /\ sealed' \in Nat
      BY OrdersStep, TypesStep DEF Types
    <3>4. server \in {"none", "kexinit", "newkeys"}
      BY DEF Counted, Counters
    <3>5. QED  BY <3>1, <3>2, <3>3, <3>4 DEF First
  <2>7. QED  BY <2>1, <2>4, <2>5, <2>6 DEF Turn, Counted
<1>2. CASE Sends \/ Opened \/ (Lose /\ UNCHANGED dialogue) \/ UNCHANGED allVars
  <2>1. UNCHANGED <<pc, asked, s2c, server, sealed>> /\ (closed => closed')
    BY <1>2 DEF Sends, Transmit, Teardown, Opened, Client, SendData, Keepalive, RequestRekey, Disconnect,
                Disconnected, Lose, allVars, vars
  <2>2. pc = "trust" => (Has("NEWKEYS", Ahead)' => Has("NEWKEYS", Ahead))
    <3>1. CASE Sends
      BY <3>1, Written DEF Sends, Fewer, Special
    <3>2. CASE Lose \/ UNCHANGED allVars
      BY <3>2 DEF Lose, allVars, vars, Has, Ahead
    <3>3. QED  BY <1>2, <3>1, <3>2 DEF Opened, InDialogue
  <2>3. QED  BY <2>1, <2>2 DEF Turn, Counted, First, Said
<1>3. CASE Dialogue \/ \E accepted \in BOOLEAN : Trusted(accepted)
  <2>1. UNCHANGED <<server, sealed, closed>> /\ pc' \notin {"sendKexInit", "ended"}
    BY <1>3 DEF Dialogue, ReadIdentification, ReadServerKexInit, ReadHostKey, ReadFirstNewkeys,
           ReadServiceAccept, ReadAuthResult, ReadChannelOpened, ReadSubsystem, AskedSent,
           ReadUnexpected, ReadRequest, RefusalSent, Broken, Trusted, Fail, Ask
  <2>2. \/ asked' = asked \/ asked' = "KEXINIT"
        \/ asked \notin {"ID", "KEXINIT"}
        \/ Receive("KEXINIT")
    BY <1>3 DEF Dialogue, ReadIdentification, ReadServerKexInit, ReadHostKey, ReadFirstNewkeys,
           ReadServiceAccept, ReadAuthResult, ReadChannelOpened, ReadSubsystem, AskedSent,
           ReadUnexpected, ReadRequest, RefusalSent, Broken, Trusted, Fail, Ask, Answered, InDialogue
  <2>3. First' => asked' \in {"ID", "KEXINIT"}
    <3>1. Receive("KEXINIT") => Said("KEXINIT")
      BY Heard, <2>1 DEF Receive
    <3>2. Said("KEXINIT") => ~First
      BY DEF Counted, ServerOrder, First
    <3>3. QED  BY <2>1, <2>2, <3>1, <3>2 DEF Counted, Turn, First
  <2>4. pc' = "trust" => server' = "newkeys" /\ ~Said("ECDH_REPLY")' /\ ~Has("NEWKEYS", Ahead)'
    <3>1. SUFFICES ASSUME pc' = "trust"  PROVE server' = "newkeys" /\ ~Said("ECDH_REPLY")' /\ ~Has("NEWKEYS", Ahead)'
      OBVIOUS
    <3>2. Receive("ECDH_REPLY") /\ UNCHANGED <<chain, c2s>>
      BY <1>3, <3>1 DEF Dialogue, ReadIdentification, ReadServerKexInit, ReadHostKey, ReadFirstNewkeys,
           ReadServiceAccept, ReadAuthResult, ReadChannelOpened, ReadSubsystem, AskedSent,
           ReadUnexpected, ReadRequest, RefusalSent, Broken, Trusted, Fail, Ask, Answered
    <3>3. Said("ECDH_REPLY") /\ ~Said("ECDH_REPLY")'
      BY <2>1, <3>2, Heard DEF Receive, Counted, ServerOrder, OnceEach
    <3>4. QED  BY <2>1, <3>2, <3>3, Unmoved DEF Counted, ServerOrder, AheadOrder, Fewer, Special
  <2>5. QED  BY <2>1, <2>3, <2>4 DEF Turn
<1>4. CASE Loop /\ UNCHANGED dialogue
  <2>1. UNCHANGED <<server, sealed, asked>> /\ (closed => closed') /\ pc' # "trust"
    BY <1>4 DEF Loop, ReadLoop, ReceiveFails, ReadDisconnect, ReadChannelMessage, ReadGlobalRequest,
           BeginRekey, NegotiationFails, ReadReply, FailureSent, KexInitSent, EcdhInitSent,
           NewkeysSent, SendFails, ReadNewkeys, LoopEnds, Teardown, Settled, Receiving, Sending
  <2>2. pc' = "ended" => closed'
    BY <1>4 DEF Loop, ReadLoop, ReceiveFails, ReadDisconnect, ReadChannelMessage, ReadGlobalRequest,
           BeginRekey, NegotiationFails, ReadReply, FailureSent, KexInitSent, EcdhInitSent,
           NewkeysSent, SendFails, ReadNewkeys, LoopEnds, Teardown, Settled, Receiving, Sending
  <2>3. pc' = "sendKexInit" => Receive("KEXINIT")
    BY <1>4 DEF Loop, ReadLoop, ReceiveFails, ReadDisconnect, ReadChannelMessage, ReadGlobalRequest,
           BeginRekey, NegotiationFails, ReadReply, FailureSent, KexInitSent, EcdhInitSent,
           NewkeysSent, SendFails, ReadNewkeys, LoopEnds, Receiving
  <2>4. Receive("KEXINIT") => Said("KEXINIT") /\ ~Said("KEXINIT")'
    BY <2>1, Heard DEF Receive, Counted, ServerOrder, OnceEach
  <2>5. pc' = "sendKexInit" => server' = "kexinit" /\ ~Said("KEXINIT")'
    BY <2>1, <2>3, <2>4 DEF Counted, ServerOrder
  <2>6. QED  BY <2>1, <2>2, <2>5 DEF Turn, Counted, First
<1>5. QED  BY <1>1, <1>2, <1>3, <1>4, RuntimeStep DEF Next

(***************************************************************************)
(* The ciphers, and the NEWKEYS sent, follow the server's exchanges.       *)
(***************************************************************************)
CiphersStay == UNCHANGED <<c2sCipher, s2cCipher>>

LEMMA CiphersStep ==
  ASSUME IInv, Counted, [Next]_allVars
  PROVE  \/ CiphersStay
         \/ NewkeysSent /\ UNCHANGED dialogue
         \/ ReadNewkeys /\ UNCHANGED dialogue
         \/ ReadFirstNewkeys
<1> USE DEF ciphers, dialogue, CiphersStay
<1>1. CASE Runtime \/ \E accepted \in BOOLEAN : Trusted(accepted)
  BY <1>1 DEF Runtime, ReadRekeyReply, Loop, Dialogue, ReadIdentification, ReadServerKexInit, ReadHostKey,
       ReadServiceAccept, ReadAuthResult, ReadChannelOpened, ReadSubsystem, AskedSent,
       ReadUnexpected, ReadRequest, RefusalSent, Broken, Trusted,
       Loop, ReadLoop, ReceiveFails, ReadDisconnect, ReadChannelMessage, ReadGlobalRequest,
       BeginRekey, NegotiationFails, ReadReply, FailureSent, KexInitSent, EcdhInitSent,
       SendFails, LoopEnds
<1>2. CASE ~Runtime /\ ~(\E accepted \in BOOLEAN : Trusted(accepted))
  BY <1>2 DEF Next, Sends, Transmit, Opened, Client, SendData, Keepalive, RequestRekey, Disconnect,
       Disconnected, Reads, ServerReads, ServerAnswers, ServerSpeaks, ServerSends, ServerRekeys, Lose,
       allVars, vars
<1>3. QED  BY <1>1, <1>2

LEMMA InStepStep ==
  ASSUME IInv, Counted, [Next]_allVars
  PROVE  InStep'
<1> USE DEF IInv, Types, ciphers, dialogue, store
<1>1. sealed' >= sealed /\ sealed' \in Nat
  BY OrdersStep, TypesStep
<1>2. CASE CiphersStay
  <2>0. ~NewkeysSent /\ ~ReadNewkeys
    BY <1>2 DEF CiphersStay, NewkeysSent, ReadNewkeys
  <2>1. /\ pc' = "recvNewkeys" => pc = "recvNewkeys"
        /\ pc' \notin {"recvNewkeys", "ended"} => pc \notin {"recvNewkeys", "ended"}
    BY <2>0 DEF Next, Runtime, ReadRekeyReply, Loop, Dialogue, ReadIdentification, ReadServerKexInit, ReadHostKey, ReadFirstNewkeys,
         ReadServiceAccept, ReadAuthResult, ReadChannelOpened, ReadSubsystem, AskedSent,
         ReadUnexpected, ReadRequest, RefusalSent, Broken, Trusted, Fail, Ask, Answered, Handshaking,
         Loop, ReadLoop, ReceiveFails, ReadDisconnect, ReadChannelMessage, ReadGlobalRequest,
         BeginRekey, NegotiationFails, ReadReply, FailureSent, KexInitSent, EcdhInitSent,
         SendFails, LoopEnds, Settled, Receiving, Sending,
         Sends, Transmit, Opened, Client, SendData, Keepalive, RequestRekey, Disconnect,
         Disconnected, Reads, ServerReads, ServerAnswers, ServerSpeaks, ServerSends, ServerRekeys, Lose,
         allVars, vars
  <2>2. QED  BY <1>1, <1>2, <2>1 DEF Counted, InStep, CiphersStay
<1>3. CASE NewkeysSent /\ UNCHANGED dialogue
  <2>1. sealed = s2cCipher + 1
    BY <1>3 DEF NewkeysSent, ReceivingKeys, Changing, InFlight, InDialogue, Handshaking, Before, After
  <2>2. QED  BY <1>1, <1>3, <2>1 DEF NewkeysSent, Counted, InStep
<1>4. CASE ReadNewkeys /\ UNCHANGED dialogue
  <2>1. sealed = s2cCipher + 1
    BY <1>4 DEF ReadNewkeys, ReceivingKeys, Changing, InFlight, InDialogue, Handshaking, Before, After
  <2>2. QED  BY <1>1, <1>4, <2>1 DEF ReadNewkeys, Counted, InStep
<1>5. CASE ReadFirstNewkeys
  <2>1. sealed = s2cCipher + 1
    BY <1>5 DEF ReadFirstNewkeys, Answered, ReceivingKeys, Changing, InFlight, Before, After
  <2>2. QED
    BY <1>1, <1>5, <2>1 DEF ReadFirstNewkeys, Answered, BuildCiphers, NextKeys, Ask, Counted, InStep
<1>6. QED  BY <1>2, <1>3, <1>4, <1>5, CiphersStep

\* Packets that no exchange ends with.
Others == {"KEXINIT", "ECDH_INIT", "SERVICE_REQUEST", "USERAUTH_REQUEST", "CHANNEL_OPEN",
           "CHANNEL_REQUEST", "REQUEST_FAILURE", "DATA", "GLOBAL_REQUEST", "DISCONNECT"}

LEMMA ChainStep ==
  ASSUME IInv, [Next]_allVars
  PROVE  \/ Sends
         \/ Trusted(TRUE) \/ (ReadReply(TRUE) /\ UNCHANGED dialogue)
         \/ newkeys' = newkeys /\ (Has("NEWKEYS", chain)' => Has("NEWKEYS", chain))
<1> USE DEF IInv, sends, dialogue, store
<1>1. \A kind : No(kind, chain) <=> ~Has(kind, chain)
  BY DEF No, Has
<1>2. \A kind : No(kind, chain') <=> ~Has(kind, chain)'
  BY DEF No, Has
<1>3. ASSUME NEW kind \in Others, Send(kind)  PROVE Has("NEWKEYS", chain)' => Has("NEWKEYS", chain)
  <2>1. kind \in Packet \ {"NEWKEYS"}
    BY DEF Others, Packet, Transport, Connection
  <2>2. QED  BY <1>1, <1>2, <1>3, <2>1, NoNewkeysSent
<1>4. CloseRekeyGate => (Has("NEWKEYS", chain)' => Has("NEWKEYS", chain))
  <2>1. "NEWKEYS" \in Packet \ Connection
    BY DEF Packet, Transport, Connection
  <2>2. QED  BY <1>1, <1>2, <2>1, NothingReleased
<1>5. chain' = chain => (Has("NEWKEYS", chain)' => Has("NEWKEYS", chain))
  BY DEF Has
<1> DEFINE Kept == newkeys' = newkeys /\ (chain' = chain \/ CloseRekeyGate \/ \E kind \in Others : Send(kind))
<1>6. ASSUME Dialogue  PROVE Kept
  BY <1>6 DEF Dialogue, ReadIdentification, ReadServerKexInit, ReadHostKey, ReadFirstNewkeys,
     ReadServiceAccept, ReadAuthResult, ReadChannelOpened, ReadSubsystem, AskedSent,
     ReadUnexpected, ReadRequest, RefusalSent, Broken, Ask, Fail, Others
<1>7. ASSUME NEW accepted \in BOOLEAN, Trusted(accepted), ~accepted  PROVE Kept
  BY <1>7 DEF Trusted, Fail
<1>8. ASSUME Loop, ~ReadReply(TRUE)  PROVE Kept
  <2>1. LoopEnds => Kept
    BY DEF Loop, LoopEnds
  <2>2. ASSUME NEW accepted \in BOOLEAN, ReadReply(accepted)  PROVE Kept
    BY <1>8, <2>1, <2>2 DEF ReadReply
  <2>3. ReadNewkeys \/ NegotiationFails => Kept
    BY DEF ReadNewkeys, NegotiationFails
  <2>4. QED
    BY <1>8, <2>1, <2>2, <2>3 DEF Loop, ReadLoop, ReceiveFails, ReadDisconnect, ReadChannelMessage, ReadGlobalRequest,
       BeginRekey, FailureSent, KexInitSent, EcdhInitSent, NewkeysSent, SendFails, Others
<1>9. ASSUME Opened \/ Reads \/ ServerAnswers \/ ServerSpeaks \/ Lose \/ UNCHANGED allVars  PROVE Kept
  BY <1>9 DEF Opened, Client, SendData, Keepalive, RequestRekey, Disconnect, Disconnected, Reads, ServerReads,
     ServerAnswers, ServerSpeaks, ServerSends, ServerRekeys, Lose, allVars, vars, Others
<1>10. Kept => newkeys' = newkeys /\ (Has("NEWKEYS", chain)' => Has("NEWKEYS", chain))
  BY <1>3, <1>4, <1>5
<1> HIDE DEF Kept
<1>11. QED  BY <1>6, <1>7, <1>8, <1>9, <1>10, RuntimeStep DEF Next

LEMMA ChainOrderly ==
  ASSUME Types, Orderly(Ahead)
  PROVE  Orderly(chain)
<1> USE DEF Types
<1>1. PICK n \in Nat, m \in Nat : n = Len(c2s) /\ m = Len(chain)
  OBVIOUS
<1>2. \A i \in 1..m : n + i \in 1..Len(Ahead) /\ Ahead[n + i] = chain[i]
  BY <1>1 DEF Ahead
<1>3. \A i, j \in 1..m : i < j => n + i < n + j
  BY <1>1
<1>4. QED  BY <1>1, <1>2, <1>3 DEF Orderly

LEMMA BetweenStep ==
  ASSUME IInv, [Next]_allVars, Between'
  PROVE  Between \/ (NewkeysSent /\ UNCHANGED dialogue) \/ ReadFirstNewkeys
<1> USE DEF dialogue, Between
<1>1. CASE Dialogue \/ \E accepted \in BOOLEAN : Trusted(accepted)
  BY <1>1 DEF Dialogue, ReadIdentification, ReadServerKexInit, ReadHostKey,
       ReadServiceAccept, ReadAuthResult, ReadChannelOpened, ReadSubsystem, AskedSent,
       ReadUnexpected, ReadRequest, RefusalSent, Broken, Trusted, Fail, Ask, Answered, Handshaking
<1>2. CASE Loop /\ UNCHANGED dialogue
  BY <1>2 DEF Loop, ReadLoop, ReceiveFails, ReadDisconnect, ReadChannelMessage, ReadGlobalRequest,
       BeginRekey, NegotiationFails, ReadReply, FailureSent, KexInitSent, EcdhInitSent,
       SendFails, ReadNewkeys, LoopEnds, Settled, Receiving, Sending
<1>3. CASE Sends \/ Opened \/ Reads \/ ServerAnswers \/ ((ServerSpeaks \/ Lose) /\ UNCHANGED dialogue)
           \/ UNCHANGED allVars
  BY <1>3 DEF Sends, Transmit, Opened, Client, SendData, Keepalive, RequestRekey, Disconnect,
       Disconnected, Reads, ServerReads, ServerAnswers, ServerSpeaks, ServerSends, ServerRekeys, Lose,
       allVars, vars
<1>4. QED  BY <1>1, <1>2, <1>3, RuntimeStep DEF Next

LEMMA NewkeysLeftStep ==
  ASSUME IInv, Counted, [Next]_allVars
  PROVE  NewkeysLeft'
<1> USE DEF IInv, Types, dialogue, sends, ciphers, peer
<1> DEFINE n == IF Has("NEWKEYS", chain) THEN 1 ELSE 0
<1>1. sealed' >= sealed /\ sealed' \in Nat /\ c2sCipher' >= c2sCipher /\ c2sCipher' \in Nat /\ newkeys' \in Nat
  <2>1. sealed' >= sealed /\ Types'
    BY OrdersStep, TypesStep
  <2>2. c2sCipher' >= c2sCipher
    <3>1. c2sCipher' \in {c2sCipher, c2sCipher + 1}
      BY CiphersStep DEF CiphersStay, NewkeysSent, ReadNewkeys, ReadFirstNewkeys, BuildCiphers, NextKeys
    <3>2. QED  BY <3>1
  <2>3. QED  BY <2>1, <2>2
<1>2. /\ Has("NEWKEYS", chain) => newkeys + 1 <= sealed
      /\ newkeys <= sealed
      /\ Between => newkeys <= c2sCipher /\ ~Has("NEWKEYS", chain)
  BY DEF Counted, NewkeysLeft
<1> DEFINE Left == /\ Has("NEWKEYS", chain)' => newkeys' + 1 <= sealed'
                   /\ newkeys' <= sealed'
                   /\ Between' => newkeys' <= c2sCipher' /\ ~Has("NEWKEYS", chain)'
<1>3. SUFFICES Left
  <2>1. ASSUME Left  PROVE newkeys' + n' <= sealed'
    <3>1. CASE Has("NEWKEYS", chain)'
      BY <2>1, <3>1
    <3>2. CASE ~Has("NEWKEYS", chain)'
      <4>1. newkeys' \in Nat /\ newkeys' <= sealed' /\ n' = 0
        BY <1>1, <2>1, <3>2
      <4>2. newkeys' + 0 <= sealed'
        BY <4>1
      <4>3. QED  BY <4>1, <4>2
    <3>3. QED  BY <3>1, <3>2
  <2>2. QED  BY <2>1 DEF NewkeysLeft
<1>4. CASE Sends
  <2>1. /\ chain # << >> /\ chain' = Tail(chain) /\ UNCHANGED <<pc, asked>>
        /\ newkeys' = IF Head(chain) = "NEWKEYS" THEN newkeys + 1 ELSE newkeys
    BY <1>4 DEF Sends, Transmit
  <2>2. Between' <=> Between
    BY <2>1 DEF Between
  <2>3. /\ Len(chain) \in Nat \ {0} /\ Len(chain') = Len(chain) - 1 /\ Head(chain) = chain[1]
        /\ \A i \in 1..Len(chain') : chain'[i] = chain[i + 1] /\ i + 1 \in 1..Len(chain) /\ 1 < i + 1
    BY <2>1
  <2>4. Has("NEWKEYS", chain)' => Has("NEWKEYS", chain)
    BY <2>3 DEF Has
  <2>5. CASE Head(chain) = "NEWKEYS"
    <3>1. Has("NEWKEYS", chain)
      BY <2>3, <2>5 DEF Has
    <3>2. Orderly(chain)
      BY ChainOrderly DEF Counted, AheadOrder
    <3>3. ~Has("NEWKEYS", chain)'
      BY <2>3, <2>5, <3>2 DEF Has, Orderly, MayFollow
    <3>4. QED  BY <1>1, <1>2, <2>1, <2>2, <2>5, <3>1, <3>3
  <2>6. CASE Head(chain) # "NEWKEYS"
    BY <1>1, <1>2, <2>1, <2>2, <2>4, <2>6
  <2>7. QED  BY <2>5, <2>6
<1>5. CASE Trusted(TRUE)
  <2>1. Between /\ ~Between' /\ newkeys' = newkeys /\ pc = "trust"
    BY <1>5 DEF Trusted, Ask, Between, InDialogue
  <2>2. sealed = s2cCipher + 1 /\ c2sCipher = s2cCipher
    BY <2>1 DEF ReceivingKeys, Changing, InFlight, InDialogue, Before, After, Counted, InStep
  <2>3. QED  BY <1>1, <1>2, <2>1, <2>2
<1>6. CASE ReadReply(TRUE) /\ UNCHANGED dialogue
  <2>1. Between /\ ~Between' /\ newkeys' = newkeys /\ pc = "recvReply" /\ Receive("ECDH_REPLY") /\ sealed' = sealed
    BY <1>6 DEF ReadReply, Between, InDialogue, Handshaking
  <2>2. Said("ECDH_REPLY")
    BY <2>1, Heard DEF Receive
  <2>3. Asking
    BY <2>1 DEF ReceivingKeys, InDialogue, Handshaking, Before, After
  <2>4. sealed = s2cCipher + 1 /\ c2sCipher = s2cCipher
    BY <2>1, <2>2, <2>3, SaidReply DEF Counted, InStep
  <2>5. QED  BY <1>1, <1>2, <2>1, <2>4
<1>7. CASE newkeys' = newkeys /\ (Has("NEWKEYS", chain)' => Has("NEWKEYS", chain))
  <2>1. CASE Between \/ ~Between'
    BY <1>1, <1>2, <1>7, <2>1
  <2>2. CASE NewkeysSent /\ UNCHANGED dialogue
    <3>1. pc = "sendNewkeys" /\ chain' = chain /\ c2sCipher' = c2sCipher + 1
      BY <2>2 DEF NewkeysSent
    <3>2. ~Has("NEWKEYS", chain)
      BY <2>2, <3>1 DEF NewkeysSent, Settled, OwnPacket, Waiting, Has
    <3>3. sealed = s2cCipher + 1 /\ c2sCipher = s2cCipher
      BY <3>1 DEF ReceivingKeys, Changing, InFlight, InDialogue, Handshaking, Before, After, Counted, InStep
    <3>4. QED  BY <1>1, <1>2, <1>7, <3>1, <3>2, <3>3
  <2>3. CASE ReadFirstNewkeys
    <3>1. pc = "recvAnswer" /\ asked = "NEWKEYS" /\ c2sCipher' = c2sCipher + 1
      BY <2>3 DEF ReadFirstNewkeys, Answered, BuildCiphers, NextKeys
    <3>2. chain = << >>
      BY <3>1 DEF InDialogue
    <3>3. sealed = s2cCipher + 1 /\ c2sCipher = s2cCipher
      BY <3>1 DEF ReceivingKeys, Changing, InFlight, Before, After, Counted, InStep
    <3>4. QED  BY <1>1, <1>2, <1>7, <3>1, <3>2, <3>3 DEF Has
  <2>4. QED  BY <2>1, <2>2, <2>3, BetweenStep
<1>8. QED  BY <1>4, <1>5, <1>6, <1>7, ChainStep

LEMMA CountedStep ==
  ASSUME IInv, Counted, [Next]_allVars
  PROVE  Counted'
BY OrdersStep, CountersStep, TurnStep, InStepStep, NewkeysLeftStep DEF Orders, Counted

LEMMA CountedInitially == Init => Counted
<1> SUFFICES ASSUME Init  PROVE Counted
  OBVIOUS
<1> USE DEF Init
<1>1. Counters
  <2>1. \A bound \in Nat : 0 \in 0..bound
    OBVIOUS
  <2>2. /\ data = 0 /\ keepalives = 0 /\ clientRekeys = 0 /\ serverRekeys = 0 /\ messages = 0
        /\ sentRekeyKexInit = FALSE /\ closed = FALSE /\ notifiedClosed = FALSE /\ leaving = FALSE
        /\ server = "none"
    OBVIOUS
  <2> HIDE DEF Init
  <2>3. QED  BY <2>1, <2>2, TransportAssumption DEF Counters
<1>2. Ahead = <<"ID">>
  <2>1. "ID" \in Packet
    BY DEF Packet, Transport
  <2>2. << >> \o <<"ID">> = <<"ID">>
    OBVIOUS
  <2>3. QED  BY <2>2 DEF Ahead
<1>3. \A kind : Has(kind, Ahead) <=> kind = "ID"
  BY <1>2 DEF Has
<1>4. \A kind : Said(kind) <=> kind = "ID"
  BY DEF Said
<1>5. First
  BY DEF First
<1>6. AheadOrder
  BY <1>2, <1>3, <1>5 DEF AheadOrder, Orderly
<1>7. s2c[1] = <<"ID", 0>> /\ Len(s2c) = 1
  OBVIOUS
<1>8. ServerOrder
  BY <1>4, <1>7 DEF ServerOrder
<1>9. Turn /\ Budget /\ InStep
  BY <1>5 DEF Turn, Budget, InStep
<1>10. NewkeysLeft
  <2>1. ~Has("NEWKEYS", chain)
    BY DEF Has
  <2>2. QED  BY <2>1 DEF NewkeysLeft
<1>11. QED  BY <1>1, <1>6, <1>8, <1>9, <1>10 DEF Counted

\* Every sending and receiving state is of its type: no more keys are ever in use, or
\* sealed with, than the first exchange and those that either side started.
THEOREM TypeCorrect == Spec => []TypeOK
<1>1. IInv /\ Counted => TypeOK
  <2>1. SUFFICES ASSUME IInv, Counted  PROVE TypeOK
    OBVIOUS
  <2> USE <2>1 DEF IInv, Types, Counted
  <2>2. Exchanges \in Nat /\ 1 + clientRekeys + serverRekeys <= Exchanges /\ Exchanges > 0
        /\ clientRekeys \in Nat /\ serverRekeys \in Nat
    BY TransportAssumption DEF Exchanges, Counters
  <2>3. sealed <= Exchanges
    <3>1. CASE First
      BY <2>2, <3>1 DEF First
    <3>2. CASE ~First
      <4>1. PICK b \in {0, 1} : b = Begun
        BY DEF Begun
      <4>2. sealed + b <= 1 + clientRekeys + serverRekeys
        BY <3>2, <4>1 DEF Budget
      <4>3. QED  BY <2>2, <4>2
    <3>3. QED  BY <3>1, <3>2
  <2>4. sealed \in 0..Exchanges /\ c2sCipher \in 0..Exchanges /\ s2cCipher \in 0..Exchanges
    BY <2>2, <2>3 DEF InStep
  <2>5. newkeys \in 0..Exchanges
    <3>1. newkeys <= sealed
      BY DEF NewkeysLeft
    <3>2. QED  BY <2>2, <2>3, <3>1
  <2>6. s2c \in Seq(Packet \X (0..Exchanges))
    <3>1. \A i \in 1..Len(s2c) : s2c[i] \in Packet \X (0..Exchanges)
      <4>1. ASSUME NEW i \in 1..Len(s2c)  PROVE s2c[i] \in Packet \X (0..Exchanges)
        <5>1. s2c[i] \in Packet \X Nat /\ s2c[i][2] <= sealed
          BY DEF ServerOrder
        <5>2. s2c[i][2] \in Nat /\ s2c[i][2] <= Exchanges /\ s2c[i][1] \in Packet
              /\ s2c[i] = <<s2c[i][1], s2c[i][2]>>
          BY <2>2, <2>3, <5>1
        <5>3. QED  BY <2>2, <5>2
      <4>2. QED  BY <4>1
    <3>2. Len(s2c) \in Nat /\ s2c \in [1..Len(s2c) -> Packet \X Nat]
      BY LenProperties
    <3>3. s2c \in [1..Len(s2c) -> Packet \X (0..Exchanges)]
      BY <3>1, <3>2
    <3>4. \A S : \A n \in Nat : s2c \in [1..n -> S] => s2c \in Seq(S)
      BY SeqDef
    <3>5. QED  BY <3>2, <3>3, <3>4
  <2>7. held \in Seq(Packet)
    BY Kinds
  <2>8. TransportTypeOK
    BY <2>4, <2>5, <2>6, <2>7 DEF TransportTypeOK, Counters
  <2>9. asked \in Packet \cup {"open"}
    BY Kinds
  <2>10. QED  BY <2>8, <2>9 DEF TypeOK, States, KeyTaken, HostKeys
<1>2. IInv /\ Counted /\ [Next]_allVars => IInv' /\ Counted'
  BY CountedStep, TypesStep, DialogueStep, SendingStep, ReceivingStep, RequestsStep, CredentialsStep,
     UnderwayStep, KeyStep DEF IInv
<1>3. QED  BY Initially, CountedInitially, <1>1, <1>2, PTL DEF Spec
=============================================================================
