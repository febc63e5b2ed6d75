--------------------------- MODULE SshConnection ---------------------------
(***************************************************************************)
(* connectSftp() of src/sftp/SftpConnection.ts: the dialogue of            *)
(* SshClient's connect(), authenticate() and openSubsystem(), which ends   *)
(* with the start of the read loop, and then all of SshTransport.          *)
(*                                                                         *)
(* The dialogue is sequential: it sends one message, waits until it has    *)
(* left, and reads until the answer to it arrives.  asked is that message, *)
(* and pc the await: "sendAsked", "recvAnswer", "sendRefusal" (the answer  *)
(* to a global request read meanwhile) or "trust" (the user's answer).  A  *)
(* dialogue that fails leaves the connection as it is: nothing closes it.  *)
(***************************************************************************)
EXTENDS SshTransport

VARIABLES
  asked,  \* the message of the dialogue that waits for its answer; "open" at its end
  known,     \* the stored fingerprint of this host: none, connect()'s, or another's
  writable,  \* localStorage takes writes: not in private mode, or over its quota
  key        \* the host key of the last exchange that was accepted

store    == <<known, writable>>
dialogue == <<asked, store>>
allVars  == <<vars, dialogue, key>>

\* Host keys of the server: the one that connect() is shown, and any other.
HostKeys == {"same", "other"}

Handshaking == {"sendAsked", "recvAnswer", "sendRefusal"}

-----------------------------------------------------------------------------
(***************************************************************************)
(* The steps of the dialogue.                                              *)
(***************************************************************************)
Ask(kind) ==
  /\ asked' = kind /\ pc' = "sendAsked"
  /\ gate' = gate /\ Send(kind)

\* connectSftp() rejects.
Fail == pc' = "failed" /\ UNCHANGED <<sends, asked>>

\* recvExpecting(): this message is one of those it waits for.
Answered(request, kind) == pc = "recvAnswer" /\ asked = request /\ Receive(kind)

\* The line that begins with "SSH-", or too many others before it.
ReadIdentification(found) ==
  /\ Answered("ID", "ID")
  /\ IF found THEN Ask("KEXINIT") ELSE Fail
  /\ UNCHANGED <<store, key, sentRekeyKexInit, ciphers, closing, c2s, peer, counts, newkeys>>

\* The choices of an exchange, of which the two sides may share no algorithm.
Choices == {"kex", "hostKey", "cipherC2S", "cipherS2C"}

ReadServerKexInit(shared) ==
  /\ Answered("KEXINIT", "KEXINIT")
  /\ IF shared = Choices THEN Ask("ECDH_INIT") ELSE Fail
  /\ UNCHANGED <<store, key, sentRekeyKexInit, ciphers, closing, c2s, peer, counts, newkeys>>

\* Slip: a changed key is asked about like a new one.
CheckHostKeyAsks(shown) == IF known = shown THEN "match" ELSE "new"

CheckHostKey(shown) ==
  CASE known = "none"            -> "new"
    [] known = shown             -> "match"
    [] known \notin {"none", shown} -> "mismatch"

\* saveStore() swallows the error of a write that is refused.
RememberHost(shown) == known' = IF writable THEN shown ELSE known

\* The signature must be the host key's, over the hash of this exchange.
VerifyHostSignature(signed) == signed = "this exchange"

\* The signature is verified, then the key is looked up, then the callback is run.
ReadHostKey(signed, hasCallback) ==
  /\ Answered("ECDH_INIT", "ECDH_REPLY")
  /\ IF VerifyHostSignature(signed) /\ CheckHostKey("same") # "mismatch" /\ hasCallback
     THEN pc' = "trust" /\ UNCHANGED <<sends, asked>>
     ELSE Fail
  /\ UNCHANGED <<store, key, sentRekeyKexInit, ciphers, closing, c2s, peer, counts, newkeys>>

\* The user's answer, or the callback's own.
Trusted(accepted) ==
  /\ pc = "trust"
  /\ IF accepted THEN Ask("NEWKEYS") /\ key' = "same" ELSE Fail /\ UNCHANGED key
  /\ IF accepted /\ CheckHostKey("same") = "new" THEN RememberHost("same") ELSE UNCHANGED known
  /\ UNCHANGED <<writable, sentRekeyKexInit, ciphers, closing, c2s, s2c, peer, counts, newkeys>>

\* deriveSessionKeys(): every exchange has keys of its own.
NextKeys(exchanges) == exchanges + 1

\* buildCiphers(), one for each direction, which connect() puts in use together.
BuildCiphers == c2sCipher' = NextKeys(c2sCipher) /\ s2cCipher' = NextKeys(s2cCipher)

\* connect() returns, and authenticate() begins.
ReadFirstNewkeys ==
  /\ Answered("NEWKEYS", "NEWKEYS")
  /\ BuildCiphers
  /\ Ask("SERVICE_REQUEST")
  /\ UNCHANGED <<store, key, sentRekeyKexInit, closing, c2s, peer, counts, newkeys>>

\* A signature with the private key, or else the password; neither is an error.
ReadServiceAccept(credentials) ==
  /\ Answered("SERVICE_REQUEST", "SERVICE_ACCEPT")
  /\ IF credentials \in {"privateKey", "password"} THEN Ask("USERAUTH_REQUEST") ELSE Fail
  /\ UNCHANGED <<store, key, sentRekeyKexInit, ciphers, closing, c2s, peer, counts, newkeys>>

\* authenticate() returns, and openSubsystem() begins.
ReadAuthResult ==
  /\ \/ Answered("USERAUTH_REQUEST", "USERAUTH_SUCCESS") /\ Ask("CHANNEL_OPEN")
     \/ Answered("USERAUTH_REQUEST", "USERAUTH_FAILURE") /\ Fail
  /\ UNCHANGED <<store, key, sentRekeyKexInit, ciphers, closing, c2s, peer, counts, newkeys>>

ReadChannelOpened ==
  /\ \/ Answered("CHANNEL_OPEN", "OPEN_CONFIRMATION") /\ Ask("CHANNEL_REQUEST")
     \/ Answered("CHANNEL_OPEN", "OPEN_FAILURE") /\ Fail
  /\ UNCHANGED <<store, key, sentRekeyKexInit, ciphers, closing, c2s, peer, counts, newkeys>>

\* The keepalive and the read loop start.
ReadSubsystem ==
  /\ \/ /\ Answered("CHANNEL_REQUEST", "CHANNEL_SUCCESS")
        /\ asked' = "open" /\ pc' = "recv" /\ UNCHANGED sends
     \/ Answered("CHANNEL_REQUEST", "CHANNEL_FAILURE") /\ Fail
  /\ UNCHANGED <<store, key, sentRekeyKexInit, ciphers, closing, c2s, peer, counts, newkeys>>

-----------------------------------------------------------------------------
(***************************************************************************)
(* The awaits between them.                                                *)
(***************************************************************************)
Expected ==
  CASE asked = "ID"               -> {"ID"}
    [] asked = "KEXINIT"          -> {"KEXINIT"}
    [] asked = "ECDH_INIT"        -> {"ECDH_REPLY"}
    [] asked = "NEWKEYS"          -> {"NEWKEYS"}
    [] asked = "SERVICE_REQUEST"  -> {"SERVICE_ACCEPT"}
    [] asked = "USERAUTH_REQUEST" -> {"USERAUTH_SUCCESS", "USERAUTH_FAILURE"}
    [] asked = "CHANNEL_OPEN"     -> {"OPEN_CONFIRMATION", "OPEN_FAILURE"}
    [] asked = "CHANNEL_REQUEST"  -> {"CHANNEL_SUCCESS", "CHANNEL_FAILURE"}
    [] OTHER                      -> {}

AskedSent ==
  /\ pc = "sendAsked" /\ ~Waiting(asked) /\ up
  /\ pc' = "recvAnswer"
  /\ UNCHANGED <<dialogue, key, sends, sentRekeyKexInit, ciphers, closing, c2s, s2c, peer,
                 counts, newkeys>>

\* recvExpecting() drops what it does not wait for, the server's KEXINIT included.
ReadUnexpected ==
  /\ pc = "recvAnswer" /\ s2c # << >>
  /\ Head(s2c)[1] \notin Expected \cup {"GLOBAL_REQUEST", "DISCONNECT"}
  /\ s2c' = Tail(s2c)
  /\ UNCHANGED <<dialogue, key, sends, sentRekeyKexInit, pc, ciphers, closing, c2s, peer,
                 counts, newkeys>>

ReadRequest ==
  /\ pc = "recvAnswer" /\ Receive("GLOBAL_REQUEST")
  /\ pc' = "sendRefusal" /\ gate' = gate /\ Send("REQUEST_FAILURE")
  /\ UNCHANGED <<dialogue, key, sentRekeyKexInit, ciphers, closing, c2s, peer, counts, newkeys>>

RefusalSent ==
  /\ pc = "sendRefusal" /\ ~Waiting("REQUEST_FAILURE") /\ up
  /\ pc' = "recvAnswer"
  /\ UNCHANGED <<dialogue, key, sends, sentRekeyKexInit, ciphers, closing, c2s, s2c, peer,
                 counts, newkeys>>

\* The server disconnects, or the stream fails under a send or a receive.
Broken ==
  /\ \/ pc = "recvAnswer" /\ Receive("DISCONNECT")
     \/ pc \in Handshaking /\ ~up /\ s2c' = s2c
  /\ Fail
  /\ UNCHANGED <<store, key, sentRekeyKexInit, ciphers, closing, c2s, peer, counts, newkeys>>

\* The reply of a re-exchange: its key is verified and looked up like the first, but
\* a new one is taken without a question and without being stored.
ReadRekeyReply(signed, shown) ==
  LET accepted == VerifyHostSignature(signed) /\ CheckHostKey(shown) # "mismatch"
  IN  /\ ReadReply(accepted)
      /\ key' = IF accepted THEN shown ELSE key
      /\ UNCHANGED dialogue

-----------------------------------------------------------------------------
(***************************************************************************)
(* The external server.  It answers each message of the dialogue, unless   *)
(* it is in the middle of an exchange.                                     *)
(***************************************************************************)
Answers(kind) ==
  CASE kind = "ID"               -> {"KEXINIT"}
    [] kind = "SERVICE_REQUEST"  -> {"SERVICE_ACCEPT"}
    [] kind = "USERAUTH_REQUEST" -> {"USERAUTH_SUCCESS", "USERAUTH_FAILURE"}
    [] kind = "CHANNEL_OPEN"     -> {"OPEN_CONFIRMATION", "OPEN_FAILURE"}
    [] kind = "CHANNEL_REQUEST"  -> {"CHANNEL_SUCCESS", "CHANNEL_FAILURE"}
    [] OTHER                     -> {}

ServerAnswers ==
  /\ c2s # << >> /\ server # "kexinit"
  /\ \E kind \in Answers(Head(c2s)) :
       /\ s2c' = Append(s2c, Seal(kind))
       /\ server' = IF kind = "KEXINIT" THEN "kexinit" ELSE server
  /\ c2s' = Tail(c2s)
  /\ UNCHANGED <<dialogue, key, sends, sentRekeyKexInit, pc, ciphers, closing, sealed, counts, newkeys>>

ServerSpeaks ==
  \/ ServerSends("DISCONNECT")
  \/ sealed > 0 /\ (ServerSends("GLOBAL_REQUEST") \/ ServerRekeys)
  \/ asked = "open" /\ ServerSends("DATA")

-----------------------------------------------------------------------------
Init ==
  /\ chain = <<"ID">> /\ held = << >> /\ gate = FALSE /\ sentRekeyKexInit = FALSE
  /\ pc = "sendAsked" /\ asked = "ID" /\ known \in {"none", "same", "other"}
  /\ writable \in BOOLEAN /\ key = "none"
  /\ c2sCipher = 0 /\ s2cCipher = 0
  /\ closed = FALSE /\ notifiedClosed = FALSE /\ leaving = FALSE /\ up = TRUE
  /\ c2s = << >> /\ s2c = << <<"ID", 0>> >> /\ server = "none" /\ sealed = 0
  /\ data = 0 /\ keepalives = 0 /\ clientRekeys = 0 /\ serverRekeys = 0 /\ messages = 0
  /\ newkeys = 0

\* A signature of the server's: over this exchange's hash, over another, or of a wrong length.
Signatures == {"this exchange", "another", "malformed"}

Dialogue ==
  \/ \E found \in BOOLEAN : ReadIdentification(found)
  \/ \E missing \in SUBSET Choices : ReadServerKexInit(Choices \ missing)
  \/ \E signed \in Signatures, hasCallback \in BOOLEAN :
       ReadHostKey(signed, hasCallback)
  \/ ReadFirstNewkeys
  \/ \E credentials \in {"privateKey", "password", "none"} : ReadServiceAccept(credentials)
  \/ ReadAuthResult \/ ReadChannelOpened \/ ReadSubsystem
  \/ AskedSent \/ ReadUnexpected \/ ReadRequest \/ RefusalSent \/ Broken

\* Nobody has the client before connectSftp() has returned it.
Opened ==
  /\ asked = "open"
  /\ Client \/ Disconnected
  /\ UNCHANGED <<dialogue, key>>

Runtime ==
  \/ Dialogue
  \/ ReadLoop /\ UNCHANGED <<dialogue, key>>
  \/ \E signed \in Signatures, shown \in HostKeys : ReadRekeyReply(signed, shown)
Sends   == Transmit /\ UNCHANGED <<dialogue, key>>
Reads   == c2s # << >> /\ Answers(Head(c2s)) = {} /\ ServerReads /\ UNCHANGED <<dialogue, key>>

Next ==
  \/ Runtime \/ Sends \/ Opened \/ Reads \/ ServerAnswers
  \/ \E accepted \in BOOLEAN : Trusted(accepted)
  \/ (ServerSpeaks \/ Lose) /\ UNCHANGED <<dialogue, key>>

\* The runtime settles every promise, and the server answers what it reads.  The
\* user need not answer the prompt.
Fairness ==
  /\ WF_allVars(Runtime) /\ WF_allVars(Sends) /\ WF_allVars(Disconnected /\ UNCHANGED <<dialogue, key>>)
  /\ WF_allVars(Reads) /\ WF_allVars(ServerAnswers)

Spec == Init /\ [][Next]_allVars /\ Fairness

-----------------------------------------------------------------------------
TypeOK ==
  /\ TransportTypeOK
  /\ pc \in Handshaking \cup {"trust", "failed"} \cup Receiving \cup Sending \cup {"ended"}
  /\ asked \in Packet \cup {"open"} /\ known \in {"none"} \cup HostKeys
  /\ writable \in BOOLEAN /\ key \in {"none"} \cup HostKeys

\* The next packet to be written is sealed with the keys of the last NEWKEYS
\* before it, whatever was waiting when the keys changed, and the next to be read is
\* opened with the keys the server sealed it with (SshClient.ts:332-334).  Between
\* the NEWKEYS of connect() and its ciphers nothing is written.  Only disconnect()'s
\* last packet, which nothing holds, may still have the old keys.
KeyBoundary ==
  /\ up /\ chain # << >> /\ Head(chain) # "DISCONNECT" => c2sCipher = newkeys
  /\ s2c # << >> /\ pc \in Receiving \cup {"recvAnswer"} => Head(s2c)[2] = s2cCipher

\* The user's credentials leave only over keys in use in both directions, to the
\* host key that the user has accepted (SshClient.ts:492-507).  Once a key is
\* accepted it is the stored one, and no exchange goes on with another
\* (SshClient.ts:317-328), save where localStorage has not taken it
\* (knownhosts.ts:30-36); and a stored key is not replaced, whatever the user answers.
CredentialsGuarded ==
  [][ /\ \A packets \in {chain', c2s'} :
           (\E i \in 1..Len(packets) : packets[i] = "USERAUTH_REQUEST") =>
             c2sCipher' > 0 /\ s2cCipher' > 0 /\ key' = "same"
      /\ \/ key' = "none"
         \/ known' = "same" /\ key' = "same"
         \/ known' = "none" /\ ~writable'
      /\ known' # known => known = "none" ]_allVars

\* The dialogue gets on to its end, its failure or the user, and performRekey always
\* ends and lets go on what its gate holds; but an exchange that the server starts
\* before the read loop runs is never answered.
ExchangeEnds ==
  /\ pc \in Handshaking ~> pc \notin Handshaking \/ (serverRekeys > 0 /\ asked # "open")
  /\ pc \in Driving ~> ~gate
=============================================================================
