----------------------------- MODULE AppSessions -----------------------------
(***************************************************************************)
(* src/state/AppProvider.tsx, remote sessions: connecting with its timer   *)
(* and its host-key question, tabs (one session in the active slots, the   *)
(* others parked), the loss of a connection and the automatic reconnect.   *)
(*                                                                         *)
(* Connection attempts are numbered, and an attempt's number names its     *)
(* connection and, if it opens a tab, its session too.  A render follows   *)
(* every handler, so the refs that mirror state are the state; but the     *)
(* dialog that asks for a host key is rendered in a step of its own.       *)
(***************************************************************************)
EXTENDS Integers, Sequences, SequencesExt

CONSTANTS MaxAttempts,  \* bound: connection attempts
          Host,
          Ssh,          \* the hosts reached over SSH: only they have keys and report a loss
          Key,          \* host keys
          MAX_AUTO_RECONNECT_ATTEMPTS,
          NoHost, NoKey

ASSUME SessionsAssumption ==
  /\ MaxAttempts \in Nat \ {0} /\ MAX_AUTO_RECONNECT_ATTEMPTS \in Nat
  /\ Ssh \subseteq Host /\ NoHost \notin Host /\ NoKey \notin Key

Attempt == 1..MaxAttempts

VARIABLES
  phase,    \* of each attempt, and of its connection
  target, session, retry,
  settled,  \* it has timed out, failed or been installed
  key,      \* what its server has shown
  active, slot, creds,        \* the active session, its connection and its credentials
  parked, sessionOrder,
  reconnectAttempts,
  hostKeyPrompt, hostKeyResolver, pendingHost,
  rendered,                   \* the dialog on the screen: hostKeyPrompt at the last render
  known,                      \* remembered host keys
  remoteConnecting,
  accepted,  \* history: the host keys that the user has accepted
  slipped,   \* history: those trusted by a click on a dialog that was no longer the question
  displaced  \* history: open connections whose place a reconnect has taken

attempts == <<phase, target, session, retry, settled, key>>
tabs     == <<active, slot, creds, parked, sessionOrder>>
question == <<hostKeyPrompt, hostKeyResolver, pendingHost>>
consent  == <<known, accepted, slipped>>
prompts  == <<question, rendered, consent>>
vars == <<attempts, tabs, reconnectAttempts, prompts, remoteConnecting, displaced>>

Pending == {"connecting", "asking", "opening", "rejected"}
Parked == [id : Attempt, conn : Attempt, creds : Host, dropped : BOOLEAN]

\* What filter() leaves.  An id is there once at most.
Without(s, id) == RemoveFirstMatch(s, LAMBDA p : p.id = id)

\* The modal dialog that asks for a host key covers everything else.
Uncovered == rendered = 0

-----------------------------------------------------------------------------
(***************************************************************************)
(* Connecting.                                                             *)
(***************************************************************************)

\* performConnect(): a fresh connect opens a tab (id = 0), a reconnect keeps its own.
\* before: what the handler has made of the phases.
PerformConnect(before, host, id) ==
  \E a \in Attempt :
    /\ phase[a] = "unused" /\ \A b \in 1..(a - 1) : phase[b] # "unused"
    /\ phase' = [before EXCEPT ![a] = "connecting"]
    /\ target' = [target EXCEPT ![a] = host]
    /\ session' = [session EXCEPT ![a] = IF id = 0 THEN a ELSE id]
    /\ retry' = [retry EXCEPT ![a] = id # 0]
    /\ remoteConnecting' = TRUE
    /\ UNCHANGED <<settled, key>>

\* From the connect dialog, whose button rests while something connects, or from the
\* list of saved connections, which are all of SSH.
Connect(host) ==
  /\ Uncovered /\ (remoteConnecting => host \in Ssh)
  /\ PerformConnect(phase, host, 0)
  /\ reconnectAttempts' = 0
  /\ UNCHANGED <<tabs, prompts, displaced>>

\* reconnectLast(), where the pane shows no remote.
ReconnectLast ==
  /\ Uncovered /\ slot = 0 /\ creds # NoHost
  /\ PerformConnect(phase, creds, 0)
  /\ reconnectAttempts' = 0
  /\ UNCHANGED <<tabs, prompts, displaced>>

\* Slip: a question already on the screen stays there.
AsksUnlessAsked(a) ==
  /\ hostKeyPrompt' = IF hostKeyPrompt = 0 THEN a ELSE hostKeyPrompt
  /\ hostKeyResolver' = a /\ pendingHost' = target[a]

\* The question of trust() takes the place of any other, though not yet on the screen.
Asks(a) == hostKeyPrompt' = a /\ hostKeyResolver' = a /\ pendingHost' = target[a]

\* trust(): the server shows its key, which matches the one remembered, or is the first of
\* its host.  With any other the attempt fails before.
ShowKey(a, k) ==
  /\ phase[a] = "connecting" /\ target[a] \in Ssh
  /\ key' = [key EXCEPT ![a] = k]
  /\ \/ /\ known[target[a]] = k
        /\ phase' = [phase EXCEPT ![a] = "opening"]
        /\ UNCHANGED question
     \/ /\ known[target[a]] = NoKey
        /\ phase' = [phase EXCEPT ![a] = "asking"]
        /\ Asks(a)
  /\ UNCHANGED <<target, session, retry, settled, tabs, reconnectAttempts, rendered, consent,
                 remoteConnecting, displaced>>

\* React renders what a promise or a timer has set.
Render ==
  /\ rendered # hostKeyPrompt /\ rendered' = hostKeyPrompt
  /\ UNCHANGED <<attempts, tabs, reconnectAttempts, question, consent, remoteConnecting, displaced>>

NoQuestion == hostKeyPrompt' = 0 /\ hostKeyResolver' = 0 /\ UNCHANGED <<pendingHost, rendered, consent>>

\* The keys that a click remembers, if localStorage takes them: resolveHostKey() that of
\* the dialog, then connect() that of the attempt which goes on.
Remembers == {key[rendered]} \cup {key[a] : a \in {hostKeyResolver} \ {0}}

\* A click on the dialog: its key, but the host and the attempt of the last question.
ResolveHostKey(accept) ==
  /\ rendered # 0
  /\ IF accept
     THEN /\ \E k \in {known[pendingHost]} \cup Remembers : known' = [known EXCEPT ![pendingHost] = k]
          /\ accepted' = accepted \cup {<<target[rendered], key[rendered]>>}
          /\ slipped' = IF rendered = hostKeyPrompt THEN slipped
                        ELSE slipped \cup ({pendingHost} \X Remembers)
     ELSE UNCHANGED consent
  /\ phase' = IF hostKeyResolver = 0 THEN phase
              ELSE [phase EXCEPT ![hostKeyResolver] = IF accept THEN "opening" ELSE "rejected"]
  /\ hostKeyPrompt' = 0 /\ hostKeyResolver' = 0 /\ rendered' = 0
  /\ UNCHANGED <<target, session, retry, settled, key, tabs, reconnectAttempts, pendingHost,
                 remoteConnecting, displaced>>

\* The 30 seconds are over.  The attempt itself is not stopped.
TimesOut(a) ==
  /\ phase[a] \in Pending /\ ~settled[a]
  /\ settled' = [settled EXCEPT ![a] = TRUE]
  /\ remoteConnecting' = FALSE
  /\ NoQuestion
  /\ UNCHANGED <<phase, target, session, retry, key, tabs, reconnectAttempts, displaced>>

\* connectRemote() rejects; after a timeout nobody listens.
Fails(a) ==
  /\ phase[a] \in Pending \ {"asking"}
  /\ phase' = [phase EXCEPT ![a] = "gone"]
  /\ IF settled[a] THEN UNCHANGED <<settled, remoteConnecting, prompts>>
     ELSE settled' = [settled EXCEPT ![a] = TRUE] /\ remoteConnecting' = FALSE /\ NoQuestion
  /\ UNCHANGED <<target, session, retry, key, tabs, reconnectAttempts, displaced>>

-----------------------------------------------------------------------------
(***************************************************************************)
(* Tabs.                                                                   *)
(***************************************************************************)

\* What is parked of the active session: nothing, if it has no connection.
Snapshot ==
  IF active # 0 /\ slot # 0
  THEN <<[id |-> active, conn |-> slot, creds |-> creds, dropped |-> FALSE]>> ELSE <<>>

Opens(a) == phase[a] = IF target[a] \in Ssh THEN "opening" ELSE "connecting"

\* Slip: a connection that comes after the timeout is forgotten.
LateIsKept(a) == phase' = [phase EXCEPT ![a] = "live"]

LateIsClosed(a) == phase' = [phase EXCEPT ![a] = "gone"]

SucceedsLate(a) ==
  /\ Opens(a) /\ settled[a]
  /\ LateIsClosed(a)
  /\ UNCHANGED <<target, session, retry, settled, key, tabs, reconnectAttempts, prompts,
                 remoteConnecting, displaced>>

\* A new tab parks the active session; a reconnect does not.
Succeeds(a) ==
  /\ Opens(a) /\ ~settled[a]
  /\ phase' = [phase EXCEPT ![a] = "live"]
  /\ settled' = [settled EXCEPT ![a] = TRUE]
  /\ parked' = IF retry[a] THEN parked ELSE parked \o Snapshot
  /\ displaced' = IF retry[a] /\ slot # 0 THEN displaced \cup {slot} ELSE displaced
  /\ active' = session[a] /\ slot' = a /\ creds' = target[a]
  /\ sessionOrder' = IF Contains(sessionOrder, session[a]) THEN sessionOrder
                     ELSE Append(sessionOrder, session[a])
  /\ remoteConnecting' = FALSE
  /\ UNCHANGED <<target, session, retry, key, reconnectAttempts, prompts>>

\* Slip: the credentials of the tab before stay.
ActivateWithoutCreds(p) == active' = p.id /\ slot' = p.conn /\ creds' = creds

Activate(p) == active' = p.id /\ slot' = p.conn /\ creds' = p.creds

SwitchSession(id) ==
  /\ Uncovered /\ Contains(sessionOrder, id) /\ id # active
  /\ \E k \in DOMAIN parked :
       /\ parked[k].id = id
       /\ Activate(parked[k])
  /\ parked' = Without(parked, id) \o Snapshot
  /\ reconnectAttempts' = 0
  /\ UNCHANGED <<attempts, sessionOrder, prompts, remoteConnecting, displaced>>

CloseSession(id) ==
  /\ Uncovered /\ Contains(sessionOrder, id)
  /\ sessionOrder' = RemoveFirst(sessionOrder, id)
  /\ LET conn == IF id = active THEN {slot}
                 ELSE {parked[k].conn : k \in {i \in DOMAIN parked : parked[i].id = id}}
     IN  phase' = [a \in Attempt |-> IF a \in conn /\ phase[a] = "live" THEN "gone" ELSE phase[a]]
  /\ \/ id # active /\ parked' = Without(parked, id) /\ UNCHANGED <<active, slot, creds, reconnectAttempts>>
     \/ /\ id = active /\ parked # <<>>
        /\ Activate(Last(parked)) /\ parked' = Front(parked) /\ reconnectAttempts' = 0
     \/ /\ id = active /\ parked = <<>>
        /\ active' = 0 /\ slot' = 0 /\ creds' = NoHost /\ parked' = parked /\ reconnectAttempts' = 0
  /\ UNCHANGED <<target, session, retry, settled, key, prompts, remoteConnecting, displaced>>

-----------------------------------------------------------------------------
(***************************************************************************)
(* The loss of a connection.                                               *)
(***************************************************************************)

\* Slip: one attempt too many.
MayRetryOnceMore(used) == creds # NoHost /\ used <= MAX_AUTO_RECONNECT_ATTEMPTS

MayRetry(used) == creds # NoHost /\ used < MAX_AUTO_RECONNECT_ATTEMPTS

\* handleSessionClosed().  stable: the connection had been up for a while.
Drop(a, stable) ==
  /\ phase[a] = "live" /\ target[a] \in Ssh
  /\ LET dead == [phase EXCEPT ![a] = "gone"]
         used == IF stable THEN 0 ELSE reconnectAttempts
     IN \/ /\ session[a] # active
           /\ phase' = dead
           /\ parked' = [k \in DOMAIN parked |->
                IF parked[k].id = session[a] THEN [parked[k] EXCEPT !.dropped = TRUE] ELSE parked[k]]
           /\ UNCHANGED <<target, session, retry, settled, key, active, slot, creds, reconnectAttempts,
                          remoteConnecting>>
        \/ /\ session[a] = active
           /\ slot' = 0 /\ UNCHANGED <<active, creds, parked>>
           /\ IF MayRetry(used)
              THEN /\ reconnectAttempts' = used + 1
                   /\ PerformConnect(dead, creds, active)
              ELSE /\ reconnectAttempts' = used /\ phase' = dead
                   /\ UNCHANGED <<target, session, retry, settled, key, remoteConnecting>>
  /\ UNCHANGED <<sessionOrder, prompts, displaced>>

-----------------------------------------------------------------------------
Init ==
  /\ phase = [a \in Attempt |-> "unused"] /\ target = [a \in Attempt |-> NoHost]
  /\ session = [a \in Attempt |-> 0] /\ key = [a \in Attempt |-> NoKey]
  /\ retry = [a \in Attempt |-> FALSE] /\ settled = retry
  /\ active = 0 /\ slot = 0 /\ creds = NoHost /\ parked = <<>> /\ sessionOrder = <<>>
  /\ reconnectAttempts = 0
  /\ hostKeyPrompt = 0 /\ hostKeyResolver = 0 /\ pendingHost = NoHost /\ rendered = 0
  /\ known = [h \in Ssh |-> NoKey] /\ remoteConnecting = FALSE
  /\ accepted = {} /\ slipped = {} /\ displaced = {}

User ==
  \/ \E h \in Host : Connect(h)
  \/ ReconnectLast
  \/ \E accept \in BOOLEAN : ResolveHostKey(accept)
  \/ \E id \in Attempt : SwitchSession(id) \/ CloseSession(id)

\* What ends an attempt.
Ends(a) == TimesOut(a) \/ Fails(a) \/ SucceedsLate(a) \/ Succeeds(a)

Next ==
  \/ User \/ Render
  \/ \E a \in Attempt : Ends(a) \/ \E k \in Key : ShowKey(a, k)
  \/ \E a \in Attempt, stable \in BOOLEAN : Drop(a, stable)

\* The timer fires, and a connection that has begun comes to an end.
Spec == Init /\ [][Next]_vars /\ \A a \in Attempt : WF_vars(Ends(a))

-----------------------------------------------------------------------------
(***************************************************************************)
(* Properties.                                                             *)
(***************************************************************************)

TypeOK ==
  /\ phase \in [Attempt -> Pending \cup {"unused", "live", "gone"}]
  /\ target \in [Attempt -> Host \cup {NoHost}] /\ session \in [Attempt -> 0..MaxAttempts]
  /\ {retry, settled} \subseteq [Attempt -> BOOLEAN] /\ key \in [Attempt -> Key \cup {NoKey}]
  /\ {active, slot, hostKeyPrompt, hostKeyResolver, rendered} \subseteq 0..MaxAttempts
  /\ {creds, pendingHost} \subseteq Host \cup {NoHost}
  /\ parked \in Seq(Parked)
  /\ \A j, k \in DOMAIN parked : parked[j].id = parked[k].id => j = k
  /\ sessionOrder \in Seq(Attempt) /\ IsInjective(sessionOrder)
  /\ reconnectAttempts \in 0..MAX_AUTO_RECONNECT_ATTEMPTS
  /\ known \in [Ssh -> Key \cup {NoKey}] /\ remoteConnecting \in BOOLEAN
  /\ accepted \cup slipped \subseteq Ssh \X Key /\ displaced \subseteq Attempt

\* Nobody's key is trusted, or remembered, but one that the user has accepted for that
\* very host, however many attempts ask at once (AppProvider.tsx:535-551, 576-588).
\* Except: a click that comes before a later question, or its end, is rendered counts for
\* the host and the attempt of that question (AppProvider.tsx:538-541, 583-585).
TrustIsConsent ==
  /\ \A h \in Ssh : known[h] # NoKey => <<h, known[h]>> \in accepted \cup slipped
  /\ \A a \in Attempt : phase[a] \in {"opening", "live"} /\ target[a] \in Ssh
                          => <<target[a], key[a]>> \in accepted \cup slipped

\* "Reuses the dropped session's id and reinstalls it in place" (AppProvider.tsx:567-571):
\* a tab never shows, parks or reconnects to the host of another tab.
TabKeepsHost ==
  /\ \A a, b \in Attempt : session[a] # 0 /\ session[a] = session[b] => target[a] = target[b]
  /\ slot # 0 => session[slot] = active /\ target[slot] = creds
  /\ \A k \in DOMAIN parked : /\ session[parked[k].conn] = parked[k].id
                               /\ target[parked[k].conn] = parked[k].creds

\* An open connection has a tab through which it can be used and closed, unless a
\* reconnect that came back to a tab left in the meantime has taken its place
\* ("don't leak this late-arriving session", AppProvider.tsx:613).
NoneLeaks ==
  \A a \in Attempt : phase[a] = "live" =>
    a \in {slot} \cup {parked[k].conn : k \in DOMAIN parked} \cup displaced
=============================================================================
