------------------------------ MODULE AppProofs ------------------------------
(***************************************************************************)
(* The application's state.  No host key is trusted without the user's     *)
(* consent, a tab keeps its host and an open connection has a tab: proved  *)
(* for any number of hosts, keys, automatic reconnects and attempts at     *)
(* once.  The pane shows what is there when everything is over, and no     *)
(* deed removes what was not to be removed, for any trees of files and any *)
(* number of deeds.                                                        *)
(***************************************************************************)
EXTENDS AppSessions, Files, FiniteSetTheorems, SequenceTheorems, TLAPS

(***************************************************************************)
(* What the proof needs of the types.                                      *)
(***************************************************************************)
Domains ==
  /\ DOMAIN phase = Attempt /\ DOMAIN target = Attempt /\ DOMAIN key = Attempt
  /\ DOMAIN known = Ssh

(***************************************************************************)
(* The question, the one whose answer is awaited and the host that is      *)
(* remembered with it are those of one attempt: an attempt whose question  *)
(* was taken away gets no other one's answer.  It asks, and so does the    *)
(* attempt of the dialog on the screen, be it another.                     *)
(***************************************************************************)
OneQuestion ==
  /\ hostKeyPrompt # 0 => hostKeyResolver = hostKeyPrompt /\ pendingHost = target[hostKeyPrompt]
  /\ hostKeyPrompt = 0 => hostKeyResolver = 0
  /\ rendered # 0 => pendingHost \in Ssh
  /\ \A q \in {hostKeyPrompt, rendered} \ {0} :
       q \in Attempt /\ phase[q] = "asking" /\ target[q] \in Ssh /\ key[q] \in Key

IInv == Domains /\ OneQuestion /\ TrustIsConsent

-----------------------------------------------------------------------------
LEMMA InitIInv == Init => IInv
BY DEF Init, IInv, Domains, OneQuestion, TrustIsConsent, Attempt

\* A step that neither asks nor answers: whose connection is open was opened before.
LEMMA KeepsConsent ==
  ASSUME IInv, DOMAIN phase' = Attempt, UNCHANGED <<target, key, rendered, consent>>,
         \/ hostKeyPrompt' = 0 /\ hostKeyResolver' = 0 /\ pendingHost' = pendingHost
         \/ UNCHANGED question,
         \A a \in Attempt : phase[a] = "asking" => phase'[a] = "asking",
         \A a \in Attempt : phase'[a] \in {"opening", "live"} =>
            phase[a] \in {"opening", "live"} \/ target[a] \notin Ssh
  PROVE  IInv'
<1>1. Domains' /\ TrustIsConsent'
  BY DEF IInv, Domains, TrustIsConsent, consent
<1>2. OneQuestion'
  BY DEF IInv, OneQuestion, question
<1>3. QED  BY <1>1, <1>2 DEF IInv

LEMMA RenderKeepsConsent == ASSUME IInv, Render PROVE IInv'
<1>1. UNCHANGED <<phase, target, key, question, consent>> /\ rendered' = hostKeyPrompt
  BY DEF Render, attempts
<1>2. Domains' /\ TrustIsConsent'
  BY <1>1 DEF IInv, Domains, TrustIsConsent, consent
<1>3. OneQuestion'
  BY <1>1 DEF IInv, OneQuestion, question
<1>4. QED  BY <1>2, <1>3 DEF IInv

\* An attempt that begins has no key yet, and what ends before it does not matter.
LEMMA ConnectKeepsConsent ==
  ASSUME IInv, NEW before, NEW host, NEW id, PerformConnect(before, host, id), UNCHANGED prompts,
         DOMAIN before = Attempt,
         \A a \in Attempt : before[a] = phase[a] \/ (before[a] = "gone" /\ phase[a] = "live")
  PROVE  IInv'
<1>1. PICK a \in Attempt : /\ phase[a] = "unused" /\ phase' = [before EXCEPT ![a] = "connecting"]
                           /\ target' = [target EXCEPT ![a] = host] /\ key' = key
  BY DEF PerformConnect
<1>2. Domains'
  BY <1>1 DEF IInv, Domains, prompts, consent
<1>3. \A b \in Attempt : b # a => target'[b] = target[b] /\ phase'[b] = before[b]
  BY <1>1 DEF IInv, Domains
<1>4. phase'[a] = "connecting"
  BY <1>1
<1>5. OneQuestion'
  BY <1>1, <1>3 DEF IInv, OneQuestion, prompts, question
<1>6. TrustIsConsent'
  BY <1>1, <1>3, <1>4 DEF IInv, TrustIsConsent, prompts, consent
<1>7. QED
  BY <1>2, <1>5, <1>6 DEF IInv

LEMMA UserConnects ==
  ASSUME IInv, ReconnectLast \/ \E h \in Host : Connect(h) PROVE IInv'
BY ConnectKeepsConsent DEF ReconnectLast, Connect, IInv, Domains

LEMMA ShowsKey ==
  ASSUME IInv, NEW a \in Attempt, NEW k \in Key, ShowKey(a, k) PROVE IInv'
<1>1. /\ phase[a] = "connecting" /\ target[a] \in Ssh /\ key' = [key EXCEPT ![a] = k]
      /\ UNCHANGED <<target, rendered, known, accepted, slipped>>
  BY DEF ShowKey, consent
<1>2. k # NoKey
  BY SessionsAssumption
<1>3. key'[a] = k /\ \A b \in Attempt : b # a => key'[b] = key[b]
  BY <1>1 DEF IInv, Domains
<1>4. CASE /\ known[target[a]] = k /\ phase' = [phase EXCEPT ![a] = "opening"]
           /\ UNCHANGED question
  <2>1. Domains'
    BY <1>1, <1>4 DEF IInv, Domains
  <2>2. OneQuestion'
    BY <1>1, <1>3, <1>4 DEF IInv, Domains, OneQuestion, question
  <2>3. <<target[a], k>> \in accepted \cup slipped
    BY <1>1, <1>2, <1>4 DEF IInv, TrustIsConsent
  <2>4. TrustIsConsent'
    BY <1>1, <1>3, <1>4, <2>3 DEF IInv, Domains, TrustIsConsent
  <2>5. QED
    BY <2>1, <2>2, <2>4 DEF IInv
<1>5. CASE phase' = [phase EXCEPT ![a] = "asking"] /\ Asks(a)
  <2>1. Domains'
    BY <1>1, <1>5 DEF IInv, Domains
  <2>2. OneQuestion'
    BY <1>1, <1>3, <1>5 DEF IInv, Domains, OneQuestion, Asks
  <2>3. TrustIsConsent'
    BY <1>1, <1>3, <1>5 DEF IInv, Domains, TrustIsConsent
  <2>4. QED
    BY <2>1, <2>2, <2>3 DEF IInv
<1>6. QED
  BY <1>4, <1>5 DEF ShowKey

\* The answer goes to the attempt that asked, and what is remembered is the key it showed,
\* unless the click was on a dialog that was no longer the question.
LEMMA UserAnswers ==
  ASSUME IInv, NEW accept \in BOOLEAN, ResolveHostKey(accept) PROVE IInv'
<1> DEFINE r == rendered
           w == hostKeyResolver
           h == pendingHost
<1>1. /\ r \in Attempt /\ target[r] \in Ssh /\ key[r] \in Key /\ h \in Ssh
      /\ r = hostKeyPrompt => w = r /\ h = target[r]
      /\ w # 0 => w = hostKeyPrompt /\ w \in Attempt /\ h = target[w] /\ key[w] \in Key
  BY DEF ResolveHostKey, IInv, OneQuestion
<1>2. /\ UNCHANGED <<target, key>> /\ hostKeyPrompt' = 0 /\ hostKeyResolver' = 0 /\ rendered' = 0
      /\ phase' = IF w = 0 THEN phase
                  ELSE [phase EXCEPT ![w] = IF accept THEN "opening" ELSE "rejected"]
  BY DEF ResolveHostKey
<1>3. \A b \in Attempt : phase'[b] = phase[b] \/ (b = w /\ phase'[b] = IF accept THEN "opening" ELSE "rejected")
  BY <1>2 DEF IInv, Domains
<1>4. OneQuestion'
  BY <1>2 DEF OneQuestion
<1>5. CASE accept
  <2>1. PICK k \in {known[h]} \cup Remembers : known' = [known EXCEPT ![h] = k]
    BY <1>5 DEF ResolveHostKey
  <2>2. /\ accepted' = accepted \cup {<<target[r], key[r]>>}
        /\ slipped' = IF r = hostKeyPrompt THEN slipped ELSE slipped \cup ({h} \X Remembers)
    BY <1>5 DEF ResolveHostKey
  <2>3. \A x \in Remembers : <<h, x>> \in accepted' \cup slipped'
    BY <1>1, <2>2 DEF Remembers
  <2>4. w # 0 => key[w] \in Remembers
    BY DEF Remembers
  <2>5. Domains'
    BY <1>2, <2>1 DEF IInv, Domains
  <2>6. \A g \in Ssh : known'[g] = known[g] \/ (g = h /\ known'[g] \in Remembers)
    BY <2>1 DEF IInv, Domains
  <2>7. TrustIsConsent'
    <3>1. accepted \cup slipped \subseteq accepted' \cup slipped'
      BY <2>2
    <3>2. \A g \in Ssh : known'[g] # NoKey => <<g, known'[g]>> \in accepted' \cup slipped'
      BY <2>3, <2>6, <3>1 DEF IInv, TrustIsConsent
    <3>3. \A b \in Attempt : phase'[b] \in {"opening", "live"} /\ target'[b] \in Ssh
                               => <<target'[b], key'[b]>> \in accepted' \cup slipped'
      BY <1>1, <1>2, <1>3, <2>3, <2>4, <3>1 DEF IInv, TrustIsConsent
    <3>4. QED  BY <3>2, <3>3 DEF TrustIsConsent
  <2>8. QED
    BY <1>4, <2>5, <2>7 DEF IInv
<1>6. CASE ~accept
  <2>1. \A b \in Attempt : phase'[b] = phase[b] \/ phase'[b] = "rejected"
    BY <1>3, <1>6
  <2>2. Domains' /\ UNCHANGED consent
    BY <1>2, <1>6 DEF ResolveHostKey, IInv, Domains, consent
  <2>3. QED
    BY <1>2, <1>4, <2>1, <2>2 DEF IInv, TrustIsConsent, consent
<1>7. QED
  BY <1>5, <1>6

LEMMA AttemptEnds == ASSUME IInv, NEW a \in Attempt, Ends(a) PROVE IInv'
<1>1. CASE TimesOut(a)
  BY <1>1, KeepsConsent DEF TimesOut, NoQuestion, IInv, Domains
<1>2. CASE Fails(a)
  <2>1. DOMAIN phase' = Attempt /\ \A b \in Attempt : phase'[b] = phase[b] \/ (b = a /\ phase'[b] = "gone")
    BY <1>2 DEF Fails, IInv, Domains
  <2>2. phase[a] # "asking"
    BY <1>2 DEF Fails
  <2>3. UNCHANGED <<target, key, rendered, consent>>
    BY <1>2 DEF Fails, NoQuestion, prompts
  <2>4. \/ hostKeyPrompt' = 0 /\ hostKeyResolver' = 0 /\ pendingHost' = pendingHost
        \/ UNCHANGED question
    BY <1>2 DEF Fails, NoQuestion, prompts
  <2>5. QED
    BY <2>1, <2>2, <2>3, <2>4, KeepsConsent
<1>3. CASE SucceedsLate(a)
  <2>1. /\ DOMAIN phase' = Attempt /\ phase[a] # "asking"
        /\ \A b \in Attempt : phase'[b] = phase[b] \/ (b = a /\ phase'[b] = "gone")
    BY <1>3 DEF SucceedsLate, Opens, LateIsClosed, IInv, Domains
  <2>2. UNCHANGED <<target, key, prompts>>
    BY <1>3 DEF SucceedsLate
  <2>3. QED
    BY <2>1, <2>2, KeepsConsent DEF prompts
<1>4. CASE Succeeds(a)
  <2>1. DOMAIN phase' = Attempt /\ \A b \in Attempt : phase'[b] = phase[b] \/ (b = a /\ phase'[b] = "live")
    BY <1>4 DEF Succeeds, IInv, Domains
  <2>2. phase[a] # "asking" /\ (phase[a] = "opening" \/ target[a] \notin Ssh)
    BY <1>4 DEF Succeeds, Opens
  <2>3. UNCHANGED <<target, key, prompts>>
    BY <1>4 DEF Succeeds
  <2>4. QED
    BY <2>1, <2>2, <2>3, KeepsConsent DEF prompts
<1>5. QED
  BY <1>1, <1>2, <1>3, <1>4 DEF Ends

LEMMA TabsChange ==
  ASSUME IInv, NEW id \in Attempt, SwitchSession(id) \/ CloseSession(id) PROVE IInv'
<1>1. CASE SwitchSession(id)
  BY <1>1, KeepsConsent DEF SwitchSession, attempts, prompts, IInv, Domains
<1>2. CASE CloseSession(id)
  <2>1. /\ DOMAIN phase' = Attempt
        /\ \A a \in Attempt : phase'[a] = phase[a] \/ (phase[a] = "live" /\ phase'[a] = "gone")
    BY <1>2 DEF CloseSession
  <2>2. UNCHANGED <<target, key, prompts>>
    BY <1>2 DEF CloseSession
  <2>3. QED
    BY <2>1, <2>2, KeepsConsent DEF prompts
<1>3. QED
  BY <1>1, <1>2

LEMMA ConnectionDrops ==
  ASSUME IInv, NEW a \in Attempt, NEW stable \in BOOLEAN, Drop(a, stable) PROVE IInv'
<1> DEFINE dead == [phase EXCEPT ![a] = "gone"]
<1>1. phase[a] = "live" /\ UNCHANGED prompts
  BY DEF Drop
<1>2. /\ DOMAIN dead = Attempt
      /\ \A b \in Attempt : dead[b] = phase[b] \/ (dead[b] = "gone" /\ phase[b] = "live")
  BY <1>1 DEF IInv, Domains
<1>3. CASE phase' = dead /\ UNCHANGED <<target, key>>
  BY <1>1, <1>2, <1>3, KeepsConsent DEF prompts
<1>4. CASE PerformConnect(dead, creds, active)
  BY <1>1, <1>2, <1>4, ConnectKeepsConsent
<1>5. QED
  BY <1>3, <1>4 DEF Drop

LEMMA StepIInv == IInv /\ [Next]_vars => IInv'
<1> SUFFICES ASSUME IInv, [Next]_vars PROVE IInv'
  OBVIOUS
<1>1. CASE UNCHANGED vars
  BY <1>1, KeepsConsent DEF vars, attempts, prompts, IInv, Domains
<1>2. CASE User
  BY <1>2, UserConnects, UserAnswers, TabsChange DEF User
<1>3. CASE \E a \in Attempt : Ends(a) \/ \E k \in Key : ShowKey(a, k)
  BY <1>3, AttemptEnds, ShowsKey
<1>4. CASE \E a \in Attempt, stable \in BOOLEAN : Drop(a, stable)
  BY <1>4, ConnectionDrops
<1>5. QED
  BY <1>1, <1>2, <1>3, <1>4, RenderKeepsConsent DEF Next

\* A key is trusted or remembered for a host only if the user has accepted that key for
\* that host, whichever attempts ask, time out, fail or reconnect meanwhile.  Except: a
\* click on a dialog that was no longer the question counts for the host and the attempt
\* of the later one (AppProvider.tsx:537-552, 583-585).
THEOREM ConsentIsNeeded == Spec => []TrustIsConsent
<1>1. IInv => TrustIsConsent
  BY DEF IInv
<1>2. QED
  BY <1>1, InitIInv, StepIInv, PTL DEF Spec

-----------------------------------------------------------------------------
(***************************************************************************)
(* Sequences without repetition, by what they hold.                        *)
(***************************************************************************)
LEMMA Removed ==
  ASSUME NEW S, NEW s \in Seq(S), NEW k \in 1..Len(s)
  PROVE  /\ RemoveAt(s, k) \in Seq(S)
         /\ Len(RemoveAt(s, k)) = Len(s) - 1
         /\ \A i \in 1..(Len(s) - 1) : RemoveAt(s, k)[i] = IF i < k THEN s[i] ELSE s[i + 1]
<1> DEFINE a == SubSeq(s, 1, k - 1)
           b == SubSeq(s, k + 1, Len(s))
<1>1. Len(s) \in Nat /\ k \in Nat /\ \A i \in 1..Len(s) : s[i] \in S
  OBVIOUS
<1>2. /\ a \in Seq(S) /\ Len(a) = k - 1
      /\ \A i \in 1..(k - 1) : a[i] = s[i]
  <2>1. /\ a \in Seq(S) /\ Len(a) = IF 1 <= k - 1 THEN (k - 1) - 1 + 1 ELSE 0
        /\ \A i \in 1..((k - 1) - 1 + 1) : a[i] = s[1 + i - 1]
    BY <1>1, SubSeqProperties
  <2> HIDE DEF a
  <2>2. \A i \in 1..(k - 1) : a[i] = s[i]
    BY <1>1, <2>1
  <2>3. QED  BY <1>1, <2>1, <2>2
<1>3. /\ b \in Seq(S) /\ Len(b) = Len(s) - k
      /\ \A i \in 1..(Len(s) - k) : b[i] = s[k + i]
  <2>1. /\ b \in Seq(S) /\ Len(b) = IF k + 1 <= Len(s) THEN Len(s) - (k + 1) + 1 ELSE 0
        /\ \A i \in 1..(Len(s) - (k + 1) + 1) : b[i] = s[k + 1 + i - 1]
    BY <1>1, SubSeqProperties
  <2> HIDE DEF b
  <2>2. \A i \in 1..(Len(s) - k) : b[i] = s[k + i]
    BY <1>1, <2>1
  <2>3. QED  BY <1>1, <2>1, <2>2
<1>4. RemoveAt(s, k) = a \o b
  BY DEF RemoveAt
<1> HIDE DEF a, b
<1>5. /\ a \o b \in Seq(S) /\ Len(a \o b) = Len(a) + Len(b)
      /\ \A i \in 1..(Len(a) + Len(b)) : (a \o b)[i] = IF i <= Len(a) THEN a[i] ELSE b[i - Len(a)]
  BY <1>2, <1>3, ConcatProperties
<1> DEFINE c == a \o b
<1>6. c \in Seq(S) /\ Len(c) = Len(s) - 1
  BY <1>1, <1>2, <1>3, <1>5
<1>7. ASSUME NEW i \in 1..(Len(s) - 1)  PROVE c[i] = IF i < k THEN s[i] ELSE s[i + 1]
  <2>1. c[i] = IF i < k THEN a[i] ELSE b[i - (k - 1)]
    BY <1>1, <1>2, <1>3, <1>5
  <2>2. CASE i < k
    BY <1>1, <1>2, <2>1, <2>2
  <2>3. CASE ~(i < k)
    <3>1. i - (k - 1) \in 1..(Len(s) - k) /\ k + (i - (k - 1)) = i + 1
      BY <1>1, <2>3
    <3> QED BY <1>3, <2>1, <2>3, <3>1
  <2> QED BY <2>2, <2>3
<1> HIDE DEF c
<1>8. RemoveAt(s, k) = c
  BY <1>4 DEF c
<1> QED BY <1>6, <1>7, <1>8

\* What is left of a sequence in which everything is there once.
LEMMA RemovedRange ==
  ASSUME NEW S, NEW s \in Seq(S), NEW k \in 1..Len(s), IsInjective(s)
  PROVE  IsInjective(RemoveAt(s, k)) /\ Range(RemoveAt(s, k)) = Range(s) \ {s[k]}
<1> DEFINE r == RemoveAt(s, k)
<1>1. /\ r \in Seq(S) /\ Len(r) = Len(s) - 1
      /\ \A i \in 1..(Len(s) - 1) : r[i] = IF i < k THEN s[i] ELSE s[i + 1]
  BY Removed
<1>2. Len(s) \in Nat /\ DOMAIN s = 1..Len(s) /\ k \in Nat
  OBVIOUS
<1> HIDE DEF r
<1> DEFINE from(i) == IF i < k THEN i ELSE i + 1
<1>3. /\ DOMAIN r = 1..(Len(s) - 1)
      /\ \A i \in DOMAIN r : from(i) \in DOMAIN s /\ from(i) # k /\ r[i] = s[from(i)]
      /\ \A i, j \in DOMAIN r : from(i) = from(j) => i = j
  <2>1. DOMAIN r = 1..(Len(s) - 1)
    BY <1>1
  <2>2. QED  BY <1>1, <1>2, <2>1
<1> HIDE DEF from
<1>4. IsInjective(r) /\ Range(r) \subseteq Range(s) \ {s[k]}
  BY <1>2, <1>3 DEF IsInjective, Range
<1>5. ASSUME NEW x \in Range(s) \ {s[k]}  PROVE x \in Range(r)
  <2>1. PICK i \in 1..Len(s) : s[i] = x /\ i # k
    BY <1>2 DEF Range
  <2>2. CASE i < k
    <3>1. i \in 1..(Len(s) - 1) /\ r[i] = x
      BY <1>1, <1>2, <2>1, <2>2
    <3>2. QED  BY <1>3, <3>1 DEF Range
  <2>3. CASE i > k
    <3>1. i - 1 \in 1..(Len(s) - 1) /\ r[i - 1] = x
      BY <1>1, <1>2, <2>1, <2>3
    <3>2. QED  BY <1>3, <3>1 DEF Range
  <2>4. QED  BY <1>2, <2>1, <2>2, <2>3
<1>6. QED  BY <1>4, <1>5 DEF r

LEMMA AddedRange ==
  ASSUME NEW S, NEW s \in Seq(S), NEW x \in S
  PROVE  /\ s \o <<x>> \in Seq(S)
         /\ Range(s \o <<x>>) = Range(s) \cup {x}
         /\ IsInjective(s) /\ x \notin Range(s) => IsInjective(s \o <<x>>)
<1> DEFINE r == s \o <<x>>
<1>1. <<x>> \in Seq(S) /\ Len(<<x>>) = 1 /\ <<x>>[1] = x
  OBVIOUS
<1>2. /\ r \in Seq(S) /\ Len(r) = Len(s) + 1 /\ Len(s) \in Nat
      /\ \A i \in 1..(Len(s) + 1) : r[i] = IF i <= Len(s) THEN s[i] ELSE <<x>>[i - Len(s)]
  BY <1>1, ConcatProperties
<1>3. /\ DOMAIN r = 1..(Len(s) + 1) /\ DOMAIN s = 1..Len(s)
      /\ r[Len(s) + 1] = x /\ \A i \in 1..Len(s) : r[i] = s[i]
  BY <1>1, <1>2
<1> HIDE DEF r
<1>4. Range(r) = Range(s) \cup {x}
  BY <1>2, <1>3 DEF Range
<1>5. IsInjective(s) /\ x \notin Range(s) => IsInjective(r)
  BY <1>2, <1>3 DEF Range, IsInjective
<1>6. QED  BY <1>2, <1>4, <1>5 DEF r

\* In a sequence of parked sessions no id is there twice.
IdsOnce(s) == \A j, k \in DOMAIN s : s[j].id = s[k].id => j = k

LEMMA IdsOnceByRange ==
  ASSUME NEW s
  PROVE  IdsOnce(s) <=> IsInjective(s) /\ \A p, q \in Range(s) : p.id = q.id => p = q
BY DEF IdsOnce, IsInjective, Range

LEMMA TakenOut ==
  ASSUME NEW s \in Seq(Parked), IdsOnce(s), NEW k \in 1..Len(s)
  PROVE  /\ RemoveAt(s, k) \in Seq(Parked) /\ IdsOnce(RemoveAt(s, k))
         /\ Range(RemoveAt(s, k)) = Range(s) \ {s[k]}
         /\ s[k] \in Range(s)
<1>1. IsInjective(s) /\ \A p, q \in Range(s) : p.id = q.id => p = q
  BY IdsOnceByRange
<1>2. /\ RemoveAt(s, k) \in Seq(Parked) /\ IsInjective(RemoveAt(s, k))
      /\ Range(RemoveAt(s, k)) = Range(s) \ {s[k]}
  BY <1>1, Removed, RemovedRange
<1>3. s[k] \in Range(s)
  BY DEF Range
<1>4. QED  BY <1>1, <1>2, <1>3, IdsOnceByRange

LEMMA PutAway ==
  ASSUME NEW s \in Seq(Parked), IdsOnce(s), NEW x \in Parked, \A p \in Range(s) : p.id # x.id
  PROVE  /\ s \o <<x>> \in Seq(Parked) /\ IdsOnce(s \o <<x>>)
         /\ Range(s \o <<x>>) = Range(s) \cup {x}
<1>1. IsInjective(s) /\ x \notin Range(s) /\ \A p, q \in Range(s) : p.id = q.id => p = q
  BY IdsOnceByRange
<1>2. /\ s \o <<x>> \in Seq(Parked) /\ IsInjective(s \o <<x>>)
      /\ Range(s \o <<x>>) = Range(s) \cup {x}
  BY <1>1, AddedRange
<1>3. \A p, q \in Range(s \o <<x>>) : p.id = q.id => p = q
  BY <1>1, <1>2
<1>4. QED  BY <1>2, <1>3, IdsOnceByRange

LEMMA OnlyOne == ASSUME NEW k \in Nat PROVE Min({k}) = k
BY DEF Min

\* What the two filters and the last but the others are.
LEMMA WithoutIs ==
  ASSUME NEW s \in Seq(Parked), IdsOnce(s), NEW id
  PROVE  \/ (\A p \in Range(s) : p.id # id) /\ Without(s, id) = s
         \/ \E k \in 1..Len(s) : s[k].id = id /\ Without(s, id) = RemoveAt(s, k)
<1>1. DOMAIN s = 1..Len(s) /\ Len(s) \in Nat
  OBVIOUS
<1>2. CASE \E i \in 1..Len(s) : s[i].id = id
  <2>1. PICK k \in 1..Len(s) : s[k].id = id
    BY <1>2
  <2>2. {i \in 1..Len(s) : s[i].id = id} = {k}
    BY <1>1, <2>1 DEF IdsOnce
  <2>3. SelectInSeq(s, LAMBDA p : p.id = id) = k
    BY <1>1, <2>1, <2>2, OnlyOne DEF SelectInSeq
  <2>4. Without(s, id) = RemoveAt(s, k)
    BY <1>2, <2>3 DEF Without, RemoveFirstMatch
  <2>5. QED  BY <2>1, <2>4
<1>3. CASE \A i \in 1..Len(s) : s[i].id # id
  <2>1. Without(s, id) = s
    BY <1>3 DEF Without, RemoveFirstMatch
  <2>2. QED  BY <1>1, <1>3, <2>1 DEF Range
<1>4. QED  BY <1>2, <1>3

LEMMA RemoveFirstIs ==
  ASSUME NEW S, NEW s \in Seq(S), IsInjective(s), NEW x
  PROVE  RemoveFirst(s, x) = s \/ \E k \in 1..Len(s) : RemoveFirst(s, x) = RemoveAt(s, k)
<1>1. DOMAIN s = 1..Len(s) /\ Len(s) \in Nat
  OBVIOUS
<1>2. CASE \E i \in 1..Len(s) : s[i] = x
  <2>1. PICK k \in 1..Len(s) : s[k] = x
    BY <1>2
  <2>2. {i \in 1..Len(s) : s[i] = x} = {k}
    BY <1>1, <2>1 DEF IsInjective
  <2>3. SelectInSeq(s, LAMBDA v : v = x) = k
    BY <1>1, <2>1, <2>2, OnlyOne DEF SelectInSeq
  <2>4. QED  BY <1>2, <2>3 DEF RemoveFirst
<1>3. CASE \A i \in 1..Len(s) : s[i] # x
  BY <1>3 DEF RemoveFirst
<1>4. QED  BY <1>2, <1>3

LEMMA FrontIs ==
  ASSUME NEW S, NEW s \in Seq(S), s # << >>
  PROVE  Len(s) \in 1..Len(s) /\ Front(s) = RemoveAt(s, Len(s))
<1>1. Len(s) \in Nat \ {0}
  BY EmptySeq
<1>2. SubSeq(s, Len(s) + 1, Len(s)) = << >>
  BY <1>1, SubSeqEmpty
<1>3. SubSeq(s, 1, Len(s) - 1) \in Seq(S)
  BY <1>1, SubSeqProperties
<1>4. QED  BY <1>1, <1>2, <1>3, ConcatEmptySeq DEF Front, RemoveAt

-----------------------------------------------------------------------------
(***************************************************************************)
(* Tabs: the first attempt of a session gives it its number, and every     *)
(* attempt of a session goes to its host.                                  *)
(***************************************************************************)
Used(a) == phase[a] # "unused"
Installed(a) == phase[a] \in {"live", "gone"}

Numbered ==
  \A a \in Attempt :
    IF Used(a) THEN /\ session[a] \in Attempt /\ Used(session[a]) /\ target[a] \in Host
                    /\ session[session[a]] = session[a] /\ target[session[a]] = target[a]
    ELSE session[a] = 0

ActiveTab ==
  /\ active # 0 => Used(active) /\ session[active] = active /\ target[active] = creds
  /\ slot # 0 => Installed(slot) /\ session[slot] = active /\ target[slot] = creds

ParkedTabs ==
  \A p \in Range(parked) : /\ Installed(p.conn) /\ session[p.conn] = p.id /\ target[p.conn] = p.creds
                           /\ p.id # active

(***************************************************************************)
(* Of every session at most one attempt may still be installed, and none   *)
(* while a tab holds a connection of that session; the sessions of         *)
(* displaced connections are over.                                         *)
(***************************************************************************)
Open(a) == phase[a] \in Pending /\ ~settled[a]
ParkedIds == {p.id : p \in Range(parked)}

OpenAlone ==
  \A a \in Attempt : Open(a) =>
    /\ session[a] \notin ParkedIds /\ (slot # 0 => session[a] # active)
    /\ \A b \in Attempt : Open(b) /\ session[b] = session[a] => a = b

DisplacedAlone ==
  \A d \in displaced :
    /\ Installed(d)
    /\ phase[d] = "live" => /\ session[d] \notin ParkedIds /\ session[d] # active
                            /\ \A a \in Attempt : Open(a) => session[a] # session[d]

Held == {slot} \cup {p.conn : p \in Range(parked)} \cup displaced
NoneLost == \A a \in Attempt : phase[a] = "live" => a \in Held

TabInv == Numbered /\ ActiveTab /\ ParkedTabs /\ OpenAlone /\ DisplacedAlone /\ NoneLost

LEMMA TypeFacts ==
  TypeOK <=>
    /\ phase \in [Attempt -> Pending \cup {"unused", "live", "gone"}]
    /\ target \in [Attempt -> Host \cup {NoHost}] /\ session \in [Attempt -> 0..MaxAttempts]
    /\ retry \in [Attempt -> BOOLEAN] /\ settled \in [Attempt -> BOOLEAN]
    /\ key \in [Attempt -> Key \cup {NoKey}]
    /\ active \in 0..MaxAttempts /\ slot \in 0..MaxAttempts
    /\ hostKeyPrompt \in 0..MaxAttempts /\ hostKeyResolver \in 0..MaxAttempts
    /\ creds \in Host \cup {NoHost} /\ pendingHost \in Host \cup {NoHost}
    /\ parked \in Seq(Parked) /\ IdsOnce(parked)
    /\ sessionOrder \in Seq(Attempt) /\ IsInjective(sessionOrder)
    /\ reconnectAttempts \in 0..MAX_AUTO_RECONNECT_ATTEMPTS
    /\ known \in [Ssh -> Key \cup {NoKey}] /\ remoteConnecting \in BOOLEAN
    /\ rendered \in 0..MaxAttempts
    /\ accepted \subseteq Ssh \X Key /\ slipped \subseteq Ssh \X Key /\ displaced \subseteq Attempt
BY DEF TypeOK, IdsOnce

LEMMA Numbers ==
  /\ Attempt \subseteq 0..MaxAttempts /\ 0 \in 0..MaxAttempts /\ 0 \notin Attempt
  /\ \A n \in 0..MaxAttempts : n # 0 => n \in Attempt
  /\ 0 \in 0..MAX_AUTO_RECONNECT_ATTEMPTS
BY SessionsAssumption DEF Attempt

\* What is parked of the active session.
ActiveRecord == [id |-> active, conn |-> slot, creds |-> creds, dropped |-> FALSE]

LEMMA Parks ==
  ASSUME TypeOK, Numbered, ActiveTab, ParkedTabs,
         NEW s \in Seq(Parked), IdsOnce(s), Range(s) \subseteq Range(parked)
  PROVE  /\ s \o Snapshot \in Seq(Parked) /\ IdsOnce(s \o Snapshot)
         /\ Range(s \o Snapshot) = Range(s) \cup (IF slot # 0 THEN {ActiveRecord} ELSE {})
         /\ slot # 0 => active \in Attempt /\ slot \in Attempt /\ ActiveRecord \in Parked
<1>1. CASE slot # 0
  <2>1. slot \in Attempt /\ active \in Attempt /\ creds \in Host /\ active # 0
    BY <1>1, TypeFacts, Numbers DEF Numbered, ActiveTab, Installed, Used
  <2>2. Snapshot = <<ActiveRecord>> /\ ActiveRecord \in Parked
    BY <1>1, <2>1 DEF Snapshot, ActiveRecord, Parked
  <2>3. \A p \in Range(s) : p.id # ActiveRecord.id
    BY DEF ParkedTabs, ActiveRecord
  <2>4. QED  BY <1>1, <2>1, <2>2, <2>3, PutAway
<1>2. CASE slot = 0
  <2>1. Snapshot = << >>
    BY <1>2 DEF Snapshot
  <2>2. s \o << >> = s
    BY ConcatEmptySeq
  <2>3. QED  BY <1>2, <2>1, <2>2
<1>3. QED  BY <1>1, <1>2

(***************************************************************************)
(* Steps that end attempts or connections, and leave the tabs alone.       *)
(***************************************************************************)
Alike(p, q) == p.id = q.id /\ p.conn = q.conn /\ p.creds = q.creds

LEMMA EndsKeepTabs ==
  ASSUME TabInv, UNCHANGED <<target, session, active, creds, displaced>>,
         slot' = slot \/ (slot' = 0 /\ \A a \in Attempt : a = slot => phase'[a] # "live"),
         \A q \in Range(parked') : \E p \in Range(parked) : Alike(p, q),
         \A p \in Range(parked) : phase'[p.conn] = "live" => \E q \in Range(parked') : Alike(p, q),
         \A a \in Attempt : phase'[a] = "unused" <=> phase[a] = "unused",
         \A a \in Attempt : phase'[a] = "live" => phase[a] = "live",
         \A a \in Attempt : Installed(a) => Installed(a)',
         \A a \in Attempt : Open(a)' => Open(a),
         active \in Attempt \cup {0}, slot \in Attempt \cup {0}, displaced \subseteq Attempt,
         \A p \in Range(parked) : p.conn \in Attempt
  PROVE  TabInv'
<1>1. Numbered'
  BY DEF TabInv, Numbered, Used
<1>2. ActiveTab'
  BY DEF TabInv, ActiveTab, Used, Installed
<1>3. ParkedTabs'
  BY DEF TabInv, ParkedTabs, Used, Alike
<1>4. ParkedIds' \subseteq ParkedIds
  BY DEF ParkedIds, Alike
<1>5. OpenAlone'
  BY <1>4 DEF TabInv, OpenAlone
<1>6. DisplacedAlone'
  BY <1>4 DEF TabInv, DisplacedAlone
<1>7. NoneLost'
  BY DEF TabInv, NoneLost, Held, Alike
<1>8. QED  BY <1>1, <1>2, <1>3, <1>5, <1>6, <1>7 DEF TabInv

\* The places of tabs are attempts.
LEMMA Places ==
  ASSUME TypeOK
  PROVE  /\ active \in Attempt \cup {0} /\ slot \in Attempt \cup {0} /\ displaced \subseteq Attempt
         /\ \A p \in Range(parked) : p \in Parked /\ p.id \in Attempt /\ p.conn \in Attempt
<1>1. active \in Attempt \cup {0} /\ slot \in Attempt \cup {0} /\ displaced \subseteq Attempt
  BY TypeFacts, Numbers
<1>2. \A p \in Range(parked) : p \in Parked
  BY TypeFacts DEF Range
<1>3. \A p \in Parked : p.id \in Attempt /\ p.conn \in Attempt
  BY DEF Parked
<1>4. QED  BY <1>1, <1>2, <1>3

LEMMA OnlyEnds ==
  ASSUME TypeOK, IInv, TabInv,
         \/ UNCHANGED vars \/ Render
         \/ \E accept \in BOOLEAN : ResolveHostKey(accept)
         \/ \E a \in Attempt : \/ TimesOut(a) \/ Fails(a) \/ SucceedsLate(a)
                               \/ \E k \in Key : ShowKey(a, k)
  PROVE  TabInv'
<1>1. UNCHANGED <<target, session, active, slot, creds, parked, displaced>>
  BY DEF vars, attempts, tabs, Render, ResolveHostKey, TimesOut, Fails, SucceedsLate, ShowKey
<1>2. phase \in [Attempt -> Pending \cup {"unused", "live", "gone"}]
      /\ settled \in [Attempt -> BOOLEAN]
  BY TypeFacts
<1>3. /\ \A b \in Attempt : phase'[b] = "unused" <=> phase[b] = "unused"
      /\ \A b \in Attempt : phase'[b] = "live" => phase[b] = "live"
      /\ \A b \in Attempt : (Open(b)' => Open(b)) /\ (Installed(b) => Installed(b)')
  <2>1. CASE UNCHANGED vars \/ Render
    BY <2>1 DEF Render, vars, attempts, Open, Installed
  <2>2. ASSUME NEW accept \in BOOLEAN, ResolveHostKey(accept)
        PROVE  /\ \A b \in Attempt : phase'[b] = "unused" <=> phase[b] = "unused"
               /\ \A b \in Attempt : phase'[b] = "live" => phase[b] = "live"
               /\ \A b \in Attempt : (Open(b)' => Open(b)) /\ (Installed(b) => Installed(b)')
    <3>1. /\ hostKeyResolver # 0 => phase[hostKeyResolver] = "asking" /\ hostKeyResolver \in Attempt
          /\ settled' = settled
          /\ phase' = IF hostKeyResolver = 0 THEN phase
                      ELSE [phase EXCEPT ![hostKeyResolver] = IF accept THEN "opening" ELSE "rejected"]
      BY <2>2 DEF ResolveHostKey, IInv, OneQuestion
    <3>2. \A b \in Attempt : \/ phase'[b] = phase[b]
                             \/ phase[b] = "asking" /\ phase'[b] \in {"opening", "rejected"}
      BY <1>2, <3>1
    <3>3. QED  BY <3>1, <3>2 DEF Open, Installed, Pending
  <2>3. ASSUME NEW a \in Attempt, TimesOut(a) \/ Fails(a) \/ SucceedsLate(a)
        PROVE  /\ \A b \in Attempt : phase'[b] = "unused" <=> phase[b] = "unused"
               /\ \A b \in Attempt : phase'[b] = "live" => phase[b] = "live"
               /\ \A b \in Attempt : (Open(b)' => Open(b)) /\ (Installed(b) => Installed(b)')
    <3>1. /\ phase[a] \in Pending
          /\ phase' = phase \/ phase' = [phase EXCEPT ![a] = "gone"]
          /\ settled' = settled \/ settled' = [settled EXCEPT ![a] = TRUE]
      BY <2>3 DEF TimesOut, Fails, SucceedsLate, Opens, LateIsClosed, Pending
    <3>2. \A b \in Attempt : phase'[b] = phase[b] \/ (b = a /\ phase'[b] = "gone")
      BY <1>2, <3>1
    <3>3. \A b \in Attempt : ~settled'[b] => ~settled[b]
      BY <1>2, <3>1
    <3>4. QED  BY <3>1, <3>2, <3>3 DEF Open, Installed, Pending
  <2>4. ASSUME NEW a \in Attempt, NEW k \in Key, ShowKey(a, k)
        PROVE  /\ \A b \in Attempt : phase'[b] = "unused" <=> phase[b] = "unused"
               /\ \A b \in Attempt : phase'[b] = "live" => phase[b] = "live"
               /\ \A b \in Attempt : (Open(b)' => Open(b)) /\ (Installed(b) => Installed(b)')
    <3>1. /\ phase[a] = "connecting" /\ settled' = settled
          /\ \E x \in {"opening", "asking"} : phase' = [phase EXCEPT ![a] = x]
      BY <2>4 DEF ShowKey
    <3>2. \A b \in Attempt : phase'[b] = phase[b] \/ (b = a /\ phase'[b] \in {"opening", "asking"})
      BY <1>2, <3>1
    <3>3. QED  BY <3>1, <3>2 DEF Open, Installed, Pending
  <2>5. QED  BY <2>1, <2>2, <2>3, <2>4
<1>4. \A p \in Range(parked) : Alike(p, p)
  BY DEF Alike
<1>5. QED  BY <1>1, <1>3, <1>4, Places, EndsKeepTabs

(***************************************************************************)
(* A connection is installed.                                              *)
(***************************************************************************)
LEMMA Installs ==
  ASSUME TypeOK, TabInv, NEW a \in Attempt, Succeeds(a)
  PROVE  TabInv'
<1>1. /\ phase \in [Attempt -> Pending \cup {"unused", "live", "gone"}]
      /\ settled \in [Attempt -> BOOLEAN] /\ session \in [Attempt -> 0..MaxAttempts]
  BY TypeFacts
<1>2. /\ Open(a) /\ Used(a) /\ ~Installed(a)
      /\ UNCHANGED <<target, session>> /\ active' = session[a] /\ slot' = a /\ creds' = target[a]
      /\ displaced' = displaced \cup (IF retry[a] /\ slot # 0 THEN {slot} ELSE {})
  BY DEF Succeeds, Opens, Open, Used, Installed, Pending
<1>3. \A b \in Attempt : phase'[b] = IF b = a THEN "live" ELSE phase[b]
  BY <1>1 DEF Succeeds
<1>4. \A b \in Attempt : Open(b)' => Open(b) /\ b # a
  BY <1>1, <1>3 DEF Succeeds, Open, Pending
<1>5. \A b \in Attempt : (Used(b) <=> Used(b)') /\ (Installed(b) => Installed(b)')
  BY <1>2, <1>3 DEF Used, Installed
<1> DEFINE new == IF ~retry[a] /\ slot # 0 THEN {ActiveRecord} ELSE {}
<1>6. Range(parked') = Range(parked) \cup new
  <2>1. parked \in Seq(Parked) /\ IdsOnce(parked)
    BY TypeFacts
  <2>2. Range(parked \o Snapshot) = Range(parked) \cup (IF slot # 0 THEN {ActiveRecord} ELSE {})
    BY <2>1, Parks DEF TabInv
  <2>3. parked' = IF retry[a] THEN parked ELSE parked \o Snapshot
    BY DEF Succeeds
  <2>4. QED  BY <2>2, <2>3
<1>7. \A p \in new : /\ slot # 0 /\ ~retry[a] /\ p.id = active /\ p.conn = slot /\ p.creds = creds
  BY DEF ActiveRecord
<1>8. slot # 0 /\ ~retry[a] => ActiveRecord \in new
  OBVIOUS
<1> HIDE DEF new
<1>9. ParkedIds \subseteq ParkedIds' /\ \A i \in ParkedIds' : i \in ParkedIds \/ (slot # 0 /\ i = active)
  BY <1>6, <1>7 DEF ParkedIds
<1>10. session[a] \notin ParkedIds /\ (slot # 0 => session[a] # active)
  BY <1>2 DEF TabInv, OpenAlone
<1>11. slot \in Attempt \cup {0} /\ \A p \in Range(parked) : p.conn \in Attempt
  BY Places
<1>12. Numbered'
  BY <1>2, <1>5 DEF TabInv, Numbered
<1>13. ActiveTab'
  BY <1>2, <1>3, <1>5 DEF TabInv, Numbered, ActiveTab, Installed
<1>14. ParkedTabs'
  <2>1. ASSUME NEW p \in Range(parked)
        PROVE  /\ Installed(p.conn)' /\ session'[p.conn] = p.id /\ target'[p.conn] = p.creds
               /\ p.id # active'
    BY <1>2, <1>5, <1>10, <1>11 DEF TabInv, ParkedTabs, ParkedIds
  <2>2. ASSUME NEW p \in new
        PROVE  /\ Installed(p.conn)' /\ session'[p.conn] = p.id /\ target'[p.conn] = p.creds
               /\ p.id # active'
    BY <1>2, <1>5, <1>7, <1>10, <1>11 DEF TabInv, ActiveTab
  <2>3. QED  BY <1>6, <2>1, <2>2 DEF ParkedTabs
<1>15. OpenAlone'
  BY <1>2, <1>4, <1>9 DEF TabInv, OpenAlone
<1>16. DisplacedAlone'
  <2>1. ASSUME NEW d \in displaced
        PROVE  /\ Installed(d)'
               /\ phase'[d] = "live" => /\ session'[d] \notin ParkedIds' /\ session'[d] # active'
                                        /\ \A b \in Attempt : Open(b)' => session'[b] # session'[d]
    BY <1>2, <1>3, <1>4, <1>5, <1>9, Places DEF TabInv, DisplacedAlone
  <2>2. ASSUME NEW d, d = slot, retry[a], slot # 0
        PROVE  /\ phase'[d] \in {"live", "gone"}
               /\ session'[d] \notin ParkedIds' /\ session'[d] # active'
               /\ \A b \in Attempt : Open(b)' => session'[b] # session'[d]
    <3>1. new = {}
      BY <2>2, <1>7
    <3>2. session[d] = active /\ active \notin ParkedIds' /\ Installed(d) /\ d \in Attempt
      BY <2>2, <1>6, <1>11, <3>1 DEF TabInv, ActiveTab, ParkedTabs, ParkedIds
    <3>3. \A b \in Attempt : Open(b) => session[b] # active
      BY <2>2 DEF TabInv, OpenAlone
    <3>4. phase'[d] \in {"live", "gone"}
      BY <1>3, <3>2 DEF Installed
    <3>5. QED  BY <1>2, <1>4, <1>10, <2>2, <3>2, <3>3, <3>4
  <2>3. QED  BY <1>2, <2>1, <2>2 DEF DisplacedAlone, Installed
<1>17. NoneLost'
  <2>1. ASSUME NEW b \in Attempt, phase[b] = "live"  PROVE b \in Held'
    <3>1. b \in Held
      BY <2>1 DEF TabInv, NoneLost
    <3>2. CASE b = slot
      <4>1. slot # 0
        BY <3>2, Numbers
      <4>2. CASE retry[a]
        BY <1>2, <3>2, <4>1, <4>2 DEF Held
      <4>3. CASE ~retry[a]
        BY <1>6, <1>7, <1>8, <3>2, <4>1, <4>3 DEF Held
      <4>4. QED  BY <4>2, <4>3
    <3>3. CASE b # slot
      BY <1>2, <1>6, <3>1, <3>3 DEF Held
    <3>4. QED  BY <3>2, <3>3
  <2>2. QED  BY <1>2, <1>3, <2>1 DEF NoneLost, Held
<1>18. QED  BY <1>12, <1>13, <1>14, <1>15, <1>16, <1>17 DEF TabInv

(***************************************************************************)
(* A parked tab becomes the active one; the tab before is parked, or its   *)
(* connection is closed.                                                   *)
(***************************************************************************)
LEMMA Activates ==
  ASSUME TypeOK, TabInv, NEW p \in Range(parked), Activate(p),
         UNCHANGED <<target, session, displaced>>,
         NEW extra, extra \subseteq (IF slot # 0 THEN {ActiveRecord} ELSE {}),
         Range(parked') = (Range(parked) \ {p}) \cup extra,
         \A a \in Attempt : phase'[a] = "unused" <=> phase[a] = "unused",
         \A a \in Attempt : phase'[a] = "live" => phase[a] = "live",
         \A a \in Attempt : (Open(a)' => Open(a)) /\ (Installed(a) => Installed(a)'),
         slot # 0 /\ extra = {} => phase'[slot] # "live"
  PROVE  TabInv'
<1>1. /\ p.id \in Attempt /\ p.conn \in Attempt /\ slot \in Attempt \cup {0}
      /\ displaced \subseteq Attempt
      /\ \A q \in Range(parked) : q.conn \in Attempt
  BY Places
<1>2. \A q \in Range(parked) : q.id = p.id => q = p
  BY TypeFacts, IdsOnceByRange
<1>3. active' = p.id /\ slot' = p.conn /\ creds' = p.creds
  BY DEF Activate
<1>4. /\ Installed(p.conn) /\ session[p.conn] = p.id /\ target[p.conn] = p.creds /\ p.id # active
      /\ p.id \in ParkedIds
  BY DEF TabInv, ParkedTabs, ParkedIds
<1>5. \A q \in extra : slot # 0 /\ q.id = active /\ q.conn = slot /\ q.creds = creds
  BY DEF ActiveRecord
<1>6. \A i \in ParkedIds' : (i \in ParkedIds /\ i # p.id) \/ (slot # 0 /\ i = active)
  BY <1>2, <1>5 DEF ParkedIds
<1>7. Numbered'
  BY DEF TabInv, Numbered, Used
<1>8. ActiveTab'
  <2>1. /\ Used(p.conn) /\ session[p.id] = p.id /\ target[p.id] = p.creds /\ Used(p.id)
    BY <1>1, <1>4 DEF TabInv, Numbered, Used, Installed
  <2>2. phase'[p.id] # "unused" /\ phase'[p.conn] \in {"live", "gone"}
    BY <1>1, <1>4, <2>1 DEF Used, Installed
  <2>3. QED  BY <1>3, <1>4, <2>1, <2>2 DEF ActiveTab, Used, Installed
<1>9. ParkedTabs'
  <2>1. ASSUME NEW q \in Range(parked) \ {p}
        PROVE  /\ Installed(q.conn)' /\ session'[q.conn] = q.id /\ target'[q.conn] = q.creds
               /\ q.id # active'
    BY <1>1, <1>2, <1>3 DEF TabInv, ParkedTabs
  <2>2. ASSUME NEW q \in extra
        PROVE  /\ Installed(q.conn)' /\ session'[q.conn] = q.id /\ target'[q.conn] = q.creds
               /\ q.id # active'
    BY <1>1, <1>3, <1>4, <1>5 DEF TabInv, ActiveTab
  <2>3. QED  BY <2>1, <2>2 DEF ParkedTabs
<1>10. OpenAlone'
  BY <1>3, <1>4, <1>6 DEF TabInv, OpenAlone
<1>11. DisplacedAlone'
  BY <1>1, <1>3, <1>4, <1>6 DEF TabInv, DisplacedAlone
<1>12. NoneLost'
  <2>1. ASSUME NEW b \in Attempt, phase'[b] = "live"  PROVE b \in Held'
    <3>1. b \in Held
      BY <2>1 DEF TabInv, NoneLost
    <3>2. CASE b = slot
      <4>1. slot # 0 /\ extra # {}
        BY <2>1, <3>2, Numbers
      <4>2. QED  BY <1>5, <3>2, <4>1 DEF Held
    <3>3. CASE b # slot
      BY <1>3, <3>1, <3>3 DEF Held
    <3>4. QED  BY <3>2, <3>3
  <2>2. QED  BY <2>1 DEF NoneLost
<1>13. QED  BY <1>7, <1>8, <1>9, <1>10, <1>11, <1>12 DEF TabInv

LEMMA Switches ==
  ASSUME TypeOK, TabInv, NEW id \in Attempt, SwitchSession(id)
  PROVE  TabInv' /\ parked' \in Seq(Parked) /\ IdsOnce(parked')
<1>1. parked \in Seq(Parked) /\ IdsOnce(parked)
  BY TypeFacts
<1>2. PICK j \in DOMAIN parked : parked[j].id = id /\ Activate(parked[j])
  BY DEF SwitchSession
<1>3. parked[j] \in Range(parked)
  BY DEF Range
<1>4. PICK k \in 1..Len(parked) : parked[k].id = id /\ Without(parked, id) = RemoveAt(parked, k)
  BY <1>1, <1>2, <1>3, WithoutIs
<1>5. parked[k] = parked[j]
  BY <1>1, <1>2, <1>4 DEF IdsOnce
<1> DEFINE rest == RemoveAt(parked, k)
           extra == IF slot # 0 THEN {ActiveRecord} ELSE {}
<1>6. rest \in Seq(Parked) /\ IdsOnce(rest) /\ Range(rest) = Range(parked) \ {parked[j]}
  BY <1>1, <1>5, TakenOut
<1>7. parked' = rest \o Snapshot
  BY <1>4 DEF SwitchSession
<1> HIDE DEF rest
<1>8. parked' \in Seq(Parked) /\ IdsOnce(parked') /\ Range(parked') = Range(rest) \cup extra
  BY <1>6, <1>7, Parks DEF TabInv
<1>9. UNCHANGED <<phase, target, session, settled, displaced>>
  BY DEF SwitchSession, attempts
<1>10. slot # 0 => extra # {}
  OBVIOUS
<1>11. \A a \in Attempt : (Open(a)' => Open(a)) /\ (Installed(a) => Installed(a)')
  BY <1>9 DEF Open, Installed
<1> HIDE DEF extra
<1>12. extra \subseteq (IF slot # 0 THEN {ActiveRecord} ELSE {})
  BY DEF extra
<1>13. TabInv'
  BY <1>2, <1>3, <1>6, <1>8, <1>9, <1>10, <1>11, <1>12, Activates
<1>14. QED  BY <1>8, <1>13

LEMMA Closes ==
  ASSUME TypeOK, TabInv, NEW id \in Attempt, CloseSession(id)
  PROVE  TabInv' /\ parked' \in Seq(Parked) /\ IdsOnce(parked')
<1>1. parked \in Seq(Parked) /\ IdsOnce(parked)
  BY TypeFacts
<1> DEFINE conn == IF id = active THEN {slot}
                   ELSE {parked[k].conn : k \in {i \in DOMAIN parked : parked[i].id = id}}
<1>2. /\ phase' = [a \in Attempt |-> IF a \in conn /\ phase[a] = "live" THEN "gone" ELSE phase[a]]
      /\ UNCHANGED <<target, session, settled, displaced>>
  BY DEF CloseSession
<1>3. /\ \A a \in Attempt : a \in conn => phase'[a] # "live"
      /\ \A a \in Attempt : phase'[a] = "unused" <=> phase[a] = "unused"
      /\ \A a \in Attempt : phase'[a] = "live" => phase[a] = "live"
      /\ \A a \in Attempt : Open(a)' => Open(a)
      /\ \A a \in Attempt : Installed(a) => Installed(a)'
  BY <1>2 DEF Open, Installed, Pending
<1>4. CASE id # active /\ parked' = Without(parked, id) /\ UNCHANGED <<active, slot, creds>>
  <2>1. CASE (\A p \in Range(parked) : p.id # id) /\ Without(parked, id) = parked
    <3>1. parked' = parked
      BY <1>4, <2>1
    <3>2. \A p \in Range(parked) : Alike(p, p)
      BY DEF Alike
    <3>3. QED  BY <1>1, <1>2, <1>3, <1>4, <3>1, <3>2, Places, EndsKeepTabs
  <2>2. ASSUME NEW k \in 1..Len(parked), parked[k].id = id, Without(parked, id) = RemoveAt(parked, k)
        PROVE  TabInv' /\ parked' \in Seq(Parked) /\ IdsOnce(parked')
    <3>1. /\ parked' \in Seq(Parked) /\ IdsOnce(parked')
          /\ Range(parked') = Range(parked) \ {parked[k]} /\ parked[k] \in Range(parked)
      BY <1>1, <1>4, <2>2, TakenOut
    <3>2. parked[k].conn \in conn /\ parked[k].conn \in Attempt
      BY <1>1, <1>4, <2>2, <3>1, Places
    <3>3. phase'[parked[k].conn] # "live"
      BY <1>3, <3>2
    <3>4. \A p \in Range(parked) : Alike(p, p)
      BY DEF Alike
    <3>5. TabInv'
      BY <1>2, <1>3, <1>4, <3>1, <3>3, <3>4, Places, EndsKeepTabs
    <3>6. QED  BY <3>1, <3>5
  <2>3. QED  BY <1>1, <2>1, <2>2, WithoutIs
<1>5. CASE id = active /\ parked # << >> /\ Activate(Last(parked)) /\ parked' = Front(parked)
  <2>1. Len(parked) \in 1..Len(parked) /\ parked' = RemoveAt(parked, Len(parked))
    BY <1>1, <1>5, FrontIs
  <2>2. /\ parked' \in Seq(Parked) /\ IdsOnce(parked')
        /\ Range(parked') = Range(parked) \ {Last(parked)} /\ Last(parked) \in Range(parked)
    BY <1>1, <2>1, TakenOut DEF Last
  <2>3. Range(parked') = (Range(parked) \ {Last(parked)}) \cup {}
    BY <2>2
  <2>4. slot # 0 => phase'[slot] # "live"
    BY <1>3, <1>5, Places
  <2>5. \A a \in Attempt : (Open(a)' => Open(a)) /\ (Installed(a) => Installed(a)')
    BY <1>3
  <2>6. TabInv'
    BY <1>2, <1>3, <1>5, <2>2, <2>3, <2>4, <2>5, Activates
  <2>7. QED  BY <2>2, <2>6
<1>6. CASE /\ id = active /\ parked = << >> /\ active' = 0 /\ slot' = 0 /\ creds' = NoHost
           /\ parked' = parked
  <2>1. Range(parked) = {} /\ Range(parked') = {}
    BY <1>6 DEF Range
  <2>2. Numbered'
    BY <1>2, <1>3 DEF TabInv, Numbered, Used
  <2>3. ActiveTab' /\ ParkedTabs'
    BY <1>6, <2>1 DEF ActiveTab, ParkedTabs
  <2>4. ParkedIds' = {}
    BY <2>1 DEF ParkedIds
  <2>5. OpenAlone'
    BY <1>2, <1>3, <1>6, <2>4 DEF TabInv, OpenAlone
  <2>6. DisplacedAlone'
    <3>1. \A d \in displaced : d \in Attempt /\ session[d] # 0
      BY Places, Numbers DEF TabInv, DisplacedAlone, Numbered, Used, Installed
    <3>2. QED  BY <1>2, <1>3, <1>6, <2>4, <3>1 DEF TabInv, DisplacedAlone
  <2>7. NoneLost'
    BY <1>2, <1>3, <1>6, <2>1 DEF TabInv, NoneLost, Held
  <2>8. QED  BY <1>1, <1>6, <2>2, <2>3, <2>5, <2>6, <2>7 DEF TabInv
<1>7. QED  BY <1>4, <1>5, <1>6 DEF CloseSession

(***************************************************************************)
(* An attempt begins.                                                      *)
(***************************************************************************)
LEMMA Begins ==
  ASSUME TypeOK, TabInv, NEW before, NEW host \in Host, NEW id \in 0..MaxAttempts,
         PerformConnect(before, host, id),
         before \in [Attempt -> Pending \cup {"unused", "live", "gone"}],
         \A a \in Attempt : before[a] = phase[a] \/ (before[a] = "gone" /\ phase[a] = "live"),
         id # 0 => /\ Used(id) /\ session[id] = id /\ target[id] = host
                   /\ id \notin ParkedIds /\ slot' = 0
                   /\ \A a \in Attempt : Open(a) => session[a] # id
                   /\ \A d \in displaced : phase[d] = "live" => session[d] # id,
         UNCHANGED <<active, creds, parked, displaced>>,
         slot' = slot \/ (slot' = 0 /\ \A a \in Attempt : a = slot => before[a] # "live")
  PROVE  TabInv' /\ UNCHANGED <<settled, key>> /\ remoteConnecting' = TRUE
         /\ phase' \in [Attempt -> Pending \cup {"unused", "live", "gone"}]
         /\ target' \in [Attempt -> Host \cup {NoHost}] /\ session' \in [Attempt -> 0..MaxAttempts]
         /\ retry' \in [Attempt -> BOOLEAN]
<1>1. PICK n \in Attempt :
        /\ phase[n] = "unused" /\ phase' = [before EXCEPT ![n] = "connecting"]
        /\ target' = [target EXCEPT ![n] = host]
        /\ session' = [session EXCEPT ![n] = IF id = 0 THEN n ELSE id]
        /\ retry' = [retry EXCEPT ![n] = id # 0]
        /\ remoteConnecting' = TRUE /\ UNCHANGED <<settled, key>>
  BY DEF PerformConnect
<1> DEFINE s == IF id = 0 THEN n ELSE id
<1>2. s \in 0..MaxAttempts /\ s \in Attempt
  BY Numbers
<1>3. /\ phase' \in [Attempt -> Pending \cup {"unused", "live", "gone"}]
      /\ target' \in [Attempt -> Host \cup {NoHost}] /\ session' \in [Attempt -> 0..MaxAttempts]
      /\ retry' \in [Attempt -> BOOLEAN]
  BY <1>1, <1>2, TypeFacts DEF Pending
<1>4. /\ phase'[n] = "connecting" /\ target'[n] = host /\ session'[n] = s
      /\ \A a \in Attempt : a # n =>
           /\ target'[a] = target[a] /\ session'[a] = session[a]
           /\ phase'[a] = phase[a] \/ (phase'[a] = "gone" /\ phase[a] = "live")
           /\ phase'[a] = before[a]
  BY <1>1, TypeFacts
<1>5. id # 0 => s = id /\ s # n
  BY <1>1 DEF Used
<1>6. id = 0 => s = n
  OBVIOUS
<1> HIDE DEF s
<1>7. session[n] = 0 /\ ~Used(n) /\ ~Installed(n)
  BY <1>1 DEF TabInv, Numbered, Used, Installed
<1>8. \A a \in Attempt : session[a] # n
  BY <1>1, <1>7, Numbers DEF TabInv, Numbered, Used
<1>9. \A a \in Attempt : a # n => /\ Used(a)' <=> Used(a)
                                  /\ Installed(a) => Installed(a)'
                                  /\ Open(a)' => Open(a)
  BY <1>1, <1>4 DEF Used, Installed, Open, Pending
<1>10. Numbered'
  <2>1. ASSUME NEW a \in Attempt, a # n, Used(a)
        PROVE  /\ session'[a] \in Attempt /\ Used(session[a])' /\ target'[a] \in Host
               /\ session'[session'[a]] = session'[a] /\ target'[session'[a]] = target'[a]
    <3>1. /\ session[a] \in Attempt /\ session[a] # n /\ Used(session[a]) /\ target[a] \in Host
          /\ session[session[a]] = session[a] /\ target[session[a]] = target[a]
      BY <1>8, <2>1 DEF TabInv, Numbered
    <3>2. phase'[session[a]] # "unused"
      BY <1>9, <3>1 DEF Used
    <3>3. QED  BY <1>4, <2>1, <3>1, <3>2 DEF Used
  <2>2. ASSUME NEW a \in Attempt, a # n, ~Used(a)
        PROVE  session'[a] = 0 /\ phase'[a] = "unused"
    BY <1>4, <2>2 DEF TabInv, Numbered, Used
  <2>3. /\ session'[n] \in Attempt /\ target'[n] \in Host /\ phase'[n] # "unused"
        /\ phase'[session'[n]] # "unused"
        /\ session'[session'[n]] = session'[n] /\ target'[session'[n]] = target'[n]
    <3>1. CASE id = 0
      BY <1>2, <1>4, <1>6, <3>1
    <3>2. CASE id # 0
      <4>1. /\ s \in Attempt /\ s # n /\ s = id /\ Used(s) /\ session[s] = s /\ target[s] = host
        BY <1>2, <1>5, <3>2
      <4>2. phase'[s] # "unused"
        BY <1>9, <4>1 DEF Used
      <4>3. QED  BY <1>4, <4>1, <4>2
    <3>3. QED  BY <3>1, <3>2
  <2>4. \A a \in Attempt : a # n => (Used(a)' <=> Used(a))
    BY <1>9
  <2>5. QED  BY <2>1, <2>2, <2>3, <2>4 DEF Numbered, Used
<1>11. ActiveTab'
  <2>1. active # 0 => active \in Attempt /\ active # n /\ phase'[active] # "unused"
                      /\ session'[active] = active /\ target'[active] = creds
    BY <1>4, <1>7, Places DEF TabInv, ActiveTab, Used
  <2>2. slot # 0 => slot \in Attempt /\ slot # n /\ phase'[slot] \in {"live", "gone"}
                    /\ session'[slot] = active /\ target'[slot] = creds
    BY <1>4, <1>7, Places DEF TabInv, ActiveTab, Installed
  <2>3. QED  BY <2>1, <2>2 DEF ActiveTab, Used, Installed
<1>12. ParkedTabs'
  <2>1. ASSUME NEW p \in Range(parked)
        PROVE  /\ phase'[p.conn] \in {"live", "gone"} /\ session'[p.conn] = p.id
               /\ target'[p.conn] = p.creds /\ p.id # active
    BY <1>4, <1>7, Places DEF TabInv, ParkedTabs, Installed
  <2>2. QED  BY <2>1 DEF ParkedTabs, Installed
<1>13. ParkedIds' = ParkedIds
  BY DEF ParkedIds
<1>14. n \notin ParkedIds /\ n # active
  BY <1>7, <1>8, Places DEF TabInv, ActiveTab, ParkedTabs, ParkedIds, Used
<1>15. OpenAlone'
  <2>1. ASSUME NEW a \in Attempt, a # n, Open(a)'
        PROVE  /\ session'[a] \notin ParkedIds' /\ (slot' # 0 => session'[a] # active')
               /\ \A b \in Attempt : Open(b)' /\ session'[b] = session'[a] => a = b
    <3>1. Open(a) /\ session'[a] = session[a]
      BY <1>4, <1>9, <2>1
    <3>2. session'[n] # session'[a]
      BY <1>4, <1>5, <1>6, <1>8, <3>1
    <3>3. \A b \in Attempt : b # n /\ Open(b)' => Open(b) /\ session'[b] = session[b]
      BY <1>4, <1>9
    <3>4. QED  BY <1>13, <3>1, <3>2, <3>3 DEF TabInv, OpenAlone
  <2>2. /\ session'[n] \notin ParkedIds' /\ (slot' # 0 => session'[n] # active')
        /\ \A b \in Attempt : Open(b)' /\ session'[b] = session'[n] => n = b
    <3>1. s \notin ParkedIds /\ (slot' # 0 => s # active)
      BY <1>5, <1>6, <1>14
    <3>2. \A b \in Attempt : b # n /\ Open(b)' => session'[b] # s
      BY <1>4, <1>5, <1>6, <1>8, <1>9
    <3>3. QED  BY <1>4, <1>13, <3>1, <3>2
  <2>3. QED  BY <2>1, <2>2 DEF OpenAlone
<1>16. DisplacedAlone'
  <2>1. ASSUME NEW d \in displaced
        PROVE  /\ phase'[d] \in {"live", "gone"}
               /\ phase'[d] = "live" => /\ session'[d] \notin ParkedIds' /\ session'[d] # active'
                                        /\ \A a \in Attempt : Open(a)' => session'[a] # session'[d]
    <3>1. d \in Attempt /\ d # n /\ Installed(d)
      BY <1>7, Places DEF TabInv, DisplacedAlone
    <3>2. /\ phase'[d] \in {"live", "gone"} /\ session'[d] = session[d]
          /\ phase'[d] = "live" => phase[d] = "live"
      BY <1>4, <3>1 DEF Installed
    <3>3. phase'[d] = "live" => session[d] # s
      BY <1>5, <1>6, <1>8, <3>1, <3>2
    <3>4. \A a \in Attempt : Open(a)' => a = n \/ (Open(a) /\ session'[a] = session[a])
      BY <1>4, <1>9
    <3>5. QED  BY <1>4, <1>13, <3>2, <3>3, <3>4 DEF TabInv, DisplacedAlone
  <2>2. QED  BY <2>1 DEF DisplacedAlone, Installed
<1>17. NoneLost'
  <2>1. ASSUME NEW b \in Attempt, phase'[b] = "live"  PROVE b \in Held'
    <3>1. b # n /\ phase[b] = "live" /\ before[b] = "live"
      BY <1>4, <2>1
    <3>2. b \in Held
      BY <3>1 DEF TabInv, NoneLost
    <3>3. b = slot => slot' = slot
      BY <3>1
    <3>4. QED  BY <3>2, <3>3 DEF Held
  <2>2. QED  BY <2>1 DEF NoneLost
<1>18. QED  BY <1>1, <1>3, <1>10, <1>11, <1>12, <1>15, <1>16, <1>17 DEF TabInv

LEMMA UserBegins ==
  ASSUME TypeOK, TabInv, ReconnectLast \/ \E h \in Host : Connect(h)
  PROVE  /\ TabInv' /\ UNCHANGED <<settled, key>> /\ remoteConnecting' = TRUE
         /\ phase' \in [Attempt -> Pending \cup {"unused", "live", "gone"}]
         /\ target' \in [Attempt -> Host \cup {NoHost}] /\ session' \in [Attempt -> 0..MaxAttempts]
         /\ retry' \in [Attempt -> BOOLEAN]
         /\ reconnectAttempts' = 0 /\ UNCHANGED <<tabs, prompts, displaced>>
<1>1. /\ phase \in [Attempt -> Pending \cup {"unused", "live", "gone"}]
      /\ creds \in Host \cup {NoHost}
  BY TypeFacts
<1>2. PICK host \in Host : PerformConnect(phase, host, 0)
  BY <1>1 DEF ReconnectLast, Connect
<1>3. reconnectAttempts' = 0 /\ UNCHANGED <<tabs, prompts, displaced>>
  BY DEF ReconnectLast, Connect
<1>4. UNCHANGED <<active, slot, creds, parked, displaced>>
  BY <1>3 DEF tabs
<1>5. QED  BY <1>1, <1>2, <1>3, <1>4, Begins, Numbers

\* The connection that drops in the active session is the one in the slot.
LEMMA Drops ==
  ASSUME TypeOK, TabInv, NEW a \in Attempt, NEW stable \in BOOLEAN, Drop(a, stable)
  PROVE  TabInv' /\ TypeOK'
<1> DEFINE dead == [phase EXCEPT ![a] = "gone"]
           used == IF stable THEN 0 ELSE reconnectAttempts
           marked == [k \in DOMAIN parked |->
                        IF parked[k].id = session[a] THEN [parked[k] EXCEPT !.dropped = TRUE]
                        ELSE parked[k]]
<1>1. /\ phase[a] = "live" /\ UNCHANGED <<sessionOrder, prompts, displaced>>
  BY DEF Drop
<1>2. /\ dead \in [Attempt -> Pending \cup {"unused", "live", "gone"}] /\ dead[a] = "gone"
      /\ \A b \in Attempt : dead[b] = phase[b] \/ (dead[b] = "gone" /\ phase[b] = "live")
  BY <1>1, TypeFacts
<1>3. used \in 0..MAX_AUTO_RECONNECT_ATTEMPTS
  BY TypeFacts, Numbers
<1>4. /\ parked \in Seq(Parked) /\ IdsOnce(parked)
      /\ \A k \in DOMAIN parked : parked[k] \in Parked
  BY TypeFacts
<1>5. \A p \in Parked : LET q == [p EXCEPT !.dropped = TRUE] IN q \in Parked /\ Alike(p, q)
  BY DEF Parked, Alike
<1>6. /\ marked \in Seq(Parked) /\ DOMAIN marked = DOMAIN parked
      /\ \A k \in DOMAIN parked : Alike(parked[k], marked[k])
  <2>1. DOMAIN marked = DOMAIN parked
    OBVIOUS
  <2>2. \A k \in DOMAIN parked : marked[k] \in Parked /\ Alike(parked[k], marked[k])
    BY <1>4, <1>5 DEF Alike
  <2>3. DOMAIN parked = 1..Len(parked) /\ Len(parked) \in Nat
    BY <1>4
  <2>4. marked \in [1..Len(parked) -> Parked]
    BY <2>2, <2>3
  <2>5. QED  BY <2>1, <2>2, <2>3, <2>4
<1>7. CASE /\ session[a] # active /\ phase' = dead /\ parked' = marked
           /\ UNCHANGED <<target, session, retry, settled, key, active, slot, creds,
                          reconnectAttempts, remoteConnecting>>
  <2> HIDE DEF dead, marked
  <2>1. IdsOnce(parked')
    BY <1>4, <1>6, <1>7 DEF IdsOnce, Alike
  <2>2. TypeOK'
    <3>1. phase' \in [Attempt -> Pending \cup {"unused", "live", "gone"}] /\ parked' \in Seq(Parked)
      BY <1>2, <1>6, <1>7
    <3>2. QED  BY <1>1, <1>7, <2>1, <3>1, TypeFacts DEF TypeOK, IdsOnce, prompts, question, consent
  <2>3. /\ \A q \in Range(parked') : \E p \in Range(parked) : Alike(p, q)
        /\ \A p \in Range(parked) : \E q \in Range(parked') : Alike(p, q)
    BY <1>6, <1>7 DEF Range
  <2>4. /\ \A b \in Attempt : phase'[b] = "unused" <=> phase[b] = "unused"
        /\ \A b \in Attempt : phase'[b] = "live" => phase[b] = "live"
        /\ \A b \in Attempt : Installed(b) => Installed(b)'
        /\ \A b \in Attempt : Open(b)' => Open(b)
    BY <1>2, <1>7 DEF Installed, Open, Pending
  <2>5. TabInv'
    BY <1>1, <1>7, <2>3, <2>4, Places, EndsKeepTabs
  <2>6. QED  BY <2>2, <2>5
<1>8. CASE /\ session[a] = active /\ slot' = 0 /\ UNCHANGED <<active, creds, parked>>
           /\ \/ /\ MayRetry(used) /\ reconnectAttempts' = used + 1
                 /\ PerformConnect(dead, creds, active)
              \/ /\ reconnectAttempts' = used /\ phase' = dead
                 /\ UNCHANGED <<target, session, retry, settled, key, remoteConnecting>>
  <2> HIDE DEF dead, used
  <2>1. Installed(a) /\ session[a] \in Attempt /\ active \in Attempt
    BY <1>1, <1>8 DEF TabInv, Numbered, Used, Installed
  <2>2. a = slot /\ slot # 0
    BY <1>1, <1>8, Numbers DEF TabInv, NoneLost, Held, ParkedTabs, DisplacedAlone
  <2>3. /\ Used(active) /\ session[active] = active /\ target[active] = creds /\ creds \in Host
    BY <2>1, Numbers DEF TabInv, ActiveTab, Numbered
  <2>4. CASE MayRetry(used) /\ reconnectAttempts' = used + 1 /\ PerformConnect(dead, creds, active)
    <3>1. /\ active \notin ParkedIds
          /\ \A b \in Attempt : Open(b) => session[b] # active
          /\ \A d \in displaced : phase[d] = "live" => session[d] # active
      BY <2>2 DEF TabInv, ParkedTabs, ParkedIds, OpenAlone, DisplacedAlone
    <3>2. \A b \in Attempt : b = slot => dead[b] # "live"
      BY <1>2, <2>2
    <3>3. /\ TabInv' /\ UNCHANGED <<settled, key>> /\ remoteConnecting' = TRUE
          /\ phase' \in [Attempt -> Pending \cup {"unused", "live", "gone"}]
          /\ target' \in [Attempt -> Host \cup {NoHost}] /\ session' \in [Attempt -> 0..MaxAttempts]
          /\ retry' \in [Attempt -> BOOLEAN]
      BY <1>1, <1>2, <1>8, <2>1, <2>3, <2>4, <3>1, <3>2, Begins, Numbers
    <3>4. reconnectAttempts' \in 0..MAX_AUTO_RECONNECT_ATTEMPTS
      BY <1>3, <2>4, SessionsAssumption DEF MayRetry
    <3>5. TypeOK'
      BY <1>1, <1>8, <3>3, <3>4, TypeFacts, Numbers DEF TypeOK, IdsOnce, prompts, question, consent
    <3>6. QED  BY <3>3, <3>5
  <2>5. CASE /\ reconnectAttempts' = used /\ phase' = dead
             /\ UNCHANGED <<target, session, retry, settled, key, remoteConnecting>>
    <3>1. /\ \A b \in Attempt : phase'[b] = "unused" <=> phase[b] = "unused"
          /\ \A b \in Attempt : phase'[b] = "live" => phase[b] = "live"
          /\ \A b \in Attempt : Installed(b) => Installed(b)'
          /\ \A b \in Attempt : Open(b)' => Open(b)
          /\ phase'[slot] # "live"
      BY <1>2, <2>2, <2>5 DEF Installed, Open, Pending
    <3>2. \A p \in Range(parked) : Alike(p, p)
      BY DEF Alike
    <3>3. TabInv'
      BY <1>1, <1>8, <2>5, <3>1, <3>2, Places, EndsKeepTabs
    <3>4. phase' \in [Attempt -> Pending \cup {"unused", "live", "gone"}]
      BY <1>2, <2>5
    <3>5. TypeOK'
      BY <1>1, <1>3, <1>8, <2>5, <3>4, TypeFacts, Numbers DEF TypeOK, IdsOnce, prompts, question, consent
    <3>6. QED  BY <3>3, <3>5
  <2>6. QED  BY <1>8, <2>4, <2>5
<1>9. QED  BY <1>7, <1>8 DEF Drop

(***************************************************************************)
(* Type correctness.                                                       *)
(***************************************************************************)
LEMMA AnswerTypes ==
  ASSUME TypeOK, IInv, NEW accept \in BOOLEAN, ResolveHostKey(accept)
  PROVE  TypeOK'
<1>1. /\ rendered \in Attempt /\ target[rendered] \in Ssh /\ key[rendered] \in Key /\ pendingHost \in Ssh
      /\ hostKeyResolver # 0 => hostKeyResolver \in Attempt /\ key[hostKeyResolver] \in Key
  BY DEF ResolveHostKey, IInv, OneQuestion
<1>2. phase' \in [Attempt -> Pending \cup {"unused", "live", "gone"}]
  BY <1>1, TypeFacts DEF ResolveHostKey, Pending
<1>3. Remembers \subseteq Key
  BY <1>1 DEF Remembers
<1>4. known' \in [Ssh -> Key \cup {NoKey}]
  <2>1. \/ \E k \in {known[pendingHost]} \cup Remembers : known' = [known EXCEPT ![pendingHost] = k]
        \/ known' = known
    BY DEF ResolveHostKey, consent
  <2>2. QED  BY <1>1, <1>3, <2>1, TypeFacts
<1>5. accepted' \subseteq Ssh \X Key /\ slipped' \subseteq Ssh \X Key
  <2>1. /\ accepted' \in {accepted, accepted \cup {<<target[rendered], key[rendered]>>}}
        /\ slipped' \in {slipped, slipped \cup ({pendingHost} \X Remembers)}
    BY DEF ResolveHostKey, consent
  <2>2. {pendingHost} \X Remembers \subseteq Ssh \X Key
    BY <1>1, <1>3
  <2>3. QED  BY <1>1, <2>1, <2>2, TypeFacts
<1>6. hostKeyPrompt' = 0 /\ hostKeyResolver' = 0 /\ rendered' = 0
      /\ UNCHANGED <<target, session, retry, settled, key, active, slot, creds, parked, sessionOrder,
                     reconnectAttempts, pendingHost, remoteConnecting, displaced>>
  BY DEF ResolveHostKey, tabs
<1>7. QED  BY <1>2, <1>4, <1>5, <1>6, TypeFacts, Numbers DEF TypeOK, IdsOnce

LEMMA QuestionTypes ==
  ASSUME TypeOK, NEW a \in Attempt, NEW k \in Key, ShowKey(a, k)
  PROVE  TypeOK'
<1>1. key' \in [Attempt -> Key \cup {NoKey}]
  BY TypeFacts DEF ShowKey
<1>2. phase' \in [Attempt -> Pending \cup {"unused", "live", "gone"}]
  <2>1. \E x \in {"opening", "asking"} : phase' = [phase EXCEPT ![a] = x]
    BY DEF ShowKey
  <2>2. QED  BY <2>1, TypeFacts DEF Pending
<1>3. /\ hostKeyPrompt' \in 0..MaxAttempts /\ hostKeyResolver' \in 0..MaxAttempts
      /\ pendingHost' \in Host \cup {NoHost}
  <2>1. \/ UNCHANGED question
        \/ hostKeyPrompt' = a /\ hostKeyResolver' = a /\ pendingHost' = target[a]
    BY DEF ShowKey, Asks
  <2>2. target[a] \in Host \cup {NoHost} /\ a \in 0..MaxAttempts
    BY TypeFacts, Numbers
  <2>3. QED  BY <2>1, <2>2, TypeFacts DEF question
<1>4. UNCHANGED <<target, session, retry, settled, active, slot, creds, parked, sessionOrder,
                  reconnectAttempts, rendered, known, accepted, slipped, remoteConnecting, displaced>>
  BY DEF ShowKey, tabs, consent
<1>5. QED  BY <1>1, <1>2, <1>3, <1>4, TypeFacts DEF TypeOK, IdsOnce

LEMMA EndTypes ==
  ASSUME TypeOK, NEW a \in Attempt, TimesOut(a) \/ Fails(a) \/ SucceedsLate(a)
  PROVE  TypeOK'
<1>1. phase' \in [Attempt -> Pending \cup {"unused", "live", "gone"}]
  <2>1. phase' = phase \/ phase' = [phase EXCEPT ![a] = "gone"]
    BY DEF TimesOut, Fails, SucceedsLate, LateIsClosed
  <2>2. QED  BY <2>1, TypeFacts
<1>2. settled' \in [Attempt -> BOOLEAN]
  <2>1. settled' = settled \/ settled' = [settled EXCEPT ![a] = TRUE]
    BY DEF TimesOut, Fails, SucceedsLate
  <2>2. QED  BY <2>1, TypeFacts
<1>3. /\ hostKeyPrompt' \in {hostKeyPrompt, 0} /\ hostKeyResolver' \in {hostKeyResolver, 0}
      /\ UNCHANGED <<pendingHost, rendered, known, accepted, slipped>>
  BY DEF TimesOut, Fails, SucceedsLate, NoQuestion, prompts, question, consent
<1>4. remoteConnecting' \in BOOLEAN
  BY TypeFacts DEF TimesOut, Fails, SucceedsLate
<1>5. UNCHANGED <<target, session, retry, key, active, slot, creds, parked, sessionOrder,
                  reconnectAttempts, displaced>>
  BY DEF TimesOut, Fails, SucceedsLate, tabs
<1>6. QED  BY <1>1, <1>2, <1>3, <1>4, <1>5, TypeFacts, Numbers DEF TypeOK, IdsOnce

LEMMA RenderTypes == ASSUME TypeOK, Render PROVE TypeOK'
<1>1. rendered' \in 0..MaxAttempts
  BY TypeFacts DEF Render
<1>2. UNCHANGED <<phase, target, session, retry, settled, key, active, slot, creds, parked, sessionOrder,
                  reconnectAttempts, hostKeyPrompt, hostKeyResolver, pendingHost, known, accepted, slipped,
                  remoteConnecting, displaced>>
  BY DEF Render, attempts, tabs, question, consent
<1>3. QED  BY <1>1, <1>2, TypeFacts DEF TypeOK, IdsOnce

LEMMA InstallTypes ==
  ASSUME TypeOK, TabInv, NEW a \in Attempt, Succeeds(a)
  PROVE  TypeOK'
<1>1. /\ phase' \in [Attempt -> Pending \cup {"unused", "live", "gone"}]
      /\ settled' \in [Attempt -> BOOLEAN]
  BY TypeFacts DEF Succeeds
<1>2. session[a] \in Attempt /\ target[a] \in Host
  BY DEF Succeeds, Opens, TabInv, Numbered, Used
<1>3. parked' \in Seq(Parked) /\ IdsOnce(parked')
  <2>1. parked \in Seq(Parked) /\ IdsOnce(parked)
    BY TypeFacts
  <2>2. parked \o Snapshot \in Seq(Parked) /\ IdsOnce(parked \o Snapshot)
    BY <2>1, Parks DEF TabInv
  <2>3. QED  BY <2>1, <2>2 DEF Succeeds
<1>4. displaced' \subseteq Attempt
  <2>1. slot # 0 => slot \in Attempt
    BY Places
  <2>2. displaced' = IF retry[a] /\ slot # 0 THEN displaced \cup {slot} ELSE displaced
    BY DEF Succeeds
  <2>3. QED  BY <2>1, <2>2, Places
<1>5. sessionOrder' \in Seq(Attempt) /\ IsInjective(sessionOrder')
  <2>1. sessionOrder \in Seq(Attempt) /\ IsInjective(sessionOrder)
    BY TypeFacts
  <2>2. CASE Contains(sessionOrder, session[a])
    BY <2>1, <2>2 DEF Succeeds
  <2>3. CASE ~Contains(sessionOrder, session[a])
    <3>1. sessionOrder' = sessionOrder \o <<session[a]>>
      BY <1>2, <2>1, <2>3, AppendIsConcat DEF Succeeds
    <3>2. session[a] \notin Range(sessionOrder)
      BY <2>1, <2>3 DEF Contains, Range
    <3>3. QED  BY <1>2, <2>1, <3>1, <3>2, AddedRange
  <2>4. QED  BY <2>2, <2>3
<1>6. /\ active' = session[a] /\ slot' = a /\ creds' = target[a] /\ remoteConnecting' = FALSE
      /\ UNCHANGED <<target, session, retry, key, reconnectAttempts, prompts>>
  BY DEF Succeeds
<1>7. /\ active' \in 0..MaxAttempts /\ slot' \in 0..MaxAttempts /\ creds' \in Host \cup {NoHost}
      /\ remoteConnecting' \in BOOLEAN
  BY <1>2, <1>6, Numbers
<1>8. UNCHANGED <<target, session, retry, key, reconnectAttempts, hostKeyPrompt, hostKeyResolver,
                  pendingHost, rendered, known, accepted, slipped>>
  BY <1>6 DEF prompts, question, consent
<1>9. QED
  BY <1>1, <1>3, <1>4, <1>5, <1>7, <1>8 DEF TypeOK, IdsOnce

LEMMA TabTypes ==
  ASSUME TypeOK, TabInv, NEW id \in Attempt, SwitchSession(id) \/ CloseSession(id)
  PROVE  TypeOK' /\ TabInv'
<1>1. TabInv' /\ parked' \in Seq(Parked) /\ IdsOnce(parked')
  BY Switches, Closes
<1>2. phase' \in [Attempt -> Pending \cup {"unused", "live", "gone"}]
  BY TypeFacts DEF SwitchSession, CloseSession, attempts
<1>3. active' \in 0..MaxAttempts /\ slot' \in 0..MaxAttempts /\ creds' \in Host \cup {NoHost}
  <2>1. \A p \in Range(parked) : p.id \in 0..MaxAttempts /\ p.conn \in 0..MaxAttempts /\ p.creds \in Host
    BY Places, Numbers DEF Parked
  <2>2. \/ UNCHANGED <<active, slot, creds>>
        \/ \E p \in Range(parked) : Activate(p)
        \/ active' = 0 /\ slot' = 0 /\ creds' = NoHost
    <3>1. parked # << >> => Last(parked) \in Range(parked)
      BY FrontIs, TypeFacts DEF Last, Range
    <3>2. QED  BY <3>1 DEF SwitchSession, CloseSession, Range
  <2>3. QED  BY <2>1, <2>2, TypeFacts, Numbers DEF Activate
<1>4. sessionOrder' \in Seq(Attempt) /\ IsInjective(sessionOrder')
  <2>1. sessionOrder \in Seq(Attempt) /\ IsInjective(sessionOrder)
    BY TypeFacts
  <2>2. \/ sessionOrder' = sessionOrder
        \/ \E k \in 1..Len(sessionOrder) : sessionOrder' = RemoveAt(sessionOrder, k)
    BY <2>1, RemoveFirstIs DEF SwitchSession, CloseSession
  <2>3. QED  BY <2>1, <2>2, Removed, RemovedRange
<1>5. reconnectAttempts' \in {reconnectAttempts, 0}
  BY DEF SwitchSession, CloseSession
<1>6. UNCHANGED <<target, session, retry, settled, key, prompts, remoteConnecting, displaced>>
  BY DEF SwitchSession, CloseSession, attempts
<1>7. TypeOK'
  BY <1>1, <1>2, <1>3, <1>4, <1>5, <1>6, Numbers DEF TypeOK, IdsOnce, prompts, question, consent
<1>8. QED  BY <1>1, <1>7

LEMMA BeginTypes ==
  ASSUME TypeOK, TabInv, ReconnectLast \/ \E h \in Host : Connect(h)
  PROVE  TypeOK'
BY UserBegins, TypeFacts, Numbers DEF TypeOK, IdsOnce, tabs, prompts, question, consent

-----------------------------------------------------------------------------
(***************************************************************************)
(* The theorems about tabs.                                                *)
(***************************************************************************)
TInv == TypeOK /\ IInv /\ TabInv

LEMMA InitTInv == Init => TInv
<1> SUFFICES ASSUME Init  PROVE TInv
  OBVIOUS
<1>2. IInv
  BY InitIInv
<1>3. parked = << >> /\ Range(parked) = {} /\ sessionOrder = << >>
  BY DEF Init, Range
<1>4. TypeOK
  <2>1. << >> \in Seq(Parked) /\ << >> \in Seq(Attempt)
    OBVIOUS
  <2>2. IdsOnce(<< >>) /\ IsInjective(<< >>)
    BY DEF IdsOnce, IsInjective
  <2>3. /\ phase \in [Attempt -> Pending \cup {"unused", "live", "gone"}]
        /\ target \in [Attempt -> Host \cup {NoHost}] /\ session \in [Attempt -> 0..MaxAttempts]
        /\ retry \in [Attempt -> BOOLEAN] /\ settled \in [Attempt -> BOOLEAN]
        /\ key \in [Attempt -> Key \cup {NoKey}] /\ known \in [Ssh -> Key \cup {NoKey}]
    BY Numbers DEF Init
  <2>4. /\ active = 0 /\ slot = 0 /\ hostKeyPrompt = 0 /\ hostKeyResolver = 0
        /\ creds = NoHost /\ pendingHost = NoHost /\ reconnectAttempts = 0
        /\ remoteConnecting = FALSE /\ rendered = 0 /\ accepted = {} /\ slipped = {} /\ displaced = {}
    BY DEF Init
  <2>5. QED  BY <1>3, <2>1, <2>2, <2>3, <2>4, TypeFacts, Numbers
<1>5. TabInv
  BY <1>3 DEF Init, TabInv, Numbered, ActiveTab, ParkedTabs, OpenAlone, DisplacedAlone, NoneLost, Held,
     Open, Used, Pending
<1>6. QED  BY <1>2, <1>4, <1>5 DEF TInv

LEMMA StepTInv == TInv /\ [Next]_vars => TInv'
<1> SUFFICES ASSUME TypeOK, IInv, TabInv, [Next]_vars  PROVE TypeOK' /\ TabInv'
  BY StepIInv DEF TInv
<1>1. CASE UNCHANGED vars
  <2>1. TypeOK'
    BY <1>1 DEF TypeOK, vars, attempts, tabs, prompts, question, consent
  <2>2. TabInv'
    BY <1>1, OnlyEnds
  <2>3. QED  BY <2>1, <2>2
<1>2. CASE ReconnectLast \/ \E h \in Host : Connect(h)
  BY <1>2, UserBegins, BeginTypes
<1>3. CASE \E accept \in BOOLEAN : ResolveHostKey(accept)
  BY <1>3, OnlyEnds, AnswerTypes
<1>4. CASE \E id \in Attempt : SwitchSession(id) \/ CloseSession(id)
  BY <1>4, TabTypes
<1>5. CASE \E a \in Attempt : Ends(a)
  BY <1>5, OnlyEnds, EndTypes, Installs, InstallTypes DEF Ends
<1>6. CASE \E a \in Attempt : \E k \in Key : ShowKey(a, k)
  BY <1>6, OnlyEnds, QuestionTypes
<1>7. CASE \E a \in Attempt, stable \in BOOLEAN : Drop(a, stable)
  BY <1>7, Drops
<1>8. CASE Render
  BY <1>8, OnlyEnds, RenderTypes
<1>9. QED
  BY <1>1, <1>2, <1>3, <1>4, <1>5, <1>6, <1>7, <1>8 DEF Next, User

LEMMA TabsInductive == Spec => []TInv
BY InitTInv, StepTInv, PTL DEF Spec

\* The state of the sessions is well formed: no tab is there twice, and no more than
\* MAX_AUTO_RECONNECT_ATTEMPTS reconnects follow each other (AppProvider.tsx).
THEOREM TypeCorrect == Spec => []TypeOK
<1>1. TInv => TypeOK
  BY DEF TInv
<1>2. QED  BY <1>1, TabsInductive, PTL

\* A tab never shows, parks or reconnects to the host of another tab, whatever attempts
\* overlap ("reuses the dropped session's id", AppProvider.tsx:567-571).
THEOREM TabsKeepTheirHosts == Spec => []TabKeepsHost
<1>1. TInv => TabKeepsHost
  <2>1. SUFFICES ASSUME TInv  PROVE TabKeepsHost
    OBVIOUS
  <2>2. \A a, b \in Attempt : session[a] # 0 /\ session[a] = session[b] => target[a] = target[b]
    BY <2>1 DEF TInv, TabInv, Numbered
  <2>3. \A k \in DOMAIN parked : parked[k] \in Range(parked)
    BY DEF Range
  <2>4. QED  BY <2>1, <2>2, <2>3 DEF TInv, TabInv, ActiveTab, ParkedTabs, TabKeepsHost
<1>2. QED  BY <1>1, TabsInductive, PTL

\* An open connection has a tab that uses and closes it, unless a late reconnect has taken
\* its place ("don't leak this late-arriving session", AppProvider.tsx:613).
THEOREM NoConnectionLeaks == Spec => []NoneLeaks
<1>1. TInv => NoneLeaks
  BY DEF TInv, TabInv, NoneLost, Held, NoneLeaks, Range
<1>2. QED  BY <1>1, TabsInductive, PTL

-----------------------------------------------------------------------------
(***************************************************************************)
(* The pane.  What the proof needs of the deeds: each is a record; what is *)
(* over, or not begun, has nothing left to do; and a deed that is at its   *)
(* end but for its copies is a synchronization, unless something failed.   *)
(***************************************************************************)
IsDeed(d) == DOMAIN d = {"what", "phase", "ops", "todo", "walk", "copies", "wanted", "deletes", "root",
                         "mirror", "byTime", "clash"}

Settles(d, some) ==
  /\ d.what \in {"none", "pane", "transfer", "sync", "over"}
  /\ d.what \in {"none", "over"} => d.ops = <<>> /\ d.walk = <<>> /\ d.copies = {}
  /\ d.phase = "failed" => some
  /\ d.phase = "synced" => d.what \in {"sync", "over"}
  /\ d.phase \in {"synced", "failed"} => d.ops = <<>> /\ d.walk = <<>>

Deeds ==
  /\ DOMAIN deed = Deed /\ failed \in BOOLEAN /\ error \in BOOLEAN
  /\ \A n \in Deed : IsDeed(deed[n]) /\ Settles(deed[n], failed)

(***************************************************************************)
(* The list that is on its way, or else the one that is shown, is that of  *)
(* the open folder, and up to date once nothing is under way.              *)
(***************************************************************************)
Listed ==
  /\ listing = [at |-> listing.at, dir |-> listing.dir, rows |-> listing.rows]
  /\ listing.at # "none" => listing.dir = cwd
  /\ listing.at = "none" /\ ~error => shown.dir = cwd
  /\ Active = {} /\ ~failed =>
       /\ listing.at = "answered" => listing.rows = Entries(cwd)
       /\ listing.at = "none" /\ ~error => shown.rows = Entries(cwd)

PaneInv == Deeds /\ Listed

LEMMA EntriesStay ==
  ASSUME UNCHANGED <<tree, cwd>>
  PROVE  Entries(cwd)' = Entries(cwd)
BY DEF tree, Entries, Children, Real, Links, IsFile, IsDir, KeysUnder, Below, AtOrBelow,
       None, Dir, Link, Node

LEMMA InitPaneInv == FilesInit => PaneInv
<1> SUFFICES ASSUME FilesInit  PROVE PaneInv
  OBVIOUS
<1>1. IsDeed(NoDeed) /\ Settles(NoDeed, FALSE)
  BY DEF IsDeed, NoDeed, Settles
<1>2. DOMAIN deed = Deed /\ error = FALSE /\ failed = FALSE /\ \A n \in Deed : deed[n] = NoDeed
  BY DEF FilesInit
<1>3. Deeds
  BY <1>1, <1>2 DEF Deeds, Settles
<1>4. Listed
  BY DEF FilesInit, Listed
<1> QED BY <1>3, <1>4 DEF PaneInv

\* A step of one deed: it goes on, or fails, and the pane stays as it is; or the pane lists.
LEMMA DeedMoves ==
  ASSUME PaneInv, NEW n \in Deed, NEW d, deed' = [deed EXCEPT ![n] = d], IsDeed(d),
         Settles(d, failed'), failed' \in BOOLEAN, failed => failed',
         \/ UNCHANGED pane /\ (d.what \notin {"none", "over"} \/ failed')
         \/ Reloads
  PROVE  PaneInv'
<1>1. deed'[n] = d /\ \A m \in Deed \ {n} : deed'[m] = deed[m]
  BY DEF PaneInv, Deeds
<1>2. Deeds'
  <2>1. DOMAIN deed' = Deed
    BY DEF PaneInv, Deeds
  <2>2. error' \in BOOLEAN
    BY DEF PaneInv, Deeds, Reloads, Lists, pane
  <2>3. ASSUME NEW m \in Deed  PROVE IsDeed(deed'[m]) /\ Settles(deed'[m], failed')
    BY <1>1, <2>3 DEF PaneInv, Deeds, Settles
  <2> QED BY <2>1, <2>2, <2>3 DEF Deeds, IsDeed, Settles
<1>3. CASE Reloads
  BY <1>2, <1>3 DEF PaneInv, Listed, Reloads, Lists
<1>4. CASE UNCHANGED pane /\ (d.what \notin {"none", "over"} \/ failed')
  <2>1. Active' # {} \/ failed'
    BY <1>1, <1>4 DEF Active
  <2> QED BY <1>2, <1>4, <2>1 DEF PaneInv, Listed, pane
<1> QED BY <1>3, <1>4

\* A step of the pane: no deed moves.
LEMMA PaneMoves ==
  ASSUME PaneInv, UNCHANGED <<tree, deed>>, failed => failed', failed' \in BOOLEAN, error' \in BOOLEAN,
         listing' = [at |-> listing'.at, dir |-> listing'.dir, rows |-> listing'.rows],
         listing'.at # "none" => listing'.dir = cwd',
         listing'.at = "none" /\ ~error' => shown'.dir = cwd',
         Active = {} /\ ~failed' =>
           /\ listing'.at = "answered" => listing'.rows = Entries(cwd)'
           /\ listing'.at = "none" /\ ~error' => shown'.rows = Entries(cwd)'
  PROVE  PaneInv'
<1>1. Deeds'
  BY DEF PaneInv, Deeds, IsDeed, Settles
<1>2. Active' = Active
  BY DEF Active
<1> QED BY <1>1, <1>2 DEF PaneInv, Listed

LEMMA PaneSteps ==
  ASSUME PaneInv, Pane
  PROVE  PaneInv'
<1> USE DEF PaneInv
<1>1. CASE Answered
  <2>1. Entries(cwd)' = Entries(cwd)
    BY <1>1, EntriesStay DEF Answered
  <2>2. UNCHANGED <<tree, deed, cwd, failed, error>> /\ failed \in BOOLEAN /\ error \in BOOLEAN
    BY <1>1 DEF Answered, Deeds
  <2>3. /\ listing' = [at |-> "answered", dir |-> listing.dir, rows |-> Entries(listing.dir)]
        /\ listing.dir = cwd
    BY <1>1 DEF Answered, Listed
  <2> HIDE DEF PaneInv
  <2> QED BY <2>1, <2>2, <2>3, PaneMoves
<1>2. CASE ListFails
  BY <1>2, PaneMoves DEF ListFails, NoListing, Deeds
<1>3. CASE Show
  <2>1. Entries(cwd)' = Entries(cwd)
    BY <1>3, EntriesStay DEF Show
  <2>2. UNCHANGED <<tree, deed, cwd, failed, error>> /\ failed \in BOOLEAN /\ error \in BOOLEAN
    BY <1>3 DEF Show, Deeds
  <2>3. /\ listing' = [at |-> "none", dir |-> <<>>, rows |-> {}]
        /\ shown' = [dir |-> listing.dir, rows |-> listing.rows] /\ listing.dir = cwd
        /\ Active = {} /\ ~failed => listing.rows = Entries(cwd)
    BY <1>3 DEF Show, Listed, NoListing
  <2> HIDE DEF PaneInv
  <2> QED BY <2>1, <2>2, <2>3, PaneMoves
<1>4. CASE Refresh
  BY <1>4, PaneMoves DEF Refresh, Reloads, Lists, Deeds
<1>5. ASSUME NEW c \in Folders, Navigate(c)  PROVE PaneInv'
  BY <1>5, PaneMoves DEF Navigate, Lists, Deeds
<1> QED BY <1>1, <1>2, <1>3, <1>4, <1>5 DEF Pane

LEMMA DeedBegins ==
  ASSUME PaneInv, NEW d, Starts(d), IsDeed(d), d.what \in {"pane", "transfer", "sync"},
         d.phase \notin {"failed", "synced"}
  PROVE  PaneInv'
<1>1. PICK n \in Deed : deed' = [deed EXCEPT ![n] = d]
  BY DEF Starts
<1>2. Settles(d, failed) /\ failed' = failed /\ failed \in BOOLEAN /\ UNCHANGED pane
  BY DEF Starts, Settles, PaneInv, Deeds
<1> QED BY <1>1, <1>2, DeedMoves

LEMMA StartSteps ==
  ASSUME PaneInv, Start
  PROVE  PaneInv'
<1>1. ASSUME NEW ops, Starts(PaneDeed(ops))  PROVE PaneInv'
  <2>1. IsDeed(PaneDeed(ops)) /\ PaneDeed(ops).what = "pane" /\ PaneDeed(ops).phase = "apply"
    BY DEF IsDeed, PaneDeed, NoDeed
  <2> QED BY <1>1, <2>1, DeedBegins
<1>2. ASSUME NEW p, HandleNewFolder(p) \/ HandleRename(p)  PROVE PaneInv'
  BY <1>1, <1>2 DEF HandleNewFolder, HandleRename
<1>3. ASSUME NEW rows, HandleDeleteConfirm(rows)  PROVE PaneInv'
  BY <1>1, <1>3 DEF HandleDeleteConfirm
<1>4. ASSUME NEW p, EnqueueTransfer(p)  PROVE PaneInv'
  <2> DEFINE d == [NoDeed EXCEPT !.what = "transfer", !.phase = "tree", !.walk = <<p>>]
  <2>1. IsDeed(d) /\ d.what = "transfer" /\ d.phase = "tree"
    BY DEF IsDeed, NoDeed
  <2>2. Starts(d)
    BY <1>4 DEF EnqueueTransfer
  <2> HIDE DEF d
  <2> QED BY <2>1, <2>2, DeedBegins
<1>5. ASSUME NEW mode, ApplySync(mode)  PROVE PaneInv'
  <2> DEFINE d == [NoDeed EXCEPT !.what = "sync", !.phase = "root", !.ops = <<Mkdir(cwd)>>,
                        !.root = cwd, !.mirror = mode.mirror, !.byTime = mode.byTime,
                        !.clash = Links(cwd) # {}]
  <2>1. IsDeed(d) /\ d.what = "sync" /\ d.phase = "root"
    BY DEF IsDeed, NoDeed
  <2>2. Starts(d)
    BY <1>5 DEF ApplySync
  <2> HIDE DEF d
  <2> QED BY <2>1, <2>2, DeedBegins
<1> QED BY <1>2, <1>3, <1>4, <1>5 DEF Start

\* A deed that goes on keeps what it is, and moves to no end.
LEMMA GoesOn ==
  ASSUME PaneInv, NEW n \in Deed, NEW d, deed' = [deed EXCEPT ![n] = d], IsDeed(d),
         UNCHANGED <<pane, failed>>, d.what = deed[n].what,
         d.what \notin {"none", "over"}, d.phase \notin {"failed", "synced"}
  PROVE  PaneInv'
<1>1. Settles(d, failed') /\ failed' \in BOOLEAN
  BY DEF Settles, PaneInv, Deeds
<1> QED BY <1>1, DeedMoves

LEMMA ThrowSteps ==
  ASSUME PaneInv, NEW n \in Deed, NEW left, Throws(n, left), deed[n].what \in {"pane", "transfer", "sync"}
  PROVE  PaneInv'
<1> DEFINE d == [deed[n] EXCEPT !.ops = <<>>, !.todo = <<>>, !.walk = <<>>, !.deletes = <<>>,
                                    !.wanted = {}, !.phase = "failed", !.copies = left,
                                    !.what = IF left = {} THEN "over" ELSE @]
<1>1. IsDeed(deed[n])
  BY DEF PaneInv, Deeds
<1>2. /\ d.what = (IF left = {} THEN "over" ELSE deed[n].what) /\ d.phase = "failed"
      /\ d.ops = <<>> /\ d.walk = <<>> /\ d.copies = left /\ IsDeed(d)
  BY <1>1 DEF IsDeed
<1>3. deed' = [deed EXCEPT ![n] = d] /\ failed' = TRUE /\ UNCHANGED pane
  BY DEF Throws
<1> HIDE DEF d
<1>4. Settles(d, TRUE)
  BY <1>2 DEF Settles
<1> QED BY <1>2, <1>3, <1>4, DeedMoves

\* What is under way is what has something left to do.
LEMMA UnderWay ==
  ASSUME PaneInv, NEW n \in Deed, deed[n].ops # <<>> \/ deed[n].walk # <<>> \/ deed[n].copies # {}
  PROVE  deed[n].what \in {"pane", "transfer", "sync"}
BY DEF PaneInv, Deeds, Settles

LEMMA RequestSteps ==
  ASSUME PaneInv, NEW n \in Deed, Request(n)
  PROVE  PaneInv'
<1>1. deed[n].what \in {"pane", "transfer", "sync"} /\ IsDeed(deed[n])
  BY UnderWay DEF Request, PaneInv, Deeds
<1>2. CASE Throws(n, deed[n].copies)
  BY <1>1, <1>2, ThrowSteps
<1>3. ASSUME NEW e, deed' = [deed EXCEPT ![n] = e], UNCHANGED <<failed, pane>>,
             \/ \E ops : e = [deed[n] EXCEPT !.todo = <<>>, !.ops = ops]
             \/ \E rest : e = [deed[n] EXCEPT !.todo = rest]
      PROVE  PaneInv'
  <2>1. IsDeed(e) /\ e.what = deed[n].what /\ e.phase = deed[n].phase
    BY <1>1, <1>3 DEF IsDeed
  <2>2. deed[n].phase \notin {"failed", "synced"}
    BY DEF Request, PaneInv, Deeds, Settles
  <2> QED BY <1>1, <1>3, <2>1, <2>2, GoesOn
<1>4. \/ Throws(n, deed[n].copies)
      \/ \E e : /\ deed' = [deed EXCEPT ![n] = e] /\ UNCHANGED <<failed, pane>>
                /\ \/ \E ops : e = [deed[n] EXCEPT !.todo = <<>>, !.ops = ops]
                   \/ \E rest : e = [deed[n] EXCEPT !.todo = rest]
  BY DEF Request
<1> QED BY <1>2, <1>3, <1>4

LEMMA WalkSteps ==
  ASSUME PaneInv, NEW n \in Deed, WalkTransfer(n) \/ WalkSync(n) \/ WalkFails(n) \/ NextPhase(n)
  PROVE  PaneInv'
<1>0. IsDeed(deed[n]) /\ Settles(deed[n], failed)
  BY DEF PaneInv, Deeds
<1>1. CASE WalkTransfer(n)
  <2>1. PICK e : /\ deed' = [deed EXCEPT ![n] = e]
                 /\ \/ \E ops, walk : e = [deed[n] EXCEPT !.ops = ops, !.walk = walk]
                    \/ \E copies, walk : e = [deed[n] EXCEPT !.copies = copies, !.walk = walk]
    BY <1>1 DEF WalkTransfer
  <2>2. IsDeed(e) /\ e.what = deed[n].what /\ e.phase = deed[n].phase
    BY <1>0, <2>1 DEF IsDeed
  <2>3. UNCHANGED <<pane, failed>> /\ deed[n].what = "transfer" /\ deed[n].phase \notin {"failed", "synced"}
    BY <1>0, <1>1 DEF WalkTransfer, Settles
  <2> QED BY <2>1, <2>2, <2>3, GoesOn
<1>2. CASE WalkSync(n)
  <2>1. PICK walk, ops, wanted, clash, deletes :
          deed' = [deed EXCEPT ![n] = [deed[n] EXCEPT !.walk = walk, !.ops = ops, !.wanted = wanted,
                                                      !.clash = clash, !.deletes = deletes]]
    BY <1>2, ZenonT(60) DEF WalkSync
  <2> DEFINE e == [deed[n] EXCEPT !.walk = walk, !.ops = ops, !.wanted = wanted, !.clash = clash,
                                  !.deletes = deletes]
  <2>2. IsDeed(e) /\ e.what = deed[n].what /\ e.phase = deed[n].phase
    BY <1>0 DEF IsDeed
  <2>3. UNCHANGED <<pane, failed>> /\ deed[n].what = "sync" /\ deed[n].phase = "walk"
    BY <1>2 DEF WalkSync
  <2>4. deed' = [deed EXCEPT ![n] = e]
    BY <2>1
  <2> HIDE DEF e
  <2> QED BY <2>4, <2>1, <2>2, <2>3, GoesOn
<1>3. CASE WalkFails(n)
  BY <1>3, UnderWay, ThrowSteps DEF WalkFails
<1>4. CASE NextPhase(n)
  <2>0. deed[n].what = "sync" /\ UNCHANGED <<pane, failed>>
    BY <1>4 DEF NextPhase
  <2>1. CASE deed' = [deed EXCEPT ![n].phase = "walk", ![n].walk = <<deed[n].root>>]
    <3> DEFINE e == [deed[n] EXCEPT !.phase = "walk", !.walk = <<deed[n].root>>]
    <3>1. IsDeed(e) /\ e.what = deed[n].what /\ e.phase = "walk"
      BY <1>0 DEF IsDeed
    <3>2. deed' = [deed EXCEPT ![n] = e]
      BY <2>1 DEF PaneInv, Deeds
    <3> HIDE DEF e
    <3> QED BY <2>0, <3>1, <3>2, GoesOn
  <2>2. CASE deed' = [deed EXCEPT ![n].phase = "mkdir"]
    <3> DEFINE e == [deed[n] EXCEPT !.phase = "mkdir"]
    <3>1. IsDeed(e) /\ e.what = deed[n].what /\ e.phase = "mkdir"
      BY <1>0 DEF IsDeed
    <3>2. deed' = [deed EXCEPT ![n] = e]
      BY <2>2 DEF PaneInv, Deeds
    <3> HIDE DEF e
    <3> QED BY <2>0, <3>1, <3>2, GoesOn
  <2>3. CASE deed' = [deed EXCEPT ![n].phase = "delete", ![n].copies = deed[n].wanted,
                                ![n].wanted = {}, ![n].ops = deed[n].deletes, ![n].deletes = <<>>]
    <3> DEFINE e == [deed[n] EXCEPT !.phase = "delete", !.copies = deed[n].wanted,
                                !.wanted = {}, !.ops = deed[n].deletes, !.deletes = <<>>]
    <3>1. IsDeed(e) /\ e.what = deed[n].what /\ e.phase = "delete"
      BY <1>0 DEF IsDeed
    <3>2. deed' = [deed EXCEPT ![n] = e]
      BY <2>3 DEF PaneInv, Deeds
    <3> HIDE DEF e
    <3> QED BY <2>0, <3>1, <3>2, GoesOn
  <2> QED BY <1>4, <2>1, <2>2, <2>3 DEF NextPhase
<1> QED BY <1>1, <1>2, <1>3, <1>4

LEMMA FinishSteps ==
  ASSUME PaneInv, NEW n \in Deed, Finishes(n)
  PROVE  PaneInv'
<1> DEFINE e == [deed[n] EXCEPT !.phase = IF deed[n].what = "sync" THEN "synced" ELSE "done",
                                !.what = IF deed[n].copies = {} THEN "over" ELSE deed[n].what]
<1>0. IsDeed(deed[n]) /\ Settles(deed[n], failed) /\ failed \in BOOLEAN
  BY DEF PaneInv, Deeds
<1>1. /\ IsDeed(e) /\ e.phase = (IF deed[n].what = "sync" THEN "synced" ELSE "done")
      /\ e.what = (IF deed[n].copies = {} THEN "over" ELSE deed[n].what)
      /\ e.ops = deed[n].ops /\ e.walk = deed[n].walk /\ e.copies = deed[n].copies
  BY <1>0 DEF IsDeed
<1>2. deed' = [deed EXCEPT ![n] = e] /\ failed' = failed /\ Reloads
  BY DEF Finishes, PaneInv, Deeds
<1> HIDE DEF e
<1>3. Settles(e, failed')
  BY <1>0, <1>1, <1>2 DEF Finishes, Settles
<1> QED BY <1>0, <1>1, <1>2, <1>3, DeedMoves

LEMMA CopySteps ==
  ASSUME PaneInv, NEW n \in Deed, NEW p \in Path, CopyEnds(n, p) \/ CopyFails(n, p)
  PROVE  PaneInv'
<1> DEFINE left == deed[n].copies \ {p}
           e == [deed[n] EXCEPT !.copies = left,
                   !.what = IF left = {} /\ deed[n].phase \in {"synced", "failed"} THEN "over" ELSE deed[n].what]
<1>0. IsDeed(deed[n]) /\ Settles(deed[n], failed) /\ failed \in BOOLEAN
  BY DEF PaneInv, Deeds
<1>1. deed[n].what \in {"pane", "transfer", "sync"}
  BY UnderWay DEF CopyEnds, CopyFails
<1>2. /\ IsDeed(e) /\ e.copies = left /\ e.phase = deed[n].phase
      /\ e.what = (IF left = {} /\ deed[n].phase \in {"synced", "failed"} THEN "over" ELSE deed[n].what)
      /\ e.ops = deed[n].ops /\ e.walk = deed[n].walk
  BY <1>0 DEF IsDeed
<1>3. CASE CopyFails(n, p) /\ deed[n].what = "transfer"
  BY <1>1, <1>3, ThrowSteps DEF CopyFails
<1>4. CASE CopyEnds(n, p) \/ (CopyFails(n, p) /\ deed[n].what # "transfer")
  <2>1. deed' = [deed EXCEPT ![n] = e] /\ failed' \in BOOLEAN /\ (failed => failed')
    BY <1>0, <1>4 DEF CopyEnds, CopyFails, PaneInv, Deeds
  <2>2. \/ Reloads
        \/ UNCHANGED pane /\ (failed' \/ (failed' = failed /\ deed[n].what # "sync"))
    BY <1>4 DEF CopyEnds, CopyFails
  <2> HIDE DEF e
  <2>3. Settles(e, failed')
    BY <1>0, <1>1, <1>2, <2>1 DEF Settles
  <2>4. failed' = failed /\ deed[n].what # "sync" => e.what \notin {"none", "over"} \/ failed'
    BY <1>0, <1>1, <1>2 DEF Settles
  <2> QED BY <1>2, <2>1, <2>2, <2>3, <2>4, DeedMoves
<1> QED BY <1>3, <1>4

LEMMA StepPaneInv == PaneInv /\ [FilesNext]_filesVars => PaneInv'
<1> SUFFICES ASSUME PaneInv, [FilesNext]_filesVars  PROVE PaneInv'
  OBVIOUS
<1>1. CASE UNCHANGED filesVars
  BY <1>1, PaneMoves, EntriesStay DEF filesVars, pane, PaneInv, Deeds, Listed
<1> QED
  BY <1>1, PaneSteps, StartSteps, RequestSteps, WalkSteps, FinishSteps, CopySteps DEF FilesNext

\* Once the pane's list is there it is the one of the open folder, whichever calls were
\* overtaken; and once nothing is under way and nothing has failed it is what is there, for
\* any tree, number of deeds and file system (PaneView.tsx:104-123).
THEOREM PaneStaysFresh == FilesSpec => []PaneIsFresh
<1>1. PaneInv => PaneIsFresh
  BY DEF PaneInv, Listed, PaneIsFresh
<1> QED BY InitPaneInv, StepPaneInv, <1>1, PTL DEF FilesSpec

-----------------------------------------------------------------------------
(***************************************************************************)
(* The trees of files, and what is asked of them.                          *)
(***************************************************************************)
Named == Seq(STRING)
Op == [op : {"mkdir", "rename", "remove"}, path : Named, to : Named, recursive : BOOLEAN]
AskNames == {"make", "probe", "mark", "look", "unlink", "rmdir", "head", "deleteKey", "isPrefix",
             "listAllKeys", "copyKey", "check", "delete", "move"}
Req == [ask : AskNames, path : Named, to : Named, marker : BOOLEAN]

(***************************************************************************)
(* The tree.  Over what is somewhere there are directories all the way up. *)
(***************************************************************************)
Above(p) == {SubSeq(p, 1, n) : n \in 1..(Len(p) - 1)}

Shaped ==
  /\ kind \in Kinds /\ dirs \subseteq Path /\ DOMAIN file = Path
  /\ \A p \in Path : file[p].kind \in {"none", "file", "symlink"}
  /\ kind # "sftp" => \A p \in Path : file[p] # Link
  /\ kind # "s3" => \A p \in Path : /\ ~(p \in dirs /\ IsFile(p))
                                    /\ p \in dirs \/ IsFile(p) => Above(p) \subseteq dirs

(***************************************************************************)
(* The rows that are shown, or will be, have names.                        *)
(***************************************************************************)
AreRows(rows) == IsFiniteSet(rows) /\ \A e \in rows : e.path \in Named

Shown ==
  /\ {cwd, listing.dir, shown.dir} \subseteq Folders
  /\ AreRows(listing.rows) /\ AreRows(shown.rows)

(***************************************************************************)
(* What a deed may ask: each request is about the path of its operation,   *)
(* or below it.                                                            *)
(***************************************************************************)
RemovalAsk(o, r) ==
  /\ IsPrefix(o.path, r.path) /\ (~o.recursive => r.path = o.path)
  /\ \/ kind = "sftp" /\ r.ask \in {"look", "rmdir", "unlink"}
     \/ kind = "s3" /\ (r.ask = "deleteKey" \/ (r.ask = "head" /\ r.path = o.path))
     \/ kind \notin {"sftp", "s3"} /\ r.ask \in {"check", "delete"} /\ r.path = o.path

RenameAsk(o, r) ==
  /\ IsPrefix(o.path, r.path)
  /\ \/ kind # "s3" /\ r.ask = "move" /\ r.path = o.path /\ r.to = o.to
     \/ kind = "s3" /\ r.ask \in {"isPrefix", "listAllKeys"} /\ r.path = o.path /\ r.to = o.to
     \/ kind = "s3" /\ r.ask = "copyKey" /\ r.to = Moved(o.path, o.to, r.path)
     \/ kind = "s3" /\ r.ask = "deleteKey"

RightAsk(o, r) ==
  /\ o.op = "mkdir" => r.ask \in (IF kind = "s3" THEN {"probe", "mark"} ELSE {"make"})
  /\ o.op = "rename" => RenameAsk(o, r)
  /\ o.op = "remove" => RemovalAsk(o, r)

MaySync(d, o) ==
  o.op = "mkdir" \/ (o.op = "remove" /\ o.recursive /\ d.mirror /\ ~(o.path \in Path /\ src[o.path] # None))

MayDo(d, o) == /\ d.what = "sync" => MaySync(d, o)
               /\ d.what = "transfer" => o.op = "mkdir"

Planned(d) ==
  /\ d.ops \in Seq(Op) /\ d.deletes \in Seq(Op) /\ d.todo \in Seq(Req)
  /\ d.walk \in Seq(Named) /\ d.root \in Named
  /\ d.todo # <<>> => d.ops # <<>> /\ d.phase # "walk"
  /\ \A i \in DOMAIN d.todo : RightAsk(Head(d.ops), d.todo[i])
  /\ \A i \in DOMAIN d.ops : MayDo(d, d.ops[i])
  /\ \A i \in DOMAIN d.deletes : MayDo(d, d.deletes[i])
  /\ d.what = "pane" => d.copies = {}

(***************************************************************************)
(* What a deed that is alone may rely on.  What it found empty is empty;   *)
(* and a key that it will delete it has copied, or will have.              *)
(***************************************************************************)
Apart(o) == ~IsPrefix(o.path, o.to) /\ ~IsPrefix(o.to, o.path)

Emptied(o, todo) ==
  o.op = "remove" /\ ~o.recursive =>
    \A i \in DOMAIN todo : todo[i].ask = "delete" => \A q \in Below(o.path) : ~IsFile(q) /\ q \notin dirs

Copies(r, p) == r.ask = "copyKey" /\ r.path = p /\ ~r.marker
Deletes1(r, p) == r.ask = "deleteKey" /\ r.path = p /\ ~r.marker

Carried(o, todo) ==
  o.op = "rename" /\ Apart(o) =>
    \A i \in DOMAIN todo, p \in Path :
      Deletes1(todo[i], p) /\ file[p] # None =>
        \/ \E j \in 1..(i - 1) : Copies(todo[j], p)
        \/ LET new == Moved(o.path, o.to, p) IN new \in Path /\ file[new] = file[p]

Plans ==
  /\ \A n \in Deed : Planned(deed[n])
  /\ \A n \in Deed \ overlap : deed[n].todo # <<>> =>
       Emptied(Head(deed[n].ops), deed[n].todo) /\ Carried(Head(deed[n].ops), deed[n].todo)

Alone ==
  /\ overlap \subseteq {n \in Deed : deed[n].what # "none"}
  /\ \A m, n \in Active : m = n \/ m \in overlap

TreeInv == Shaped /\ Shown /\ Plans /\ Alone

-----------------------------------------------------------------------------
\* Prefixes, place by place.
LEMMA PrefixIs ==
  ASSUME NEW s \in Named, NEW t \in Named
  PROVE  IsPrefix(s, t) <=> Len(s) <= Len(t) /\ \A i \in 1..Len(s) : s[i] = t[i]
<1>1. ASSUME IsPrefix(s, t)  PROVE Len(s) <= Len(t) /\ \A i \in 1..Len(s) : s[i] = t[i]
  <2>1. Len(s) <= Len(t) /\ SubSeq(s, 1, Len(s)) = SubSeq(t, 1, Len(s))
    BY <1>1 DEF IsPrefix
  <2>2. ASSUME NEW i \in 1..Len(s)  PROVE s[i] = t[i]
    <3>1. SubSeq(s, 1, Len(s))[i] = s[i] /\ SubSeq(t, 1, Len(s))[i] = t[i]
      BY <2>1 DEF Named
    <3> QED BY <2>1, <3>1
  <2> QED BY <2>1, <2>2
<1>2. ASSUME Len(s) <= Len(t), \A i \in 1..Len(s) : s[i] = t[i]  PROVE IsPrefix(s, t)
  <2>1. SubSeq(s, 1, Len(s)) = SubSeq(t, 1, Len(s))
    BY <1>2 DEF Named
  <2> QED BY <1>2, <2>1 DEF IsPrefix
<1> QED BY <1>1, <1>2

LEMMA PrefixOrder ==
  ASSUME NEW s \in Named, NEW t \in Named
  PROVE  /\ IsPrefix(s, s)
         /\ \A u \in Named : IsPrefix(s, t) /\ IsPrefix(t, u) => IsPrefix(s, u)
         /\ \A u \in Named : IsPrefix(s, u) /\ IsPrefix(t, u) => IsPrefix(s, t) \/ IsPrefix(t, s)
         /\ IsPrefix(s, t) /\ IsPrefix(t, s) => s = t
<1>0. Len(s) \in Nat /\ Len(t) \in Nat
  BY DEF Named
<1>1. IsPrefix(s, s)
  BY <1>0, PrefixIs
<1>2. ASSUME NEW u \in Named, IsPrefix(s, t), IsPrefix(t, u)  PROVE IsPrefix(s, u)
  <2>1. Len(u) \in Nat
    BY DEF Named
  <2> QED BY <1>0, <1>2, <2>1, PrefixIs
<1>3. ASSUME NEW u \in Named, IsPrefix(s, u), IsPrefix(t, u)  PROVE IsPrefix(s, t) \/ IsPrefix(t, s)
  <2>1. Len(u) \in Nat
    BY DEF Named
  <2>2. CASE Len(s) <= Len(t)
    BY <1>0, <1>3, <2>1, <2>2, PrefixIs
  <2>3. CASE Len(t) <= Len(s)
    BY <1>0, <1>3, <2>1, <2>3, PrefixIs
  <2> QED BY <1>0, <2>2, <2>3
<1>4. ASSUME IsPrefix(s, t), IsPrefix(t, s)  PROVE s = t
  <2>1. Len(s) = Len(t) /\ \A i \in 1..Len(s) : s[i] = t[i]
    BY <1>0, <1>4, PrefixIs
  <2> QED BY <2>1, SeqEqual DEF Named
<1> QED BY <1>1, <1>2, <1>3, <1>4

\* What is moved is below its new place, and where it was can be told.
LEMMA MovedIs ==
  ASSUME NEW from \in Named, NEW to \in Named, NEW q \in Named, IsPrefix(from, q)
  PROVE  /\ Moved(from, to, q) \in Named /\ Len(Moved(from, to, q)) = Len(to) + Len(q) - Len(from)
         /\ \A i \in 1..Len(to) : Moved(from, to, q)[i] = to[i]
         /\ \A i \in (Len(to) + 1)..Len(Moved(from, to, q)) :
              Moved(from, to, q)[i] = q[i - Len(to) + Len(from)]
<1> DEFINE rest == SubSeq(q, Len(from) + 1, Len(q))
<1>1. Len(from) \in Nat /\ Len(to) \in Nat /\ Len(q) \in Nat /\ Len(from) <= Len(q)
  BY PrefixIs DEF Named
<1>2. /\ rest \in Named /\ Len(rest) = Len(q) - Len(from)
      /\ \A i \in 1..Len(rest) : rest[i] = q[Len(from) + i]
  BY <1>1 DEF Named
<1> HIDE DEF rest
<1>3. /\ to \o rest \in Named /\ Len(to \o rest) = Len(to) + Len(rest)
      /\ \A i \in 1..Len(to \o rest) : (to \o rest)[i] = IF i <= Len(to) THEN to[i] ELSE rest[i - Len(to)]
  BY <1>2 DEF Named
<1> DEFINE m == to \o rest
<1>4. Moved(from, to, q) = m
  BY DEF Moved, rest
<1>5. /\ m \in Named /\ Len(m) = Len(to) + Len(q) - Len(from)
      /\ \A i \in 1..Len(m) : m[i] = IF i <= Len(to) THEN to[i] ELSE rest[i - Len(to)]
  BY <1>2, <1>3
<1> HIDE DEF m
<1>6. \A i \in 1..Len(to) : m[i] = to[i]
  BY <1>1, <1>5
<1>7. ASSUME NEW i \in (Len(to) + 1)..Len(m)  PROVE m[i] = q[i - Len(to) + Len(from)]
  <2>1. m[i] = rest[i - Len(to)] /\ i - Len(to) \in 1..Len(rest)
    BY <1>1, <1>2, <1>5
  <2>2. Len(from) + (i - Len(to)) = i - Len(to) + Len(from)
    BY <1>1
  <2> QED BY <1>2, <2>1, <2>2
<1> QED BY <1>4, <1>5, <1>6, <1>7

LEMMA MovedBack ==
  ASSUME NEW from \in Named, NEW to \in Named, NEW q \in Named, IsPrefix(from, q)
  PROVE  IsPrefix(to, Moved(from, to, q)) /\ Moved(to, from, Moved(from, to, q)) = q
<1> DEFINE new == Moved(from, to, q)
           back == Moved(to, from, new)
<1>0. Len(from) \in Nat /\ Len(to) \in Nat /\ Len(q) \in Nat /\ Len(from) <= Len(q)
  BY PrefixIs DEF Named
<1>1. /\ new \in Named /\ Len(new) = Len(to) + Len(q) - Len(from)
      /\ \A i \in 1..Len(to) : new[i] = to[i]
      /\ \A i \in (Len(to) + 1)..Len(new) : new[i] = q[i - Len(to) + Len(from)]
  BY MovedIs
<1> HIDE DEF new
<1>2. IsPrefix(to, new)
  BY <1>0, <1>1, PrefixIs
<1>3. /\ back \in Named /\ Len(back) = Len(from) + Len(new) - Len(to)
      /\ \A i \in 1..Len(from) : back[i] = from[i]
      /\ \A i \in (Len(from) + 1)..Len(back) : back[i] = new[i - Len(from) + Len(to)]
  BY <1>1, <1>2, MovedIs
<1> HIDE DEF back
<1>4. Len(back) = Len(q)
  BY <1>0, <1>1, <1>3
<1>5. ASSUME NEW i \in 1..Len(q)  PROVE back[i] = q[i]
  <2>1. CASE i <= Len(from)
    BY <1>0, <1>3, <2>1, PrefixIs
  <2>2. CASE i > Len(from)
    <3>0. i \in (Len(from) + 1)..Len(back)
      BY <1>0, <1>4, <2>2
    <3>1. back[i] = new[i - Len(from) + Len(to)]
      BY <1>3, <3>0
    <3>2. i - Len(from) + Len(to) \in (Len(to) + 1)..Len(new)
      BY <1>0, <1>1, <2>2
    <3>3. (i - Len(from) + Len(to)) - Len(to) + Len(from) = i
      BY <1>0
    <3> QED BY <1>1, <3>1, <3>2, <3>3
  <2> QED BY <1>0, <2>1, <2>2
<1>6. back = q
  BY <1>3, <1>4, <1>5, SeqEqual DEF Named
<1> QED BY <1>2, <1>6 DEF new, back

-----------------------------------------------------------------------------
\* The calls of ForEach() are those of the members of its set.
LEMMA Listing ==
  ASSUME NEW S, IsFiniteSet(S)
  PROVE  SetToSeq(S) \in Seq(S)
<1>1. PICK f \in [1..Cardinality(S) -> S] : IsInjective(f)
  <2>1. ExistsBijection(1..Cardinality(S), S)
    BY FS_CardinalityType
  <2> QED BY <2>1 DEF ExistsBijection, Bijection, Injection, IsInjective
<1>2. SetToSeq(S) \in [1..Cardinality(S) -> S]
  BY <1>1 DEF SetToSeq
<1>3. Cardinality(S) \in Nat
  BY FS_CardinalityType
<1> QED BY <1>2, <1>3

-----------------------------------------------------------------------------
(***************************************************************************)
(* Paths.                                                                  *)
(***************************************************************************)
LEMMA PathNames == \A p \in Path : p \in Named /\ p # <<>> /\ Len(p) \in Nat \ {0}
<1> TAKE p \in Path
<1>1. p \in Seq(STRING) \ {<<>>}
  BY PathAssumption
<1> QED BY <1>1 DEF Named

LEMMA AboveIs ==
  ASSUME NEW p \in Named
  PROVE  \A x \in Named : x \in Above(p) <=> x # <<>> /\ x # p /\ IsPrefix(x, p)
<1>0. Len(p) \in Nat
  BY DEF Named
<1>1. ASSUME NEW n \in 1..(Len(p) - 1)
      PROVE  LET x == SubSeq(p, 1, n) IN x \in Named /\ Len(x) = n /\ IsPrefix(x, p) /\ x # <<>> /\ x # p
  <2> DEFINE x == SubSeq(p, 1, n)
  <2>1. x \in Named /\ Len(x) = n /\ \A i \in 1..n : x[i] = p[i]
    BY <1>0 DEF Named
  <2> HIDE DEF x
  <2>2. IsPrefix(x, p)
    BY <1>0, <2>1, PrefixIs
  <2>3. x # <<>> /\ x # p
    BY <1>0, <2>1
  <2> QED BY <2>1, <2>2, <2>3 DEF x
<1>2. ASSUME NEW x \in Named, x # <<>>, x # p, IsPrefix(x, p)  PROVE x \in Above(p)
  <2>1. Len(x) \in Nat /\ Len(x) <= Len(p) /\ \A i \in 1..Len(x) : x[i] = p[i]
    BY <1>2, PrefixIs DEF Named
  <2>2. Len(x) # 0
    BY <1>2 DEF Named
  <2>3. Len(x) # Len(p)
    BY <1>2, <2>1, SeqEqual DEF Named
  <2>4. Len(x) \in 1..(Len(p) - 1)
    BY <1>0, <2>1, <2>2, <2>3
  <2>5. SubSeq(p, 1, Len(x)) \in Seq(STRING) /\ Len(SubSeq(p, 1, Len(x))) = Len(x)
        /\ \A i \in 1..Len(x) : SubSeq(p, 1, Len(x))[i] = p[i]
    BY <1>0, <2>4 DEF Named
  <2>6. SubSeq(p, 1, Len(x)) = x
    BY <2>1, <2>5, SeqEqual DEF Named
  <2> QED BY <2>4, <2>6 DEF Above
<1> QED BY <1>1, <1>2 DEF Above

LEMMA AboveNames == \A p \in Named : Above(p) \subseteq Named
<1> TAKE p \in Named
<1> SUFFICES ASSUME NEW n \in 1..(Len(p) - 1)  PROVE SubSeq(p, 1, n) \in Named
  BY DEF Above
<1>1. Len(p) \in Nat
  BY DEF Named
<1> QED BY <1>1 DEF Named

\* A path is its folder and its name.
LEMMA SplitIs ==
  ASSUME NEW p \in Named, p # <<>>
  PROVE  /\ Front(p) \in Named /\ Last(p) \in STRING /\ Append(Front(p), Last(p)) = p
         /\ IsPrefix(Front(p), p) /\ Front(p) # p /\ Len(Front(p)) = Len(p) - 1
<1>0. Len(p) \in Nat \ {0}
  BY DEF Named
<1>1. Front(p) \in Named /\ Len(Front(p)) = Len(p) - 1 /\ \A i \in 1..(Len(p) - 1) : Front(p)[i] = p[i]
  <2> DEFINE n == Len(p) - 1
  <2>1. n \in Nat /\ n <= Len(p)
    BY <1>0
  <2> HIDE DEF n
  <2>2. /\ SubSeq(p, 1, n) \in Seq(STRING) /\ Len(SubSeq(p, 1, n)) = n
        /\ \A i \in 1..n : SubSeq(p, 1, n)[i] = p[i]
    BY <1>0, <2>1 DEF Named
  <2> QED BY <2>2 DEF Front, Named, n
<1>2. Last(p) \in STRING
  BY <1>0 DEF Last, Named
<1>3. /\ Append(Front(p), Last(p)) \in Named /\ Len(Append(Front(p), Last(p))) = Len(p)
      /\ \A i \in 1..Len(p) : Append(Front(p), Last(p))[i] = p[i]
  <2>1. /\ Append(Front(p), Last(p)) \in Named /\ Len(Append(Front(p), Last(p))) = Len(p)
        /\ \A i \in 1..(Len(p) - 1) : Append(Front(p), Last(p))[i] = Front(p)[i]
        /\ Append(Front(p), Last(p))[Len(p)] = Last(p)
    BY <1>0, <1>1, <1>2 DEF Named
  <2> QED BY <1>0, <1>1, <2>1 DEF Last
<1>4. Append(Front(p), Last(p)) = p
  BY <1>3, SeqEqual DEF Named
<1>5. IsPrefix(Front(p), p)
  BY <1>0, <1>1, PrefixIs
<1>6. Front(p) # p
  BY <1>0, <1>1
<1> QED BY <1>1, <1>2, <1>4, <1>5, <1>6

\* What is above it is its folder, or above that.
LEMMA AboveFront ==
  ASSUME NEW p \in Named, p # <<>>
  PROVE  /\ Front(p) # <<>> => Front(p) \in Above(p)
         /\ \A x \in Above(p) : x = Front(p) \/ x \in Above(Front(p))
<1>1. Front(p) # <<>> => Front(p) \in Above(p)
  BY SplitIs, AboveIs
<1>2. ASSUME NEW x \in Above(p), x # Front(p)  PROVE x \in Above(Front(p))
  <2>1. x \in Named /\ x # <<>> /\ x # p /\ IsPrefix(x, p)
    BY AboveIs, AboveNames
  <2>2. IsPrefix(x, Front(p)) \/ IsPrefix(Front(p), x)
    BY <2>1, SplitIs, PrefixOrder
  <2>3. CASE IsPrefix(Front(p), x) /\ ~IsPrefix(x, Front(p))
    <3>1. Len(p) \in Nat \ {0} /\ Len(x) \in Nat /\ Len(Front(p)) = Len(p) - 1
      BY <2>1, SplitIs DEF Named
    <3>2. Len(x) <= Len(p) /\ Len(Front(p)) <= Len(x) /\ \A i \in 1..Len(x) : x[i] = p[i]
      BY <2>1, <2>3, SplitIs, PrefixIs
    <3>3. \A i \in 1..Len(Front(p)) : Front(p)[i] = x[i]
      BY <2>1, <2>3, SplitIs, PrefixIs
    <3>4. Len(x) # Len(p)
      BY <2>1, <3>2, SeqEqual DEF Named
    <3>5. Len(x) = Len(Front(p))
      BY <3>1, <3>2, <3>4
    <3>6. x = Front(p)
      BY <2>1, <3>3, <3>5, SplitIs, SeqEqual DEF Named
    <3> QED BY <1>2, <3>6
  <2> QED BY <1>2, <2>1, <2>2, <2>3, SplitIs, AboveIs
<1> QED BY <1>1, <1>2

-----------------------------------------------------------------------------
(***************************************************************************)
(* The tree.                                                               *)
(***************************************************************************)
LEMMA Unlinked ==
  ASSUME Shaped, kind # "sftp", NEW p \in Named
  PROVE  Real(p) = p /\ Unfollowed(p) = p
<1>1. \A q \in Named : Real(q) = q
  BY DEF Shaped, Real, Links
<1>2. CASE p = <<>>
  BY <1>1, <1>2 DEF Unfollowed
<1>3. CASE p # <<>>
  BY <1>1, <1>3, SplitIs DEF Unfollowed
<1> QED BY <1>1, <1>2, <1>3

\* What has no link above it is itself.
LEMMA UnlinkedAt ==
  ASSUME NEW p \in Named, p # <<>>, \A l \in Path : file[l] = Link => ~IsPrefix(l, p)
  PROVE  Unfollowed(p) = p
<1>1. Links(Front(p)) = {}
  <2> SUFFICES ASSUME NEW n \in 1..Len(Front(p)), SubSeq(Front(p), 1, n) \in Path,
                      file[SubSeq(Front(p), 1, n)] = Link
               PROVE  FALSE
    BY DEF Links
  <2> DEFINE x == SubSeq(Front(p), 1, n)
  <2>1. Len(Front(p)) \in Nat /\ Front(p) \in Seq(STRING)
    BY SplitIs DEF Named
  <2>2. x \in Named /\ Len(x) = n /\ \A i \in 1..n : x[i] = Front(p)[i]
    BY <2>1 DEF Named
  <2> HIDE DEF x
  <2>3. IsPrefix(x, Front(p))
    BY <2>1, <2>2, SplitIs, PrefixIs
  <2>4. IsPrefix(x, p)
    BY <2>2, <2>3, SplitIs, PrefixOrder
  <2> QED BY <2>4 DEF x
<1>2. Real(Front(p)) = Front(p)
  BY <1>1 DEF Real
<1> QED BY <1>2, SplitIs DEF Unfollowed

LEMMA ImageIsFinite ==
  ASSUME NEW f, IsFiniteSet(DOMAIN f) PROVE IsFiniteSet({f[x] : x \in DOMAIN f})
<1> DEFINE g == [x \in DOMAIN f |-> f[x]]
<1>1. g \in Surjection(DOMAIN f, {f[x] : x \in DOMAIN f})
  BY DEF Surjection
<1> QED BY <1>1, FS_Surjection

LEMMA EntriesAre ==
  ASSUME NEW p \in Named
  PROVE  /\ AreRows(Entries(p)) /\ \A e \in Entries(p) : IsPrefix(p, e.path)
         /\ \A e \in Entries(p) : \E q \in Path : e.path = Append(p, Last(q))
<1> DEFINE Entry(q, node) == [path |-> Append(p, Last(q)), node |-> node]
           here == Children(Real(p))
           A == {q \in here : IsFile(q)}
           B == {q \in here : IsDir(q)}
<1>1. Entries(p) = {Entry(q, file[q]) : q \in A} \cup {Entry(q, Dir) : q \in B}
  BY DEF Entries
<1>2. IsFiniteSet(A) /\ IsFiniteSet(B)
  <2>1. A \subseteq Path /\ B \subseteq Path
    BY DEF Children
  <2> QED BY <2>1, PathAssumption, FS_Subset
<1>3. IsFiniteSet({Entry(q, file[q]) : q \in A})
  <2> DEFINE f == [q \in A |-> Entry(q, file[q])]
  <2>1. DOMAIN f = A /\ {f[q] : q \in DOMAIN f} = {Entry(q, file[q]) : q \in A}
    OBVIOUS
  <2> HIDE DEF f
  <2> QED BY <1>2, <2>1, ImageIsFinite
<1>4. IsFiniteSet({Entry(q, Dir) : q \in B})
  <2> DEFINE f == [q \in B |-> Entry(q, Dir)]
  <2>1. DOMAIN f = B /\ {f[q] : q \in DOMAIN f} = {Entry(q, Dir) : q \in B}
    OBVIOUS
  <2> HIDE DEF f
  <2> QED BY <1>2, <2>1, ImageIsFinite
<1>5. IsFiniteSet(Entries(p))
  <2> DEFINE X == {Entry(q, file[q]) : q \in A}
             Y == {Entry(q, Dir) : q \in B}
  <2>1. Entries(p) = X \cup Y /\ IsFiniteSet(X) /\ IsFiniteSet(Y)
    BY <1>1, <1>3, <1>4
  <2> HIDE DEF X, Y
  <2> QED BY <2>1, FS_Union
<1>6. ASSUME NEW q \in Path  PROVE Append(p, Last(q)) \in Named /\ IsPrefix(p, Append(p, Last(q)))
  <2>1. Last(q) \in STRING
    BY PathNames, SplitIs
  <2> DEFINE x == Append(p, Last(q))
  <2>2. x \in Named /\ Len(x) = Len(p) + 1 /\ \A i \in 1..Len(p) : x[i] = p[i]
    BY <2>1 DEF Named
  <2> HIDE DEF x
  <2>3. Len(p) \in Nat /\ Len(p) <= Len(p) + 1
    BY DEF Named
  <2>4. IsPrefix(p, x)
    BY <2>2, <2>3, PrefixIs
  <2> QED BY <2>2, <2>4 DEF x
<1>7. \A e \in Entries(p) : \E q \in Path : e.path = Append(p, Last(q))
  BY <1>1 DEF Children
<1> QED BY <1>5, <1>6, <1>7 DEF AreRows

\* Where a file may be made there are directories above it.
LEMMA MayBeMade ==
  ASSUME Shaped, kind # "s3", NEW p \in Path, IsDir(Front(p))
  PROVE  Above(p) \subseteq dirs
<1> SUFFICES ASSUME NEW x \in Above(p)  PROVE x \in dirs
  OBVIOUS
<1>0. p \in Named /\ p # <<>> /\ x # <<>>
  BY PathNames, AboveIs, AboveNames
<1>1. Front(p) # <<>> => Front(p) \in dirs /\ Above(Front(p)) \subseteq dirs
  BY <1>0, PathNames DEF IsDir, Shaped
<1>2. x = Front(p) \/ x \in Above(Front(p))
  BY <1>0, AboveFront
<1>3. Front(p) = <<>> => Above(Front(p)) = {}
  BY DEF Above
<1> QED BY <1>0, <1>1, <1>2, <1>3

LEMMA MakeShape ==
  ASSUME Shaped, kind # "s3", NEW at \in Path, ~Exists(at), IsDir(Front(at)),
         UNCHANGED <<kind, file>>, dirs' = dirs \cup {at}
  PROVE  Shaped'
<1>1. ~IsFile(at) /\ Above(at) \subseteq dirs
  BY MayBeMade DEF Exists
<1> QED BY <1>1 DEF Shaped, IsFile

\* A file where there are directories above.
LEMMA FileShape ==
  ASSUME Shaped, NEW at \in Path, kind = "s3" \/ (IsDir(Front(at)) /\ ~IsDir(at)),
         UNCHANGED <<kind, dirs>>, NEW f, f.kind = "file", file' = [file EXCEPT ![at] = f]
  PROVE  Shaped'
<1>0. DOMAIN file' = Path /\ file'[at] = f /\ \A p \in Path \ {at} : file'[p] = file[p]
  BY DEF Shaped
<1>1. f # Link
  BY DEF Link, Node
<1>2. kind # "s3" => at \notin dirs /\ Above(at) \subseteq dirs
  BY MayBeMade DEF IsDir
<1> QED BY <1>0, <1>1, <1>2 DEF Shaped, IsFile

\* What is removed where nothing is below it.
LEMMA RemovalShape ==
  ASSUME Shaped, UNCHANGED kind, NEW gone, DOMAIN file' = Path,
         \A p \in Path : file'[p] = file[p] \/ (p \in gone /\ file'[p] = None),
         dirs' \subseteq dirs, dirs \subseteq dirs' \cup gone,
         kind # "s3" => \A p \in Path : p \in dirs' \/ IsFile(p)' => Above(p) \cap gone \cap dirs = {}
  PROVE  Shaped'
<1>1. \A p \in Path : file'[p].kind \in {"none", "file", "symlink"} /\ (file[p] # Link => file'[p] # Link)
  BY DEF Shaped, None, Link, Node
<1>2. ASSUME kind # "s3", NEW p \in Path
      PROVE  /\ ~(p \in dirs' /\ IsFile(p)')
             /\ p \in dirs' \/ IsFile(p)' => Above(p) \subseteq dirs'
  <2>1. (IsFile(p)' => IsFile(p)) /\ (p \in dirs' => p \in dirs)
    BY DEF IsFile
  <2>2. p \in dirs' \/ IsFile(p)' => Above(p) \subseteq dirs
    BY <1>2, <2>1 DEF Shaped
  <2>3. ~(p \in dirs /\ IsFile(p))
    BY <1>2 DEF Shaped
  <2> QED BY <1>2, <2>1, <2>2, <2>3
<1> QED BY <1>1, <1>2 DEF Shaped

\* On the way to what is below a folder there is an entry of the folder.
LEMMA ChildBetween ==
  ASSUME NEW at \in Named, NEW p \in Named, IsPrefix(at, p), at # p
  PROVE  \E c \in Named : c # <<>> /\ Front(c) = at /\ IsPrefix(c, p) /\ (c = p \/ c \in Above(p))
<1> DEFINE c == SubSeq(p, 1, Len(at) + 1)
<1>0. Len(at) \in Nat /\ Len(p) \in Nat /\ Len(at) <= Len(p) /\ \A i \in 1..Len(at) : at[i] = p[i]
  BY PrefixIs DEF Named
<1>1. Len(at) # Len(p)
  BY <1>0, SeqEqual DEF Named
<1>2. Len(at) + 1 \in Nat /\ Len(at) + 1 <= Len(p)
  BY <1>0, <1>1
<1>3. c \in Named /\ Len(c) = Len(at) + 1 /\ \A i \in 1..(Len(at) + 1) : c[i] = p[i]
  BY <1>0, <1>2 DEF Named
<1> HIDE DEF c
<1>4. c # <<>>
  BY <1>0, <1>3
<1>5. IsPrefix(c, p)
  BY <1>0, <1>2, <1>3, PrefixIs
<1>6. Front(c) = at
  <2>1. Front(c) \in Named /\ Len(Front(c)) = Len(at) /\ IsPrefix(Front(c), c)
    BY <1>0, <1>3, <1>4, SplitIs
  <2>2. \A i \in 1..Len(at) : Front(c)[i] = c[i]
    BY <1>3, <2>1, PrefixIs
  <2>3. \A i \in 1..Len(at) : Front(c)[i] = at[i]
    BY <1>0, <1>3, <2>2
  <2> QED BY <2>1, <2>3, SeqEqual DEF Named
<1>7. c = p \/ c \in Above(p)
  BY <1>3, <1>4, <1>5, AboveIs
<1> QED BY <1>3, <1>4, <1>5, <1>6, <1>7

\* A directory that has no entries has nothing below it.
LEMMA EmptyBelow ==
  ASSUME Shaped, kind # "s3", NEW at \in Named, Real(at) = at, Entries(at) = {}
  PROVE  \A q \in Below(at) : ~IsFile(q) /\ q \notin dirs
<1> SUFFICES ASSUME NEW q \in Path, IsPrefix(at, q), q # at, IsFile(q) \/ q \in dirs  PROVE FALSE
  BY DEF Below, AtOrBelow
<1>0. q \in Named
  BY PathNames
<1>1. PICK c \in Named : c # <<>> /\ Front(c) = at /\ (c = q \/ c \in Above(q))
  BY <1>0, ChildBetween
<1>2. c \in Path /\ (IsFile(c) \/ c \in dirs)
  BY <1>1 DEF Shaped
<1>3. c \in Children(Real(at)) /\ (IsFile(c) \/ IsDir(c))
  BY <1>1, <1>2 DEF Children, IsDir
<1>4. \E e : e \in Entries(at)
  BY <1>3 DEF Entries
<1> QED BY <1>4

LEMMA RmdirShape ==
  ASSUME Shaped, kind # "s3", NEW at \in dirs, Entries(at) = {}, UNCHANGED <<kind, file>>, dirs' = dirs \ {at}
  PROVE  Shaped'
<1>0. at \in Path /\ at \in Named /\ at # <<>>
  BY PathNames DEF Shaped
<1>1. Links(at) = {}
  <2> SUFFICES ASSUME NEW n \in 1..Len(at), SubSeq(at, 1, n) \in Path, file[SubSeq(at, 1, n)] = Link
               PROVE  FALSE
    BY DEF Links
  <2>0. Len(at) \in Nat /\ at \in Seq(STRING)
    BY <1>0 DEF Named
  <2>1. SubSeq(at, 1, n) = at \/ SubSeq(at, 1, n) \in Above(at)
    <3>1. CASE n = Len(at)
      <4>1. SubSeq(at, 1, Len(at)) = at
        BY <2>0
      <4> QED BY <3>1, <4>1
    <3>2. CASE n # Len(at)
      <4>1. n \in 1..(Len(at) - 1)
        BY <2>0, <3>2
      <4> QED BY <4>1 DEF Above
    <3> QED BY <3>1, <3>2
  <2>2. SubSeq(at, 1, n) \in dirs
    BY <1>0, <2>1 DEF Shaped
  <2> QED BY <2>2 DEF Shaped, IsFile, Link, None, Node
<1>2. \A q \in Below(at) : ~IsFile(q) /\ q \notin dirs
  BY <1>0, <1>1, EmptyBelow DEF Real
<1>3. ASSUME NEW p \in Path, p \in dirs' \/ IsFile(p)'  PROVE at \notin Above(p)
  <2>1. p \in dirs \/ IsFile(p)
    BY <1>3 DEF IsFile
  <2>2. at \in Above(p) => p \in Below(at)
    BY <1>0, PathNames, AboveIs DEF Below, AtOrBelow
  <2> QED BY <1>2, <2>1, <2>2
<1>4. DOMAIN file' = Path
  BY DEF Shaped
<1> QED BY <1>3, <1>4, RemovalShape

LEMMA DeleteShape ==
  ASSUME Shaped, kind # "s3", NEW p \in Named, UNCHANGED kind,
         file' = [q \in Path |-> IF IsPrefix(p, q) THEN None ELSE file[q]], dirs' = dirs \ AtOrBelow(p)
  PROVE  Shaped'
<1> DEFINE gone == AtOrBelow(p)
<1>1. ASSUME NEW q \in Path, q \in dirs' \/ IsFile(q)', NEW x \in Above(q), x \in gone  PROVE FALSE
  <2>1. q \in Named /\ x \in Named /\ IsPrefix(x, q)
    BY PathNames, AboveIs, AboveNames
  <2>2. IsPrefix(p, q)
    BY <1>1, <2>1, PrefixOrder DEF AtOrBelow
  <2> QED BY <1>1, <2>2 DEF IsFile, AtOrBelow
<1>2. /\ DOMAIN file' = Path
      /\ \A q \in Path : file'[q] = file[q] \/ (q \in gone /\ file'[q] = None)
      /\ dirs' \subseteq dirs /\ dirs \subseteq dirs' \cup gone
  BY DEF AtOrBelow
<1> HIDE DEF gone
<1> QED BY <1>1, <1>2, RemovalShape

\* A rename takes what is at and below the old name to the new one.
LEMMA MoveShape ==
  ASSUME Shaped, kind # "s3", NEW from \in Named, NEW to \in Named, Exists(from), IsDir(Front(to)),
         ~IsPrefix(from, to), Exists(to) => ~IsPrefix(to, from), UNCHANGED kind,
         file' = [q \in Path |-> IF IsPrefix(to, q)
                                 THEN (IF Moved(to, from, q) \in Path THEN file[Moved(to, from, q)] ELSE None)
                                 ELSE IF IsPrefix(from, q) THEN None ELSE file[q]],
         dirs' = {q \in Path : IF IsPrefix(to, q) THEN Moved(to, from, q) \in dirs
                               ELSE q \in dirs /\ ~IsPrefix(from, q)}
  PROVE  Shaped'
<1>0. \A p \in Path : Above(p) \subseteq Path
  BY PathAssumption DEF Above
<1>1. from # <<>> /\ to # <<>>
  <2>0. <<>> \in Named /\ Len(<<>>) = 0
    BY DEF Named
  <2>1. IsPrefix(<<>>, from) /\ IsPrefix(<<>>, to)
    <3>1. Len(from) \in Nat /\ Len(to) \in Nat
      BY DEF Named
    <3> QED BY <2>0, <3>1, PrefixIs
  <2> QED BY <2>1 DEF Exists, IsDir
<1>2. \A p \in Path : p \in dirs \/ IsFile(p) => Above(p) \subseteq dirs /\ ~(p \in dirs /\ IsFile(p))
  BY DEF Shaped
<1>3. ASSUME NEW q \in Path, IsPrefix(to, q), q \in dirs' \/ IsFile(q)'
      PROVE  Above(q) \subseteq dirs' /\ ~(q \in dirs' /\ IsFile(q)')
  <2> DEFINE old == Moved(to, from, q)
  <2>0. q \in Named
    BY PathNames
  <2>1. old \in Path /\ (old \in dirs \/ IsFile(old))
    BY <1>3 DEF IsFile, Shaped
  <2>2. ~(q \in dirs' /\ IsFile(q)')
    BY <1>2, <1>3, <2>1 DEF IsFile
  <2>3. ASSUME NEW x \in Above(q)  PROVE x \in dirs'
    <3>0. x \in Named /\ x # <<>> /\ x # q /\ IsPrefix(x, q) /\ x \in Path
      BY <1>0, <2>0, AboveIs, AboveNames
    <3>1. CASE IsPrefix(to, x)
      <4> DEFINE y == Moved(to, from, x)
      <4>1. y \in Above(old)
        <5>0. /\ Len(to) \in Nat /\ Len(from) \in Nat \ {0} /\ Len(x) \in Nat /\ Len(q) \in Nat
              /\ Len(to) <= Len(x) /\ Len(x) <= Len(q) /\ \A i \in 1..Len(x) : x[i] = q[i]
          BY <1>1, <2>0, <3>0, <3>1, PrefixIs DEF Named
        <5>1. Len(x) # Len(q)
          BY <2>0, <3>0, <5>0, SeqEqual DEF Named
        <5>2. /\ y \in Named /\ Len(y) = Len(from) + Len(x) - Len(to)
              /\ \A i \in 1..Len(from) : y[i] = from[i]
              /\ \A i \in (Len(from) + 1)..Len(y) : y[i] = x[i - Len(from) + Len(to)]
          BY <3>0, <3>1, MovedIs
        <5>3. /\ old \in Named /\ Len(old) = Len(from) + Len(q) - Len(to)
              /\ \A i \in 1..Len(from) : old[i] = from[i]
              /\ \A i \in (Len(from) + 1)..Len(old) : old[i] = q[i - Len(from) + Len(to)]
          BY <1>3, <2>0, MovedIs
        <5> HIDE DEF y, old
        <5>4. Len(y) <= Len(old) /\ y # old /\ y # <<>>
          BY <5>0, <5>1, <5>2, <5>3
        <5>5. ASSUME NEW i \in 1..Len(y)  PROVE y[i] = old[i]
          <6>1. CASE i <= Len(from)
            BY <5>0, <5>2, <5>3, <6>1
          <6>2. CASE i > Len(from)
            <7>1. i \in (Len(from) + 1)..Len(y) /\ i \in (Len(from) + 1)..Len(old)
              BY <5>0, <5>2, <5>3, <5>4, <6>2
            <7>2. i - Len(from) + Len(to) \in 1..Len(x)
              BY <5>0, <5>2, <7>1
            <7> QED BY <5>0, <5>2, <5>3, <7>1, <7>2
          <6> QED BY <5>0, <6>1, <6>2
        <5>6. IsPrefix(y, old)
          BY <5>2, <5>3, <5>4, <5>5, PrefixIs
        <5> QED BY <5>2, <5>3, <5>4, <5>6, AboveIs
      <4>2. y \in dirs
        BY <1>2, <2>1, <4>1
      <4> QED BY <3>0, <3>1, <4>2
    <3>2. CASE ~IsPrefix(to, x)
      <4>1. IsPrefix(x, to)
        BY <1>3, <2>0, <3>0, <3>2, PrefixOrder
      <4>2. x \in Above(to)
        BY <3>0, <3>2, <4>1, AboveIs, PrefixOrder
      <4>3. to \in Path
        BY <1>0, <1>1, <1>3, <2>0, AboveIs
      <4>4. x \in dirs
        BY <4>2, <4>3, MayBeMade
      <4>5. ~IsPrefix(from, x)
        BY <3>0, <4>1, PrefixOrder
      <4> QED BY <3>0, <3>2, <4>4, <4>5
    <3> QED BY <3>1, <3>2
  <2> QED BY <2>2, <2>3
<1>4. ASSUME NEW q \in Path, ~IsPrefix(to, q), q \in dirs' \/ IsFile(q)'
      PROVE  Above(q) \subseteq dirs' /\ ~(q \in dirs' /\ IsFile(q)')
  <2>0. q \in Named
    BY PathNames
  <2>1. ~IsPrefix(from, q) /\ (q \in dirs' => q \in dirs) /\ (IsFile(q)' => IsFile(q))
    BY <1>4 DEF IsFile
  <2>2. ASSUME NEW x \in Above(q)  PROVE x \in dirs'
    <3>0. x \in Named /\ IsPrefix(x, q) /\ x \in dirs /\ x \in Path
      BY <1>0, <1>2, <1>4, <2>0, <2>1, AboveIs, AboveNames
    <3>1. ~IsPrefix(to, x) /\ ~IsPrefix(from, x)
      BY <1>4, <2>0, <2>1, <3>0, PrefixOrder
    <3> QED BY <3>0, <3>1
  <2> QED BY <1>2, <1>4, <2>1, <2>2
<1>5. \A q \in Path : \/ file'[q] = None
                      \/ \E p \in Path : file'[q] = file[p]
  OBVIOUS
<1>6. DOMAIN file' = Path /\ dirs' \subseteq Path
  OBVIOUS
<1>7. \A q \in Path : /\ file'[q].kind \in {"none", "file", "symlink"}
                      /\ kind # "sftp" => file'[q] # Link
  BY <1>5 DEF Shaped, None, Link, Node
<1> QED BY <1>3, <1>4, <1>6, <1>7 DEF Shaped

\* The requests that change nothing: looks, and what is refused.
LEMMA OnlyLooks ==
  ASSUME NEW o, NEW r, r.ask \in AskNames,
         r.ask \in {"probe", "look", "head", "isPrefix", "listAllKeys", "check"} \/ Served(o, r).ends # "ok"
  PROVE  Served(o, r).file = file /\ Served(o, r).dirs = dirs
BY DEF AskNames, Served, Make, Probe, Mark, Look, Unlink, Rmdir, Head1, DeleteKey, IsPrefixOf, MoveKeys, CopyKey,
       Check, Delete, Move, Refused, Then, Answer

\* A request that is right for its operation keeps the tree in shape.
LEMMA RequestShape ==
  ASSUME Shaped, NEW o \in Op, NEW r \in Req, RightAsk(o, r), HasPlace(r, Served(o, r).dirs),
         file' = Served(o, r).file, dirs' = Served(o, r).dirs, UNCHANGED kind
  PROVE  Shaped'
<1>0. r.ask \in AskNames /\ r.path \in Named /\ r.to \in Named /\ dirs' \subseteq Path /\ DOMAIN file = Path
  BY DEF Op, RightAsk, RemovalAsk, RenameAsk, AskNames, Req, HasPlace, Shaped
<1>1. CASE UNCHANGED <<file, dirs>>
  BY <1>1 DEF Shaped, IsFile
<1>2. CASE r.ask = "make" /\ ~UNCHANGED <<file, dirs>>
  <2>1. kind # "s3"
    BY <1>2 DEF Op, RightAsk, RemovalAsk, RenameAsk
  <2>2. PICK at : /\ at = Unfollowed(r.path) /\ ~Exists(at) /\ IsDir(Front(at))
                  /\ dirs' = dirs \cup {at} /\ file' = file
    BY <1>2 DEF Served, Make, Refused, Answer
  <2>3. at \in Path
    BY <1>0, <2>2
  <2> QED BY <2>1, <2>2, <2>3, MakeShape
<1>3. CASE r.ask = "mark"
  <2>1. kind = "s3" /\ dirs' = dirs \cup {r.path} /\ file' = file
    BY <1>3 DEF Op, RightAsk, RemovalAsk, RenameAsk, Served, Mark, Answer
  <2> QED BY <1>0, <2>1 DEF Shaped
<1>4. CASE r.ask = "unlink" /\ ~UNCHANGED <<file, dirs>>
  <2>1. kind # "s3"
    BY <1>4 DEF Op, RightAsk, RemovalAsk, RenameAsk
  <2>2. PICK at : IsFile(at) /\ file' = [file EXCEPT ![at] = None] /\ dirs' = dirs
    BY <1>4 DEF Served, Unlink, Refused, Answer
  <2>3. at \in Path /\ at \notin dirs
    BY <2>1, <2>2 DEF Shaped, IsFile
  <2>4. DOMAIN file' = Path /\ \A p \in Path : file'[p] = file[p] \/ (p \in {at} /\ file'[p] = None)
    BY <1>0, <2>2, <2>3
  <2>5. dirs' \subseteq dirs /\ dirs \subseteq dirs' \cup {at}
        /\ \A p \in Path : Above(p) \cap {at} \cap dirs = {}
    BY <2>2, <2>3
  <2> QED BY <2>4, <2>5, RemovalShape
<1>5. CASE r.ask = "rmdir" /\ ~UNCHANGED <<file, dirs>>
  <2>1. kind # "s3"
    BY <1>5 DEF Op, RightAsk, RemovalAsk, RenameAsk
  <2>2. PICK at : at \in dirs /\ Entries(at) = {} /\ dirs' = dirs \ {at} /\ file' = file
    BY <1>5 DEF Served, Rmdir, Refused, Answer
  <2> QED BY <2>1, <2>2, RmdirShape
<1>6. CASE r.ask = "deleteKey"
  <2>1. kind = "s3"
    BY <1>6 DEF Op, RightAsk, RemovalAsk, RenameAsk
  <2>2. \/ file' = file /\ dirs' = dirs \ {r.path}
        \/ file' = [file EXCEPT ![r.path] = None] /\ dirs' = dirs
    BY <1>6 DEF Served, DeleteKey, Answer
  <2>3. /\ DOMAIN file' = Path
        /\ \A p \in Path : file'[p] = file[p] \/ (p \in {r.path} /\ file'[p] = None)
    BY <1>0, <2>2
  <2> QED BY <2>1, <2>2, <2>3, RemovalShape
<1>7. CASE r.ask = "copyKey" /\ ~UNCHANGED <<file, dirs>>
  <2>1. kind = "s3" /\ r.to \in Path
    BY <1>7 DEF Op, RightAsk, RemovalAsk, RenameAsk, HasPlace
  <2>2. \/ file' = file
        \/ file' = [file EXCEPT ![r.to] = file[r.path]] /\ r.path \in Path
    BY <1>7 DEF Served, CopyKey, Refused, Answer, IsFile
  <2> QED BY <1>0, <2>1, <2>2 DEF Shaped
<1>8. CASE r.ask = "delete" /\ ~UNCHANGED <<file, dirs>>
  <2>1. kind # "s3"
    BY <1>8 DEF Op, RightAsk, RemovalAsk, RenameAsk
  <2>2. /\ file' = [q \in Path |-> IF IsPrefix(r.path, q) THEN None ELSE file[q]]
        /\ dirs' = dirs \ AtOrBelow(r.path)
    BY <1>8 DEF Served, Delete, Refused, Answer
  <2> QED BY <1>0, <2>1, <2>2, DeleteShape
<1>9. CASE r.ask = "move" /\ ~UNCHANGED <<file, dirs>>
  <2> DEFINE from == r.path  to == r.to
  <2>1. kind # "s3"
    BY <1>9 DEF Op, RightAsk, RemovalAsk, RenameAsk
  <2>2. /\ Exists(from) /\ IsDir(Front(to)) /\ ~IsPrefix(from, to) /\ (Exists(to) => ~IsPrefix(to, from))
        /\ file' = [q \in Path |-> IF IsPrefix(to, q)
                                 THEN (IF Moved(to, from, q) \in Path THEN file[Moved(to, from, q)] ELSE None)
                                 ELSE IF IsPrefix(from, q) THEN None ELSE file[q]]
        /\ dirs' = {q \in Path : IF IsPrefix(to, q) THEN Moved(to, from, q) \in dirs
                               ELSE q \in dirs /\ ~IsPrefix(from, q)}
    BY <1>9 DEF Served, Move, Refused, Then, Answer
  <2> QED BY <1>0, <2>1, <2>2, MoveShape
<1> QED
  BY <1>0, <1>1, <1>2, <1>3, <1>4, <1>5, <1>6, <1>7, <1>8, <1>9, OnlyLooks DEF AskNames

-----------------------------------------------------------------------------
(***************************************************************************)
(* What is asked next.                                                     *)
(***************************************************************************)
LEMMA KeysAre ==
  ASSUME NEW p \in Named
  PROVE  /\ IsFiniteSet(KeysUnder(p))
         /\ \A k \in KeysUnder(p) : /\ k.path \in Path /\ k.path \in Named /\ k.marker \in BOOLEAN
                                    /\ IsPrefix(p, k.path)
<1> DEFINE A == {q \in Below(p) : file[q] # None}
           B == AtOrBelow(p) \cap dirs
           TheKey(q, m) == [path |-> q, marker |-> m]
<1>1. IsFiniteSet(A) /\ IsFiniteSet(B)
  <2>1. A \subseteq Path /\ B \subseteq Path
    BY DEF Below, AtOrBelow
  <2> QED BY <2>1, PathAssumption, FS_Subset
<1>2. IsFiniteSet({TheKey(q, FALSE) : q \in A})
  <2> DEFINE f == [q \in A |-> TheKey(q, FALSE)]
  <2>1. f \in Surjection(A, {TheKey(q, FALSE) : q \in A})
    BY DEF Surjection
  <2> QED BY <1>1, <2>1, FS_Surjection
<1>3. IsFiniteSet({TheKey(q, TRUE) : q \in B})
  <2> DEFINE f == [q \in B |-> TheKey(q, TRUE)]
  <2>1. f \in Surjection(B, {TheKey(q, TRUE) : q \in B})
    BY DEF Surjection
  <2> QED BY <1>1, <2>1, FS_Surjection
<1>4. KeysUnder(p) = {TheKey(q, FALSE) : q \in A} \cup {TheKey(q, TRUE) : q \in B}
  BY DEF KeysUnder
<1>5. IsFiniteSet(KeysUnder(p))
  BY <1>2, <1>3, <1>4, FS_Union
<1>6. \A q \in A \cup B : q \in Path /\ q \in Named /\ IsPrefix(p, q)
  BY PathNames DEF Below, AtOrBelow
<1>7. \A k \in KeysUnder(p) : \E q \in A \cup B, m \in BOOLEAN : k = TheKey(q, m)
  BY <1>4
<1> QED BY <1>5, <1>6, <1>7

LEMMA EachIs ==
  ASSUME NEW keys, IsFiniteSet(keys), NEW from, NEW to, NEW what
  PROVE  LET s == SetToSeq(keys)
             each == AskEach(what, keys, from, to)
         IN  /\ Len(s) \in Nat /\ DOMAIN s = 1..Len(s) /\ \A i \in 1..Len(s) : s[i] \in keys
             /\ each = [i \in 1..Len(s) |->
                          Ask(what, s[i].path, Moved(from, to, s[i].path), s[i].marker)]
<1>1. SetToSeq(keys) \in Seq(keys)
  BY Listing
<1>2. Len(SetToSeq(keys)) \in Nat /\ DOMAIN SetToSeq(keys) = 1..Len(SetToSeq(keys))
      /\ \A i \in 1..Len(SetToSeq(keys)) : SetToSeq(keys)[i] \in keys
  BY <1>1
<1>3. AskEach(what, keys, from, to) =
        [i \in DOMAIN SetToSeq(keys) |-> Ask(what, SetToSeq(keys)[i].path,
           Moved(from, to, SetToSeq(keys)[i].path), SetToSeq(keys)[i].marker)]
  BY DEF AskEach, ForEach
<1> QED BY <1>2, <1>3

\* The requests for each key are requests, about that key.
LEMMA EachAsks ==
  ASSUME NEW p \in Named, NEW from \in Named, NEW to \in Named, NEW what \in {"copyKey", "deleteKey"},
         \A k \in KeysUnder(p) : IsPrefix(from, k.path)
  PROVE  LET each == AskEach(what, KeysUnder(p), from, to)
         IN  /\ each \in Seq(Req)
             /\ \A i \in DOMAIN each : \E k \in KeysUnder(p) :
                  each[i] = Ask(what, k.path, Moved(from, to, k.path), k.marker)
<1> DEFINE s == SetToSeq(KeysUnder(p))
           each == AskEach(what, KeysUnder(p), from, to)
<1>1. /\ Len(s) \in Nat /\ \A i \in 1..Len(s) : s[i] \in KeysUnder(p)
      /\ each = [i \in 1..Len(s) |-> Ask(what, s[i].path, Moved(from, to, s[i].path), s[i].marker)]
  BY KeysAre, EachIs
<1>2. \A k \in KeysUnder(p) : Ask(what, k.path, Moved(from, to, k.path), k.marker) \in Req
  BY KeysAre, MovedIs DEF Ask, Req, AskNames
<1> HIDE DEF each, s
<1>3. each \in Seq(Req)
  BY <1>1, <1>2
<1>4. DOMAIN each = 1..Len(s)
  BY <1>1
<1>5. \A i \in DOMAIN each : \E k \in KeysUnder(p) :
                  each[i] = Ask(what, k.path, Moved(from, to, k.path), k.marker)
  BY <1>1, <1>4
<1> QED BY <1>3, <1>5 DEF each

AreRight(o, s) == s \in Seq(Req) /\ \A i \in DOMAIN s : RightAsk(o, s[i])

LEMMA RightTogether ==
  ASSUME NEW o, NEW s, NEW t, AreRight(o, s), AreRight(o, t)
  PROVE  AreRight(o, s \o t)
<1>1. /\ s \o t \in Seq(Req) /\ DOMAIN (s \o t) = 1..(Len(s) + Len(t)) /\ DOMAIN s = 1..Len(s)
      /\ DOMAIN t = 1..Len(t) /\ Len(s) \in Nat /\ Len(t) \in Nat
      /\ \A i \in 1..(Len(s) + Len(t)) : (s \o t)[i] = IF i <= Len(s) THEN s[i] ELSE t[i - Len(s)]
  BY DEF AreRight
<1>2. \A i \in DOMAIN (s \o t) : (\E j \in DOMAIN s : (s \o t)[i] = s[j]) \/ (\E j \in DOMAIN t : (s \o t)[i] = t[j])
  <2> TAKE i \in DOMAIN (s \o t)
  <2>1. CASE i <= Len(s)
    BY <1>1, <2>1
  <2>2. CASE i > Len(s)
    <3>1. i - Len(s) \in DOMAIN t /\ (s \o t)[i] = t[i - Len(s)]
      BY <1>1, <2>2
    <3> QED BY <3>1
  <2> QED BY <1>1, <2>1, <2>2
<1> QED BY <1>1, <1>2 DEF AreRight

LEMMA RightOne ==
  ASSUME NEW o, NEW r \in Req, RightAsk(o, r)
  PROVE  AreRight(o, <<r>>)
<1>1. <<r>> \in Seq(Req) /\ DOMAIN <<r>> = {1} /\ <<r>>[1] = r
  OBVIOUS
<1> QED BY <1>1 DEF AreRight

\* What a right request makes the operation ask next is right as well.
LEMMA MoreAsks ==
  ASSUME Shaped, NEW o \in Op, NEW r \in Req, RightAsk(o, r)
  PROVE  AreRight(o, Served(o, r).more)
<1>0. r.ask \in AskNames /\ r.path \in Named /\ r.to \in Named /\ o.path \in Named /\ o.to \in Named
  BY DEF Op, RightAsk, RemovalAsk, RenameAsk, AskNames, Req
<1>1. AreRight(o, <<>>)
  BY DEF AreRight
<1>2. \A q \in Named : /\ AskOf("mark", q) \in Req /\ AskOf("unlink", q) \in Req /\ AskOf("rmdir", q) \in Req
                       /\ AskOf("look", q) \in Req /\ AskOf("delete", q) \in Req /\ AskOf("deleteKey", q) \in Req
  BY DEF AskOf, Ask, Req, Named, AskNames
<1>3. r.ask \notin {"probe", "look", "head", "isPrefix", "listAllKeys", "check", "move"} => Served(o, r).more = <<>>
  BY <1>0 DEF AskNames, Served, Make, Mark, Unlink, Rmdir, DeleteKey, CopyKey, Delete, Refused, Answer
<1>4. CASE r.ask = "move"
  BY <1>1, <1>4 DEF Served, Move, Refused, Then, Answer
<1>5. CASE r.ask = "probe"
  <2>1. o.op = "mkdir" /\ kind = "s3"
    BY <1>5 DEF Op, RightAsk, RemovalAsk, RenameAsk
  <2>2. RightAsk(o, AskOf("mark", r.path))
    BY <2>1 DEF RightAsk, AskOf, Ask
  <2>3. Served(o, r).more \in {<<>>, <<AskOf("mark", r.path)>>}
    BY <1>5 DEF Served, Probe, Refused, Then, Answer
  <2> QED BY <1>0, <1>1, <1>2, <2>2, <2>3, RightOne
<1>6. CASE r.ask = "check"
  <2>1. o.op = "remove" /\ kind \notin {"s3", "sftp"} /\ RemovalAsk(o, r)
    BY <1>6 DEF Op, RightAsk, RemovalAsk, RenameAsk
  <2>2. RightAsk(o, AskOf("delete", r.path))
    BY <2>1 DEF RightAsk, RemovalAsk, AskOf, Ask
  <2>3. Served(o, r).more \in {<<>>, <<AskOf("delete", r.path)>>}
    BY <1>6 DEF Served, Check, Refused, Then, Answer
  <2> QED BY <1>0, <1>1, <1>2, <2>2, <2>3, RightOne
<1>7. CASE r.ask = "look"
  <2>1. o.op = "remove" /\ kind = "sftp" /\ IsPrefix(o.path, r.path) /\ (~o.recursive => r.path = o.path)
    BY <1>7 DEF Op, RightAsk, RemovalAsk, RenameAsk
  <2>2. RightAsk(o, AskOf("unlink", r.path)) /\ RightAsk(o, AskOf("rmdir", r.path))
    BY <2>1 DEF RightAsk, RemovalAsk, AskOf, Ask
  <2> DEFINE s == SetToSeq(Entries(r.path))
             each == [i \in DOMAIN s |-> AskOf("look", s[i].path)]
  <2>3. \/ Served(o, r).more \in {<<>>, <<AskOf("unlink", r.path)>>}
        \/ /\ Served(o, r).more = each \o <<AskOf("rmdir", r.path)>>
           /\ Entries(r.path) = {} \/ o.recursive
    BY <1>7 DEF Served, Look, Refused, Then, Answer, ForEach
  <2>4. s \in Seq(Entries(r.path))
    BY <1>0, EntriesAre, Listing DEF AreRows
  <2>5. ASSUME Entries(r.path) = {} \/ o.recursive  PROVE AreRight(o, each)
    <3>1. Len(s) \in Nat /\ DOMAIN s = 1..Len(s) /\ \A i \in 1..Len(s) : s[i] \in Entries(r.path)
      BY <2>4
    <3>2. \A e \in Entries(r.path) : e.path \in Named /\ IsPrefix(r.path, e.path)
      BY <1>0, EntriesAre DEF AreRows
    <3> HIDE DEF s
    <3>3. \A i \in 1..Len(s) : /\ AskOf("look", s[i].path) \in Req
                               /\ o.recursive => RightAsk(o, AskOf("look", s[i].path))
      <4> TAKE i \in 1..Len(s)
      <4>1. s[i].path \in Named /\ IsPrefix(o.path, s[i].path)
        BY <1>0, <2>1, <3>1, <3>2, PrefixOrder
      <4>2. AskOf("look", s[i].path) \in Req
        BY <1>2, <4>1
      <4>3. o.recursive => RightAsk(o, AskOf("look", s[i].path))
        BY <2>1, <4>1 DEF RightAsk, RemovalAsk, AskOf, Ask
      <4> QED BY <4>2, <4>3
    <3>4. Entries(r.path) = {} => Len(s) = 0
      BY <3>1
    <3>5. \A i \in 1..Len(s) : RightAsk(o, AskOf("look", s[i].path))
      BY <2>5, <3>3, <3>4, <3>1
    <3>6. each \in Seq(Req) /\ DOMAIN each = 1..Len(s)
      BY <3>1, <3>3
    <3> QED BY <3>1, <3>5, <3>6 DEF AreRight
  <2>6. AreRight(o, <<AskOf("unlink", r.path)>>) /\ AreRight(o, <<AskOf("rmdir", r.path)>>)
    BY <1>0, <1>2, <2>2, RightOne
  <2> HIDE DEF each
  <2> QED BY <1>1, <2>3, <2>5, <2>6, RightTogether
<1>8. CASE r.ask = "head"
  <2>1. o.op = "remove" /\ kind = "s3" /\ r.path = o.path
    BY <1>8 DEF Op, RightAsk, RemovalAsk, RenameAsk
  <2> DEFINE each == AskEach("deleteKey", KeysUnder(r.path), <<>>, <<>>)
  <2>2. \/ Served(o, r).more \in {<<>>, <<AskOf("deleteKey", r.path)>>}
        \/ /\ Served(o, r).more = each
           /\ o.recursive \/ \A k \in KeysUnder(r.path) : k.path = r.path
    BY <1>8 DEF Served, Head1, Refused, Then, Answer
  <2>3. RightAsk(o, AskOf("deleteKey", r.path))
    BY <1>0, <2>1, PrefixOrder DEF RightAsk, RemovalAsk, AskOf, Ask
  <2>4. AreRight(o, <<AskOf("deleteKey", r.path)>>)
    BY <1>0, <1>2, <2>3, RightOne
  <2>5. ASSUME o.recursive \/ \A k \in KeysUnder(r.path) : k.path = r.path
        PROVE  AreRight(o, each)
    <3>1. <<>> \in Named /\ \A k \in KeysUnder(r.path) : IsPrefix(<<>>, k.path)
      <4>1. <<>> \in Named /\ Len(<<>>) = 0
        BY DEF Named
      <4>2. \A k \in KeysUnder(r.path) : k.path \in Named /\ Len(k.path) \in Nat
        BY <1>0, KeysAre DEF Named
      <4> QED BY <4>1, <4>2, PrefixIs
    <3>2. /\ each \in Seq(Req)
          /\ \A i \in DOMAIN each : \E k \in KeysUnder(r.path) :
               each[i] = Ask("deleteKey", k.path, Moved(<<>>, <<>>, k.path), k.marker)
      BY <1>0, <3>1, EachAsks
    <3> HIDE DEF each
    <3>3. ASSUME NEW k \in KeysUnder(r.path), NEW x, x = Ask("deleteKey", k.path, Moved(<<>>, <<>>, k.path), k.marker)
          PROVE  RightAsk(o, x)
      <4>1. IsPrefix(o.path, k.path) /\ x.path = k.path /\ x.ask = "deleteKey"
        BY <1>0, <2>1, <3>3, KeysAre DEF Ask
      <4> QED BY <2>1, <2>5, <4>1 DEF RightAsk, RemovalAsk
    <3> QED BY <3>2, <3>3 DEF AreRight
  <2> HIDE DEF each
  <2> QED BY <1>1, <2>2, <2>4, <2>5
<1>9. CASE r.ask \in {"isPrefix", "listAllKeys"}
  <2>1. o.op = "rename" /\ kind = "s3" /\ r.path = o.path /\ r.to = o.to
    BY <1>9 DEF Op, RightAsk, RemovalAsk, RenameAsk
  <2>2. IsPrefix(o.path, o.path) /\ Moved(o.path, o.to, o.path) = o.to
    <3>1. IsPrefix(o.path, o.path)
      BY <1>0, PrefixOrder
    <3> DEFINE m == Moved(o.path, o.to, o.path)
    <3>0. o.path \in Named /\ o.to \in Named
      BY <1>0
    <3>2. /\ m \in Named /\ Len(m) = Len(o.to) + Len(o.path) - Len(o.path)
          /\ \A i \in 1..Len(o.to) : m[i] = o.to[i]
      BY <3>0, <3>1, MovedIs, ZenonT(60)
    <3> HIDE DEF m
    <3>3. Len(o.path) \in Nat /\ Len(o.to) \in Nat
      BY <1>0 DEF Named
    <3>4. Len(m) = Len(o.to) /\ \A i \in 1..Len(o.to) : m[i] = o.to[i]
      BY <3>2, <3>3
    <3>5. m \in Seq(STRING) /\ o.to \in Seq(STRING)
      BY <1>0, <3>2 DEF Named
    <3>6. m = o.to
      BY <3>4, <3>5, SeqEqual
    <3> QED BY <3>1, <3>6 DEF m
  <2>3. ASSUME NEW what \in {"listAllKeys", "copyKey", "deleteKey"}
        PROVE  AreRight(o, <<Ask(what, r.path, r.to, FALSE)>>)
    <3>1. Ask(what, r.path, r.to, FALSE) \in Req /\ RightAsk(o, Ask(what, r.path, r.to, FALSE))
      BY <1>0, <2>1, <2>2, <2>3 DEF Ask, Req, RightAsk, RenameAsk, AskNames
    <3> QED BY <3>1, RightOne
  <2>4. ASSUME NEW what \in {"copyKey", "deleteKey"}
        PROVE  AreRight(o, AskEach(what, KeysUnder(r.path), r.path, r.to))
    <3> DEFINE each == AskEach(what, KeysUnder(r.path), r.path, r.to)
    <3>1. \A k \in KeysUnder(r.path) : IsPrefix(r.path, k.path)
      BY <1>0, KeysAre
    <3>2. /\ each \in Seq(Req)
          /\ \A i \in DOMAIN each : \E k \in KeysUnder(r.path) :
               each[i] = Ask(what, k.path, Moved(r.path, r.to, k.path), k.marker)
      BY <1>0, <3>1, EachAsks
    <3> HIDE DEF each
    <3>3. ASSUME NEW k \in KeysUnder(r.path), NEW x, x = Ask(what, k.path, Moved(r.path, r.to, k.path), k.marker)
          PROVE  RightAsk(o, x)
      BY <2>1, <3>1, <3>3 DEF RightAsk, RenameAsk, Ask
    <3>4. AreRight(o, each)
      BY <3>2, <3>3 DEF AreRight
    <3> QED BY <3>4 DEF each
  <2>5. \/ Served(o, r).more = <<Ask("listAllKeys", r.path, r.to, FALSE)>>
        \/ Served(o, r).more = <<Ask("copyKey", r.path, r.to, FALSE), Ask("deleteKey", r.path, r.to, FALSE)>>
        \/ Served(o, r).more = AskEach("copyKey", KeysUnder(r.path), r.path, r.to)
                                 \o AskEach("deleteKey", KeysUnder(r.path), r.path, r.to)
    BY <1>9 DEF Served, IsPrefixOf, MoveKeys, Then, Answer
  <2>6. ASSUME NEW x \in Req, NEW y \in Req, AreRight(o, <<x>>), AreRight(o, <<y>>)
        PROVE  AreRight(o, <<x, y>>)
    <3>1. <<x, y>> \in Seq(Req) /\ DOMAIN <<x, y>> = {1, 2} /\ <<x, y>>[1] = x /\ <<x, y>>[2] = y
      OBVIOUS
    <3>2. 1 \in DOMAIN <<x>> /\ 1 \in DOMAIN <<y>> /\ <<x>>[1] = x /\ <<y>>[1] = y
      OBVIOUS
    <3>3. RightAsk(o, x) /\ RightAsk(o, y)
      BY <2>6, <3>2 DEF AreRight
    <3> QED BY <3>1, <3>3 DEF AreRight
  <2>7. Ask("copyKey", r.path, r.to, FALSE) \in Req /\ Ask("deleteKey", r.path, r.to, FALSE) \in Req
    BY <1>0 DEF Ask, Req, AskNames
  <2> QED BY <2>7, <2>3, <2>4, <2>5, <2>6, RightTogether
<1> QED BY <1>0, <1>1, <1>3, <1>4, <1>5, <1>6, <1>7, <1>8, <1>9

LEMMA FirstIs ==
  ASSUME NEW o \in Op
  PROVE  /\ AreRight(o, <<FirstAsk(o)>>) /\ Emptied(o, <<FirstAsk(o)>>) /\ Carried(o, <<FirstAsk(o)>>)
         /\ <<FirstAsk(o)>> # <<>>
<1> DEFINE r == FirstAsk(o)
<1>0. o.path \in Named /\ o.to \in Named /\ <<>> \in Named /\ IsPrefix(o.path, o.path)
  BY PrefixOrder DEF Op, Named
<1>1. r \in Req
  BY <1>0 DEF Op, FirstAsk, AskOf, Ask, Req, AskNames
<1>2. RightAsk(o, r)
  BY <1>0 DEF Op, FirstAsk, AskOf, Ask, RightAsk, RemovalAsk, RenameAsk
<1>3. r.ask = "delete" => o.recursive
  BY DEF Op, FirstAsk, AskOf, Ask
<1>4. o.op = "rename" => r.ask # "deleteKey"
  BY DEF FirstAsk, AskOf, Ask
<1> HIDE DEF r
<1>5. DOMAIN <<r>> = {1} /\ <<r>>[1] = r /\ <<r>> # <<>>
  OBVIOUS
<1>6. Emptied(o, <<r>>) /\ Carried(o, <<r>>)
  BY <1>3, <1>4, <1>5 DEF Emptied, Carried, Deletes1
<1> QED BY <1>1, <1>2, <1>5, <1>6, RightOne DEF r

\* The place of what is asked after a request has been served.
LEMMA RestIs ==
  ASSUME NEW more \in Seq(Req), NEW todo \in Seq(Req), todo # <<>>
  PROVE  LET rest == more \o Tail(todo)
             L == Len(more)
         IN  /\ rest \in Seq(Req) /\ DOMAIN rest = 1..(L + Len(todo) - 1) /\ L \in Nat
             /\ Len(todo) \in Nat \ {0} /\ DOMAIN todo = 1..Len(todo) /\ DOMAIN more = 1..L
             /\ \A i \in 1..L : rest[i] = more[i]
             /\ \A i \in (L + 1)..(L + Len(todo) - 1) : rest[i] = todo[i - L + 1]
             /\ rest # <<>> => more # <<>> \/ Tail(todo) # <<>>
<1> DEFINE tail == Tail(todo)
<1>1. /\ tail \in Seq(Req) /\ Len(tail) = Len(todo) - 1 /\ Len(todo) \in Nat \ {0} /\ Len(more) \in Nat
      /\ \A i \in 1..Len(tail) : tail[i] = todo[i + 1]
  OBVIOUS
<1> HIDE DEF tail
<1>2. /\ more \o tail \in Seq(Req) /\ Len(more \o tail) = Len(more) + Len(tail)
      /\ \A i \in 1..(Len(more) + Len(tail)) :
            (more \o tail)[i] = IF i <= Len(more) THEN more[i] ELSE tail[i - Len(more)]
  <2>1. tail \in Seq(Req) /\ more \in Seq(Req)
    BY <1>1
  <2> QED BY <2>1
<1>3. ASSUME NEW i \in (Len(more) + 1)..(Len(more) + Len(todo) - 1)  PROVE (more \o tail)[i] = todo[i - Len(more) + 1]
  <2>1. i - Len(more) \in 1..Len(tail) /\ ~(i <= Len(more)) /\ i \in 1..(Len(more) + Len(tail))
    BY <1>1
  <2> QED BY <1>1, <1>2, <2>1
<1>4. more \o tail # <<>> => more # <<>> \/ tail # <<>>
  BY <1>1
<1>5. \A i \in 1..Len(more) : (more \o tail)[i] = more[i]
  BY <1>1, <1>2
<1>6. DOMAIN (more \o tail) = 1..(Len(more) + Len(todo) - 1)
  BY <1>1, <1>2
<1> QED BY <1>1, <1>2, <1>3, <1>4, <1>5, <1>6 DEF tail

LEMMA RestIsRight ==
  ASSUME NEW o, NEW more, NEW todo, AreRight(o, more), AreRight(o, todo), todo # <<>>
  PROVE  AreRight(o, more \o Tail(todo))
<1>1. Tail(todo) \in Seq(Req) /\ \A i \in DOMAIN Tail(todo) : i + 1 \in DOMAIN todo /\ Tail(todo)[i] = todo[i + 1]
  BY DEF AreRight
<1>2. AreRight(o, Tail(todo))
  BY <1>1 DEF AreRight
<1> QED BY <1>2, RightTogether

\* A removal that is not recursive finds nothing below, and then removes that alone.
LEMMA EmptiedStep ==
  ASSUME Shaped, NEW o \in Op, NEW r \in Req, RightAsk(o, r), Served(o, r).ends = "ok",
         file' = Served(o, r).file, dirs' = Served(o, r).dirs, UNCHANGED kind,
         NEW todo, AreRight(o, todo)
  PROVE  Emptied(o, todo)'
<1> SUFFICES ASSUME o.op = "remove", ~o.recursive, NEW i \in DOMAIN todo, todo[i].ask = "delete",
                    NEW q \in Below(o.path)
             PROVE  ~IsFile(q)' /\ q \notin dirs'
  BY DEF Emptied, Below, AtOrBelow
<1>0. o.path \in Named
  BY DEF Op
<1>1. kind \notin {"sftp", "s3"} /\ r.path = o.path /\ r.ask \in {"check", "delete"}
  BY DEF AreRight, RightAsk, RemovalAsk
<1>2. CASE r.ask = "check"
  <2>1. Entries(o.path) = {} /\ file' = file /\ dirs' = dirs
    BY <1>1, <1>2 DEF Served, Check, Refused, Then, Answer
  <2>2. Real(o.path) = o.path
    BY <1>0, <1>1, Unlinked
  <2>3. ~IsFile(q) /\ q \notin dirs
    BY <1>0, <1>1, <2>1, <2>2, EmptyBelow
  <2> QED BY <2>1, <2>3 DEF IsFile
<1>3. CASE r.ask = "delete"
  BY <1>1, <1>3 DEF Served, Delete, Refused, Answer, IsFile, Below, AtOrBelow
<1> QED BY <1>1, <1>2, <1>3

\* A rename over S3 asks for the deletion of a key after its copy.
LEMMA CopiesFirst ==
  ASSUME NEW o \in Op, NEW r \in Req, RightAsk(o, r), o.op = "rename", kind = "s3",
         NEW i \in DOMAIN Served(o, r).more, NEW p, Deletes1(Served(o, r).more[i], p)
  PROVE  \E j \in 1..(i - 1) : Copies(Served(o, r).more[j], p)
<1>0. r.path \in Named /\ r.to \in Named
  BY DEF Req
<1>1. r.ask \in {"isPrefix", "listAllKeys", "copyKey", "deleteKey"}
  BY DEF RightAsk, RenameAsk
<1>2. CASE r.ask \in {"copyKey", "deleteKey"}
  <2>1. Served(o, r).more = <<>>
    BY <1>2 DEF Served, CopyKey, DeleteKey, Refused, Answer
  <2> QED BY <2>1
<1>3. CASE r.ask = "isPrefix"
  <2>1. Served(o, r).more \in {<<Ask("listAllKeys", r.path, r.to, FALSE)>>,
                               <<Ask("copyKey", r.path, r.to, FALSE), Ask("deleteKey", r.path, r.to, FALSE)>>}
    BY <1>3 DEF Served, IsPrefixOf, Then, Answer
  <2>2. CASE Served(o, r).more = <<Ask("listAllKeys", r.path, r.to, FALSE)>>
    BY <2>2 DEF Deletes1, Ask
  <2>3. CASE Served(o, r).more = <<Ask("copyKey", r.path, r.to, FALSE), Ask("deleteKey", r.path, r.to, FALSE)>>
    BY <2>3 DEF Deletes1, Copies, Ask
  <2> QED BY <2>1, <2>2, <2>3
<1>4. CASE r.ask = "listAllKeys"
  <2> DEFINE keys == KeysUnder(r.path)
             s == SetToSeq(keys)
             first == AskEach("copyKey", keys, r.path, r.to)
             second == AskEach("deleteKey", keys, r.path, r.to)
             L == Len(s)
  <2>1. Served(o, r).more = first \o second
    BY <1>4 DEF Served, MoveKeys, Then, Answer
  <2>2. /\ L \in Nat /\ \A k \in 1..L : s[k] \in keys
        /\ first = [k \in 1..L |-> Ask("copyKey", s[k].path, Moved(r.path, r.to, s[k].path), s[k].marker)]
        /\ second = [k \in 1..L |-> Ask("deleteKey", s[k].path, Moved(r.path, r.to, s[k].path), s[k].marker)]
    BY <1>0, KeysAre, EachIs
  <2>3. first \in Seq(Req) /\ second \in Seq(Req)
    BY <1>0, KeysAre, EachAsks
  <2> HIDE DEF s, first, second, keys
  <2>4. /\ Len(first) = L /\ Len(second) = L
        /\ \A k \in 1..L : /\ first[k].ask = "copyKey" /\ first[k].path = s[k].path /\ first[k].marker = s[k].marker
                           /\ second[k].ask = "deleteKey" /\ second[k].path = s[k].path /\ second[k].marker = s[k].marker
    BY <2>2 DEF Ask
  <2>5. /\ DOMAIN (first \o second) = 1..(L + L)
        /\ \A k \in 1..(L + L) : (first \o second)[k] = IF k <= L THEN first[k] ELSE second[k - L]
    <3>1. /\ first \o second \in Seq(Req) /\ Len(first \o second) = Len(first) + Len(second)
          /\ \A k \in 1..(Len(first) + Len(second)) :
               (first \o second)[k] = IF k <= Len(first) THEN first[k] ELSE second[k - Len(first)]
      BY <2>3
    <3>2. DOMAIN (first \o second) = 1..Len(first \o second)
      BY <3>1
    <3> QED BY <2>4, <3>1, <3>2
  <2>6. i \in 1..(L + L) /\ ~(i <= L)
    <3>1. i \in 1..(L + L)
      BY <2>1, <2>5
    <3>2. i <= L => (first \o second)[i].ask = "copyKey"
      BY <2>2, <2>4, <2>5, <3>1
    <3> QED BY <2>1, <3>1, <3>2 DEF Deletes1
  <2>8. i - L \in 1..L /\ (first \o second)[i] = second[i - L]
    BY <2>2, <2>5, <2>6
  <2>9. i - L \in 1..(i - 1) /\ i - L <= L /\ i - L \in 1..(L + L)
    BY <2>2, <2>6, <2>8
  <2>10. (first \o second)[i - L] = first[i - L]
    BY <2>5, <2>9
  <2>11. Copies(first[i - L], p)
    BY <2>1, <2>4, <2>8 DEF Copies, Deletes1
  <2> QED BY <2>1, <2>9, <2>10, <2>11
<1> QED BY <1>1, <1>2, <1>3, <1>4

\* Keys that a rename over S3 deletes keep their copy until then.
LEMMA CarriedStep ==
  ASSUME Shaped, NEW o \in Op, NEW todo, AreRight(o, todo), todo # <<>>, Carried(o, todo),
         NEW r, r = Head(todo), Served(o, r).ends = "ok", HasPlace(r, Served(o, r).dirs),
         file' = Served(o, r).file, dirs' = Served(o, r).dirs, UNCHANGED kind,
         NEW more, more = Served(o, r).more
  PROVE  Carried(o, more \o Tail(todo))'
<1> DEFINE rest == more \o Tail(todo)
           L == Len(more)
<1>0. todo \in Seq(Req) /\ 1 \in DOMAIN todo /\ r = todo[1] /\ r \in Req /\ RightAsk(o, r)
  <2>1. todo \in Seq(Req) /\ 1 \in DOMAIN todo /\ r = todo[1] /\ r \in Req
    BY DEF AreRight
  <2> QED BY <2>1 DEF AreRight
<1>1. AreRight(o, more) /\ more \in Seq(Req)
  BY <1>0, MoreAsks DEF AreRight
<1>2. AreRight(o, rest)
  BY <1>1, RestIsRight
<1>3. /\ DOMAIN rest = 1..(L + Len(todo) - 1) /\ L \in Nat
      /\ Len(todo) \in Nat \ {0} /\ DOMAIN todo = 1..Len(todo) /\ DOMAIN more = 1..L
      /\ \A i \in 1..L : rest[i] = more[i]
      /\ \A i \in (L + 1)..(L + Len(todo) - 1) : rest[i] = todo[i - L + 1]
  BY <1>0, <1>1, RestIs
<1> HIDE DEF rest, L
<1>3a. ASSUME NEW m \in 1..(L + Len(todo) - 1), NEW k \in 2..Len(todo), m = k + L - 1  PROVE rest[m] = todo[k]
  <2>1. m \in (L + 1)..(L + Len(todo) - 1) /\ m - L + 1 = k
    BY <1>3, <1>3a
  <2>2. rest[m] = todo[m - L + 1]
    BY <1>3, <2>1
  <2> QED BY <2>1, <2>2
<1> SUFFICES ASSUME o.op = "rename", Apart(o), NEW i \in DOMAIN rest, NEW p \in Path, Deletes1(rest[i], p),
                    file'[p] # None
             PROVE  \/ \E j \in 1..(i - 1) : Copies(rest[j], p)
                    \/ LET new == Moved(o.path, o.to, p) IN new \in Path /\ file'[new] = file'[p]
  BY DEF Carried, rest
<1> DEFINE new == Moved(o.path, o.to, p)
<1>4. kind = "s3" /\ IsPrefix(o.path, p)
  BY <1>2 DEF AreRight, RightAsk, RenameAsk, Deletes1
<1>5. CASE i <= L
  <2>1. i \in DOMAIN more /\ Deletes1(more[i], p)
    BY <1>3, <1>5
  <2>2. \E j \in 1..(i - 1) : Copies(more[j], p)
    BY <1>0, <1>4, <2>1, CopiesFirst
  <2>3. \A j \in 1..(i - 1) : rest[j] = more[j]
    BY <1>3, <1>5
  <2> QED BY <2>2, <2>3
<1>6. CASE i > L
  <2> DEFINE k == i - L + 1
  <2>0. k \in 2..Len(todo) /\ Deletes1(todo[k], p) /\ i = k + L - 1 /\ k \in DOMAIN todo
    <3>1. i \in 1..(L + Len(todo) - 1) /\ L \in Nat /\ Len(todo) \in Nat
      BY <1>3
    <3>2. k \in 2..Len(todo) /\ i = k + L - 1 /\ i \in (L + 1)..(L + Len(todo) - 1)
      BY <1>6, <3>1
    <3>3. rest[i] = todo[k]
      BY <1>3a, <3>1, <3>2
    <3>4. k \in DOMAIN todo
      BY <1>3, <3>1, <3>2
    <3> QED BY <3>2, <3>3, <3>4
  <2> HIDE DEF k
  <2>1. r.ask \in {"isPrefix", "listAllKeys", "copyKey", "deleteKey"} /\ IsPrefix(o.path, r.path)
        /\ r.path \in Named /\ (r.ask = "copyKey" => r.to = Moved(o.path, o.to, r.path) /\ r.to \in Path)
    BY <1>0, <1>4 DEF RightAsk, RenameAsk, HasPlace, Req
  <2>2. DOMAIN file = Path /\ o.path \in Named /\ o.to \in Named /\ p \in Named
    BY PathNames DEF Shaped, Op
  <2>3. /\ IsPrefix(o.to, new) /\ new \in Named
        /\ \A q \in Named : IsPrefix(o.path, q) /\ Moved(o.path, o.to, q) = new => q = p
    <3>1. new \in Named
      BY <1>4, <2>2, MovedIs
    <3> QED BY <1>4, <2>2, <3>1, MovedBack
  <2>4. \A q \in Named : ~(IsPrefix(o.path, q) /\ IsPrefix(o.to, q))
    BY <2>2, PrefixOrder DEF Apart
  <2>5. \/ file' = file
        \/ r.ask = "copyKey" /\ ~r.marker /\ file' = [file EXCEPT ![r.to] = file[r.path]] /\ r.path \in Path
        \/ r.ask = "deleteKey" /\ file' = [file EXCEPT ![r.path] = None]
    BY <2>1, OnlyLooks, <1>0 DEF Served, CopyKey, DeleteKey, Refused, Answer, IsFile, Req
  <2>6. r.ask = "copyKey" => IsPrefix(o.to, r.to) /\ r.to \in Named
    BY <2>1, <2>2, MovedBack, PathNames
  <2>7. file'[p] = file[p]
    <3>1. r.ask = "copyKey" => r.to # p
      BY <1>4, <2>2, <2>4, <2>6
    <3>2. CASE r.ask = "deleteKey" /\ file' = [file EXCEPT ![r.path] = None]
      BY <2>2, <3>2
    <3> QED BY <2>2, <2>5, <3>1, <3>2
  <2>8. \/ \E j \in 1..(k - 1) : Copies(todo[j], p)
        \/ new \in Path /\ file[new] = file[p]
    BY <2>0, <2>7 DEF Carried
  <2>9. CASE \E j \in 2..(k - 1) : Copies(todo[j], p)
    <3>1. PICK j \in 2..(k - 1) : Copies(todo[j], p)
      BY <2>9
    <3>2. j + L - 1 \in 1..(i - 1) /\ j + L - 1 \in 1..(L + Len(todo) - 1) /\ j \in 2..Len(todo)
      <4>1. L \in Nat /\ Len(todo) \in Nat /\ k \in 2..Len(todo) /\ i = k + L - 1 /\ j \in 2..(k - 1)
        BY <1>3, <2>0
      <4> QED BY <4>1
    <3>3. rest[j + L - 1] = todo[j]
      BY <1>3a, <3>2
    <3> QED BY <3>1, <3>2, <3>3
  <2>10. CASE Copies(todo[1], p)
    <3>1. r.ask = "copyKey" /\ r.path = p /\ ~r.marker
      BY <1>0, <2>10 DEF Copies
    <3>2. r.to = new /\ new \in Path
      BY <2>1, <3>1
    <3>3. file' = [file EXCEPT ![r.to] = file[r.path]]
      BY <3>1 DEF Served, CopyKey, Refused, Answer
    <3> QED BY <2>2, <2>7, <3>1, <3>2, <3>3
  <2>11. CASE new \in Path /\ file[new] = file[p]
    <3>1. file'[new] = file[new]
      <4>1. CASE r.ask = "copyKey" /\ file' = [file EXCEPT ![r.to] = file[r.path]]
        <5>1. r.to = new => r.path = p
          BY <2>1, <2>3, <4>1
        <5> QED BY <2>2, <2>11, <4>1, <5>1
      <4>2. CASE r.ask = "deleteKey" /\ file' = [file EXCEPT ![r.path] = None]
        <5>1. r.path # new
          BY <2>1, <2>3, <2>4
        <5> QED BY <2>2, <2>11, <4>2, <5>1
      <4> QED BY <2>5, <4>1, <4>2
    <3> QED BY <2>7, <2>11, <3>1
  <2>12. \A j \in 1..(k - 1) : j = 1 \/ j \in 2..(k - 1)
    BY <2>0
  <2> QED BY <2>8, <2>9, <2>10, <2>11, <2>12
<1> QED BY <1>3, <1>5, <1>6

-----------------------------------------------------------------------------
(***************************************************************************)
(* The steps of a deed.                                                    *)
(***************************************************************************)
Relies(o, todo) == Emptied(o, todo) /\ Carried(o, todo)

\* The plan of a deed does not depend on the server's files.
LEMMA PlannedStays ==
  ASSUME NEW d, Planned(d), UNCHANGED <<kind, src>>
  PROVE  Planned(d)'
<1>1. \A o, r : RightAsk(o, r)' <=> RightAsk(o, r)
  BY DEF RightAsk, RenameAsk, RemovalAsk
<1>2. \A o : MayDo(d, o)' <=> MayDo(d, o)
  BY DEF MayDo, MaySync
<1> QED BY <1>1, <1>2 DEF Planned

LEMMA ReliesStays ==
  ASSUME NEW o, NEW todo, Relies(o, todo), UNCHANGED tree
  PROVE  Relies(o, todo)'
<1>1. \A q : IsFile(q)' <=> IsFile(q)
  BY DEF IsFile, tree
<1>2. Emptied(o, todo)'
  BY <1>1 DEF Relies, Emptied, tree
<1>3. Carried(o, todo)'
  BY DEF Relies, Carried, tree
<1> QED BY <1>2, <1>3 DEF Relies

LEMMA PlansStay ==
  ASSUME TreeInv, UNCHANGED <<tree, src, deed, overlap>>
  PROVE  Plans' /\ Alone'
<1>1. Alone'
  BY DEF TreeInv, Alone, Active
<1>2. ASSUME NEW m \in Deed  PROVE Planned(deed[m])'
  <2>1. PICK d : d = deed[m] /\ Planned(d)
    BY DEF TreeInv, Plans
  <2>2. Planned(d)'
    BY <2>1, PlannedStays DEF tree
  <2> QED BY <2>1, <2>2 DEF Planned
<1>3. ASSUME NEW m \in Deed \ overlap, deed[m].todo # <<>>
      PROVE  Relies(Head(deed[m].ops), deed[m].todo)'
  <2>1. PICK o, todo : o = Head(deed[m].ops) /\ todo = deed[m].todo
    OBVIOUS
  <2>2. Relies(o, todo)'
    BY <1>3, <2>1, ReliesStays DEF TreeInv, Plans, Relies
  <2> QED BY <2>1, <2>2
<1> QED BY <1>1, <1>2, <1>3 DEF Plans, Relies

\* Who else is under way does not rely on the tree.
LEMMA TreeMoves ==
  ASSUME PaneInv, TreeInv, NEW n \in Deed, deed[n].what \in {"pane", "transfer", "sync"},
         NEW d, deed' = [deed EXCEPT ![n] = d], d.what \in {deed[n].what, "over"}, Planned(d),
         UNCHANGED <<kind, src, overlap>>, Shaped', Shown',
         n \notin overlap /\ d.todo # <<>> => Relies(Head(d.ops), d.todo)'
  PROVE  TreeInv'
<1>1. deed'[n] = d /\ \A m \in Deed \ {n} : deed'[m] = deed[m]
  BY DEF PaneInv, Deeds
<1>2. \A m \in Deed : deed'[m].what # "none" <=> deed[m].what # "none"
  BY <1>1
<1>3. Active' \subseteq Active
  BY <1>1 DEF Active
<1>4. Alone'
  BY <1>2, <1>3 DEF TreeInv, Alone
<1>5. ASSUME NEW m \in Deed  PROVE Planned(deed[m])'
  <2>1. PICK e : e = deed'[m] /\ Planned(e)
    BY <1>1 DEF TreeInv, Plans
  <2>2. Planned(e)'
    BY <2>1, PlannedStays
  <2> QED BY <2>1, <2>2 DEF Planned
<1>6. ASSUME NEW m \in Deed \ overlap, deed'[m].todo # <<>>
      PROVE  Relies(Head(deed[m].ops), deed[m].todo)'
  <2>1. CASE m = n
    BY <1>1, <1>6, <2>1
  <2>2. CASE m # n
    <3>1. deed[m].todo # <<>> /\ deed[m].ops # <<>>
      BY <1>1, <1>6, <2>2 DEF TreeInv, Plans, Planned
    <3>2. m \in Active /\ n \in Active
      BY <3>1, UnderWay DEF Active
    <3> QED BY <2>2, <3>2 DEF TreeInv, Alone
  <2> QED BY <2>1, <2>2
<1>7. Plans'
  BY <1>5, <1>6 DEF Plans, Relies
<1> QED BY <1>4, <1>7 DEF TreeInv

LEMMA ShownStays ==
  ASSUME Shown, UNCHANGED pane \/ Reloads
  PROVE  Shown'
<1>1. AreRows({})
  BY FS_EmptySet DEF AreRows
<1>2. CASE UNCHANGED pane
  BY <1>2 DEF Shown, AreRows, pane
<1>3. CASE Reloads
  <2>1. listing'.dir = cwd /\ listing'.rows = {} /\ UNCHANGED <<cwd, shown>>
    BY <1>3 DEF Reloads, Lists
  <2> QED BY <1>1, <2>1 DEF Shown, AreRows
<1> QED BY <1>2, <1>3

LEMMA ShapedStays == Shaped /\ UNCHANGED tree => Shaped'
BY DEF Shaped, tree, IsFile

\* What is given up asks nothing more.
LEMMA ThrowTree ==
  ASSUME PaneInv, TreeInv, NEW n \in Deed, deed[n].what \in {"pane", "transfer", "sync"}, NEW left, Throws(n, left),
         left \subseteq deed[n].copies, UNCHANGED <<kind, src, overlap>>, Shaped'
  PROVE  TreeInv'
<1> DEFINE d == [deed[n] EXCEPT !.ops = <<>>, !.todo = <<>>, !.walk = <<>>, !.deletes = <<>>,
                                    !.wanted = {}, !.phase = "failed", !.copies = left,
                                    !.what = IF left = {} THEN "over" ELSE @]
<1>1. IsDeed(deed[n]) /\ Planned(deed[n])
  BY DEF PaneInv, Deeds, TreeInv, Plans
<1>2. /\ d.what = (IF left = {} THEN "over" ELSE deed[n].what) /\ d.root = deed[n].root
      /\ d.ops = <<>> /\ d.walk = <<>> /\ d.copies = left /\ d.todo = <<>> /\ d.deletes = <<>>
  BY <1>1 DEF IsDeed
<1>3. deed' = [deed EXCEPT ![n] = d] /\ UNCHANGED pane
  BY DEF Throws
<1> HIDE DEF d
<1>4. Planned(d)
  <2>1. <<>> \in Seq(Op) /\ <<>> \in Seq(Req) /\ <<>> \in Seq(Named) /\ DOMAIN <<>> = {}
    OBVIOUS
  <2>2. d.what = "pane" => d.copies = {}
    BY <1>1, <1>2 DEF Planned
  <2>3. d.root \in Named
    BY <1>1, <1>2 DEF Planned
  <2> QED BY <1>2, <2>1, <2>2, <2>3 DEF Planned
<1>5. Shown'
  BY <1>3, ShownStays DEF TreeInv
<1> QED BY <1>2, <1>3, <1>4, <1>5, TreeMoves

LEMMA RequestTree ==
  ASSUME PaneInv, TreeInv, NEW n \in Deed, Request(n)
  PROVE  TreeInv'
<1>0. deed[n].what \in {"pane", "transfer", "sync"}
  BY UnderWay DEF Request
<1>1. PICK d : d = deed[n] /\ IsDeed(d) /\ Planned(d) /\ d.ops # <<>>
  BY DEF PaneInv, Deeds, TreeInv, Plans, Request
<1>2. PICK o \in Op : o = Head(d.ops)
  <2>1. d.ops \in Seq(Op)
    BY <1>1 DEF Planned
  <2> QED BY <1>1, <2>1
<1>3. PICK todo : todo = IF d.todo = <<>> THEN <<FirstAsk(o)>> ELSE d.todo
  OBVIOUS
<1>4. AreRight(o, todo) /\ todo # <<>> /\ (n \notin overlap => Relies(o, todo))
  <2>1. CASE d.todo = <<>>
    BY <1>3, <2>1, FirstIs DEF Relies
  <2>2. CASE d.todo # <<>>
    <3>1. AreRight(o, todo)
      BY <1>1, <1>2, <1>3, <2>2 DEF AreRight, Planned
    <3>2. n \notin overlap => Relies(o, todo)
      BY <1>1, <1>2, <1>3, <2>2 DEF TreeInv, Plans, Relies
    <3> QED BY <1>3, <2>2, <3>1, <3>2
  <2> QED BY <2>1, <2>2
<1>5. PICK r : r = Head(todo)
  OBVIOUS
<1>6. r \in Req /\ RightAsk(o, r)
  <2>1. todo \in Seq(Req) /\ 1 \in DOMAIN todo /\ r = todo[1]
    BY <1>4, <1>5 DEF AreRight
  <2> QED BY <1>4, <2>1 DEF AreRight
<1>7. PICK more : more = Served(o, r).more
  OBVIOUS
<1>8. AreRight(o, more \o Tail(todo))
  BY <1>4, <1>6, <1>7, MoreAsks, RestIsRight DEF TreeInv
<1>9. UNCHANGED <<kind, src, overlap>>
  BY DEF Request
<1> DEFINE rest == more \o Tail(todo)
           done == [d EXCEPT !.todo = <<>>, !.ops = Tail(d.ops)]
           on == [d EXCEPT !.todo = rest]
<1>10. \/ /\ Throws(n, deed[n].copies) /\ UNCHANGED <<file, dirs>>
       \/ /\ Served(o, r).ends = "ok" \/ Served(o, r).ends = "exists"
          /\ HasPlace(r, Served(o, r).dirs) /\ file' = Served(o, r).file /\ dirs' = Served(o, r).dirs
          /\ UNCHANGED pane
          /\ \/ deed' = [deed EXCEPT ![n] = done]
             \/ Served(o, r).ends = "ok" /\ deed' = [deed EXCEPT ![n] = on]
  BY <1>1, <1>2, <1>3, <1>5, <1>7 DEF Request
<1>11. CASE Throws(n, deed[n].copies) /\ UNCHANGED <<file, dirs>>
  BY <1>0, <1>9, <1>11, ThrowTree, ShapedStays DEF TreeInv, tree
<1>12. CASE /\ Served(o, r).ends = "ok" \/ Served(o, r).ends = "exists"
            /\ HasPlace(r, Served(o, r).dirs) /\ file' = Served(o, r).file /\ dirs' = Served(o, r).dirs
            /\ UNCHANGED pane
            /\ \/ deed' = [deed EXCEPT ![n] = done]
               \/ Served(o, r).ends = "ok" /\ deed' = [deed EXCEPT ![n] = on]
  <2>1. Shaped' /\ Shown'
    BY <1>6, <1>9, <1>12, RequestShape, ShownStays DEF TreeInv
  <2>2. /\ done.what = d.what /\ done.ops = Tail(d.ops) /\ done.todo = <<>> /\ done.deletes = d.deletes
        /\ done.walk = d.walk /\ done.root = d.root /\ done.copies = d.copies /\ done.mirror = d.mirror
        /\ on.phase = d.phase
        /\ on.what = d.what /\ on.ops = d.ops /\ on.todo = rest /\ on.deletes = d.deletes
        /\ on.walk = d.walk /\ on.root = d.root /\ on.copies = d.copies /\ on.mirror = d.mirror
    BY <1>1 DEF IsDeed
  <2> HIDE DEF done, on, rest
  <2>3. CASE deed' = [deed EXCEPT ![n] = done]
    <3>1. Planned(done)
      <4>1. Tail(d.ops) \in Seq(Op) /\ \A i \in DOMAIN Tail(d.ops) : i + 1 \in DOMAIN d.ops /\ Tail(d.ops)[i] = d.ops[i + 1]
        <5>1. d.ops \in Seq(Op)
          BY <1>1 DEF Planned
        <5> QED BY <1>1, <5>1
      <4>2. \A x : MayDo(done, x) <=> MayDo(d, x)
        BY <2>2 DEF MayDo, MaySync
      <4>3. <<>> \in Seq(Req) /\ DOMAIN <<>> = {}
        OBVIOUS
      <4>4. \A i \in DOMAIN Tail(d.ops) : MayDo(done, Tail(d.ops)[i])
        BY <1>1, <4>1, <4>2 DEF Planned
      <4> QED BY <1>1, <2>2, <4>1, <4>2, <4>3, <4>4 DEF Planned
    <3> QED BY <1>0, <1>1, <1>9, <2>1, <2>2, <2>3, <3>1, TreeMoves
  <2>4. CASE Served(o, r).ends = "ok" /\ deed' = [deed EXCEPT ![n] = on]
    <3>1. Planned(on)
      <4>1. \A x : MayDo(on, x) <=> MayDo(d, x)
        BY <2>2 DEF MayDo, MaySync
      <4>2. on.todo \in Seq(Req) /\ \A i \in DOMAIN on.todo : RightAsk(Head(on.ops), on.todo[i])
        BY <1>2, <1>8, <2>2 DEF AreRight, rest
      <4>3. d.phase # "walk"
        BY <1>1 DEF Request
      <4> QED BY <1>1, <2>2, <4>1, <4>2, <4>3 DEF Planned
    <3>2. n \notin overlap => Relies(o, rest)'
      <4>1. Emptied(o, more \o Tail(todo))'
        BY <1>6, <1>8, <1>9, <1>12, <2>4, EmptiedStep DEF TreeInv
      <4>2. n \notin overlap => Carried(o, more \o Tail(todo))'
        BY <1>4, <1>5, <1>7, <1>9, <1>12, <2>4, CarriedStep DEF TreeInv, Relies
      <4> QED BY <4>1, <4>2 DEF Relies, rest
    <3>3. n \notin overlap /\ on.todo # <<>> => Relies(Head(on.ops), on.todo)'
      BY <1>2, <2>2, <3>2
    <3> QED BY <1>0, <1>1, <1>9, <2>1, <2>2, <2>4, <3>1, <3>3, TreeMoves
  <2> QED BY <1>12, <2>3, <2>4
<1> QED BY <1>10, <1>11, <1>12

LEMMA InitTree == FilesInit => TreeInv
<1> SUFFICES ASSUME FilesInit  PROVE TreeInv
  OBVIOUS
<1>1. PICK t : /\ \A p \in Path : /\ t[p] \in {None, Dir, Link} \/ t[p].kind = "file"
                                  /\ t[p] # None => \A n \in 1..(Len(p) - 1) : t[SubSeq(p, 1, n)] = Dir
               /\ file = [p \in Path |-> IF t[p].kind = "dir" THEN None ELSE t[p]]
               /\ dirs \subseteq {p \in Path : t[p].kind = "dir"}
               /\ kind # "s3" => dirs = {p \in Path : t[p].kind = "dir"}
               /\ kind # "sftp" => \A p \in Path : t[p] # Link
  BY TreesAssumption DEF FilesInit
<1>2. Shaped
  <2>1. kind \in Kinds /\ dirs \subseteq Path /\ DOMAIN file = Path
    BY <1>1 DEF FilesInit
  <2>2. \A p \in Path : /\ file[p].kind \in {"none", "file", "symlink"} /\ (kind # "sftp" => file[p] # Link)
                        /\ p \in dirs => t[p] # None /\ ~IsFile(p)
                        /\ IsFile(p) => t[p] # None
    BY <1>1 DEF None, Dir, Link, Node, IsFile
  <2>3. kind # "s3" => \A p \in Path : t[p] # None => Above(p) \subseteq dirs
    <3>1. kind # "s3" => \A q \in Path : t[q] = Dir => q \in dirs
      BY <1>1 DEF Dir, Node
    <3> QED BY <1>1, <3>1, PathAssumption DEF Above
  <2> QED BY <2>1, <2>2, <2>3 DEF Shaped
<1>3. Shown
  <2>1. AreRows({})
    BY FS_EmptySet DEF AreRows
  <2>2. cwd = <<>> /\ listing.dir = <<>> /\ shown.dir = <<>> /\ listing.rows = {} /\ shown.rows = {}
    BY DEF FilesInit
  <2> QED BY <2>1, <2>2, FilesAssumption DEF Shown
<1>4. \A n \in Deed : deed[n] = NoDeed
  BY DEF FilesInit
<1>5. Planned(NoDeed) /\ NoDeed.todo = <<>> /\ NoDeed.what = "none"
  <2>1. <<>> \in Seq(Op) /\ <<>> \in Seq(Req) /\ <<>> \in Seq(Named) /\ DOMAIN <<>> = {} /\ <<>> \in Named
    BY DEF Named
  <2> QED BY <2>1 DEF Planned, NoDeed
<1>6. Plans /\ Alone
  BY <1>4, <1>5 DEF Plans, Alone, Active, FilesInit
<1> QED BY <1>2, <1>3, <1>6 DEF TreeInv

\* The pane moves, and no deed.
LEMMA PaneTree ==
  ASSUME PaneInv, TreeInv, Pane
  PROVE  TreeInv'
<1>1. UNCHANGED <<tree, src, deed, overlap>>
  BY DEF Pane, Answered, ListFails, Show, Refresh, Navigate
<1>2. \A p \in Folders : p \in Named
  <2>1. <<>> \in Named
    BY DEF Named
  <2> QED BY <2>1, FilesAssumption, PathNames
<1>3. Shown'
  <2>0. AreRows({})
    BY FS_EmptySet DEF AreRows
  <2>1. CASE Answered
    <3>1. AreRows(Entries(listing.dir))
      BY <1>2, EntriesAre DEF TreeInv, Shown
    <3>2. listing'.dir = listing.dir /\ listing'.rows = Entries(listing.dir) /\ UNCHANGED <<cwd, shown>>
      <4>1. listing = [at |-> listing.at, dir |-> listing.dir, rows |-> listing.rows]
        BY DEF PaneInv, Listed
      <4> QED BY <2>1, <4>1 DEF Answered
    <3> QED BY <3>1, <3>2 DEF TreeInv, Shown, AreRows
  <2>2. CASE ListFails
    <3>1. listing'.dir = <<>> /\ listing'.rows = {} /\ UNCHANGED <<cwd, shown>>
      BY <2>2 DEF ListFails, NoListing
    <3> QED BY <2>0, <3>1, FilesAssumption DEF TreeInv, Shown, AreRows
  <2>3. CASE Show
    <3>1. /\ listing'.dir = <<>> /\ listing'.rows = {} /\ UNCHANGED cwd
          /\ shown'.dir = listing.dir /\ shown'.rows = listing.rows
      BY <2>3 DEF Show, NoListing
    <3> QED BY <2>0, <3>1, FilesAssumption DEF TreeInv, Shown, AreRows
  <2>4. CASE Refresh
    BY <2>4, ShownStays DEF Refresh, TreeInv
  <2>5. ASSUME NEW c \in Folders, Navigate(c)  PROVE Shown'
    <3>1. listing'.dir = c /\ listing'.rows = {} /\ cwd' = c /\ UNCHANGED shown
      BY <2>5 DEF Navigate, Lists
    <3> QED BY <2>0, <3>1 DEF TreeInv, Shown, AreRows
  <2> QED BY <2>1, <2>2, <2>3, <2>4, <2>5 DEF Pane
<1>4. Plans' /\ Alone'
  BY <1>1, PlansStay
<1> QED BY <1>1, <1>3, <1>4, ShapedStays DEF TreeInv

\* A deed that starts beside another overlaps with it.
LEMMA TreeBegins ==
  ASSUME PaneInv, TreeInv, NEW d, Starts(d), Planned(d), d.todo = <<>>, d.what # "none"
  PROVE  TreeInv'
<1>1. PICK n \in Deed : /\ deed[n].what = "none" /\ deed' = [deed EXCEPT ![n] = d]
                        /\ overlap' = IF Active = {} THEN overlap ELSE overlap \cup Active \cup {n}
  BY DEF Starts
<1>2. UNCHANGED <<tree, src, pane>>
  BY DEF Starts
<1>3. deed'[n] = d /\ \A m \in Deed \ {n} : deed'[m] = deed[m]
  BY <1>1 DEF PaneInv, Deeds
<1>4. Alone'
  <2>1. Active' \subseteq Active \cup {n} /\ overlap \subseteq overlap'
    BY <1>1, <1>3 DEF Active
  <2>2. \A m \in overlap \cup Active : m \in Deed \ {n} /\ deed[m].what # "none"
    BY <1>1 DEF TreeInv, Alone, Active
  <2>3. overlap' \subseteq {m \in Deed : deed'[m].what # "none"}
    BY <1>1, <1>3, <2>2
  <2>4. \A m, k \in Active' : m = k \/ m \in overlap'
    BY <1>1, <2>1
  <2> QED BY <2>3, <2>4 DEF Alone
<1>5. ASSUME NEW m \in Deed  PROVE Planned(deed[m])'
  <2>1. PICK e : e = deed'[m] /\ Planned(e)
    BY <1>3 DEF TreeInv, Plans
  <2>2. Planned(e)'
    BY <1>2, <2>1, PlannedStays DEF tree
  <2> QED BY <2>1, <2>2 DEF Planned
<1>6. ASSUME NEW m \in Deed \ overlap', deed'[m].todo # <<>>
      PROVE  Relies(Head(deed[m].ops), deed[m].todo)'
  <2>1. m # n /\ m \notin overlap /\ deed'[m] = deed[m]
    BY <1>1, <1>3, <1>6
  <2>2. PICK o, todo : o = Head(deed[m].ops) /\ todo = deed[m].todo
    OBVIOUS
  <2>3. Relies(o, todo)
    BY <1>6, <2>1, <2>2 DEF TreeInv, Plans, Relies
  <2>4. Relies(o, todo)'
    BY <1>2, <2>3, ReliesStays
  <2> QED BY <2>1, <2>2, <2>4
<1>7. Plans'
  BY <1>5, <1>6 DEF Plans, Relies
<1> QED BY <1>2, <1>4, <1>7, ShapedStays, ShownStays DEF TreeInv

LEMMA OneOp == \A o \in Op : <<o>> \in Seq(Op) /\ DOMAIN <<o>> = {1} /\ <<o>>[1] = o
OBVIOUS

LEMMA OpsAre ==
  /\ \A p \in Named : Mkdir(p) \in Op /\ Mkdir(p).op = "mkdir"
  /\ \A p, to \in Named : Rename(p, to) \in Op
  /\ \A p \in Named, b \in BOOLEAN : Removal(p, b) \in Op
  /\ \A e : e.path \in Named => WholeRemoval(e) \in Op
<1>1. <<>> \in Named
  BY DEF Named
<1> QED BY <1>1 DEF Mkdir, Rename, Removal, WholeRemoval, Op

\* What is done for each of a set is done for its members.
LEMMA OpsOfEach ==
  ASSUME NEW S, IsFiniteSet(S), NEW f, DOMAIN f = S, \A x \in S : f[x] \in Op
  PROVE  LET s == SetToSeq(S)
             ops == [i \in DOMAIN s |-> f[s[i]]]
         IN  ops \in Seq(Op) /\ \A i \in DOMAIN ops : \E x \in S : ops[i] = f[x]
<1> DEFINE s == SetToSeq(S)
<1>1. s \in Seq(S)
  BY Listing
<1> HIDE DEF s
<1>2. Len(s) \in Nat /\ DOMAIN s = 1..Len(s) /\ \A i \in 1..Len(s) : s[i] \in S
  BY <1>1
<1> DEFINE ops == [i \in DOMAIN s |-> f[s[i]]]
<1>3. ops \in Seq(Op) /\ \A i \in DOMAIN ops : \E x \in S : ops[i] = f[x]
  BY <1>2
<1> QED BY <1>3 DEF s

LEMMA StartTree ==
  ASSUME PaneInv, TreeInv, Start
  PROVE  TreeInv'
<1>0. <<>> \in Seq(Op) /\ <<>> \in Seq(Req) /\ <<>> \in Seq(Named) /\ DOMAIN <<>> = {} /\ <<>> \in Named
  BY DEF Named
<1>1. ASSUME NEW ops \in Seq(Op), Starts(PaneDeed(ops))  PROVE TreeInv'
  <2> DEFINE d == PaneDeed(ops)
  <2>1. /\ d.what = "pane" /\ d.ops = ops /\ d.todo = <<>> /\ d.deletes = <<>> /\ d.walk = <<>> /\ d.root = <<>>
        /\ d.copies = {}
    BY DEF PaneDeed, NoDeed
  <2>2. Starts(d)
    BY <1>1
  <2> HIDE DEF d
  <2>3. Planned(d)
    BY <1>0, <2>1 DEF Planned, MayDo
  <2> QED BY <2>1, <2>2, <2>3, TreeBegins
<1>2. ASSUME NEW p \in Path, HandleNewFolder(p)  PROVE TreeInv'
  BY <1>1, <1>2, PathNames, OpsAre, OneOp DEF HandleNewFolder
<1>3. ASSUME NEW p \in Path, HandleRename(p)  PROVE TreeInv'
  <2>1. PICK e \in shown.rows : Starts(PaneDeed(<<Rename(e.path, p)>>))
    BY <1>3 DEF HandleRename
  <2>2. e.path \in Named
    BY DEF TreeInv, Shown, AreRows
  <2> QED BY <1>1, <2>1, <2>2, PathNames, OpsAre, OneOp
<1>4. ASSUME NEW rows \in SUBSET shown.rows, HandleDeleteConfirm(rows)  PROVE TreeInv'
  <2>1. IsFiniteSet(rows) /\ \A e \in rows : e.path \in Named
    BY FS_Subset DEF TreeInv, Shown, AreRows
  <2> DEFINE f == [e \in rows |-> Removal(e.path, e.node.kind = "dir")]
             s == SetToSeq(rows)
             ops == [i \in DOMAIN s |-> f[s[i]]]
             RemovalOf(e) == Removal(e.path, e.node.kind = "dir")
  <2>2. ops \in Seq(Op)
    BY <2>1, OpsAre, OpsOfEach
  <2>3. ForEach(rows, RemovalOf) = ops
    <3>1. \A i \in DOMAIN s : s[i] \in rows
      BY <2>1, Listing
    <3> QED BY <3>1 DEF ForEach
  <2>4. Starts(PaneDeed(ops))
    BY <1>4, <2>3 DEF HandleDeleteConfirm
  <2> QED BY <1>1, <2>2, <2>4
<1>5. ASSUME NEW p \in Path, EnqueueTransfer(p)  PROVE TreeInv'
  <2> DEFINE d == [NoDeed EXCEPT !.what = "transfer", !.phase = "tree", !.walk = <<p>>]
  <2>1. /\ d.what = "transfer" /\ d.ops = <<>> /\ d.todo = <<>> /\ d.deletes = <<>> /\ d.walk = <<p>> /\ d.root = <<>>
    BY DEF NoDeed
  <2>2. Starts(d)
    BY <1>5 DEF EnqueueTransfer
  <2> HIDE DEF d
  <2>3. <<p>> \in Seq(Named)
    BY PathNames
  <2>4. Planned(d)
    BY <1>0, <2>1, <2>3 DEF Planned
  <2> QED BY <2>1, <2>2, <2>4, TreeBegins
<1>6. ASSUME NEW mode, ApplySync(mode)  PROVE TreeInv'
  <2> DEFINE d == [NoDeed EXCEPT !.what = "sync", !.phase = "root", !.ops = <<Mkdir(cwd)>>,
                        !.root = cwd, !.mirror = mode.mirror, !.byTime = mode.byTime,
                        !.clash = Links(cwd) # {}]
  <2>1. /\ d.what = "sync" /\ d.ops = <<Mkdir(cwd)>> /\ d.todo = <<>> /\ d.deletes = <<>> /\ d.walk = <<>>
        /\ d.root = cwd
    BY DEF NoDeed
  <2>2. Starts(d)
    BY <1>6 DEF ApplySync
  <2> HIDE DEF d
  <2>3. cwd \in Named
    BY <1>0, FilesAssumption, PathNames DEF TreeInv, Shown
  <2>4. PICK o \in Op : o = Mkdir(cwd) /\ o.op = "mkdir"
    BY <2>3, OpsAre
  <2>5. d.ops \in Seq(Op) /\ \A i \in DOMAIN d.ops : MayDo(d, d.ops[i])
    BY <2>1, <2>4, OneOp DEF MayDo, MaySync
  <2>7. Planned(d)
    BY <1>0, <2>1, <2>3, <2>5 DEF Planned
  <2> QED BY <2>1, <2>2, <2>7, TreeBegins
<1> QED BY <1>2, <1>3, <1>4, <1>5, <1>6 DEF Start

LEMMA OpsTogether ==
  ASSUME NEW s \in Seq(Op), NEW t \in Seq(Op)
  PROVE  s \o t \in Seq(Op) /\ \A i \in DOMAIN (s \o t) :
           (\E j \in DOMAIN s : (s \o t)[i] = s[j]) \/ (\E j \in DOMAIN t : (s \o t)[i] = t[j])
<1>1. /\ s \o t \in Seq(Op) /\ DOMAIN (s \o t) = 1..(Len(s) + Len(t)) /\ DOMAIN s = 1..Len(s)
      /\ DOMAIN t = 1..Len(t) /\ Len(s) \in Nat /\ Len(t) \in Nat
      /\ \A i \in 1..(Len(s) + Len(t)) : (s \o t)[i] = IF i <= Len(s) THEN s[i] ELSE t[i - Len(s)]
  OBVIOUS
<1>2. ASSUME NEW i \in DOMAIN (s \o t)
      PROVE  (\E j \in DOMAIN s : (s \o t)[i] = s[j]) \/ (\E j \in DOMAIN t : (s \o t)[i] = t[j])
  <2>1. CASE i <= Len(s)
    BY <1>1, <2>1
  <2>2. CASE i > Len(s)
    <3>1. i - Len(s) \in DOMAIN t /\ (s \o t)[i] = t[i - Len(s)]
      BY <1>1, <2>2
    <3> QED BY <3>1
  <2> QED BY <1>1, <2>1, <2>2
<1> QED BY <1>1, <1>2

LEMMA WalkIs ==
  ASSUME NEW S, S \subseteq Path, NEW walk \in Seq(Named), walk # <<>>
  PROVE  SetToSeq(S) \o Tail(walk) \in Seq(Named) /\ Head(walk) \in Named
<1>1. SetToSeq(S) \in Seq(S)
  BY PathAssumption, FS_Subset, Listing
<1>2. S \subseteq Named
  BY PathNames
<1> DEFINE s == SetToSeq(S)
<1>3. s \in Seq(Named)
  BY <1>1, <1>2
<1> HIDE DEF s
<1>4. Tail(walk) \in Seq(Named) /\ Head(walk) \in Named
  OBVIOUS
<1>5. s \o Tail(walk) \in Seq(Named)
  BY <1>3, <1>4
<1> QED BY <1>4, <1>5 DEF s

\* What a synchronization finds to be made, and to be deleted, it may do.
LEMMA SyncMay ==
  ASSUME NEW d, d.what = "sync", NEW p \in Named
  PROVE  LET there == IF Exists(Real(p)) THEN Entries(p) ELSE {}
             here == {q \in Children(p) : src[q] # None}
             extra == {e \in there : e.path \notin here}
             gone == Deletes(d.mirror, extra)
         IN  gone \in Seq(Op) /\ \A i \in DOMAIN gone : MayDo(d, gone[i])
<1> DEFINE there == IF Exists(Real(p)) THEN Entries(p) ELSE {}
           here == {q \in Children(p) : src[q] # None}
           extra == {e \in there : e.path \notin here}
           gone == Deletes(d.mirror, extra)
<1>1. /\ IsFiniteSet(extra) /\ \A e \in extra : e.path \in Named
      /\ \A e \in extra : e.path # <<>> /\ Front(e.path) = p /\ e.path \notin here
  <2>1. IsFiniteSet(there) /\ there \subseteq Entries(p)
    BY EntriesAre, FS_EmptySet DEF AreRows
  <2>2. \A e \in Entries(p) : e.path \in Named /\ \E q \in Path : e.path = Append(p, Last(q))
    BY EntriesAre DEF AreRows
  <2>3. ASSUME NEW q \in Path  PROVE Append(p, Last(q)) # <<>> /\ Front(Append(p, Last(q))) = p
    <3>1. Last(q) \in STRING
      BY PathNames, SplitIs
    <3> DEFINE x == Append(p, Last(q))
    <3>2. x \in Named /\ x # <<>> /\ Len(x) = Len(p) + 1 /\ Len(p) \in Nat /\ \A i \in 1..Len(p) : x[i] = p[i]
      BY <3>1 DEF Named
    <3> HIDE DEF x
    <3>3. Front(x) \in Named /\ Len(Front(x)) = Len(p) /\ IsPrefix(Front(x), x)
      BY <3>2, SplitIs
    <3>4. \A i \in 1..Len(p) : Front(x)[i] = p[i]
      BY <3>2, <3>3, PrefixIs
    <3>5. Front(x) = p
      BY <3>3, <3>4, SeqEqual DEF Named
    <3> QED BY <3>2, <3>5 DEF x
  <2> QED BY <2>1, <2>2, <2>3, FS_Subset
<1>3. \A e \in extra : /\ e.path \in Named /\ ~(e.path \in Path /\ src[e.path] # None)
  BY <1>1 DEF Children
<1> HIDE DEF extra
<1>4. CASE d.mirror
  <2> DEFINE f == [x \in extra |-> WholeRemoval(x)]
             s == SetToSeq(extra)
             ops == [i \in DOMAIN s |-> f[s[i]]]
  <2>1. ops \in Seq(Op) /\ \A i \in DOMAIN ops : \E x \in extra : ops[i] = WholeRemoval(x)
    <3>1. DOMAIN f = extra /\ \A x \in extra : f[x] \in Op /\ f[x] = WholeRemoval(x)
      BY <1>3, OpsAre
    <3> HIDE DEF f
    <3>2. ops \in Seq(Op) /\ \A i \in DOMAIN ops : \E x \in extra : ops[i] = f[x]
      BY <1>1, <3>1, OpsOfEach
    <3> QED BY <3>1, <3>2
  <2>2. gone = ops
    <3>1. \A i \in DOMAIN s : s[i] \in extra
      BY <1>1, Listing
    <3> QED BY <1>4, <3>1 DEF Deletes, ForEach
  <2>3. \A x \in extra : MayDo(d, WholeRemoval(x))
    BY <1>3, <1>4 DEF MayDo, MaySync, WholeRemoval, Removal
  <2> QED BY <2>1, <2>2, <2>3 DEF extra
<1>5. CASE ~d.mirror
  BY <1>5 DEF Deletes, extra
<1> QED BY <1>4, <1>5 DEF extra

LEMMA WalksOn ==
  ASSUME NEW n \in Deed, WalkSync(n)
  PROVE  LET p == Head(deed[n].walk)
             there == IF Exists(Real(p)) THEN Entries(p) ELSE {}
             here == {q \in Children(p) : src[q] # None}
             extra == {x \in there : x.path \notin here}
             gone == Deletes(deed[n].mirror, extra)
             folders == {q \in here : src[q].kind = "dir"}
         IN  \E made, wanted, clash :
               /\ made \subseteq folders
               /\ deed' = [deed EXCEPT ![n] = [deed[n] EXCEPT !.walk = SetToSeq(folders) \o Tail(deed[n].walk),
                             !.ops = deed[n].ops \o ForEach(made, Mkdir), !.wanted = wanted,
                             !.clash = clash, !.deletes = deed[n].deletes \o gone]]
<1> DEFINE p == Head(deed[n].walk)
           there == IF Exists(Real(p)) THEN Entries(p) ELSE {}
           here == {q \in Children(p) : src[q] # None}
           extra == {x \in there : x.path \notin here}
           gone == Deletes(deed[n].mirror, extra)
           folders == {q \in here : src[q].kind = "dir"}
           IsThere(q, k) == \E e \in there : e.path = q /\ e.node.kind = k
           made == {q \in folders : ~IsThere(q, "dir") \/ IsThere(q, "file")}
<1>1. made \subseteq folders
  OBVIOUS
<1>2. PICK wanted, clash :
        deed' = [deed EXCEPT ![n] = [deed[n] EXCEPT !.walk = SetToSeq(folders) \o Tail(deed[n].walk),
                   !.ops = deed[n].ops \o ForEach(made, Mkdir), !.wanted = wanted,
                   !.clash = clash, !.deletes = deed[n].deletes \o gone]]
  BY Zenon DEF WalkSync
<1> HIDE DEF made, folders, gone
<1> QED BY <1>1, <1>2 DEF folders, gone

\* A deed of which nothing is asked now goes on while the tree stays.
LEMMA DeedGoesOn ==
  ASSUME PaneInv, TreeInv, NEW n \in Deed, deed[n].what \in {"pane", "transfer", "sync"},
         NEW d, deed' = [deed EXCEPT ![n] = d], d.what \in {deed[n].what, "over"}, Planned(d), d.todo = <<>>,
         UNCHANGED <<tree, src, overlap>>, UNCHANGED pane \/ Reloads
  PROVE  TreeInv'
BY TreeMoves, ShapedStays, ShownStays DEF TreeInv, tree

LEMMA WalkTree ==
  ASSUME PaneInv, TreeInv, NEW n \in Deed, WalkTransfer(n) \/ WalkSync(n) \/ WalkFails(n) \/ NextPhase(n) \/ Finishes(n)
  PROVE  TreeInv'
<1>0. PICK d : d = deed[n] /\ IsDeed(d) /\ Planned(d)
  BY DEF PaneInv, Deeds, TreeInv, Plans
<1>00. <<>> \in Seq(Op) /\ DOMAIN <<>> = {}
  OBVIOUS
<1>1. CASE WalkTransfer(n)
  <2> DEFINE p == Head(d.walk)
             below == SetToSeq({q \in Children(p) : src[q] # None})
             e == IF src[p].kind = "dir" THEN [d EXCEPT !.ops = <<Mkdir(p)>>, !.walk = below \o Tail(d.walk)]
                  ELSE [d EXCEPT !.copies = {p}, !.walk = Tail(d.walk)]
  <2>1. /\ d.what = "transfer" /\ d.walk # <<>> /\ d.ops = <<>> /\ d.todo = <<>> /\ d.deletes \in Seq(Op)
        /\ deed' = [deed EXCEPT ![n] = e] /\ UNCHANGED <<tree, src, pane, overlap>>
    BY <1>0, <1>1 DEF WalkTransfer, Planned
  <2>2. below \o Tail(d.walk) \in Seq(Named) /\ p \in Named /\ Tail(d.walk) \in Seq(Named)
    <3>1. {q \in Children(p) : src[q] # None} \subseteq Path
      BY DEF Children
    <3>2. d.walk \in Seq(Named)
      BY <1>0 DEF Planned
    <3> QED BY <2>1, <3>1, <3>2, WalkIs
  <2>3. PICK o \in Op : o = Mkdir(p) /\ o.op = "mkdir"
    BY <2>2, OpsAre
  <2>4. /\ e.what = "transfer" /\ e.todo = <<>> /\ e.deletes = d.deletes /\ e.root = d.root
        /\ e.ops \in {<<>>, <<o>>} /\ e.walk \in Seq(Named)
    BY <1>0, <2>1, <2>2, <2>3 DEF IsDeed
  <2> HIDE DEF e
  <2>5. \A x : MayDo(e, x) <=> x.op = "mkdir"
    BY <2>4 DEF MayDo
  <2>6. \A x : MayDo(d, x) <=> x.op = "mkdir"
    BY <2>1 DEF MayDo
  <2>7. e.ops \in Seq(Op) /\ \A i \in DOMAIN e.ops : MayDo(e, e.ops[i])
    <3>1. CASE e.ops = <<>>
      BY <1>00, <3>1
    <3>2. CASE e.ops = <<o>>
      BY <2>3, <2>5, <3>2, OneOp
    <3> QED BY <2>4, <3>1, <3>2
  <2>8. Planned(e)
    <3>1. <<>> \in Seq(Req) /\ DOMAIN <<>> = {}
      OBVIOUS
    <3> QED BY <1>0, <2>4, <2>5, <2>6, <2>7, <3>1 DEF Planned
  <2> QED BY <1>0, <2>1, <2>4, <2>8, DeedGoesOn
<1>2. CASE WalkSync(n)
  <2> DEFINE p == Head(deed[n].walk)
             there == IF Exists(Real(p)) THEN Entries(p) ELSE {}
             here == {q \in Children(p) : src[q] # None}
             extra == {x \in there : x.path \notin here}
             gone == Deletes(deed[n].mirror, extra)
             folders == {q \in here : src[q].kind = "dir"}
  <2>0. p \in Named /\ deed[n].what = "sync" /\ deed[n].todo = <<>> /\ deed[n].phase = "walk" /\ deed[n].walk # <<>> /\ deed[n].walk \in Seq(Named)
    <3>1. deed[n].what = "sync" /\ deed[n].todo = <<>> /\ deed[n].phase = "walk" /\ deed[n].walk # <<>> /\ deed[n].walk \in Seq(Named)
      BY <1>0, <1>2 DEF WalkSync, Planned
    <3> QED BY <3>1
  <2>1. gone \in Seq(Op) /\ \A i \in DOMAIN gone : MayDo(deed[n], gone[i])
    BY <2>0, SyncMay
  <2>2. PICK made, wanted, clash :
          /\ made \subseteq folders
          /\ deed' = [deed EXCEPT ![n] = [deed[n] EXCEPT !.walk = SetToSeq(folders) \o Tail(deed[n].walk),
                                                   !.ops = deed[n].ops \o ForEach(made, Mkdir), !.wanted = wanted,
                                                   !.clash = clash, !.deletes = deed[n].deletes \o gone]]
    BY <1>2, WalksOn, Zenon
  <2> DEFINE e == [deed[n] EXCEPT !.walk = SetToSeq(folders) \o Tail(deed[n].walk), !.ops = deed[n].ops \o ForEach(made, Mkdir),
                            !.wanted = wanted, !.clash = clash, !.deletes = deed[n].deletes \o gone]
  <2>3. deed' = [deed EXCEPT ![n] = e] /\ UNCHANGED <<tree, src, pane, overlap>>
    BY <1>2, <2>2 DEF WalkSync
  <2>4. SetToSeq(folders) \o Tail(deed[n].walk) \in Seq(Named)
    <3>1. folders \subseteq Path
      BY DEF Children
    <3> HIDE DEF folders
    <3> QED BY <2>0, <3>1, WalkIs
  <2> HIDE DEF gone, folders
  <2>5. /\ e.walk \in Seq(Named) /\ e.ops = deed[n].ops \o ForEach(made, Mkdir) /\ e.deletes = deed[n].deletes \o gone
        /\ e.what = "sync" /\ e.todo = <<>> /\ e.root = deed[n].root /\ e.mirror = deed[n].mirror
    BY <1>0, <2>0, <2>4 DEF IsDeed
  <2> HIDE DEF e
  <2>6. \A x : MayDo(e, x) <=> MayDo(deed[n], x)
    BY <2>0, <2>5 DEF MayDo, MaySync
  <2>7. ForEach(made, Mkdir) \in Seq(Op) /\ \A i \in DOMAIN ForEach(made, Mkdir) : MayDo(deed[n], ForEach(made, Mkdir)[i])
    <3> DEFINE f == [x \in made |-> Mkdir(x)]
               s == SetToSeq(made)
               ops == [i \in DOMAIN s |-> f[s[i]]]
    <3>1. IsFiniteSet(made) /\ \A x \in made : x \in Named
      <4>1. made \subseteq Path
        BY <2>2 DEF folders, Children
      <4> QED BY <4>1, PathNames, PathAssumption, FS_Subset
    <3>2. ops \in Seq(Op) /\ \A i \in DOMAIN ops : \E x \in made : ops[i] = Mkdir(x)
      <4>1. DOMAIN f = made /\ \A x \in made : f[x] \in Op /\ f[x] = Mkdir(x)
        BY <3>1, OpsAre
      <4> HIDE DEF f
      <4>2. ops \in Seq(Op) /\ \A i \in DOMAIN ops : \E x \in made : ops[i] = f[x]
        BY <3>1, <4>1, OpsOfEach
      <4> QED BY <4>1, <4>2
    <3>3. ForEach(made, Mkdir) = ops
      <4>1. \A i \in DOMAIN s : s[i] \in made
        BY <3>1, Listing
      <4> QED BY <4>1 DEF ForEach
    <3>4. \A x \in made : MayDo(deed[n], Mkdir(x))
      BY <2>0, <3>1, OpsAre DEF MayDo, MaySync
    <3> QED BY <3>2, <3>3, <3>4
  <2>8. deed[n].ops \in Seq(Op) /\ deed[n].deletes \in Seq(Op) /\ (\A i \in DOMAIN deed[n].ops : MayDo(deed[n], deed[n].ops[i]))
        /\ (\A i \in DOMAIN deed[n].deletes : MayDo(deed[n], deed[n].deletes[i])) /\ deed[n].root \in Named
    BY <1>0 DEF Planned
  <2>9. e.ops \in Seq(Op) /\ \A i \in DOMAIN e.ops : MayDo(e, e.ops[i])
    BY <2>5, <2>6, <2>7, <2>8, OpsTogether
  <2>10. e.deletes \in Seq(Op) /\ \A i \in DOMAIN e.deletes : MayDo(e, e.deletes[i])
    BY <2>1, <2>5, <2>6, <2>8, OpsTogether
  <2>11. Planned(e)
    <3>1. <<>> \in Seq(Req) /\ DOMAIN <<>> = {}
      OBVIOUS
    <3> QED BY <2>5, <2>8, <2>9, <2>10, <3>1 DEF Planned
  <2> QED BY <1>0, <2>0, <2>3, <2>5, <2>11, DeedGoesOn
<1>3. CASE WalkFails(n)
  <2>1. Shaped'
    BY <1>3, ShapedStays DEF WalkFails, TreeInv
  <2>2. deed[n].what \in {"pane", "transfer", "sync"}
    BY <1>3, UnderWay DEF WalkFails
  <2> QED BY <1>3, <2>1, <2>2, ThrowTree DEF WalkFails, tree
<1>4. CASE NextPhase(n)
  <2>0. d.what = "sync" /\ UNCHANGED <<tree, src, pane, overlap>> /\ DOMAIN deed = Deed /\ d.root \in Named
    BY <1>0, <1>4 DEF NextPhase, Planned, PaneInv, Deeds
  <2>1. CASE d.ops = <<>> /\ deed' = [deed EXCEPT ![n].phase = "walk", ![n].walk = <<deed[n].root>>]
    <3> DEFINE e == [d EXCEPT !.phase = "walk", !.walk = <<d.root>>]
    <3>1. /\ e.what = d.what /\ e.ops = d.ops /\ e.todo = d.todo /\ e.deletes = d.deletes /\ e.walk = <<d.root>>
          /\ e.root = d.root /\ e.copies = d.copies /\ e.mirror = d.mirror
      BY <1>0 DEF IsDeed
    <3>2. deed' = [deed EXCEPT ![n] = e]
      BY <1>0, <2>0, <2>1
    <3>3. d.todo = <<>>
      BY <1>0, <2>1 DEF Planned
    <3> HIDE DEF e
    <3>4. <<d.root>> \in Seq(Named)
      BY <2>0
    <3>5. Planned(e)
      <4>1. \A x : MayDo(e, x) <=> MayDo(d, x)
        BY <3>1 DEF MayDo, MaySync
      <4>2. d.todo = <<>> /\ DOMAIN <<>> = {}
        BY <3>3
      <4> QED BY <1>0, <3>1, <3>4, <4>1, <4>2 DEF Planned
    <3> QED BY <1>0, <2>0, <3>1, <3>2, <3>3, <3>5, DeedGoesOn
  <2>2. CASE d.phase = "walk" /\ deed' = [deed EXCEPT ![n].phase = "mkdir"]
    <3> DEFINE e == [d EXCEPT !.phase = "mkdir"]
    <3>1. /\ e.what = d.what /\ e.ops = d.ops /\ e.todo = d.todo /\ e.deletes = d.deletes /\ e.walk = d.walk
          /\ e.root = d.root /\ e.copies = d.copies /\ e.mirror = d.mirror
      BY <1>0 DEF IsDeed
    <3>2. deed' = [deed EXCEPT ![n] = e]
      BY <1>0, <2>0, <2>2
    <3>3. d.todo = <<>>
      BY <1>0, <2>2 DEF Planned
    <3> HIDE DEF e
    <3>5. Planned(e)
      BY <1>0, <3>1, <3>3 DEF Planned, MayDo, MaySync
    <3> QED BY <1>0, <2>0, <3>1, <3>2, <3>3, <3>5, DeedGoesOn
  <2>3. CASE /\ d.ops = <<>>
             /\ deed' = [deed EXCEPT ![n].phase = "delete", ![n].copies = deed[n].wanted,
                                ![n].wanted = {}, ![n].ops = deed[n].deletes, ![n].deletes = <<>>]
    <3> DEFINE e == [d EXCEPT !.phase = "delete", !.copies = d.wanted, !.wanted = {}, !.ops = d.deletes,
                              !.deletes = <<>>]
    <3>1. /\ e.what = d.what /\ e.ops = d.deletes /\ e.todo = d.todo /\ e.deletes = <<>> /\ e.walk = d.walk
          /\ e.root = d.root /\ e.mirror = d.mirror
      BY <1>0 DEF IsDeed
    <3>2. deed' = [deed EXCEPT ![n] = e]
      BY <1>0, <2>0, <2>3
    <3>3. d.todo = <<>>
      BY <1>0, <2>3 DEF Planned
    <3> HIDE DEF e
    <3>4. \A x : MayDo(e, x) <=> MayDo(d, x)
      BY <3>1 DEF MayDo, MaySync
    <3>5. Planned(e)
      BY <1>0, <1>00, <2>0, <3>1, <3>3, <3>4 DEF Planned
    <3> QED BY <1>0, <2>0, <3>1, <3>2, <3>3, <3>5, DeedGoesOn
  <2> QED BY <1>0, <1>4, <2>1, <2>2, <2>3 DEF NextPhase
<1>5. CASE Finishes(n)
  <2> DEFINE e == [d EXCEPT !.phase = IF d.what = "sync" THEN "synced" ELSE "done",
                            !.what = IF d.copies = {} THEN "over" ELSE d.what]
  <2>1. /\ e.what = (IF d.copies = {} THEN "over" ELSE d.what) /\ e.ops = d.ops /\ e.todo = d.todo
        /\ e.deletes = d.deletes /\ e.walk = d.walk /\ e.root = d.root /\ e.copies = d.copies /\ e.mirror = d.mirror
    BY <1>0 DEF IsDeed
  <2>2. /\ deed' = [deed EXCEPT ![n] = e] /\ Reloads /\ UNCHANGED <<tree, src, overlap>>
        /\ d.what \in {"pane", "transfer", "sync"} /\ d.ops = <<>>
    BY <1>0, <1>5 DEF Finishes, PaneInv, Deeds
  <2>3. d.todo = <<>>
    BY <1>0, <2>2 DEF Planned
  <2> HIDE DEF e
  <2>4. \A x : MayDo(d, x) => MayDo(e, x)
    BY <2>1 DEF MayDo, MaySync
  <2>5. Planned(e)
    BY <1>0, <2>1, <2>3, <2>4 DEF Planned
  <2> QED BY <1>0, <2>1, <2>2, <2>3, <2>5, DeedGoesOn
<1> QED BY <1>1, <1>2, <1>3, <1>4, <1>5

\* A copy that ends, or fails, leaves a file, where there are directories above it.
LEMMA CopyTree ==
  ASSUME PaneInv, TreeInv, NEW n \in Deed, NEW p \in Path, CopyEnds(n, p) \/ CopyFails(n, p)
  PROVE  TreeInv'
<1> DEFINE left == deed[n].copies \ {p}
           e == [deed[n] EXCEPT !.copies = left,
                   !.what = IF left = {} /\ deed[n].phase \in {"synced", "failed"} THEN "over" ELSE deed[n].what]
<1>0. IsDeed(deed[n]) /\ Planned(deed[n]) /\ deed[n].copies # {}
  BY DEF PaneInv, Deeds, TreeInv, Plans, CopyEnds, CopyFails
<1>1. deed[n].what \in {"transfer", "sync"}
  BY <1>0, UnderWay DEF Planned
<1>2. Shaped'
  <2>1. UNCHANGED kind /\ UNCHANGED dirs
    BY DEF CopyEnds, CopyFails
  <2>2. \/ UNCHANGED file
        \/ CanWrite(p) /\ \E size, mtime : file' = [file EXCEPT ![Real(p)] = File(size, mtime)]
    BY DEF CopyEnds, CopyFails
  <2>3. CASE UNCHANGED file
    BY <2>1, <2>3, ShapedStays DEF TreeInv, tree
  <2>4. CASE CanWrite(p) /\ \E size, mtime : file' = [file EXCEPT ![Real(p)] = File(size, mtime)]
    <3>1. PICK f : f.kind = "file" /\ file' = [file EXCEPT ![Real(p)] = f]
      BY <2>4 DEF File, Node
    <3>2. PICK at : at = Real(p) /\ at \in Path /\ (kind = "s3" \/ (IsDir(Front(at)) /\ ~IsDir(at)))
      BY <2>4 DEF CanWrite
    <3> QED BY <2>1, <3>1, <3>2, FileShape DEF TreeInv
  <2> QED BY <2>2, <2>3, <2>4
<1>3. UNCHANGED <<kind, src, overlap>>
  BY DEF CopyEnds, CopyFails
<1>4. CASE CopyFails(n, p) /\ deed[n].what = "transfer"
  <2>1. Throws(n, left) /\ left \subseteq deed[n].copies
    BY <1>4 DEF CopyFails
  <2> QED BY <1>1, <1>2, <1>3, <2>1, ThrowTree
<1>5. CASE CopyEnds(n, p) \/ (CopyFails(n, p) /\ deed[n].what # "transfer")
  <2>1. deed' = [deed EXCEPT ![n] = e] /\ (UNCHANGED pane \/ Reloads)
    BY <1>5 DEF CopyEnds, CopyFails, PaneInv, Deeds
  <2>2. /\ e.what = (IF left = {} /\ deed[n].phase \in {"synced", "failed"} THEN "over" ELSE deed[n].what)
        /\ e.ops = deed[n].ops /\ e.todo = deed[n].todo /\ e.deletes = deed[n].deletes /\ e.walk = deed[n].walk
        /\ e.root = deed[n].root /\ e.mirror = deed[n].mirror /\ e.phase = deed[n].phase
    BY <1>0 DEF IsDeed
  <2> HIDE DEF e
  <2>2a. PICK d : d = e
    OBVIOUS
  <2>3. \A x : MayDo(deed[n], x) => MayDo(d, x)
    BY <2>2, <2>2a DEF MayDo, MaySync
  <2>4. Planned(d)
    BY <1>0, <1>1, <2>2, <2>2a, <2>3 DEF Planned
  <2>5. ASSUME d.todo # <<>>  PROVE Relies(Head(d.ops), d.todo)'
    <3>1. PICK o, todo : o = Head(d.ops) /\ todo = d.todo
      OBVIOUS
    <3>2. d.ops \in Seq(Op) /\ d.ops # <<>>
      BY <1>0, <2>2, <2>2a, <2>5 DEF Planned
    <3>3. 1 \in DOMAIN d.ops /\ o = d.ops[1]
      BY <3>1, <3>2
    <3>4. MayDo(deed[n], o)
      BY <1>0, <2>2, <2>2a, <3>3 DEF Planned
    <3>5. o.op = "mkdir" \/ (o.op = "remove" /\ o.recursive)
      BY <1>1, <3>4 DEF MayDo, MaySync
    <3>6. Relies(o, todo)'
      BY <3>5 DEF Relies, Emptied, Carried
    <3> QED BY <3>1, <3>6
  <2> QED BY <1>1, <1>2, <1>3, <2>1, <2>2, <2>2a, <2>4, <2>5, TreeMoves, ShownStays DEF TreeInv
<1> QED BY <1>4, <1>5

LEMMA StepTree == PaneInv /\ TreeInv /\ [FilesNext]_filesVars => TreeInv'
<1> SUFFICES ASSUME PaneInv, TreeInv, [FilesNext]_filesVars  PROVE TreeInv'
  OBVIOUS
<1>1. CASE UNCHANGED filesVars
  <2>1. UNCHANGED <<tree, src, pane, deed, overlap>>
    BY <1>1 DEF filesVars
  <2> QED BY <2>1, PlansStay, ShapedStays, ShownStays DEF TreeInv
<1> QED
  BY <1>1, PaneTree, StartTree, RequestTree, WalkTree, CopyTree DEF FilesNext

\* What is at a path is a file or a directory, over which there are directories up to the
\* root, whatever has been asked, on every file system but S3, which has no directories; the
\* pane's folders are ones it may open; and a deed that is over has nothing left to do.
THEOREM FilesTypeCorrect == FilesSpec => []FilesTypeOK
<1>1. PaneInv /\ TreeInv => FilesTypeOK
  <2> SUFFICES ASSUME PaneInv, TreeInv  PROVE FilesTypeOK
    OBVIOUS
  <2>1. ASSUME kind # "s3", NEW p \in Path, p \in dirs \/ IsFile(p)  PROVE IsDir(Front(p))
    <3>1. Above(p) \subseteq dirs
      BY <2>1 DEF TreeInv, Shaped
    <3>2. Front(p) = <<>> \/ Front(p) \in Above(p)
      BY PathNames, AboveFront
    <3> QED BY <3>1, <3>2 DEF IsDir
  <2>2. Active \cup overlap \subseteq {n \in Deed : deed[n] # NoDeed}
    <3>1. NoDeed.what = "none"
      BY DEF NoDeed
    <3> QED BY <3>1 DEF TreeInv, Alone, Active
  <2>3. \A n \in Deed : /\ deed[n].todo # <<>> => deed[n].ops # <<>>
                        /\ deed[n].what = "over" => /\ <<>> = deed[n].ops /\ <<>> = deed[n].walk
                                                    /\ {} = deed[n].copies
    BY DEF TreeInv, Plans, Planned, PaneInv, Deeds, Settles
  <2> QED BY <2>1, <2>2, <2>3 DEF FilesTypeOK, TreeInv, Shaped, Shown
<1>2. PaneInv /\ TreeInv /\ [FilesNext]_filesVars => PaneInv' /\ TreeInv'
  BY StepPaneInv, StepTree
<1> QED BY InitPaneInv, InitTree, <1>1, <1>2, PTL DEF FilesSpec

-----------------------------------------------------------------------------
(***************************************************************************)
(* What vanishes.                                                          *)
(***************************************************************************)
Linked(o) == /\ o.op = "remove"
             /\ \E l \in Path : file[l] = Link /\ (IsPrefix(o.path, l) \/ IsPrefix(l, o.path))

LEMMA WhatVanishes ==
  ASSUME Shaped, NEW o \in Op, NEW todo, AreRight(o, todo), todo # <<>>, NEW alone \in BOOLEAN,
         alone => Relies(o, todo), NEW r, r = Head(todo), HasPlace(r, Served(o, r).dirs),
         file' = Served(o, r).file, dirs' = Served(o, r).dirs, UNCHANGED kind, NEW q \in Path, Vanishes(q)
  PROVE  /\ o.op \in {"remove", "rename"}
         /\ IsPrefix(o.path, q) \/ Linked(o) \/ (o.op = "rename" /\ IsPrefix(o.to, q))
         /\ o.op = "remove" /\ ~o.recursive /\ alone => (q = o.path \/ Linked(o))
         /\ /\ o.op = "rename" /\ alone
            /\ IsPrefix(o.path, q) /\ ~IsPrefix(o.to, q) /\ ~IsPrefix(o.path, o.to)
            => (file[q] # file'[q] => file'[Moved(o.path, o.to, q)] = file[q])
<1>0. /\ todo \in Seq(Req) /\ 1 \in DOMAIN todo /\ r = todo[1] /\ r \in Req /\ RightAsk(o, r)
      /\ r.ask \in AskNames /\ r.path \in Named /\ o.path \in Named /\ o.to \in Named /\ q \in Named /\ q # <<>>
  <2>1. todo \in Seq(Req) /\ 1 \in DOMAIN todo /\ r = todo[1] /\ r \in Req
    BY DEF AreRight
  <2> QED BY <2>1, PathNames DEF AreRight, Req, Op
<1>1. DOMAIN file = Path /\ (file' # file \/ dirs' # dirs)
  BY DEF Shaped, Vanishes
<1>2. r.ask \notin {"probe", "look", "head", "isPrefix", "listAllKeys", "check"} /\ Served(o, r).ends = "ok"
  BY <1>0, <1>1, OnlyLooks
<1>3. r.ask \notin {"make", "mark", "copyKey"}
  <2>1. CASE r.ask = "make"
    <3>1. file' = file /\ dirs \subseteq dirs'
      BY <2>1 DEF Served, Make, Refused, Answer
    <3> QED BY <3>1 DEF Vanishes
  <2>2. CASE r.ask = "mark"
    <3>1. file' = file /\ dirs \subseteq dirs'
      BY <2>2 DEF Served, Mark, Answer
    <3> QED BY <3>1 DEF Vanishes
  <2>3. CASE r.ask = "copyKey"
    <3>1. /\ dirs \subseteq dirs'
          /\ \/ file' = file
             \/ file' = [file EXCEPT ![r.to] = file[r.path]] /\ file[r.path] # None
      BY <2>3 DEF Served, CopyKey, Refused, Answer, IsFile
    <3>2. file[q] # None => file'[q] # None
      BY <1>1, <3>1
    <3> QED BY <3>1, <3>2 DEF Vanishes
  <2> QED BY <2>1, <2>2, <2>3
<1>4. CASE r.ask \in {"unlink", "rmdir"}
  <2>1. o.op = "remove" /\ IsPrefix(o.path, r.path) /\ (~o.recursive => r.path = o.path)
    BY <1>0, <1>4 DEF Op, RightAsk, RenameAsk, RemovalAsk
  <2>2. q = Unfollowed(r.path)
    <3>1. CASE r.ask = "unlink"
      <4>1. file' = [file EXCEPT ![Unfollowed(r.path)] = None] /\ dirs' = dirs
        BY <1>2, <3>1 DEF Served, Unlink, Refused, Answer
      <4> QED BY <1>1, <4>1 DEF Vanishes
    <3>2. CASE r.ask = "rmdir"
      <4>1. file' = file /\ dirs' = dirs \ {Unfollowed(r.path)}
        BY <1>2, <3>2 DEF Served, Rmdir, Refused, Answer
      <4> QED BY <4>1 DEF Vanishes
    <3> QED BY <1>4, <3>1, <3>2
  <2>3. CASE Linked(o)
    BY <2>1, <2>3
  <2>4. CASE ~Linked(o)
    <3>1. r.path # <<>>
      BY <1>0, <2>2 DEF Unfollowed
    <3>2. ASSUME NEW l \in Path, file[l] = Link, IsPrefix(l, r.path)  PROVE FALSE
      <4>1. IsPrefix(o.path, l) \/ IsPrefix(l, o.path)
        BY <1>0, <2>1, <3>2, PathNames, PrefixOrder
      <4> QED BY <2>1, <2>4, <3>2, <4>1 DEF Linked
    <3>3. q = r.path
      BY <1>0, <2>2, <3>1, <3>2, UnlinkedAt
    <3> QED BY <2>1, <3>3
  <2> QED BY <2>3, <2>4
<1>5. CASE r.ask = "deleteKey"
  <2>1. /\ kind = "s3" /\ IsPrefix(o.path, r.path) /\ o.op \in {"remove", "rename"}
        /\ o.op = "remove" /\ ~o.recursive => r.path = o.path
    BY <1>0, <1>5 DEF Op, RightAsk, RenameAsk, RemovalAsk
  <2>2. \/ r.marker /\ file' = file /\ dirs' = dirs \ {r.path}
        \/ ~r.marker /\ file' = [file EXCEPT ![r.path] = None] /\ dirs' = dirs
    BY <1>5 DEF Served, DeleteKey, Answer
  <2>3. q = r.path
    BY <1>1, <2>2 DEF Vanishes
  <2>4. ASSUME o.op = "rename", alone, ~IsPrefix(o.to, q), ~IsPrefix(o.path, o.to), file[q] # file'[q]
        PROVE  file'[Moved(o.path, o.to, q)] = file[q]
    <3> DEFINE new == Moved(o.path, o.to, q)
    <3>1. IsPrefix(o.to, new) /\ new # q
      BY <1>0, <2>1, <2>3, <2>4, MovedBack
    <3>2. Apart(o)
      BY <1>0, <2>1, <2>3, <2>4, PrefixOrder DEF Apart
    <3>3. Deletes1(todo[1], q) /\ file[q] # None
      BY <1>0, <1>1, <1>5, <2>2, <2>3, <2>4 DEF Deletes1
    <3>4. new \in Path /\ file[new] = file[q]
      <4>1. 1..(1 - 1) = {}
        OBVIOUS
      <4> QED BY <1>0, <2>4, <3>2, <3>3, <4>1 DEF Relies, Carried
    <3> HIDE DEF new
    <3>5. file'[new] = file[new]
      BY <1>1, <2>2, <2>3, <3>1, <3>4
    <3> QED BY <3>4, <3>5 DEF new
  <2> QED BY <2>1, <2>3, <2>4
<1>6. CASE r.ask = "delete"
  <2>1. o.op = "remove" /\ r.path = o.path
    BY <1>0, <1>6 DEF Op, RightAsk, RenameAsk, RemovalAsk
  <2>2. /\ file' = [p \in Path |-> IF IsPrefix(o.path, p) THEN None ELSE file[p]]
        /\ dirs' = dirs \ AtOrBelow(o.path)
    BY <1>2, <1>6, <2>1 DEF Served, Delete, Refused, Answer
  <2>3. IsPrefix(o.path, q)
    BY <2>2 DEF Vanishes, AtOrBelow
  <2>4. ASSUME alone, ~o.recursive  PROVE q = o.path
    <3>1. \A p \in Below(o.path) : ~IsFile(p) /\ p \notin dirs
      BY <1>0, <1>6, <2>1, <2>4 DEF Relies, Emptied
    <3> QED BY <2>3, <3>1 DEF Below, AtOrBelow, Vanishes, IsFile
  <2> QED BY <2>1, <2>3, <2>4
<1>7. CASE r.ask = "move"
  <2>1. o.op = "rename" /\ r.path = o.path /\ r.to = o.to /\ Fits(o.path, o.to)
    BY <1>0, <1>7 DEF Op, RightAsk, RenameAsk, RemovalAsk, HasPlace
  <2>2. /\ file' = [p \in Path |-> IF IsPrefix(o.to, p)
                                   THEN (IF Moved(o.to, o.path, p) \in Path THEN file[Moved(o.to, o.path, p)] ELSE None)
                                   ELSE IF IsPrefix(o.path, p) THEN None ELSE file[p]]
        /\ dirs' = {p \in Path : IF IsPrefix(o.to, p) THEN Moved(o.to, o.path, p) \in dirs
                                 ELSE p \in dirs /\ ~IsPrefix(o.path, p)}
    BY <1>1, <1>2, <1>7, <2>1 DEF Served, Move, Refused, Then, Answer
  <2>3. IsPrefix(o.to, q) \/ IsPrefix(o.path, q)
    BY <2>2 DEF Vanishes
  <2>4. ASSUME IsPrefix(o.path, q), ~IsPrefix(o.to, q), file[q] # file'[q]
        PROVE  file'[Moved(o.path, o.to, q)] = file[q]
    <3> DEFINE new == Moved(o.path, o.to, q)
    <3>1. IsPrefix(o.to, new) /\ Moved(o.to, o.path, new) = q
      BY <1>0, <2>4, MovedBack
    <3>2. file[q] # None
      BY <2>2, <2>4
    <3>3. new \in Path
      BY <2>1, <2>4, <3>2 DEF Fits, AtOrBelow, IsFile
    <3> HIDE DEF new
    <3>4. file'[new] = file[q]
      BY <2>2, <3>1, <3>3
    <3> QED BY <3>4 DEF new
  <2> QED BY <2>1, <2>3, <2>4
<1> QED BY <1>0, <1>2, <1>3, <1>4, <1>5, <1>6, <1>7 DEF AskNames

LEMMA StepVanishes ==
  ASSUME PaneInv, TreeInv, FilesNext, NEW q \in Path, Vanishes(q)
  PROVE  \E n \in Deed : MeantBy(n, q)
<1>1. ~UNCHANGED tree
  BY DEF Vanishes, tree
<1>2. Pane \/ Start => UNCHANGED tree
  BY DEF Pane, Answered, ListFails, Show, Refresh, Navigate, Start, HandleNewFolder, HandleRename,
         HandleDeleteConfirm, EnqueueTransfer, ApplySync, Starts
<1>3. ASSUME NEW n \in Deed  PROVE WalkTransfer(n) \/ WalkSync(n) \/ WalkFails(n) \/ NextPhase(n) \/ Finishes(n)
                                   => UNCHANGED tree
  BY DEF WalkTransfer, WalkSync, WalkFails, NextPhase, Finishes
<1>4. ASSUME NEW n \in Deed, NEW p \in Path, CopyEnds(n, p) \/ CopyFails(n, p)  PROVE FALSE
  <2>1. /\ dirs' = dirs
        /\ \/ file' = file
           \/ \E size, mtime : file' = [file EXCEPT ![Real(p)] = File(size, mtime)]
    BY <1>4 DEF CopyEnds, CopyFails
  <2>2. PICK f : f # None /\ (file' = file \/ file' = [file EXCEPT ![Real(p)] = f])
    BY <2>1 DEF File, Node, None
  <2>3. DOMAIN file = Path
    BY DEF TreeInv, Shaped
  <2> QED BY <2>1, <2>2, <2>3 DEF Vanishes
<1>5. PICK n \in Deed : Request(n)
  BY <1>1, <1>2, <1>3, <1>4 DEF FilesNext
<1>6. PICK d : d = deed[n] /\ Planned(d) /\ d.ops # <<>>
  BY <1>5 DEF TreeInv, Plans, Request
<1>7. PICK o \in Op : o = Head(d.ops) /\ MayDo(d, o)
  <2>1. d.ops \in Seq(Op)
    BY <1>6 DEF Planned
  <2>2. Head(d.ops) \in Op /\ 1 \in DOMAIN d.ops /\ Head(d.ops) = d.ops[1]
    BY <1>6, <2>1
  <2> QED BY <1>6, <2>2 DEF Planned
<1>8. PICK todo : todo = IF d.todo = <<>> THEN <<FirstAsk(o)>> ELSE d.todo
  OBVIOUS
<1>9. AreRight(o, todo) /\ todo # <<>> /\ (n \notin overlap => Relies(o, todo))
  <2>1. CASE d.todo = <<>>
    BY <1>8, <2>1, FirstIs DEF Relies
  <2>2. CASE d.todo # <<>>
    <3>1. AreRight(o, todo)
      BY <1>6, <1>7, <1>8, <2>2 DEF AreRight, Planned
    <3>2. n \notin overlap => Relies(o, todo)
      BY <1>6, <1>7, <1>8, <2>2 DEF TreeInv, Plans, Relies
    <3> QED BY <1>8, <2>2, <3>1, <3>2
  <2> QED BY <2>1, <2>2
<1>10. PICK r : r = Head(todo)
  OBVIOUS
<1>11. /\ HasPlace(r, Served(o, r).dirs) /\ file' = Served(o, r).file /\ dirs' = Served(o, r).dirs
       /\ UNCHANGED kind
  BY <1>5, <1>6, <1>7, <1>8, <1>10 DEF Request, Vanishes
<1>12. PICK alone \in BOOLEAN : alone <=> n \notin overlap
  OBVIOUS
<1>13. /\ o.op \in {"remove", "rename"}
       /\ IsPrefix(o.path, q) \/ Linked(o) \/ (o.op = "rename" /\ IsPrefix(o.to, q))
       /\ o.op = "remove" /\ ~o.recursive /\ alone => (q = o.path \/ Linked(o))
       /\ /\ o.op = "rename" /\ alone
          /\ IsPrefix(o.path, q) /\ ~IsPrefix(o.to, q) /\ ~IsPrefix(o.path, o.to)
          => (file[q] # file'[q] => file'[Moved(o.path, o.to, q)] = file[q])
  BY <1>9, <1>10, <1>11, <1>12, WhatVanishes DEF TreeInv
<1>14. d.what = "sync" => d.mirror /\ ~(o.path \in Path /\ src[o.path] # None)
  BY <1>7, <1>13 DEF MayDo, MaySync
<1>15. MeantBy(n, q)
  BY <1>6, <1>7, <1>12, <1>13, <1>14 DEF MeantBy, Linked
<1> QED BY <1>15

\* What vanishes was to be removed or renamed, by a deed that meant it; for any tree, kind
\* of file system and number of deeds (SftpFS.ts:134-152, S3FS.ts:284-319 and 361-385,
\* WebDavFS.ts:226-258, OneDriveFS.ts:104-129, sync.ts:72-114).
THEOREM NothingElseIsRemoved == FilesSpec => NothingElseVanishes
<1> DEFINE Meant == \A q \in Path : Vanishes(q) => \E n \in Deed : MeantBy(n, q)
<1>1. PaneInv /\ TreeInv /\ [FilesNext]_filesVars => [Meant]_filesVars
  BY StepVanishes
<1>2. PaneInv /\ TreeInv /\ [FilesNext]_filesVars => PaneInv' /\ TreeInv'
  BY StepPaneInv, StepTree
<1> QED BY InitPaneInv, InitTree, <1>1, <1>2, PTL DEF FilesSpec, NothingElseVanishes
=============================================================================
