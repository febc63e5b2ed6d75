--------------------------- MODULE OneDriveProofs ---------------------------
(***************************************************************************)
(* The OneDrive session, proved for any number of calls, clears and        *)
(* reloads; its callers, which use the session as it is specified, so that *)
(* what is proved of it holds under them, and the account that the         *)
(* interface shows is one the session has; and, for any number of jobs and *)
(* any lengths, the copies of OneDrive's files and of the other file       *)
(* systems over HTTP.                                                      *)
(***************************************************************************)
EXTENDS OneDriveAccount, HttpCopy, TLAPS

(***************************************************************************)
(* The two numbers tell which calls have been overtaken: they only grow    *)
(* while a page lives, and what a call has read is never above them.       *)
(***************************************************************************)
Numbered ==
  /\ superseded \subseteq 1..begun /\ awaiting \subseteq 1..begun
  /\ \A c \in awaiting :
       /\ gen[c] <= generation /\ seq[c] <= acquireSeq
       /\ c \in superseded <=> ~Current(c)

(***************************************************************************)
(* A refusal is on record, in the state and, if it can be, on disk.        *)
(***************************************************************************)
Recorded == refused /\ writable => flag

IInv ==
  /\ TypeOK /\ OneSourceOfTruth /\ NoSignInUnderClear /\ RefusedClearBlocks
  /\ Numbered /\ Recorded

-----------------------------------------------------------------------------
LEMMA InitIInv == Init => IInv
<1> SUFFICES ASSUME Init PROVE IInv
  OBVIOUS
<1>1. TypeOK
  <2>1. clearing \in BOOLEAN /\ flag \in BOOLEAN /\ writable \in BOOLEAN /\ refused \in BOOLEAN
    BY Zenon DEF Init
  <2>2. stateValue \in SessionState
    BY Zenon DEF Init, SessionState
  <2>3. /\ begun \in 0..MaxCalls /\ clears \in 0..MaxClears /\ reloads \in 0..MaxReloads
        /\ generation \in 0..clears /\ acquireSeq \in 0..begun
        /\ gen \in [Call -> Nat] /\ seq \in [Call -> Nat]
    BY SessionAssumption DEF Init
  <2>4. QED
    BY <2>1, <2>2, <2>3, Zenon DEF Init, TypeOK
<1>2. OneSourceOfTruth /\ NoSignInUnderClear /\ RefusedClearBlocks
  BY DEF Init, OneSourceOfTruth, NoSignInUnderClear, RefusedClearBlocks
<1>3. Numbered /\ Recorded
  BY DEF Init, Numbered, Recorded
<1>4. QED
  BY <1>1, <1>2, <1>3 DEF IInv

LEMMA AcquireStep ==
  ASSUME IInv, NEW interactive \in BOOLEAN, Acquire(interactive) PROVE IInv'
<1> USE DEF IInv
<1>1. /\ begun' = begun + 1 /\ begun' \in Call /\ begun \in Nat
      /\ acquireSeq' = acquireSeq + 1
  BY SessionAssumption DEF Acquire, TypeOK, Call
<1>2. UNCHANGED <<token, generation, stateValue, clearing, stored, clears, reloads, refused>>
  BY DEF Acquire
<1>3. TypeOK'
  BY <1>1, <1>2, SessionAssumption DEF Acquire, TypeOK, Call, stored
<1>4. OneSourceOfTruth'
  BY <1>2 DEF OneSourceOfTruth
<1>5. NoSignInUnderClear' /\ RefusedClearBlocks'
  BY <1>2 DEF Acquire, Allowed, NoSignInUnderClear, RefusedClearBlocks, stored
<1>6. Numbered'
  <2>1. begun' \notin awaiting /\ begun' \notin superseded
    BY <1>1 DEF Numbered
  <2>2. \A c \in awaiting : gen'[c] = gen[c] /\ seq'[c] = seq[c]
    BY <2>1 DEF Acquire, TypeOK
  <2>3. \A c \in awaiting : /\ gen'[c] <= generation' /\ seq'[c] < acquireSeq'
                            /\ c \in superseded'
    BY <1>1, <1>2, <2>2 DEF Acquire, Numbered, TypeOK
  <2>4. gen'[begun'] = generation' /\ seq'[begun'] = acquireSeq' /\ begun' \notin superseded'
    BY <1>1, <1>2, <2>1 DEF Acquire, TypeOK
  <2>5. \A c \in awaiting' : c \in awaiting \/ c = begun'
    BY DEF Acquire
  <2>6. superseded' \subseteq 1..begun' /\ awaiting' \subseteq 1..begun'
    BY <1>1 DEF Acquire, Numbered
  <2>7. \A c \in awaiting' : /\ gen'[c] <= generation' /\ seq'[c] <= acquireSeq'
                             /\ c \in superseded' <=> ~Current(c)'
    BY <1>3, <2>3, <2>4, <2>5 DEF Current, TypeOK
  <2>8. QED
    BY <2>6, <2>7 DEF Numbered
<1>7. Recorded'
  BY <1>2 DEF Recorded, stored
<1>8. QED
  BY <1>3, <1>4, <1>5, <1>6, <1>7

LEMMA SettleStep ==
  ASSUME IInv, NEW c \in Call, NEW ok \in BOOLEAN, AcquireSettles(c, ok) PROVE IInv'
<1> USE DEF IInv
<1>1. UNCHANGED <<generation, acquireSeq, clearing, stored, gen, seq, counts,
                  superseded, refused>>
  BY DEF AcquireSettles
<1>2. \/ UNCHANGED <<token, stateValue>>
      \/ token' = c /\ stateValue' = "signed_in" /\ Current(c)
  BY DEF AcquireSettles
<1>3. Current(c) => ~clearing /\ stateValue # "clear_failed"
  BY DEF AcquireSettles, Numbered, NoSignInUnderClear
<1>4. awaiting' \subseteq awaiting
  BY DEF AcquireSettles
<1>5. TypeOK'
  BY <1>1, <1>2, <1>4 DEF TypeOK, SessionState, stored, counts
<1>6. OneSourceOfTruth'
  BY <1>1, <1>2, <1>3, SessionAssumption DEF OneSourceOfTruth, Call
<1>7. NoSignInUnderClear' /\ RefusedClearBlocks'
  BY <1>1, <1>2, <1>3, <1>4
     DEF NoSignInUnderClear, RefusedClearBlocks, OneSourceOfTruth, stored, counts
<1>8. Numbered'
  BY <1>1, <1>4 DEF Numbered, Current, counts
<1>9. Recorded'
  BY <1>1 DEF Recorded, stored
<1>10. QED
  BY <1>5, <1>6, <1>7, <1>8, <1>9

LEMMA ClearStep == ASSUME IInv, ClearSession PROVE IInv'
<1> USE DEF IInv
<1>1. TypeOK'
  BY SessionAssumption DEF ClearSession, TypeOK, SessionState, stored, calls
<1>2. OneSourceOfTruth' /\ NoSignInUnderClear' /\ RefusedClearBlocks'
  BY DEF ClearSession, OneSourceOfTruth, NoSignInUnderClear, RefusedClearBlocks, calls
<1>3. Numbered'
  BY DEF ClearSession, Numbered, Current, TypeOK, calls
<1>4. Recorded'
  BY DEF ClearSession, Recorded, stored
<1>5. QED
  BY <1>1, <1>2, <1>3, <1>4

LEMMA ClearedStep ==
  ASSUME IInv, NEW ok \in BOOLEAN, ClearSettles(ok) PROVE IInv'
<1> USE DEF IInv
<1>1. TypeOK'
  <2>1. clearing' \in BOOLEAN /\ flag' \in BOOLEAN /\ refused' \in BOOLEAN
    BY Zenon DEF ClearSettles, SetClearRequired, TypeOK
  <2>2. stateValue' \in SessionState
    BY Zenon DEF ClearSettles, SessionState
  <2>3. UNCHANGED <<token, generation, acquireSeq, writable, calls, counts, superseded>>
    BY DEF ClearSettles
  <2>4. QED
    BY <2>1, <2>2, <2>3 DEF TypeOK, calls, counts
<1>2. OneSourceOfTruth' /\ NoSignInUnderClear' /\ RefusedClearBlocks'
  BY DEF ClearSettles, OneSourceOfTruth, NoSignInUnderClear, RefusedClearBlocks, calls
<1>3. Numbered'
  BY DEF ClearSettles, Numbered, Current, calls, counts
<1>4. Recorded'
  BY DEF ClearSettles, SetClearRequired, Recorded
<1>5. QED
  BY <1>1, <1>2, <1>3, <1>4

LEMMA ReloadStep == ASSUME IInv, Reload PROVE IInv'
<1> USE DEF IInv
<1>1. TypeOK'
  <2>1. clearing' \in BOOLEAN /\ stateValue' \in SessionState
    BY Zenon DEF Reload, SessionState
  <2>2. reloads' \in 0..MaxReloads
    BY SessionAssumption DEF Reload, TypeOK
  <2>3. /\ token' = None /\ generation' = 0 /\ acquireSeq' = 0 /\ awaiting' = {}
        /\ UNCHANGED <<stored, gen, seq, begun, clears, superseded, refused>>
    BY DEF Reload
  <2>4. QED
    BY <2>1, <2>2, <2>3 DEF TypeOK, stored
<1>2. OneSourceOfTruth' /\ NoSignInUnderClear'
  BY DEF Reload, OneSourceOfTruth, NoSignInUnderClear
<1>3. RefusedClearBlocks' /\ Recorded'
  BY DEF Reload, RefusedClearBlocks, Recorded, TypeOK, stored
<1>4. Numbered'
  BY DEF Reload, Numbered
<1>5. QED
  BY <1>1, <1>2, <1>3, <1>4

LEMMA StepIInv == IInv /\ [Next]_vars => IInv'
<1> SUFFICES ASSUME IInv, [Next]_vars PROVE IInv'
  OBVIOUS
<1>1. CASE UNCHANGED vars
  BY <1>1 DEF vars, local, stored, calls, counts, IInv, TypeOK, OneSourceOfTruth,
              NoSignInUnderClear, RefusedClearBlocks, Numbered, Current, Recorded
<1>2. CASE Next
  BY <1>2, AcquireStep, SettleStep, ClearStep, ClearedStep, ReloadStep DEF Next
<1>3. QED
  BY <1>1, <1>2

LEMMA Inductive == Spec => []IInv
  BY InitIInv, StepIInv, PTL DEF Spec

\* The variables keep their types.
THEOREM TypeCorrect == Spec => []TypeOK
<1>1. IInv => TypeOK
  BY DEF IInv
<1>2. QED
  BY <1>1, Inductive, PTL

\* The state says signed_in exactly when there is a token, and clearing exactly
\* while a clear is in flight.
THEOREM StateAndTokenAgree == Spec => []OneSourceOfTruth
<1>1. IInv => OneSourceOfTruth
  BY DEF IInv
<1>2. QED
  BY <1>1, Inductive, PTL

\* No answer of the host to an acquire that a clear or a newer acquire has
\* overtaken becomes the token.
THEOREM LateAnswersAreDropped == Spec => NoStaleCommit
<1>1. IInv /\ [Next]_vars
        => [token' # token /\ token' # None => token' \notin superseded]_vars
  <2> SUFFICES ASSUME IInv, Next, token' # token, token' # None
               PROVE  token' \notin superseded
    BY DEF vars, local
  <2>1. PICK c \in Call, ok \in BOOLEAN : AcquireSettles(c, ok)
    BY DEF Next, Acquire, ClearSession, ClearSettles, Reload
  <2>2. c \in awaiting /\ token' = c /\ Current(c)
    BY <2>1 DEF AcquireSettles
  <2>3. QED
    BY <2>2 DEF IInv, Numbered
<1>2. QED
  BY <1>1, Inductive, PTL DEF Spec, NoStaleCommit

\* No sign-in starts while a clear is in flight or has failed, and a refused clear
\* keeps the session closed, across reloads.
THEOREM ClearKeepsClosed == Spec => []ClearIsFinal
<1>1. IInv => ClearIsFinal
  BY DEF IInv, ClearIsFinal
<1>2. QED
  BY <1>1, Inductive, PTL

-----------------------------------------------------------------------------
(***************************************************************************)
(* The callers.                                                            *)
(***************************************************************************)

\* Every step of a caller is a step of the session, or leaves it alone: for any number
\* of calls, clears and page loads.
THEOREM AccountUsesSession == AccountSpec => Spec
<1>1. AccountInit => Init
  BY DEF AccountInit
<1>2. [AccountNext]_allVars => [Next]_vars
  <2> SUFFICES ASSUME [AccountNext]_allVars PROVE [Next]_vars
    OBVIOUS
  <2>1. CASE UNCHANGED allVars
    BY <2>1 DEF allVars
  <2>2. CASE Mount
    BY <2>2 DEF Mount, Next
  <2>3. CASE ConnectOneDrive \/ RequestSilently \/ RequestForced
    BY <2>3 DEF ConnectOneDrive, RequestSilently, RequestForced, Next
  <2>4. ASSUME NEW c \in Call, NEW ok \in BOOLEAN, Settles(c, ok) PROVE Next
    BY <2>4 DEF Settles, Next
  <2>5. ASSUME NEW c \in Call, Refreshed(c) PROVE UNCHANGED vars
    BY <2>5 DEF Refreshed
  <2>6. CASE SignOut \/ LoadPage
    BY <2>6 DEF SignOut, LoadPage, Next
  <2>7. ASSUME NEW ok \in BOOLEAN, SignedOut(ok) PROVE Next
    BY <2>7 DEF SignedOut, Next
  <2>8. QED
    BY <2>1, <2>2, <2>3, <2>4, <2>5, <2>6, <2>7 DEF AccountNext
<1>3. QED
  BY <1>1, <1>2, PTL DEF AccountSpec, Spec

\* So a refused clear keeps the session closed to all of them.
THEOREM AccountKeepsClosed == AccountSpec => []ClearIsFinal
BY AccountUsesSession, ClearKeepsClosed, PTL

\* And no caller gets a token from a late answer.
THEOREM AccountDropsLateAnswers == AccountSpec => NoStaleCommit
BY AccountUsesSession, LateAnswersAreDropped

-----------------------------------------------------------------------------
(***************************************************************************)
(* A caller that awaits the user's name was given the token that is there, *)
(* or a clear has come since: then the generation is another.              *)
(***************************************************************************)
Awaited ==
  /\ refreshing \subseteq 1..begun
  /\ \A c \in refreshing : gen[c] <= generation /\ (gen[c] = generation => token # None)

AInv == AccountShown /\ Awaited

LEMMA InitAInv == AccountInit => AInv
BY DEF AccountInit, AInv, AccountShown, Awaited

\* An acquire that begins has a number of its own.
LEMMA AcquireKeepsAInv ==
  ASSUME IInv, AInv, NEW interactive \in BOOLEAN, Acquire(interactive),
         refreshing' = refreshing, signedIn' = signedIn, late' = late
  PROVE  AInv'
<1>1. /\ begun \in Nat /\ begun' = begun + 1 /\ begun' \notin refreshing
      /\ UNCHANGED <<token, generation, clearing>>
  BY SessionAssumption DEF Acquire, IInv, TypeOK, AInv, Awaited
<1>2. \A c \in refreshing : gen'[c] = gen[c]
  BY <1>1 DEF Acquire, IInv, TypeOK
<1>3. QED
  BY <1>1, <1>2 DEF AInv, AccountShown, Awaited

LEMMA SettlesKeepsAInv ==
  ASSUME IInv, AInv, NEW c \in Call, NEW ok \in BOOLEAN, Settles(c, ok)
  PROVE  AInv'
<1>1. /\ c \in awaiting /\ c \in 1..begun
      /\ UNCHANGED <<generation, clearing, gen, begun, signedIn, late>>
  BY DEF Settles, AcquireSettles, counts, IInv, Numbered
<1>2. token' = token \/ token' = c
  BY DEF Settles, AcquireSettles
<1>3. c # None
  BY SessionAssumption DEF Call
<1>4. token # None => token' # None
  BY <1>2, <1>3
<1>5. AccountShown'
  BY <1>1, <1>4 DEF AInv, AccountShown
<1>6. CASE refreshing' = refreshing
  BY <1>1, <1>4, <1>5, <1>6 DEF AInv, Awaited
<1>7. CASE ok /\ Current(c) /\ refreshing' = refreshing \cup {c}
  <2>1. token' = c /\ gen[c] <= generation
    BY <1>1, <1>7 DEF Settles, AcquireSettles, IInv, Numbered
  <2>2. QED
    BY <1>1, <1>3, <1>4, <1>5, <1>7, <2>1 DEF AInv, Awaited
<1>8. QED
  BY <1>6, <1>7 DEF Settles

LEMMA RefreshedKeepsAInv ==
  ASSUME AInv, NEW c \in Call, Refreshed(c) PROVE AInv'
BY DEF AInv, AccountShown, Awaited, Refreshed, vars, local, calls, counts

LEMMA ClearKeepsAInv ==
  ASSUME IInv, AInv, SignOut \/ LoadPage \/ \E ok \in BOOLEAN : SignedOut(ok) PROVE AInv'
<1>1. CASE SignOut
  <2>1. /\ clearing' /\ generation' = generation + 1
        /\ UNCHANGED <<gen, begun, refreshing, signedIn, late>>
    BY <1>1 DEF SignOut, ClearSession, shown, callers, calls
  <2>2. generation \in Nat /\ \A c \in refreshing : gen[c] <= generation /\ gen[c] \in Nat
    BY SessionAssumption DEF IInv, TypeOK, AInv, Awaited, Call
  <2>3. AccountShown'
    BY <2>1 DEF AccountShown
  <2>4. \A c \in refreshing' : gen'[c] <= generation' /\ gen'[c] # generation'
    BY <2>1, <2>2
  <2>5. QED
    BY <2>1, <2>3, <2>4 DEF AInv, Awaited
<1>2. CASE LoadPage
  BY <1>2 DEF AInv, AccountShown, Awaited, LoadPage
<1>3. ASSUME NEW ok \in BOOLEAN, SignedOut(ok) PROVE AInv'
  BY <1>3 DEF AInv, AccountShown, Awaited, SignedOut, ClearSettles, callers, calls, counts
<1>4. QED
  BY <1>1, <1>2, <1>3

LEMMA StepAInv == IInv /\ AInv /\ [AccountNext]_allVars => AInv'
<1> SUFFICES ASSUME IInv, AInv, [AccountNext]_allVars PROVE AInv'
  OBVIOUS
<1>1. CASE UNCHANGED allVars
  BY <1>1 DEF AInv, AccountShown, Awaited, allVars, vars, local, calls, counts, shown, callers
<1>2. CASE Mount
  <2>1. UNCHANGED <<signedIn, refreshing, late>>
    BY <1>2 DEF Mount
  <2>2. CASE Acquire(FALSE)
    BY <2>1, <2>2, AcquireKeepsAInv
  <2>3. CASE UNCHANGED vars
    BY <2>1, <2>3 DEF AInv, AccountShown, Awaited, vars, local, calls, counts
  <2>4. QED
    BY <1>2, <2>2, <2>3 DEF Mount
<1>3. CASE ConnectOneDrive \/ RequestSilently \/ RequestForced
  BY <1>3, AcquireKeepsAInv DEF ConnectOneDrive, RequestSilently, RequestForced, shown
<1>4. ASSUME NEW c \in Call, NEW ok \in BOOLEAN, Settles(c, ok) PROVE AInv'
  BY <1>4, SettlesKeepsAInv
<1>5. ASSUME NEW c \in Call, Refreshed(c) PROVE AInv'
  BY <1>5, RefreshedKeepsAInv
<1>6. CASE SignOut \/ LoadPage \/ \E ok \in BOOLEAN : SignedOut(ok)
  BY <1>6, ClearKeepsAInv
<1>7. QED
  BY <1>1, <1>2, <1>3, <1>4, <1>5, <1>6 DEF AccountNext

\* The interface shows no account that the session has lost, except one whose user's
\* name arrives after the sign-out.
THEOREM AccountIsThere == AccountSpec => []AccountShown
<1>1. AInv => AccountShown
  BY DEF AInv
<1>2. AccountSpec => []IInv
  BY AccountUsesSession, Inductive, PTL
<1>3. QED
  BY <1>1, <1>2, InitAInv, StepAInv, PTL DEF AccountSpec

-----------------------------------------------------------------------------
(***************************************************************************)
(* What the copies need of the types.                                      *)
(***************************************************************************)
Byte == Job \X Nat \X Nat
Upload == [by : SUBSET Job, total : Nat \cup {Unknown}, got : Seq(Byte), live : BOOLEAN]
CopyTypes ==
  /\ <<from, to>> \in Pairs
  /\ source \in [Job -> Seq(Lengths)] /\ size \in [Job -> Lengths \cup {Unknown}]
  /\ pc \in [Job -> {"queued", "status", "create", "openRead", "read", "put", "close",
                     "closeCreate", "closePut", "done", "failed"}]
  /\ resume \subseteq attempted /\ attempted \subseteq Job
  /\ reading \in [Job -> [version : Nat, size : Nat, at : Nat]]
  /\ pending \in [Job -> Seq(Byte)] /\ sent \in [Job -> Nat] /\ url \in [Job -> Nat]
  /\ session \in Seq(Upload) /\ uploadSessions \in 0..Len(session)
  /\ \A j \in Job : url[j] <= Len(session) /\ reading[j].version \in 1..Version(j)

(***************************************************************************)
(* Where each run stands.  A run that puts ranges is one of those that use *)
(* its upload session.                                                     *)
(***************************************************************************)
Uses(j) == pc[j] = "closePut" \/ (Streams(j) /\ pc[j] \in {"openRead", "read", "put", "close"})

Stands(j) ==
  /\ size[j] \in {source[j][1], Unknown}
  /\ Uses(j) => url[j] # 0 /\ j \in session[url[j]].by
  /\ pc[j] = "put" => Streams(j) /\ Flush(j, pending[j]) >= ALIGN
  /\ pc[j] \in {"status", "create"} => Streams(j)
  /\ pc[j] \in {"closeCreate", "closePut"} => ~Streams(j) /\ Len(pending[j]) # 0
  /\ pc[j] = "closePut" => sent[j] < Len(pending[j])
  /\ pc[j] \in {"status", "create", "openRead"} => pending[j] = <<>>
  /\ ~Streams(j) /\ pc[j] \in {"openRead", "read", "close"} => sent[j] = 0
  /\ Streams(j) /\ pc[j] \in {"openRead", "read", "put"} => sent[j] < size[j]

(***************************************************************************)
(* What a run keeps in memory is what it has read and not yet sent, unless *)
(* OneDrive's source has changed under the reader.                         *)
(***************************************************************************)
Steady(j) == from = "onedrive" => reading[j].version = Version(j)
Base(j) == IF Streams(j) THEN sent[j] ELSE 0

Nothing(j) == pc[j] = "close" /\ pending[j] = <<>> /\ size[j] # Unknown /\ sent[j] >= size[j]

HasRead(j) ==
  /\ reading[j].at = Base(j) + Len(pending[j])
  /\ Steady(j) => pending[j] = Bytes(j, reading[j].version, Base(j), reading[j].at)
  /\ reading[j].size = source[j][reading[j].version]
  /\ reading[j].at <= reading[j].size \/ pending[j] = <<>>
  /\ pc[j] \in {"close", "closeCreate", "closePut"} => reading[j].at >= reading[j].size

Holds == {"read", "put", "close", "closeCreate", "closePut"}
Keeps(j) == pc[j] \in Holds => Nothing(j) \/ HasRead(j)

Bounded(j) ==
  Streams(j) /\ reading[j].size <= size[j] =>
    /\ Len(pending[j]) < FLUSH_AT + Buffer
    /\ pc[j] = "read" => Len(pending[j]) < FLUSH_AT \/ reading[j].at >= reading[j].size

(***************************************************************************)
(* A session of one job whose source has not changed has the beginning of  *)
(* that source, and still needs the rest while it is there.  A run that    *)
(* nobody disturbed is in step with its session, unless that has expired.  *)
(***************************************************************************)
Carries(id, j) ==
  session[id].by = {j} /\ Streams(j) /\ Version(j) = 1 =>
    /\ session[id].got = Bytes(j, 1, 0, Len(session[id].got))
    /\ session[id].total \in {Unknown, size[j]}
    /\ session[id].live => Len(session[id].got) < size[j] /\ Len(session[id].got) % ALIGN = 0

InStep(j) ==
  Uses(j) /\ session[url[j]].by = {j} /\ (Streams(j) => Version(j) = 1) =>
    /\ Len(session[url[j]].got) = sent[j]
    /\ session[url[j]].live \/ Expired(url[j])
    /\ pc[j] = "closePut" =>
         /\ session[url[j]].total \in {Unknown, Len(pending[j])}
         /\ session[url[j]].live => sent[j] % ALIGN = 0
         /\ Steady(j) => session[url[j]].got = Bytes(j, reading[j].version, 0, sent[j])

RunInv(j) ==
  /\ Stands(j) /\ Keeps(j) /\ Bounded(j) /\ InStep(j)
  /\ \A id \in DOMAIN session : Carries(id, j)

CopyInv ==
  /\ CopyTypes
  /\ \A id \in DOMAIN session : session[id].by # {}
  /\ \A j \in Job : RunInv(j)

-----------------------------------------------------------------------------
(***************************************************************************)
(* Blocks.                                                                 *)
(***************************************************************************)
LEMMA MinOfTwo ==
  ASSUME NEW a \in Int, NEW b \in Int
  PROVE  Min({a, b}) = IF a <= b THEN a ELSE b
BY DEF Min

LEMMA MaxOfTwo ==
  ASSUME NEW a \in Int, NEW b \in Int
  PROVE  Max({a, b}) = IF a <= b THEN b ELSE a
BY DEF Max

LEMMA WholeBlocks ==
  ASSUME NEW n \in Nat, NEW A \in Nat \ {0}
  PROVE  /\ (n \div A) * A \in 0..n
         /\ n - (n \div A) * A < A
         /\ ((n \div A) * A) % A = 0
<1> DEFINE q == n \div A
<1>1. q \in Nat
  OBVIOUS
<1>2. q * A <= n /\ n < q * A + A
  OBVIOUS
<1>3. q * A \in Nat /\ (q * A) % A = 0
  <2> HIDE DEF q
  <2> QED BY <1>1
<1> HIDE DEF q
<1>4. q * A \in 0..n /\ n - q * A < A
  <2> DEFINE m == q * A
  <2>1. m \in Nat /\ m <= n /\ n < m + A
    BY <1>2, <1>3
  <2> HIDE DEF m
  <2>2. m \in 0..n /\ n - m < A
    BY <2>1
  <2> QED BY <2>2 DEF m
<1> QED BY <1>3, <1>4 DEF q

LEMMA SumOfBlocks ==
  ASSUME NEW A \in Nat \ {0}, NEW a \in Nat, NEW b \in Nat, a % A = 0, b % A = 0
  PROVE  (a + b) % A = 0
<1> DEFINE p == a \div A
           q == b \div A
<1>1. p \in Nat /\ q \in Nat
  OBVIOUS
<1>2. a = p * A /\ b = q * A
  OBVIOUS
<1> HIDE DEF p, q
<1>3. (p + q) * A = p * A + q * A
  BY <1>1
<1>4. ((p + q) * A) % A = 0
  BY <1>1
<1> QED BY <1>2, <1>3, <1>4

LEMMA BlockAtLeast ==
  ASSUME NEW A \in Nat \ {0}, NEW a \in Nat, a % A = 0, a # 0
  PROVE  a >= A
OBVIOUS

LEMMA Sizes ==
  /\ ALIGN \in Nat \ {0} /\ FLUSH_AT \in Nat \ {0} /\ SIMPLE_LIMIT \in Nat /\ Buffer \in Nat \ {0}
  /\ FLUSH_AT % ALIGN = 0 /\ ALIGN <= FLUSH_AT /\ Buffer < ALIGN /\ FLUSH_AT < SIMPLE_LIMIT
  /\ Unknown \notin Nat /\ Lengths \subseteq Nat
<1>1. /\ ALIGN \in Nat \ {0} /\ FLUSH_AT \in Nat \ {0} /\ SIMPLE_LIMIT \in Nat /\ Buffer \in Nat \ {0}
      /\ FLUSH_AT % ALIGN = 0 /\ Buffer < ALIGN /\ FLUSH_AT < SIMPLE_LIMIT
      /\ Unknown \notin Nat /\ Lengths \subseteq Nat
  BY HttpAssumption
<1>2. ALIGN <= FLUSH_AT
  BY <1>1, BlockAtLeast
<1> QED BY <1>1, <1>2

\* What Flush() takes of n bytes kept, at s of a file of z.
FlushOf(n, s, z) ==
  LET blocks == (n \div ALIGN) * ALIGN IN
  IF s + blocks < z THEN blocks
  ELSE Max({0, ((z - s - 1) \div ALIGN) * ALIGN})

LEMMA FlushFits ==
  ASSUME NEW n \in Nat, NEW s \in Nat, NEW z \in Nat, s < z
  PROVE  /\ FlushOf(n, s, z) \in 0..n /\ s + FlushOf(n, s, z) < z
         /\ FlushOf(n, s, z) % ALIGN = 0
         /\ n >= FLUSH_AT /\ FlushOf(n, s, z) < ALIGN => z - s <= ALIGN
         /\ n - FlushOf(n, s, z) < FLUSH_AT \/ (z - s) - FlushOf(n, s, z) <= ALIGN
<1> DEFINE blocks == (n \div ALIGN) * ALIGN
           m == z - s - 1
           least == (m \div ALIGN) * ALIGN
<1>0. m \in Nat /\ z = s + m + 1
  OBVIOUS
<1>1. blocks \in 0..n /\ n - blocks < ALIGN /\ blocks % ALIGN = 0
  BY WholeBlocks, Sizes
<1>2. least \in 0..m /\ m - least < ALIGN /\ least % ALIGN = 0
  <2> HIDE DEF m
  <2> QED BY <1>0, WholeBlocks, Sizes
<1>3. 0 % ALIGN = 0
  BY Sizes
<1> HIDE DEF blocks, least, m
<1>4. CASE s + blocks < z
  <2>1. FlushOf(n, s, z) = blocks
    BY <1>4 DEF FlushOf, blocks
  <2>2. n >= FLUSH_AT /\ blocks < ALIGN => FALSE
    BY <1>1, Sizes
  <2> QED BY <1>1, <1>4, <2>1, <2>2, Sizes
<1>5. CASE ~(s + blocks < z)
  <2>1. FlushOf(n, s, z) = Max({0, least})
    BY <1>5 DEF FlushOf, blocks, least, m
  <2>2. FlushOf(n, s, z) = least
    BY <1>0, <1>2, <2>1, MaxOfTwo
  <2>3. least < blocks
    BY <1>0, <1>1, <1>2, <1>5
  <2>4. least \in 0..n /\ s + least < z
    BY <1>0, <1>1, <1>2, <2>3
  <2>5. (z - s) - least <= ALIGN
    BY <1>0, <1>2, Sizes
  <2>6. least < ALIGN => least = 0
    BY <1>2, Sizes
  <2>7. least = 0 => z - s <= ALIGN
    BY <2>5
  <2> QED BY <1>2, <2>2, <2>4, <2>5, <2>6, <2>7
<1> QED BY <1>4, <1>5

LEMMA FlushIs == ASSUME NEW j, NEW kept  PROVE Flush(j, kept) = FlushOf(Len(kept), sent[j], size[j])
BY DEF Flush, FlushOf

-----------------------------------------------------------------------------
(***************************************************************************)
(* Bytes.                                                                  *)
(***************************************************************************)
LEMMA BytesAre ==
  ASSUME NEW j \in Job, NEW v \in Nat, NEW a \in Nat, NEW b \in Nat, a <= b
  PROVE  Bytes(j, v, a, b) \in Seq(Byte)
<1>1. b - a \in Nat
  OBVIOUS
<1>2. \A k \in 1..(b - a) : a + k \in Nat
  OBVIOUS
<1> QED BY <1>1, <1>2 DEF Bytes, Byte

LEMMA BytesLen ==
  ASSUME NEW j, NEW v, NEW a \in Nat, NEW b \in Nat, a <= b
  PROVE  Len(Bytes(j, v, a, b)) = b - a
<1>1. b - a \in Nat
  OBVIOUS
<1> QED BY <1>1 DEF Bytes

LEMMA NoBytes == ASSUME NEW j, NEW v, NEW a \in Nat  PROVE Bytes(j, v, a, a) = <<>>
<1>1. a - a = 0 /\ 1..0 = {}
  OBVIOUS
<1> QED BY <1>1 DEF Bytes

LEMMA Joined ==
  ASSUME NEW s \in Seq(Byte), NEW t \in Seq(Byte)
  PROVE  s \o t \in Seq(Byte) /\ Len(s \o t) = Len(s) + Len(t)
OBVIOUS

\* Two sequences of one length with the same elements.
LEMMA SameBytes ==
  ASSUME NEW s \in Seq(Byte), NEW t \in Seq(Byte), NEW n \in Nat, Len(s) = n, Len(t) = n,
         \A k \in 1..n : s[k] = t[k]
  PROVE  s = t
OBVIOUS

LEMMA BytesAt ==
  ASSUME NEW j \in Job, NEW v \in Nat, NEW a \in Nat, NEW b \in Nat, NEW k \in 1..(b - a)
  PROVE  Bytes(j, v, a, b)[k] = <<j, v, a + k>>
BY DEF Bytes

LEMMA BytesJoin ==
  ASSUME NEW j \in Job, NEW v \in Nat, NEW a \in Nat, NEW b \in Nat, NEW c \in Nat, a <= b, b <= c
  PROVE  Bytes(j, v, a, b) \o Bytes(j, v, b, c) = Bytes(j, v, a, c)
<1>1. PICK s : s = Bytes(j, v, a, b)
  OBVIOUS
<1>2. PICK t : t = Bytes(j, v, b, c)
  OBVIOUS
<1>3. PICK u : u = Bytes(j, v, a, c)
  OBVIOUS
<1>0. PICK m \in Nat, n \in Nat : m = b - a /\ n = c - b /\ m + n = c - a
  OBVIOUS
<1>4. s \in Seq(Byte) /\ Len(s) = m
  <2>1. s \in Seq(Byte)
    BY <1>1, BytesAre
  <2>2. Len(s) = b - a
    BY <1>1, BytesLen
  <2> QED BY <1>0, <2>1, <2>2
<1>5. t \in Seq(Byte) /\ Len(t) = n
  <2>1. t \in Seq(Byte)
    BY <1>2, BytesAre
  <2>2. Len(t) = c - b
    BY <1>2, BytesLen
  <2> QED BY <1>0, <2>1, <2>2
<1>6. u \in Seq(Byte) /\ Len(u) = m + n
  <2>1. a <= c
    OBVIOUS
  <2>2. u \in Seq(Byte)
    BY <1>3, <2>1, BytesAre
  <2>3. Len(u) = c - a
    BY <1>3, <2>1, BytesLen
  <2> QED BY <1>0, <2>2, <2>3
<1>7. s \o t \in Seq(Byte) /\ Len(s \o t) = m + n
  BY <1>4, <1>5
<1>8. ASSUME NEW k \in 1..(m + n)  PROVE (s \o t)[k] = u[k]
  <2>0. u[k] = <<j, v, a + k>>
    <3>1. k \in 1..(c - a)
      BY <1>0
    <3> QED BY <1>3, <3>1, BytesAt
  <2>1. CASE k \in 1..m
    <3>1. (s \o t)[k] = s[k]
      BY <1>4, <1>5, <2>1
    <3>2. k \in 1..(b - a)
      BY <1>0, <2>1
    <3>3. s[k] = <<j, v, a + k>>
      BY <1>1, <3>2, BytesAt
    <3> QED BY <2>0, <3>1, <3>3
  <2>2. CASE k \notin 1..m
    <3>1. PICK i \in 1..n : k = m + i
      BY <2>2
    <3>2. (s \o t)[k] = t[i]
      BY <1>4, <1>5, <3>1
    <3>3. i \in 1..(c - b) /\ b + i = a + k
      BY <1>0, <3>1
    <3>4. t[i] = <<j, v, b + i>>
      <4>1. Bytes(j, v, b, c)[i] = <<j, v, b + i>>
        BY <3>3, BytesAt
      <4> QED BY <1>2, <4>1
    <3> QED BY <2>0, <3>2, <3>3, <3>4
  <2> QED BY <2>1, <2>2
<1>9. s \o t = u
  <2>1. m + n \in Nat
    OBVIOUS
  <2> QED BY <1>6, <1>7, <1>8, <2>1, SameBytes
<1> QED BY <1>1, <1>2, <1>3, <1>9

LEMMA Prefixes ==
  ASSUME NEW j \in Job, NEW v \in Nat, NEW s \in Nat, NEW e \in Nat, s <= e
  PROVE  Bytes(j, v, 0, s) \o Bytes(j, v, s, e) = Bytes(j, v, 0, e)
<1>1. 0 \in Nat /\ 0 <= s
  OBVIOUS
<1> QED BY <1>1, BytesJoin

\* Bytes x to y of those from a to c.
LEMMA BytesCut ==
  ASSUME NEW j \in Job, NEW v \in Nat, NEW a \in Nat, NEW c \in Nat, NEW x \in Nat, NEW y \in Nat,
         a <= x, x <= y, y <= c
  PROVE  SubSeq(Bytes(j, v, a, c), (x - a) + 1, y - a) = Bytes(j, v, x, y)
<1>1. PICK s : s = Bytes(j, v, a, c)
  OBVIOUS
<1>2. PICK t : t = Bytes(j, v, x, y)
  OBVIOUS
<1>0. PICK l \in Nat, m \in Nat, n \in Nat : /\ l = c - a /\ m = x - a /\ n = y - x
                                           /\ y - a = m + n /\ m + n <= l
  OBVIOUS
<1>3. s \in Seq(Byte) /\ Len(s) = l
  <2>1. a <= c
    OBVIOUS
  <2>2. s \in Seq(Byte)
    BY <1>1, <2>1, BytesAre
  <2>3. Len(s) = c - a
    BY <1>1, <2>1, BytesLen
  <2> QED BY <1>0, <2>2, <2>3
<1>4. t \in Seq(Byte) /\ Len(t) = n
  <2>1. t \in Seq(Byte)
    BY <1>2, BytesAre
  <2>2. Len(t) = y - x
    BY <1>2, BytesLen
  <2> QED BY <1>0, <2>1, <2>2
<1>5. SubSeq(s, m + 1, m + n) \in Seq(Byte) /\ Len(SubSeq(s, m + 1, m + n)) = n
  BY <1>0, <1>3
<1>6. ASSUME NEW k \in 1..n  PROVE SubSeq(s, m + 1, m + n)[k] = t[k]
  <2>0. PICK i : i = m + k
    OBVIOUS
  <2>1. i \in 1..l /\ a + i = x + k
    BY <1>0, <2>0
  <2>2. SubSeq(s, m + 1, m + n)[k] = s[i]
    BY <1>0, <1>3, <1>5, <2>0
  <2>3. i \in 1..(c - a) /\ k \in 1..(y - x)
    BY <1>0, <2>1
  <2>4. s[i] = <<j, v, a + i>>
    BY <1>1, <2>3, BytesAt
  <2>5. t[k] = <<j, v, x + k>>
    BY <1>2, <2>3, BytesAt
  <2> QED BY <2>1, <2>2, <2>4, <2>5
<1>7. SubSeq(s, m + 1, m + n) = t
  BY <1>4, <1>5, <1>6, SameBytes
<1> QED BY <1>0, <1>1, <1>2, <1>7

-----------------------------------------------------------------------------
(***************************************************************************)
(* A step of one job leaves all that is another's.  An upload session that *)
(* it changes is one that it uses.                                         *)
(***************************************************************************)
LeavesOthers(j) ==
  /\ from' = from /\ to' = to /\ size' = size
  /\ \A i \in Job \ {j} : /\ source'[i] = source[i] /\ pc'[i] = pc[i] /\ reading'[i] = reading[i]
                          /\ pending'[i] = pending[i] /\ sent'[i] = sent[i] /\ url'[i] = url[i]
  /\ DOMAIN session \subseteq DOMAIN session'
  /\ \A id \in DOMAIN session' :
       \/ id \in DOMAIN session /\ session'[id] = session[id]
       \/ /\ j \in session'[id].by
          /\ id \in DOMAIN session => session[id].by \subseteq session'[id].by

MovesAlone(j) == source' = source /\ LeavesOthers(j)

LEMMA OthersStay ==
  ASSUME CopyInv, NEW j \in Job, LeavesOthers(j), CopyTypes', NEW i \in Job, i # j
  PROVE  RunInv(i)'
<1>1. /\ pc'[i] = pc[i] /\ reading'[i] = reading[i] /\ source'[i] = source[i] /\ size'[i] = size[i]
      /\ pending'[i] = pending[i] /\ sent'[i] = sent[i] /\ url'[i] = url[i]
  BY DEF LeavesOthers
<1>2. /\ Streams(i)' <=> Streams(i)
      /\ Version(i)' = Version(i)
      /\ from' = from
  BY DEF Streams, Version, LeavesOthers
<1>3. /\ Steady(i)' <=> Steady(i)
      /\ Base(i)' = Base(i)
      /\ Uses(i)' <=> Uses(i)
  BY <1>1, <1>2 DEF Steady, Base, Uses
<1>4. RunInv(i)
  BY DEF CopyInv
<1>5. /\ Nothing(i)' <=> Nothing(i)
      /\ HasRead(i)' <=> HasRead(i)
  BY <1>1, <1>2, <1>3 DEF Nothing, HasRead, Bytes
<1>6. Keeps(i)'
  BY <1>1, <1>4, <1>5 DEF RunInv, Keeps
<1>7. Bounded(i)'
  <2>1. Bounded(i)
    BY <1>4 DEF RunInv
  <2> QED BY <1>1, <1>2, <2>1 DEF Bounded
<1>8. Uses(i) => url[i] \in DOMAIN session /\ i \in session[url[i]].by
  <2>1. Uses(i) => url[i] # 0 /\ i \in session[url[i]].by
    BY <1>4 DEF RunInv, Stands
  <2>2. url[i] \in Nat /\ url[i] <= Len(session) /\ session \in Seq(Upload)
    BY DEF CopyInv, CopyTypes
  <2> QED BY <2>1, <2>2
<1>9. Stands(i)'
  <2>1. Uses(i) => i \in session'[url[i]].by
    BY <1>8 DEF LeavesOthers
  <2>2. Flush(i, pending[i])' = Flush(i, pending[i])
    BY <1>1 DEF Flush
  <2> QED BY <1>1, <1>2, <1>3, <1>4, <2>1, <2>2 DEF RunInv, Stands
<1>10. ASSUME NEW id \in DOMAIN session', session'[id].by = {i}
       PROVE  id \in DOMAIN session /\ session'[id] = session[id]
  BY <1>10 DEF LeavesOthers
<1>11. InStep(i)'
  <2>1. ASSUME Uses(i), session'[url[i]].by = {i}
        PROVE  session'[url[i]] = session[url[i]]
    BY <1>8, <1>10, <2>1 DEF LeavesOthers
  <2>2. ASSUME Uses(i), session'[url[i]].by = {i}, Streams(i) => Version(i) = 1
        PROVE  /\ Expired(url[i])' <=> Expired(url[i])
               /\ InStep(i)
    BY <1>4, <2>1, <2>2, <1>1 DEF Expired, RunInv
  <2> QED BY <1>1, <1>2, <1>3, <2>1, <2>2 DEF InStep, Bytes
<1>12. ASSUME NEW id \in DOMAIN session'  PROVE Carries(id, i)'
  <2>1. CASE session'[id].by = {i}
    <3>1. session'[id] = session[id] /\ Carries(id, i)
      BY <1>4, <1>10, <2>1 DEF RunInv
    <3> QED BY <1>1, <1>2, <3>1 DEF Carries, Bytes
  <2>2. CASE session'[id].by # {i}
    BY <2>2 DEF Carries
  <2> QED BY <2>1, <2>2
<1> QED BY <1>6, <1>7, <1>9, <1>11, <1>12 DEF RunInv

LEMMA CopyFacts ==
  ASSUME CopyTypes, NEW j \in Job
  PROVE  /\ sent[j] \in Nat /\ pending[j] \in Seq(Byte) /\ Len(pending[j]) \in Nat
         /\ reading[j].version \in Nat \ {0} /\ reading[j].size \in Nat /\ reading[j].at \in Nat
         /\ reading[j].version <= Version(j)
         /\ size[j] \in Nat \cup {Unknown} /\ source[j] \in Seq(Nat) /\ Version(j) \in Nat \ {0}
         /\ Length(j) \in Nat /\ source[j][reading[j].version] \in Nat /\ source[j][1] \in Nat
         /\ Streams(j) => size[j] \in Nat /\ size[j] > SIMPLE_LIMIT
         /\ url[j] \in Nat /\ url[j] <= Len(session)
         /\ DOMAIN session = 1..Len(session) /\ Len(session) \in Nat
<1>1. sent[j] \in Nat /\ pending[j] \in Seq(Byte) /\ Len(pending[j]) \in Nat
  BY DEF CopyTypes
<1>2. /\ reading[j] \in [version : Nat, size : Nat, at : Nat]
      /\ reading[j].version \in 1..Version(j)
      /\ source[j] \in Seq(Lengths) /\ size[j] \in Lengths \cup {Unknown}
      /\ url[j] \in Nat /\ url[j] <= Len(session) /\ session \in Seq(Upload)
  BY DEF CopyTypes
<1>3. source[j] \in Seq(Nat)
  <2>1. Lengths \subseteq Nat
    BY Sizes
  <2>2. Len(source[j]) \in Nat /\ source[j] \in [1..Len(source[j]) -> Lengths]
    BY <1>2
  <2>3. source[j] \in [1..Len(source[j]) -> Nat]
    BY <2>1, <2>2
  <2> QED BY <2>2, <2>3
<1>4. Version(j) \in Nat /\ DOMAIN source[j] = 1..Version(j)
  BY <1>3 DEF Version
<1>5. /\ reading[j].version \in Nat \ {0} /\ reading[j].size \in Nat /\ reading[j].at \in Nat
      /\ reading[j].version <= Version(j) /\ Version(j) \in Nat \ {0}
  BY <1>2, <1>4
<1>6. Length(j) \in Nat /\ source[j][reading[j].version] \in Nat /\ source[j][1] \in Nat
  <2>1. Version(j) \in DOMAIN source[j] /\ reading[j].version \in DOMAIN source[j] /\ 1 \in DOMAIN source[j]
    BY <1>4, <1>5
  <2> QED BY <1>3, <2>1 DEF Length
<1>7. size[j] \in Nat \cup {Unknown}
  BY <1>2, Sizes
<1>8. Streams(j) => size[j] \in Nat /\ size[j] > SIMPLE_LIMIT
  BY <1>7 DEF Streams
<1>9. DOMAIN session = 1..Len(session) /\ Len(session) \in Nat
  BY <1>2
<1> QED BY <1>1, <1>2, <1>3, <1>5, <1>6, <1>7, <1>8, <1>9

LEMMA Together ==
  ASSUME CopyInv, NEW j \in Job, MovesAlone(j), CopyTypes', RunInv(j)'
  PROVE  CopyInv'
<1>1. \A i \in Job : RunInv(i)'
  BY OthersStay DEF MovesAlone
<1>2. \A id \in DOMAIN session' : session'[id].by # {}
  BY DEF CopyInv, MovesAlone, LeavesOthers
<1> QED BY <1>1, <1>2 DEF CopyInv

\* The same upload sessions.
LEMMA CarriesOn ==
  ASSUME CopyInv, NEW j \in Job, session' = session, MovesAlone(j)
  PROVE  \A id \in DOMAIN session' : Carries(id, j)'
<1>1. /\ Streams(j)' <=> Streams(j)
      /\ Version(j)' = Version(j)
      /\ size'[j] = size[j]
  BY DEF Streams, Version, MovesAlone, LeavesOthers
<1> SUFFICES ASSUME NEW id \in DOMAIN session  PROVE Carries(id, j)'
  OBVIOUS
<1>2. Carries(id, j)
  BY DEF CopyInv, RunInv
<1> QED BY <1>1, <1>2 DEF Carries, Bytes

\* A run that has not opened its file, or has ended.
LEMMA Idle ==
  ASSUME CopyInv, NEW j \in Job, MovesAlone(j), CopyTypes',
         pc'[j] \in {"queued", "status", "create", "failed", "done"},
         pc'[j] \in {"status", "create"} => Streams(j) /\ pending'[j] = <<>>,
         pending'[j] \in {pending[j], <<>>}, reading'[j] = reading[j],
         \A id \in DOMAIN session' : Carries(id, j)'
  PROVE  RunInv(j)'
<1>1. /\ Streams(j)' <=> Streams(j)
      /\ size'[j] = size[j] /\ source'[j] = source[j]
  BY DEF Streams, MovesAlone, LeavesOthers
<1>2. RunInv(j)
  BY DEF CopyInv
<1>3. ~Uses(j)'
  BY DEF Uses
<1>4. Stands(j)'
  BY <1>1, <1>2, <1>3 DEF RunInv, Stands
<1>5. Keeps(j)' /\ InStep(j)'
  BY <1>3 DEF Keeps, Holds, InStep
<1>6. Bounded(j)'
  <2>1. Bounded(j) /\ Len(<<>>) = 0 /\ 0 < FLUSH_AT + Buffer
    BY <1>2, Sizes DEF RunInv
  <2>2. CASE pending'[j] = pending[j]
    BY <1>1, <2>1, <2>2 DEF Bounded
  <2>3. CASE pending'[j] = <<>>
    BY <2>1, <2>3 DEF Bounded
  <2> QED BY <2>2, <2>3
<1> QED BY <1>4, <1>5, <1>6 DEF RunInv

-----------------------------------------------------------------------------
(***************************************************************************)
(* A run opens its file.                                                   *)
(***************************************************************************)
LEMMA Opened ==
  ASSUME CopyInv, NEW j \in Job, MovesAlone(j), CopyTypes', pending'[j] = <<>>,
         pc'[j] = IF size[j] # Unknown /\ sent'[j] >= size[j] THEN "close" ELSE "openRead",
         ~Streams(j) => sent'[j] = 0,
         Streams(j) =>
           /\ url'[j] # 0 /\ j \in session'[url'[j]].by
           /\ session'[url'[j]].by = {j} /\ Version(j) = 1 =>
                Len(session'[url'[j]].got) = sent'[j] /\ (session'[url'[j]].live \/ Expired(url[j])'),
         \A id \in DOMAIN session' : Carries(id, j)'
  PROVE  RunInv(j)'
<1>1. /\ Streams(j)' <=> Streams(j)
      /\ Version(j)' = Version(j)
      /\ size'[j] = size[j] /\ source'[j] = source[j]
  BY DEF Streams, Version, MovesAlone, LeavesOthers
<1>2. RunInv(j) /\ CopyTypes
  BY DEF CopyInv
<1>3. Uses(j)' => Streams(j)
  BY <1>1 DEF Uses
<1>4. pc'[j] \in {"openRead", "close"}
  OBVIOUS
<1>5. Streams(j) /\ pc'[j] = "openRead" => sent'[j] < size[j]
  <2>1. sent'[j] \in Nat
    BY DEF CopyTypes
  <2>2. Streams(j) => size[j] \in Nat /\ size[j] # Unknown
    BY <1>2, CopyFacts, Sizes
  <2> QED BY <2>1, <2>2
<1>6. Stands(j)'
  BY <1>1, <1>2, <1>3, <1>4, <1>5 DEF RunInv, Stands
<1>7. Keeps(j)'
  BY <1>1, <1>4 DEF Keeps, Holds, Nothing
<1>8. Bounded(j)'
  <2>1. Len(<<>>) = 0 /\ 0 < FLUSH_AT + Buffer
    BY Sizes
  <2> QED BY <1>4, <2>1 DEF Bounded
<1>9. InStep(j)'
  BY <1>1, <1>3, <1>4 DEF InStep
<1> QED BY <1>6, <1>7, <1>8, <1>9 DEF RunInv

LEMMA VersionsStay == ASSUME source' = source  PROVE \A i \in Job : Version(i)' = Version(i)
BY DEF Version

LEMMA StartTypes ==
  ASSUME CopyInv, NEW j \in Job, Start(j)  PROVE CopyTypes'
<1> USE DEF CopyInv
<1>1. \A i \in Job : Version(i)' = Version(i)
  BY VersionsStay DEF Start
<1>2. sent' \in [Job -> Nat]
  BY DEF Start, Open, CopyTypes
<1>3. pc' \in [Job -> {"queued", "status", "create", "openRead", "read", "put", "close",
                       "closeCreate", "closePut", "done", "failed"}]
  BY DEF Start, Open, CopyTypes
<1>4. url' \in [Job -> Nat] /\ \A i \in Job : url'[i] <= Len(session)
  <2>1. uploadSessions \in Nat /\ uploadSessions <= Len(session) /\ 0 <= Len(session)
    BY DEF CopyTypes
  <2>2. url' \in {url, [url EXCEPT ![j] = 0], [url EXCEPT ![j] = uploadSessions]}
    BY DEF Start
  <2>3. url \in [Job -> Nat] /\ \A i \in Job : url[i] <= Len(session)
    BY DEF CopyTypes
  <2> QED BY <2>1, <2>2, <2>3
<1>5. resume' \subseteq attempted' /\ attempted' \subseteq Job
  BY DEF Start, CopyTypes
<1>6. pending' \in [Job -> Seq(Byte)]
  BY DEF Start, CopyTypes
<1> QED BY <1>1, <1>2, <1>3, <1>4, <1>5, <1>6 DEF Start, CopyTypes, drive

LEMMA StartSteps ==
  ASSUME CopyInv, NEW j \in Job, Start(j)  PROVE CopyInv'
<1>1. CopyTypes'
  BY StartTypes
<1>2. CopyTypes /\ session' = session /\ reading' = reading /\ pending'[j] = <<>>
  BY DEF CopyInv, CopyTypes, Start, drive
<1>3. MovesAlone(j)
  <2>1. \A i \in Job \ {j} : pc'[i] = pc[i] /\ pending'[i] = pending[i] /\ sent'[i] = sent[i] /\ url'[i] = url[i]
    BY <1>2 DEF Start, Open, CopyTypes
  <2> QED BY <1>2, <2>1 DEF Start, MovesAlone, LeavesOthers
<1>4. \A id \in DOMAIN session' : Carries(id, j)'
  BY <1>2, <1>3, CarriesOn
<1>5. CASE pc'[j] = "failed"
  BY <1>1, <1>2, <1>3, <1>4, <1>5, Idle, Together
<1>6. CASE ~Streams(j) /\ Open(j, 0)
  <2>1. sent'[j] = 0 /\ pc'[j] = IF size[j] # Unknown /\ sent'[j] >= size[j] THEN "close" ELSE "openRead"
    BY <1>2, <1>6 DEF Open, CopyTypes
  <2> QED BY <1>1, <1>2, <1>3, <1>4, <1>6, <2>1, Opened, Together
<1>7. CASE Streams(j) /\ pc'[j] \in {"status", "create"}
  BY <1>1, <1>2, <1>3, <1>4, <1>7, Idle, Together
<1>8. pc'[j] = "failed" \/ (~Streams(j) /\ Open(j, 0)) \/ (Streams(j) /\ pc'[j] \in {"status", "create"})
  BY <1>2 DEF Start, CopyTypes
<1> QED BY <1>5, <1>6, <1>7, <1>8

\* One session changes, or one is appended.
LEMMA SessionSet ==
  ASSUME session \in Seq(Upload), NEW id \in DOMAIN session, NEW u \in Upload,
         session' = [session EXCEPT ![id] = u]
  PROVE  /\ session' \in Seq(Upload) /\ Len(session') = Len(session) /\ DOMAIN session' = DOMAIN session
         /\ session'[id] = u /\ \A k \in DOMAIN session \ {id} : session'[k] = session[k]
OBVIOUS

LEMMA SessionAdd ==
  ASSUME session \in Seq(Upload), NEW u \in Upload, session' = Append(session, u)
  PROVE  /\ session' \in Seq(Upload) /\ Len(session') = Len(session) + 1
         /\ DOMAIN session' = DOMAIN session \cup {Len(session')} /\ Len(session') \notin DOMAIN session
         /\ session'[Len(session')] = u /\ \A k \in DOMAIN session : session'[k] = session[k]
OBVIOUS

LEMMA CreatedIs ==
  ASSUME NEW j \in Job
  PROVE  /\ Created(j) \in Upload /\ Created(j).by = {j} /\ Created(j).total = Unknown
         /\ Created(j).got = <<>> /\ Created(j).live = TRUE
<1>1. <<>> \in Seq(Byte)
  OBVIOUS
<1> QED BY <1>1 DEF Created, Upload

LEMMA NewSession ==
  ASSUME session \in Seq(Upload), NEW j \in Job, session' = Append(session, Created(j)),
         NEW n, n = Len(session')
  PROVE  /\ session' \in Seq(Upload) /\ n \in Nat \ {0} /\ n = Len(session) + 1
         /\ DOMAIN session' = DOMAIN session \cup {n} /\ n \notin DOMAIN session
         /\ \A k \in DOMAIN session : session'[k] = session[k]
         /\ session'[n].by = {j} /\ session'[n].total = Unknown
         /\ session'[n].got = <<>> /\ session'[n].live = TRUE
<1>1. /\ session' \in Seq(Upload) /\ Len(session') = Len(session) + 1
      /\ DOMAIN session' = DOMAIN session \cup {n} /\ n \notin DOMAIN session
      /\ session'[n] = Created(j) /\ \A k \in DOMAIN session : session'[k] = session[k]
  BY CreatedIs, SessionAdd
<1>2. n \in Nat \ {0} /\ n = Len(session) + 1
  <2>1. Len(session) \in Nat
    OBVIOUS
  <2> QED BY <1>1, <2>1
<1> QED BY <1>1, <1>2, CreatedIs

LEMMA StatusSteps ==
  ASSUME CopyInv, NEW j \in Job, Status(j)  PROVE CopyInv'
<1>0. PICK id : id = url[j]
  OBVIOUS
<1>1. CopyTypes /\ RunInv(j) /\ Streams(j) /\ pending[j] = <<>>
  BY DEF CopyInv, Status, RunInv, Stands
<1>2. id \in DOMAIN session /\ session[id] \in Upload /\ session[id].live
  <2>1. url[j] # 0 /\ session[url[j]].live
    BY DEF Status, Live
  <2>2. url[j] \in Nat /\ url[j] <= Len(session) /\ session \in Seq(Upload)
    BY <1>1 DEF CopyTypes
  <2> QED BY <1>0, <2>1, <2>2
<1> PICK u : u = [session[id] EXCEPT !.by = @ \cup {j}]
  OBVIOUS
<1>3. /\ u \in Upload /\ u.by = session[id].by \cup {j} /\ u.got = session[id].got
      /\ u.total = session[id].total /\ u.live = session[id].live
  BY <1>2 DEF Upload
<1>4. session' = [session EXCEPT ![id] = u]
  BY <1>0 DEF Status
<1>5. /\ session' \in Seq(Upload) /\ Len(session') = Len(session) /\ DOMAIN session' = DOMAIN session
      /\ session'[id] = u /\ \A k \in DOMAIN session \ {id} : session'[k] = session[k]
  BY <1>1, <1>2, <1>3, <1>4, SessionSet DEF CopyTypes
<1>6. Len(session[id].got) \in Nat
  BY <1>2 DEF Upload
<1>7. /\ sent' = [sent EXCEPT ![j] = Len(session[id].got)]
      /\ pc' = [pc EXCEPT ![j] = IF size[j] # Unknown /\ Len(session[id].got) >= size[j]
                                 THEN "close" ELSE "openRead"]
      /\ url' = url /\ pending' = pending /\ reading' = reading /\ from' = from /\ to' = to
      /\ uploadSessions' = uploadSessions /\ job' = job
  BY <1>0 DEF Status, Open
<1>8. CopyTypes'
  <2>1. \A i \in Job : Version(i)' = Version(i)
    BY <1>7, VersionsStay DEF job
  <2> QED BY <1>1, <1>5, <1>6, <1>7, <2>1 DEF CopyTypes, job
<1>9. MovesAlone(j)
  <2>1. \A i \in Job \ {j} : pc'[i] = pc[i] /\ sent'[i] = sent[i]
    BY <1>1, <1>7 DEF CopyTypes
  <2>2. \A k \in DOMAIN session' : \/ k \in DOMAIN session /\ session'[k] = session[k]
                                   \/ j \in session'[k].by /\ session[k].by \subseteq session'[k].by
    BY <1>3, <1>5
  <2> QED BY <1>5, <1>7, <2>1, <2>2 DEF MovesAlone, LeavesOthers, job
<1>10. \A k \in DOMAIN session : session[k].by # {} /\ Carries(k, j)
  BY DEF CopyInv, RunInv
<1>11. (Streams(j)' <=> Streams(j)) /\ Version(j)' = Version(j) /\ size' = size
  BY <1>9 DEF MovesAlone, LeavesOthers, Streams, Version
<1>12. session'[id].by = {j} => session[id].by = {j}
  BY <1>2, <1>3, <1>5, <1>10
<1>13. \A k \in DOMAIN session' : Carries(k, j)'
  <2>1. Carries(id, j)'
    BY <1>2, <1>3, <1>5, <1>10, <1>11, <1>12 DEF Carries, Bytes
  <2>2. \A k \in DOMAIN session \ {id} : Carries(k, j)'
    BY <1>5, <1>10, <1>11 DEF Carries, Bytes
  <2> QED BY <1>5, <2>1, <2>2
<1>14. RunInv(j)'
  <2>1. sent'[j] = Len(session[id].got)
    BY <1>1, <1>7 DEF CopyTypes
  <2>2. pc'[j] = IF size[j] # Unknown /\ sent'[j] >= size[j] THEN "close" ELSE "openRead"
    BY <1>1, <1>7, <2>1 DEF CopyTypes
  <2>3. url'[j] = id /\ id # 0 /\ j \in session'[id].by /\ session'[id].live
        /\ session'[id].got = session[id].got /\ pending'[j] = <<>>
    BY <1>0, <1>1, <1>2, <1>3, <1>5, <1>7
  <2> QED BY <1>1, <1>8, <1>9, <1>13, <2>1, <2>2, <2>3, Opened
<1> QED BY <1>8, <1>9, <1>14, Together

LEMMA StatusGoneSteps ==
  ASSUME CopyInv, NEW j \in Job, StatusGone(j)  PROVE CopyInv'
<1>1. CopyTypes /\ Streams(j) /\ pending[j] = <<>>
  BY DEF CopyInv, StatusGone, RunInv, Stands
<1>2. pc' = [pc EXCEPT ![j] = "create"] /\ uploadSessions' = 0 /\ session' = session
      /\ from' = from /\ to' = to /\ job' = job /\ handle' = handle
  BY DEF StatusGone
<1>3. CopyTypes'
  <2>1. \A i \in Job : Version(i)' = Version(i)
    BY <1>2, VersionsStay DEF job
  <2>2. 0 \in 0..Len(session)
    BY <1>1 DEF CopyTypes
  <2> QED BY <1>1, <1>2, <2>1, <2>2 DEF CopyTypes, job, handle
<1>4. MovesAlone(j)
  BY <1>1, <1>2 DEF MovesAlone, LeavesOthers, job, handle, CopyTypes
<1>5. \A id \in DOMAIN session' : Carries(id, j)'
  BY <1>2, <1>4, CarriesOn
<1>6. pc'[j] = "create" /\ pending' = pending /\ reading' = reading
  BY <1>1, <1>2 DEF CopyTypes, handle
<1> QED BY <1>1, <1>3, <1>4, <1>5, <1>6, Idle, Together

\* A session that is new carries nothing yet.
LEMMA NewCarries ==
  ASSUME CopyInv, NEW j \in Job, session' = Append(session, Created(j)), MovesAlone(j)
  PROVE  \A id \in DOMAIN session' : Carries(id, j)'
<1>1. /\ Streams(j)' <=> Streams(j)
      /\ Version(j)' = Version(j)
      /\ size' = size
  BY DEF Streams, Version, MovesAlone, LeavesOthers
<1>2. CopyTypes /\ \A id \in DOMAIN session : Carries(id, j)
  BY DEF CopyInv, RunInv
<1> PICK n : n = Len(session')
  OBVIOUS
<1>3. /\ DOMAIN session' = DOMAIN session \cup {n}
      /\ session'[n] = Created(j) /\ \A k \in DOMAIN session : session'[k] = session[k]
  BY <1>2, SessionAdd, CreatedIs DEF CopyTypes
<1>4. Carries(n, j)'
  <2>1. Len(<<>>) = 0 /\ 0 % ALIGN = 0 /\ Bytes(j, 1, 0, 0) = <<>>
    BY NoBytes, Sizes
  <2>2. Streams(j) => 0 < size[j]
    BY <1>2, CopyFacts, Sizes
  <2>3. session'[n].got = <<>> /\ session'[n].total = Unknown
    BY <1>3, CreatedIs
  <2>4. Bytes(j, 1, 0, Len(session[n].got))' = Bytes(j, 1, 0, Len(session'[n].got))
    BY DEF Bytes
  <2> QED BY <1>1, <2>1, <2>2, <2>3, <2>4 DEF Carries
<1>5. \A k \in DOMAIN session : Carries(k, j)'
  BY <1>1, <1>2, <1>3 DEF Carries, Bytes
<1> QED BY <1>3, <1>4, <1>5

LEMMA CreateSteps ==
  ASSUME CopyInv, NEW j \in Job, Create(j)  PROVE CopyInv'
<1> PICK n : n = Len(session')
  OBVIOUS
<1>1. CopyTypes /\ Streams(j) /\ pending[j] = <<>>
  BY DEF CopyInv, Create, RunInv, Stands
<1>2. session' = Append(session, Created(j)) /\ session \in Seq(Upload)
  BY <1>1 DEF Create, CopyTypes
<1>3. /\ session' \in Seq(Upload) /\ n \in Nat \ {0} /\ n = Len(session) + 1
      /\ DOMAIN session' = DOMAIN session \cup {n} /\ n \notin DOMAIN session
      /\ \A k \in DOMAIN session : session'[k] = session[k]
      /\ session'[n].by = {j} /\ session'[n].got = <<>> /\ session'[n].live = TRUE
  BY <1>2, NewSession
<1>4. /\ uploadSessions' = n /\ url' = [url EXCEPT ![j] = n] /\ sent' = [sent EXCEPT ![j] = 0]
      /\ pc' = [pc EXCEPT ![j] = IF size[j] # Unknown /\ 0 >= size[j] THEN "close" ELSE "openRead"]
      /\ from' = from /\ to' = to /\ job' = job /\ reading' = reading /\ pending' = pending
  BY DEF Create, Open
<1>5. CopyTypes'
  <2>1. \A i \in Job : Version(i)' = Version(i)
    BY <1>4, VersionsStay DEF job
  <2>2. url' \in [Job -> Nat] /\ \A i \in Job : url'[i] <= Len(session')
    <3>1. url \in [Job -> Nat] /\ \A i \in Job : url[i] <= Len(session)
      BY <1>1 DEF CopyTypes
    <3>2. Len(session) \in Nat
      BY <1>2
    <3> QED BY <1>3, <1>4, <3>1, <3>2
  <2>3. uploadSessions' \in 0..Len(session')
    BY <1>3, <1>4
  <2> QED BY <1>1, <1>3, <1>4, <2>1, <2>2, <2>3 DEF CopyTypes, job
<1>6. MovesAlone(j)
  <2>1. \A i \in Job \ {j} : pc'[i] = pc[i] /\ sent'[i] = sent[i] /\ url'[i] = url[i]
    BY <1>1, <1>4 DEF CopyTypes
  <2> QED BY <1>3, <1>4, <2>1 DEF MovesAlone, LeavesOthers, job
<1>7. \A id \in DOMAIN session' : Carries(id, j)'
  BY <1>2, <1>6, NewCarries
<1>8. RunInv(j)'
  <2>1. sent'[j] = 0 /\ url'[j] = n
    BY <1>1, <1>4 DEF CopyTypes
  <2>2. pc'[j] = IF size[j] # Unknown /\ sent'[j] >= size[j] THEN "close" ELSE "openRead"
    BY <1>1, <1>4, <2>1 DEF CopyTypes
  <2>3. n # 0 /\ j \in session'[n].by /\ Len(session'[n].got) = 0 /\ session'[n].live
    BY <1>3
  <2> QED BY <1>1, <1>4, <1>5, <1>6, <1>7, <2>1, <2>2, <2>3, Opened
<1> QED BY <1>5, <1>6, <1>8, Together

-----------------------------------------------------------------------------
(***************************************************************************)
(* It reads.                                                               *)
(***************************************************************************)

\* While it reads, what it has to do with its session stays.
LEMMA SessionsStay ==
  ASSUME CopyInv, NEW j \in Job, MovesAlone(j), session' = session, url'[j] = url[j], sent'[j] = sent[j],
         Uses(j)' => Uses(j), pc'[j] # "closePut"
  PROVE  InStep(j)'
<1>1. /\ Streams(j)' <=> Streams(j)
      /\ Version(j)' = Version(j)
      /\ Expired(url[j])' <=> Expired(url'[j])
  BY DEF Streams, Version, Expired, MovesAlone, LeavesOthers
<1>2. InStep(j)
  BY DEF CopyInv, RunInv
<1>3. Expired(url[j])' <=> Expired(url[j])
  BY DEF Expired
<1> QED BY <1>1, <1>2, <1>3 DEF InStep

LEMMA OpenReadSteps ==
  ASSUME CopyInv, NEW j \in Job, OpenRead(j)  PROVE CopyInv'
<1>1. CopyTypes /\ RunInv(j) /\ pc[j] = "openRead" /\ pending[j] = <<>>
  BY DEF CopyInv, OpenRead, RunInv, Stands
<1>2. /\ from' = from /\ to' = to /\ job' = job /\ pending' = pending /\ sent' = sent /\ url' = url
      /\ uploadSessions' = uploadSessions /\ session' = session
  BY DEF OpenRead, drive
<1>3. pc' = [pc EXCEPT ![j] = "read"]
  BY DEF OpenRead
<1>4. /\ sent[j] \in Nat /\ Version(j) \in Nat \ {0} /\ Length(j) \in Nat
  BY <1>1, CopyFacts
<1>5. reading' = [reading EXCEPT ![j] = [version |-> Version(j), size |-> Length(j), at |-> sent[j]]]
  <2>1. PICK honoured \in BOOLEAN :
          reading' = [reading EXCEPT ![j] =
            [version |-> Version(j), size |-> Length(j),
             at |-> (IF honoured THEN sent[j] ELSE 0) + ToSkip(sent[j], honoured)]]
    BY DEF OpenRead
  <2>2. (IF honoured THEN sent[j] ELSE 0) + ToSkip(sent[j], honoured) = sent[j]
    BY <1>4 DEF ToSkip
  <2> QED BY <2>1, <2>2
<1>6. /\ reading'[j].version = Version(j) /\ reading'[j].size = Length(j) /\ reading'[j].at = sent[j]
      /\ reading' \in [Job -> [version : Nat, size : Nat, at : Nat]]
      /\ \A i \in Job \ {j} : reading'[i] = reading[i] /\ pc'[i] = pc[i]
      /\ pc'[j] = "read"
  BY <1>1, <1>3, <1>4, <1>5 DEF CopyTypes
<1>7. CopyTypes'
  <2>1. \A i \in Job : Version(i)' = Version(i)
    BY <1>2, VersionsStay DEF job
  <2>2. \A i \in Job : reading'[i].version \in 1..Version(i)
    <3>1. reading'[j].version \in 1..Version(j)
      BY <1>4, <1>6
    <3>2. \A i \in Job \ {j} : reading'[i].version \in 1..Version(i)
      BY <1>1, <1>6 DEF CopyTypes
    <3> QED BY <3>1, <3>2
  <2> QED BY <1>1, <1>2, <1>3, <1>6, <2>1, <2>2 DEF CopyTypes, job
<1>8. MovesAlone(j)
  BY <1>2, <1>6 DEF MovesAlone, LeavesOthers, job
<1>9. \A id \in DOMAIN session' : Carries(id, j)'
  BY <1>2, <1>8, CarriesOn
<1>10. /\ Streams(j)' <=> Streams(j)
       /\ Version(j)' = Version(j)
       /\ size' = size /\ source' = source
  BY <1>8 DEF Streams, Version, MovesAlone, LeavesOthers
<1>11. Uses(j)' <=> Uses(j)
  BY <1>1, <1>6, <1>10 DEF Uses
<1>12. Stands(j)'
  BY <1>1, <1>2, <1>6, <1>10, <1>11 DEF RunInv, Stands
<1>13. Keeps(j)'
  <2>1. Base(j)' = sent[j]
    BY <1>1, <1>2, <1>10 DEF Base, RunInv, Stands
  <2>2. reading'[j].at = Base(j)' + Len(pending'[j])
    BY <1>1, <1>2, <1>4, <1>6, <2>1
  <2>3. pending'[j] = Bytes(j, reading[j].version, Base(j), reading[j].at)'
    <3>1. Bytes(j, reading'[j].version, sent[j], sent[j]) = <<>>
      BY <1>4, NoBytes
    <3> QED BY <1>1, <1>2, <1>6, <2>1, <3>1 DEF Bytes
  <2> QED BY <1>1, <1>2, <1>6, <1>10, <2>2, <2>3 DEF Keeps, HasRead, Length
<1>14. Bounded(j)'
  BY <1>1, <1>2, Sizes DEF Bounded
<1>15. InStep(j)'
  BY <1>2, <1>6, <1>8, <1>11, SessionsStay
<1> QED BY <1>7, <1>8, <1>9, <1>12, <1>13, <1>14, <1>15, Together DEF RunInv

LEMMA ReadEndsSteps ==
  ASSUME CopyInv, NEW j \in Job, ReadEnds(j)  PROVE CopyInv'
<1>1. CopyTypes /\ RunInv(j) /\ pc[j] = "read" /\ reading[j].at >= reading[j].size
  BY DEF CopyInv, ReadEnds, RunInv
<1>2. /\ from' = from /\ to' = to /\ job' = job /\ handle' = handle
      /\ uploadSessions' = uploadSessions /\ session' = session
      /\ pc' = [pc EXCEPT ![j] = "close"]
  BY DEF ReadEnds, drive
<1>3. CopyTypes'
  <2>1. \A i \in Job : Version(i)' = Version(i)
    BY <1>2, VersionsStay DEF job
  <2> QED BY <1>1, <1>2, <2>1 DEF CopyTypes, job, handle
<1>4. MovesAlone(j) /\ pc'[j] = "close"
  BY <1>1, <1>2 DEF MovesAlone, LeavesOthers, job, handle, CopyTypes
<1>5. \A id \in DOMAIN session' : Carries(id, j)'
  BY <1>2, <1>4, CarriesOn
<1>6. /\ Streams(j)' <=> Streams(j)
      /\ Version(j)' = Version(j)
      /\ size' = size /\ source' = source
      /\ reading' = reading /\ pending' = pending /\ sent' = sent /\ url' = url
  BY <1>2, <1>4 DEF Streams, Version, MovesAlone, LeavesOthers, handle
<1>7. Uses(j)' <=> Uses(j)
  BY <1>1, <1>4, <1>6 DEF Uses
<1>8. Stands(j)'
  BY <1>1, <1>2, <1>4, <1>6, <1>7 DEF RunInv, Stands
<1>9. Keeps(j)'
  <2>1. HasRead(j)
    BY <1>1 DEF RunInv, Keeps, Holds, Nothing
  <2>2. (Steady(j)' <=> Steady(j)) /\ Base(j)' = Base(j)
    BY <1>2, <1>6 DEF Steady, Base
  <2>3. HasRead(j)'
    BY <1>1, <1>6, <2>1, <2>2 DEF HasRead, Bytes
  <2> QED BY <2>3 DEF Keeps
<1>10. Bounded(j)'
  <2>1. Bounded(j)
    BY <1>1 DEF RunInv
  <2> QED BY <1>4, <1>6, <2>1 DEF Bounded
<1>11. InStep(j)'
  BY <1>2, <1>4, <1>6, <1>7, SessionsStay
<1> QED BY <1>3, <1>4, <1>5, <1>8, <1>9, <1>10, <1>11, Together DEF RunInv

-----------------------------------------------------------------------------
(***************************************************************************)
(* It ends, or begins again.                                               *)
(***************************************************************************)

\* A step that moves a job to another point and touches nothing of its handles.
LEMMA Moved ==
  ASSUME CopyTypes, NEW j \in Job, NEW p \in {"queued", "closeCreate", "failed", "done"},
         pc' = [pc EXCEPT ![j] = p],
         from' = from, to' = to, source' = source, size' = size, resume' = resume,
         attempted' = attempted, handle' = handle, uploadSessions' = uploadSessions, session' = session
  PROVE  CopyTypes' /\ MovesAlone(j) /\ pc'[j] = p
<1>1. \A i \in Job : Version(i)' = Version(i)
  BY VersionsStay
<1>2. CopyTypes'
  BY <1>1 DEF CopyTypes, handle
<1>3. MovesAlone(j) /\ pc'[j] = p
  BY DEF MovesAlone, LeavesOthers, handle, CopyTypes
<1> QED BY <1>2, <1>3

LEMMA CloseBufferedSteps ==
  ASSUME CopyInv, NEW j \in Job, CloseBuffered(j)  PROVE CopyInv'
<1>1. CopyTypes /\ RunInv(j) /\ pc[j] = "close" /\ ~Streams(j)
  BY DEF CopyInv, CloseBuffered, RunInv
<1>2. PICK p \in {"closeCreate", "done"} :
        pc' = [pc EXCEPT ![j] = p] /\ (p = "closeCreate" => Len(pending[j]) > SIMPLE_LIMIT)
  BY DEF CloseBuffered
<1>3. /\ from' = from /\ to' = to /\ job' = job /\ handle' = handle
      /\ uploadSessions' = uploadSessions /\ session' = session
  BY DEF CloseBuffered
<1>4. CopyTypes' /\ MovesAlone(j) /\ pc'[j] = p
  BY <1>1, <1>2, <1>3, Moved DEF job
<1>5. \A id \in DOMAIN session' : Carries(id, j)'
  BY <1>3, <1>4, CarriesOn
<1>6. reading' = reading /\ pending' = pending /\ sent' = sent /\ url' = url
  BY <1>3 DEF handle
<1>7. CASE p = "done"
  BY <1>4, <1>5, <1>6, <1>7, Idle, Together
<1>8. CASE p = "closeCreate"
  <2>1. /\ Streams(j)' <=> Streams(j)
        /\ Version(j)' = Version(j)
        /\ size' = size /\ source' = source
    BY <1>4 DEF Streams, Version, MovesAlone, LeavesOthers
  <2>2. ~Uses(j)'
    BY <1>4, <1>8 DEF Uses
  <2>3. Len(pending[j]) # 0
    BY <1>1, <1>2, <1>8, CopyFacts, Sizes
  <2>4. Stands(j)'
    BY <1>1, <1>4, <1>6, <1>8, <2>1, <2>2, <2>3 DEF RunInv, Stands
  <2>5. Keeps(j)'
    <3>1. ~Nothing(j)
      BY <2>3 DEF Nothing
    <3>2. HasRead(j)
      BY <1>1, <3>1 DEF RunInv, Keeps, Holds
    <3>3. (Steady(j)' <=> Steady(j)) /\ Base(j)' = Base(j)
      BY <1>3, <1>6, <2>1 DEF Steady, Base
    <3>4. HasRead(j)'
      BY <1>1, <1>6, <2>1, <3>2, <3>3 DEF HasRead, Bytes
    <3> QED BY <3>4 DEF Keeps
  <2>6. Bounded(j)' /\ InStep(j)'
    BY <1>1, <2>1, <2>2 DEF Bounded, InStep
  <2> QED BY <1>4, <1>5, <2>4, <2>5, <2>6, Together DEF RunInv
<1> QED BY <1>7, <1>8

LEMMA CloseCreatesSteps ==
  ASSUME CopyInv, NEW j \in Job, CloseCreates(j)  PROVE CopyInv'
<1> PICK n : n = Len(session')
  OBVIOUS
<1>1. CopyTypes /\ RunInv(j) /\ pc[j] = "closeCreate" /\ ~Streams(j) /\ Len(pending[j]) # 0
  BY DEF CopyInv, CloseCreates, RunInv, Stands
<1>2. session' = Append(session, Created(j)) /\ session \in Seq(Upload)
  BY <1>1 DEF CloseCreates, CopyTypes
<1>3. /\ session' \in Seq(Upload) /\ n \in Nat \ {0} /\ n = Len(session) + 1
      /\ DOMAIN session' = DOMAIN session \cup {n} /\ n \notin DOMAIN session
      /\ \A k \in DOMAIN session : session'[k] = session[k]
      /\ session'[n].by = {j} /\ session'[n].total = Unknown
      /\ session'[n].got = <<>> /\ session'[n].live = TRUE
  BY <1>2, NewSession
<1>4. /\ uploadSessions' = uploadSessions /\ url' = [url EXCEPT ![j] = n] /\ sent' = [sent EXCEPT ![j] = 0]
      /\ pc' = [pc EXCEPT ![j] = "closePut"]
      /\ from' = from /\ to' = to /\ job' = job /\ reading' = reading /\ pending' = pending
  BY DEF CloseCreates
<1>5. CopyTypes'
  <2>1. \A i \in Job : Version(i)' = Version(i)
    BY <1>4, VersionsStay DEF job
  <2>2. url' \in [Job -> Nat] /\ \A i \in Job : url'[i] <= Len(session')
    <3>1. url \in [Job -> Nat] /\ \A i \in Job : url[i] <= Len(session)
      BY <1>1 DEF CopyTypes
    <3>2. Len(session) \in Nat
      BY <1>2
    <3> QED BY <1>3, <1>4, <3>1, <3>2
  <2>3. uploadSessions' \in 0..Len(session')
    <3>1. uploadSessions \in 0..Len(session) /\ Len(session) \in Nat
      BY <1>1 DEF CopyTypes
    <3> QED BY <1>3, <1>4, <3>1
  <2> QED BY <1>1, <1>3, <1>4, <2>1, <2>2, <2>3 DEF CopyTypes, job
<1>6. MovesAlone(j) /\ pc'[j] = "closePut" /\ sent'[j] = 0 /\ url'[j] = n
  <2>1. \A i \in Job \ {j} : pc'[i] = pc[i] /\ sent'[i] = sent[i] /\ url'[i] = url[i]
    BY <1>1, <1>4 DEF CopyTypes
  <2> QED BY <1>1, <1>3, <1>4, <2>1 DEF MovesAlone, LeavesOthers, job, CopyTypes
<1>7. \A id \in DOMAIN session' : Carries(id, j)'
  BY <1>2, <1>6, NewCarries
<1>8. /\ Streams(j)' <=> Streams(j)
      /\ Version(j)' = Version(j)
      /\ size' = size /\ source' = source
  BY <1>6 DEF Streams, Version, MovesAlone, LeavesOthers
<1>9. Len(pending[j]) \in Nat \ {0} /\ 0 < Len(pending[j])
  BY <1>1, CopyFacts
<1>10. Stands(j)'
  BY <1>1, <1>3, <1>4, <1>6, <1>8, <1>9 DEF RunInv, Stands
<1>11. Keeps(j)'
  <2>1. HasRead(j)
    BY <1>1 DEF RunInv, Keeps, Holds, Nothing
  <2>2. (Steady(j)' <=> Steady(j)) /\ Base(j)' = Base(j)
    BY <1>1, <1>4, <1>8 DEF Steady, Base
  <2>3. HasRead(j)'
    BY <1>1, <1>4, <1>8, <2>1, <2>2 DEF HasRead, Bytes
  <2> QED BY <2>3 DEF Keeps
<1>12. Bounded(j)'
  BY <1>1, <1>8 DEF Bounded
<1>13. InStep(j)'
  <2>1. Len(<<>>) = 0 /\ 0 % ALIGN = 0
    BY Sizes
  <2>2. Bytes(j, reading'[j].version, 0, 0) = <<>>
    BY NoBytes
  <2> QED BY <1>3, <1>6, <2>1, <2>2 DEF InStep, Bytes
<1> QED BY <1>5, <1>6, <1>7, <1>10, <1>11, <1>12, <1>13, Together DEF RunInv

LEMMA FailsSteps ==
  ASSUME CopyInv, NEW j \in Job, Fails(j) \/ Retry(j)  PROVE CopyInv'
<1>1. PICK p \in {"queued", "failed"} : pc' = [pc EXCEPT ![j] = p]
  BY DEF Fails, Retry
<1>2. /\ from' = from /\ to' = to /\ source' = source /\ size' = size /\ resume' = resume
      /\ attempted' = attempted /\ handle' = handle /\ uploadSessions' = uploadSessions /\ session' = session
  BY DEF Fails, Retry, job, drive
<1>3. CopyTypes' /\ MovesAlone(j) /\ pc'[j] = p
  BY <1>1, <1>2, Moved DEF CopyInv
<1>4. \A id \in DOMAIN session' : Carries(id, j)'
  BY <1>2, <1>3, CarriesOn
<1>5. reading' = reading /\ pending' = pending
  BY <1>2 DEF handle
<1> QED BY <1>3, <1>4, <1>5, Idle, Together

-----------------------------------------------------------------------------
(***************************************************************************)
(* The source changes; a session expires.                                  *)
(***************************************************************************)
LEMMA SourceChangesSteps ==
  ASSUME CopyInv, NEW j \in Job, SourceChanges(j)  PROVE CopyInv'
<1>1. CopyTypes /\ RunInv(j)
  BY DEF CopyInv
<1>2. PICK len \in Lengths : source' = [source EXCEPT ![j] = Append(@, len)]
  BY DEF SourceChanges
<1>3. /\ from' = from /\ to' = to /\ pc' = pc /\ size' = size /\ attempted' = attempted
      /\ resume' = resume /\ handle' = handle /\ uploadSessions' = uploadSessions /\ session' = session
  BY DEF SourceChanges, drive
<1>4. source[j] \in Seq(Lengths) /\ source[j] \in Seq(Nat) /\ source'[j] = Append(source[j], len)
  BY <1>1, <1>2, CopyFacts DEF CopyTypes
<1>5. /\ Version(j)' = Version(j) + 1 /\ Version(j) \in Nat \ {0}
      /\ \A v \in 1..Version(j) : source'[j][v] = source[j][v]
  <2>1. Version(j)' = Version(j) + 1
    BY <1>4 DEF Version
  <2>2. \A v \in 1..Version(j) : source'[j][v] = source[j][v]
    BY <1>4 DEF Version
  <2> QED BY <1>1, <2>1, <2>2, CopyFacts
<1>6. \A i \in Job \ {j} : source'[i] = source[i]
  BY <1>1, <1>2 DEF CopyTypes
<1>7. CopyTypes'
  <2>1. source' \in [Job -> Seq(Lengths)]
    BY <1>1, <1>2, <1>4 DEF CopyTypes
  <2>2. \A i \in Job \ {j} : Version(i)' = Version(i)
    BY <1>6 DEF Version
  <2>3. reading[j].version \in 1..Version(j)'
    BY <1>1, <1>5, CopyFacts
  <2>4. \A i \in Job : reading[i].version \in 1..Version(i)'
    BY <1>1, <2>2, <2>3 DEF CopyTypes
  <2> QED BY <1>1, <1>3, <2>1, <2>4 DEF CopyTypes, handle
<1>8. LeavesOthers(j)
  BY <1>3, <1>6 DEF LeavesOthers, handle
<1>9. reading' = reading /\ pending' = pending /\ sent' = sent /\ url' = url
  BY <1>3 DEF handle
<1>10. /\ Streams(j)' <=> Streams(j)
       /\ Uses(j)' <=> Uses(j)
       /\ Base(j)' = Base(j)
       /\ Nothing(j)' <=> Nothing(j)
  BY <1>3, <1>9 DEF Streams, Uses, Base, Nothing
<1>11. Version(j)' # 1 /\ (Steady(j)' => Steady(j) /\ from # "onedrive")
  <2>1. reading[j].version <= Version(j) /\ reading[j].version \in Nat
    BY <1>1, CopyFacts
  <2>2. Version(j)' # 1 /\ reading[j].version # Version(j)'
    BY <1>5, <2>1
  <2> QED BY <1>3, <1>9, <2>2 DEF Steady
<1>12. Stands(j)'
  <2>1. source'[j][1] = source[j][1]
    BY <1>5
  <2>2. Flush(j, pending[j])' = Flush(j, pending[j])
    BY <1>3, <1>9 DEF Flush
  <2> QED BY <1>1, <1>3, <1>9, <1>10, <2>1, <2>2 DEF RunInv, Stands
<1>13. Keeps(j)'
  <2>1. source'[j][reading[j].version] = source[j][reading[j].version]
    <3>1. reading[j].version \in 1..Version(j)
      BY <1>1 DEF CopyTypes
    <3> QED BY <1>5, <3>1
  <2>2. HasRead(j) => HasRead(j)'
    BY <1>3, <1>9, <1>10, <1>11, <2>1 DEF HasRead, Bytes
  <2> QED BY <1>1, <1>3, <1>10, <2>2 DEF RunInv, Keeps
<1>14. Bounded(j)'
  <2>1. Bounded(j)
    BY <1>1 DEF RunInv
  <2> QED BY <1>3, <1>9, <1>10, <2>1 DEF Bounded
<1>15. InStep(j)'
  <2>1. InStep(j)
    BY <1>1 DEF RunInv
  <2>2. Expired(url[j])' <=> Expired(url[j])
    BY <1>3, <1>9 DEF Expired
  <2> QED BY <1>3, <1>9, <1>10, <1>11, <2>1, <2>2 DEF InStep, Bytes
<1>16. \A id \in DOMAIN session' : Carries(id, j)'
  BY <1>11 DEF Carries
<1>17. RunInv(j)'
  BY <1>12, <1>13, <1>14, <1>15, <1>16 DEF RunInv
<1>18. \A i \in Job : RunInv(i)'
  BY <1>7, <1>8, <1>17, OthersStay
<1>19. \A id \in DOMAIN session' : session'[id].by # {}
  BY <1>3 DEF CopyInv
<1> QED BY <1>7, <1>18, <1>19 DEF CopyInv

LEMMA ExpireSteps ==
  ASSUME CopyInv, NEW id \in DOMAIN session, Expire(id)  PROVE CopyInv'
<1>1. CopyTypes /\ session[id] \in Upload
  BY DEF CopyInv, CopyTypes
<1> PICK u : u = [session[id] EXCEPT !.live = FALSE]
  OBVIOUS
<1>2. /\ u \in Upload /\ u.by = session[id].by /\ u.got = session[id].got
      /\ u.total = session[id].total /\ u.live = FALSE
  BY <1>1 DEF Upload
<1>3. /\ from' = from /\ to' = to /\ pc' = pc /\ job' = job /\ handle' = handle
      /\ uploadSessions' = uploadSessions /\ session' = [session EXCEPT ![id] = u] /\ session[id].live
  BY DEF Expire, Live
<1>4. /\ session' \in Seq(Upload) /\ Len(session') = Len(session) /\ DOMAIN session' = DOMAIN session
      /\ session'[id] = u /\ \A k \in DOMAIN session \ {id} : session'[k] = session[k]
  BY <1>1, <1>2, <1>3, SessionSet DEF CopyTypes
<1>5. /\ source' = source /\ size' = size /\ attempted' = attempted /\ resume' = resume
      /\ reading' = reading /\ pending' = pending /\ sent' = sent /\ url' = url
  BY <1>3 DEF job, handle
<1>6. CopyTypes'
  <2>1. \A i \in Job : Version(i)' = Version(i)
    BY <1>5, VersionsStay
  <2> QED BY <1>1, <1>3, <1>4, <1>5, <2>1 DEF CopyTypes
<1>7. ASSUME NEW j \in Job  PROVE RunInv(j)'
  <2>1. /\ Streams(j)' <=> Streams(j)
        /\ Version(j)' = Version(j)
        /\ Uses(j)' <=> Uses(j)
        /\ Base(j)' = Base(j)
        /\ Steady(j)' <=> Steady(j)
        /\ Nothing(j)' <=> Nothing(j)
        /\ Flush(j, pending[j])' = Flush(j, pending[j])
    BY <1>3, <1>5 DEF Streams, Version, Uses, Base, Steady, Nothing, Flush
  <2>2. RunInv(j)
    BY DEF CopyInv
  <2>3. \A k \in DOMAIN session : session'[k].by = session[k].by /\ session'[k].got = session[k].got
                                  /\ session'[k].total = session[k].total
                                  /\ (session'[k].live => session[k].live)
    BY <1>2, <1>4
  <2>4. Uses(j) => url[j] \in DOMAIN session /\ j \in session[url[j]].by
    <3>1. Uses(j) => url[j] # 0 /\ j \in session[url[j]].by
      BY <2>2 DEF RunInv, Stands
    <3>2. url[j] \in Nat /\ url[j] <= Len(session) /\ DOMAIN session = 1..Len(session) /\ Len(session) \in Nat
      BY <1>1, CopyFacts
    <3> QED BY <3>1, <3>2
  <2>5. Stands(j)'
    BY <1>3, <1>5, <2>1, <2>2, <2>3, <2>4 DEF RunInv, Stands
  <2>6. Keeps(j)' /\ Bounded(j)'
    <3>1. HasRead(j)' <=> HasRead(j)
      BY <1>3, <1>5, <2>1 DEF HasRead, Bytes
    <3>2. Keeps(j) /\ Bounded(j)
      BY <2>2 DEF RunInv
    <3>3. Keeps(j)'
      BY <1>3, <2>1, <3>1, <3>2 DEF Keeps
    <3>4. Bounded(j)'
      BY <1>3, <1>5, <2>1, <3>2 DEF Bounded
    <3> QED BY <3>3, <3>4
  <2>7. \A k \in DOMAIN session' : Carries(k, j)'
    <3> SUFFICES ASSUME NEW k \in DOMAIN session  PROVE Carries(k, j)'
      BY <1>4
    <3>1. Carries(k, j)
      BY <2>2 DEF RunInv
    <3> QED BY <1>5, <2>1, <2>3, <3>1 DEF Carries, Bytes
  <2>8. ASSUME Uses(j), session[url[j]].by = {j}, Streams(j) => Version(j) = 1, url[j] = id
        PROVE  Len(session[id].got) # session[id].total
    <3>1. InStep(j) /\ Carries(id, j) /\ Stands(j)
      BY <2>2 DEF RunInv
    <3>2. sent[j] \in Nat /\ Len(pending[j]) \in Nat /\ Len(session[id].got) \in Nat /\ Unknown \notin Nat
      BY <1>1, CopyFacts, Sizes DEF Upload
    <3>3. CASE Streams(j)
      <4>1. size[j] \in Nat
        BY <1>1, <3>3, CopyFacts
      <4>2. session[id].total \in {Unknown, size[j]} /\ Len(session[id].got) < size[j]
        BY <1>3, <2>8, <3>1, <3>3 DEF Carries
      <4> QED BY <3>2, <4>1, <4>2
    <3>4. CASE ~Streams(j)
      <4>1. pc[j] = "closePut"
        BY <2>8, <3>4 DEF Uses
      <4>2. Len(session[id].got) = sent[j] /\ session[id].total \in {Unknown, Len(pending[j])}
        BY <2>8, <3>1, <3>4, <4>1 DEF InStep
      <4>3. sent[j] < Len(pending[j])
        BY <3>1, <4>1 DEF Stands
      <4> QED BY <3>2, <4>2, <4>3
    <3> QED BY <3>3, <3>4
  <2>9. InStep(j)'
    <3>1. InStep(j)
      BY <2>2 DEF RunInv
    <3>2. ASSUME Uses(j), session[url[j]].by = {j}, Streams(j) => Version(j) = 1
          PROVE  session'[url[j]].live \/ Expired(url[j])'
      <4>1. CASE url[j] = id
        BY <1>2, <1>4, <1>5, <2>8, <3>2, <4>1 DEF Expired
      <4>2. CASE url[j] # id
        <5>1. session'[url[j]] = session[url[j]]
          BY <1>4, <2>4, <3>2, <4>2
        <5>2. session[url[j]].live \/ Expired(url[j])
          BY <3>1, <3>2 DEF InStep
        <5> QED BY <1>5, <5>1, <5>2 DEF Expired
      <4> QED BY <4>1, <4>2
    <3>3. CASE Uses(j) /\ session[url[j]].by = {j} /\ (Streams(j) => Version(j) = 1)
      <4>1. session'[url[j]].live \/ Expired(url[j])'
        BY <3>2, <3>3
      <4> QED BY <1>3, <1>5, <2>1, <2>3, <2>4, <3>1, <3>3, <4>1 DEF InStep, Bytes
    <3>4. CASE ~(Uses(j) /\ session[url[j]].by = {j} /\ (Streams(j) => Version(j) = 1))
      BY <1>5, <2>1, <2>3, <2>4, <3>4 DEF InStep
    <3> QED BY <3>3, <3>4
  <2> QED BY <2>5, <2>6, <2>7, <2>9 DEF RunInv
<1>8. \A k \in DOMAIN session' : session'[k].by # {}
  BY <1>2, <1>4 DEF CopyInv
<1> QED BY <1>6, <1>7, <1>8 DEF CopyInv

-----------------------------------------------------------------------------
(***************************************************************************)
(* It is given bytes.                                                      *)
(***************************************************************************)
LEMMA NextBytesAre ==
  ASSUME CopyTypes, NEW j \in Job, NEW bytes \in NextBytes(j)
  PROVE  \E b \in Nat, v \in 1..Version(j) :
           /\ bytes = Bytes(j, v, reading[j].at, b) /\ reading[j].at < b
           /\ b <= reading[j].size /\ b <= reading[j].at + Buffer
           /\ Steady(j) => v = reading[j].version
<1> DEFINE at == reading[j].at
           sz == reading[j].size
           most == Min({at + Buffer, sz})
<1>1. /\ at \in Nat /\ sz \in Nat /\ Version(j) \in Nat \ {0} /\ Length(j) \in Nat
      /\ reading[j].version \in 1..Version(j)
  BY CopyFacts DEF CopyTypes
<1>2. at + Buffer \in Nat
  BY <1>1, Sizes
<1>3. most \in Nat /\ most <= sz /\ most <= at + Buffer
  <2>1. most = IF at + Buffer <= sz THEN at + Buffer ELSE sz
    BY <1>1, <1>2, MinOfTwo
  <2> HIDE DEF most
  <2> QED BY <1>1, <1>2, <2>1
<1> HIDE DEF most
<1>4. CASE from = "onedrive"
  <2>1. PICK b \in {Min({most, Length(j)})} \ 0..at : bytes = Bytes(j, Version(j), at, b)
    BY <1>4 DEF NextBytes, most
  <2>2. b = IF most <= Length(j) THEN most ELSE Length(j)
    BY <1>1, <1>3, <2>1, MinOfTwo
  <2>3. b \in Nat /\ b <= most /\ b \notin 0..at
    BY <1>1, <1>3, <2>1, <2>2
  <2>4. at < b /\ b <= sz /\ b <= at + Buffer
    BY <1>1, <1>2, <1>3, <2>3
  <2>5. Version(j) \in 1..Version(j) /\ (Steady(j) => Version(j) = reading[j].version)
    BY <1>1, <1>4 DEF Steady
  <2> QED BY <2>1, <2>3, <2>4, <2>5
<1>5. CASE from # "onedrive"
  <2>1. PICK b \in (at + 1)..most : bytes = Bytes(j, reading[j].version, at, b)
    BY <1>5 DEF NextBytes, most
  <2>2. b \in Nat /\ at < b /\ b <= sz /\ b <= at + Buffer
    BY <1>1, <1>2, <1>3, <2>1
  <2> QED BY <1>1, <2>1, <2>2
<1> QED BY <1>4, <1>5

LEMMA ReadSteps ==
  ASSUME CopyInv, NEW j \in Job, Read(j)  PROVE CopyInv'
<1>1. CopyTypes /\ RunInv(j) /\ pc[j] = "read"
  BY DEF CopyInv, Read, RunInv
<1>2. PICK bytes \in NextBytes(j) :
        /\ pending' = [pending EXCEPT ![j] = pending[j] \o bytes]
        /\ reading' = [reading EXCEPT ![j].at = @ + Len(bytes)]
        /\ pc' = [pc EXCEPT ![j] =
             IF Streams(j) /\ Due(pending[j] \o bytes) /\ Flush(j, pending[j] \o bytes) >= ALIGN
             THEN "put" ELSE "read"]
  BY DEF Read
<1>3. PICK b \in Nat, v \in 1..Version(j) :
           /\ bytes = Bytes(j, v, reading[j].at, b) /\ reading[j].at < b
           /\ b <= reading[j].size /\ b <= reading[j].at + Buffer
           /\ Steady(j) => v = reading[j].version
  BY <1>1, <1>2, NextBytesAre
<1>4. /\ from' = from /\ to' = to /\ job' = job /\ sent' = sent /\ url' = url
      /\ uploadSessions' = uploadSessions /\ session' = session
  BY DEF Read, drive
<1>k. PICK kept : kept = pending[j] \o bytes
  OBVIOUS
<1>a. PICK at, had : at = reading[j].at /\ had = Len(pending[j])
  OBVIOUS
<1>5. /\ at \in Nat /\ had \in Nat /\ reading[j].size \in Nat /\ sent[j] \in Nat /\ Version(j) \in Nat \ {0}
      /\ pending[j] \in Seq(Byte) /\ at < b /\ b <= at + Buffer /\ b <= reading[j].size
  BY <1>1, <1>3, <1>a, CopyFacts
<1>6. bytes \in Seq(Byte) /\ Len(bytes) = b - at /\ v \in Nat /\ bytes = Bytes(j, v, at, b)
  <2>1. v \in Nat /\ at <= b
    BY <1>5
  <2>2. Bytes(j, v, at, b) \in Seq(Byte)
    BY <1>5, <2>1, BytesAre
  <2>3. Len(Bytes(j, v, at, b)) = b - at
    BY <1>5, <2>1, BytesLen
  <2> QED BY <1>3, <1>a, <2>1, <2>2, <2>3
<1>n. PICK n \in Nat : n = had + (b - at)
  BY <1>5
<1>7. kept \in Seq(Byte) /\ Len(kept) = n
  <2>1. Len(kept) = Len(pending[j]) + Len(bytes) /\ kept \in Seq(Byte)
    <3>1. pending[j] \in Seq(Byte) /\ bytes \in Seq(Byte)
      BY <1>5, <1>6
    <3> QED BY <1>k, <3>1, Joined
  <2> QED BY <1>a, <1>n, <1>6, <2>1
<1>8. /\ pending'[j] = kept
      /\ pc'[j] = IF Streams(j) /\ Due(kept) /\ Flush(j, kept) >= ALIGN THEN "put" ELSE "read"
      /\ \A i \in Job \ {j} : pending'[i] = pending[i] /\ pc'[i] = pc[i]
  BY <1>1, <1>2, <1>k DEF CopyTypes
<1>9. /\ reading'[j].at = b /\ reading'[j].size = reading[j].size /\ reading'[j].version = reading[j].version
      /\ reading' \in [Job -> [version : Nat, size : Nat, at : Nat]]
      /\ \A i \in Job \ {j} : reading'[i] = reading[i]
  <2>1. reading[j].at + Len(bytes) = b
    BY <1>a, <1>5, <1>6
  <2>2. reading \in [Job -> [version : Nat, size : Nat, at : Nat]]
    BY <1>1 DEF CopyTypes
  <2>3. reading' = [reading EXCEPT ![j] = [reading[j] EXCEPT !.at = b]]
    BY <1>2, <2>1, <2>2
  <2> QED BY <2>2, <2>3
<1>10. CopyTypes'
  <2>1. \A i \in Job : Version(i)' = Version(i)
    BY <1>4, VersionsStay DEF job
  <2>2. pending' \in [Job -> Seq(Byte)]
    BY <1>1, <1>2, <1>k, <1>7 DEF CopyTypes
  <2>3. pc' \in [Job -> {"queued", "status", "create", "openRead", "read", "put", "close",
                         "closeCreate", "closePut", "done", "failed"}]
    BY <1>1, <1>2 DEF CopyTypes
  <2>4. \A i \in Job : reading'[i].version \in 1..Version(i)
    BY <1>1, <1>9 DEF CopyTypes
  <2> QED BY <1>1, <1>4, <1>9, <2>1, <2>2, <2>3, <2>4 DEF CopyTypes, job
<1>11. MovesAlone(j)
  BY <1>4, <1>8, <1>9 DEF MovesAlone, LeavesOthers, job
<1>12. \A id \in DOMAIN session' : Carries(id, j)'
  BY <1>4, <1>11, CarriesOn
<1>13. /\ Streams(j)' <=> Streams(j)
       /\ Version(j)' = Version(j)
       /\ size' = size /\ source' = source
  BY <1>11 DEF Streams, Version, MovesAlone, LeavesOthers
<1>14. pc'[j] \in {"read", "put"} /\ (Uses(j)' <=> Uses(j))
  BY <1>1, <1>8, <1>13 DEF Uses
<1>15. Base(j)' = Base(j) /\ Base(j) \in Nat
  BY <1>4, <1>5, <1>13 DEF Base
<1>16. HasRead(j)
  BY <1>1 DEF RunInv, Keeps, Holds, Nothing
<1>17. (Flush(j, pending[j]))' = Flush(j, kept)
  BY <1>4, <1>8, <1>13 DEF Flush
<1>18. Stands(j)'
  BY <1>1, <1>4, <1>8, <1>13, <1>14, <1>17 DEF RunInv, Stands
<1>19. at = Base(j) + had /\ b = Base(j) + n
  <2>1. at = Base(j) + had
    BY <1>16, <1>a DEF HasRead
  <2>2. PICK base \in Nat : base = Base(j)
    BY <1>15
  <2> QED BY <1>5, <1>n, <2>1, <2>2
<1>20. Keeps(j)'
  <2>1. Steady(j)' <=> Steady(j)
    BY <1>4, <1>9, <1>13 DEF Steady
  <2>2. Steady(j) => kept = Bytes(j, v, Base(j), b)
    <3>1. Steady(j) => pending[j] = Bytes(j, v, Base(j), at)
      BY <1>3, <1>16, <1>a DEF HasRead
    <3>2. PICK base \in Nat : base = Base(j)
      BY <1>15
    <3>3. base <= at /\ at <= b
      BY <1>5, <1>19, <3>2
    <3>4. Bytes(j, v, base, at) \o Bytes(j, v, at, b) = Bytes(j, v, base, b)
      <4>1. v \in Nat /\ at \in Nat
        BY <1>5, <1>6
      <4> QED BY <3>3, <4>1, BytesJoin
    <3> QED BY <1>k, <1>6, <3>1, <3>2, <3>4
  <2>3. HasRead(j)'
    <3>1. b <= reading[j].size
      BY <1>5
    <3>2. reading[j].size = source[j][reading[j].version]
      BY <1>16 DEF HasRead
    <3> QED BY <1>3, <1>7, <1>8, <1>9, <1>13, <1>14, <1>15, <1>19, <2>1, <2>2, <3>1, <3>2 DEF HasRead, Bytes
  <2> QED BY <2>3 DEF Keeps
<1>21. Bounded(j)'
  <2> SUFFICES ASSUME Streams(j), reading[j].size <= size[j]
               PROVE  /\ n < FLUSH_AT + Buffer
                      /\ pc'[j] = "read" => n < FLUSH_AT \/ b >= reading[j].size
    BY <1>7, <1>8, <1>9, <1>13 DEF Bounded
  <2>1. size[j] \in Nat /\ sent[j] < size[j] /\ Base(j) = sent[j]
    BY <1>1, CopyFacts DEF RunInv, Stands, Base
  <2>2. had < FLUSH_AT
    <3>1. had < FLUSH_AT \/ at >= reading[j].size
      BY <1>1, <1>a DEF RunInv, Bounded
    <3> QED BY <1>5, <3>1
  <2>3. n < FLUSH_AT + Buffer
    BY <1>5, <1>n, <2>2, Sizes
  <2>4. ASSUME pc'[j] = "read", n >= FLUSH_AT  PROVE b >= reading[j].size
    <3>1. FlushOf(n, sent[j], size[j]) < ALIGN
      <4>1. ~(Flush(j, kept) >= ALIGN) /\ Flush(j, kept) = FlushOf(n, sent[j], size[j])
        BY <1>7, <1>8, <2>4, FlushIs DEF Due
      <4>2. FlushOf(n, sent[j], size[j]) \in Nat
        <5>1. PICK s \in Nat, z \in Nat : s = sent[j] /\ z = size[j] /\ s < z
          BY <1>5, <2>1
        <5>2. FlushOf(n, s, z) \in 0..n
          BY <5>1, FlushFits
        <5> QED BY <5>1, <5>2
      <4> QED BY <4>1, <4>2, Sizes
    <3>2. size[j] - sent[j] <= ALIGN
      BY <1>5, <2>1, <2>4, <3>1, FlushFits
    <3>3. b = sent[j] + n
      BY <1>19, <2>1
    <3>4. n >= size[j] - sent[j]
      BY <1>5, <2>1, <2>4, <3>2, Sizes
    <3>5. b >= size[j]
      BY <1>5, <2>1, <3>3, <3>4
    <3> QED BY <1>5, <2>1, <3>5
  <2>5. n < FLUSH_AT \/ n >= FLUSH_AT
    BY Sizes
  <2> QED BY <2>3, <2>4, <2>5
<1>22. InStep(j)'
  BY <1>4, <1>11, <1>14, SessionsStay
<1> QED BY <1>10, <1>11, <1>12, <1>18, <1>20, <1>21, <1>22, Together DEF RunInv

-----------------------------------------------------------------------------
(***************************************************************************)
(* It puts a range.                                                        *)
(***************************************************************************)
LEMMA Sliced ==
  ASSUME NEW s \in Seq(Byte), NEW a \in Nat, NEW c \in Nat, a <= c, c <= Len(s)
  PROVE  SubSeq(s, a + 1, c) \in Seq(Byte) /\ Len(SubSeq(s, a + 1, c)) = c - a
OBVIOUS

LEMMA SlicedHead ==
  ASSUME NEW s \in Seq(Byte), NEW n \in Nat, n <= Len(s)
  PROVE  SubSeq(s, 1, n) \in Seq(Byte) /\ Len(SubSeq(s, 1, n)) = n
OBVIOUS

\* SubSeq, for lemmas to be cited about it.
Part(s, x, y) == SubSeq(s, x, y)

LEMMA BytesHead ==
  ASSUME NEW j \in Job, NEW v \in Nat, NEW a \in Nat, NEW c \in Nat, NEW n \in Nat, NEW m \in Nat,
         m = a + n, m <= c
  PROVE  Part(Bytes(j, v, a, c), 1, n) = Bytes(j, v, a, m)
<1>1. SubSeq(Bytes(j, v, a, c), (a - a) + 1, m - a) = Bytes(j, v, a, m)
  BY BytesCut
<1>2. (a - a) + 1 = 1 /\ m - a = n
  OBVIOUS
<1> QED BY <1>1, <1>2 DEF Part

LEMMA BytesTail ==
  ASSUME NEW j \in Job, NEW v \in Nat, NEW a \in Nat, NEW c \in Nat, NEW n \in Nat, NEW m \in Nat,
         m = a + n, m <= c
  PROVE  Part(Bytes(j, v, a, c), n + 1, c - a) = Bytes(j, v, m, c)
<1>1. SubSeq(Bytes(j, v, a, c), (m - a) + 1, c - a) = Bytes(j, v, m, c)
  BY BytesCut
<1>2. (m - a) + 1 = n + 1
  OBVIOUS
<1> QED BY <1>1, <1>2 DEF Part

LEMMA BytesMiddle ==
  ASSUME NEW j \in Job, NEW v \in Nat, NEW c \in Nat, NEW x \in Nat, NEW y \in Nat, x <= y, y <= c
  PROVE  Part(Bytes(j, v, 0, c), x + 1, y) = Bytes(j, v, x, y)
<1>1. SubSeq(Bytes(j, v, 0, c), (x - 0) + 1, y - 0) = Bytes(j, v, x, y)
  BY BytesCut
<1>2. (x - 0) + 1 = x + 1 /\ y - 0 = y
  OBVIOUS
<1> QED BY <1>1, <1>2 DEF Part

\* The range n bytes long, of bytes from s to e.
IsChunk(j, n, e) ==
  /\ e = sent[j] + n /\ Chunk(j) \in Seq(Byte) /\ Len(Chunk(j)) = n
  /\ Steady(j) => Chunk(j) = Bytes(j, reading[j].version, sent[j], e)
  /\ Total(j) \in Nat /\ (Streams(j) => Total(j) = size[j])
  /\ pc[j] = "put" => /\ n # 0 /\ n % ALIGN = 0 /\ e < size[j]
                      /\ n <= Len(pending[j]) /\ n = Flush(j, pending[j])
                      /\ Chunk(j) = SubSeq(pending[j], 1, n)
  /\ pc[j] = "close" => Chunk(j) = pending[j]
  /\ pc[j] = "closePut" => /\ n # 0 /\ e <= Len(pending[j]) /\ (e < Len(pending[j]) => n = FLUSH_AT)
                           /\ Total(j) = Len(pending[j]) /\ ~Streams(j)

LEMMA Chunks ==
  ASSUME CopyInv, NEW j \in Job, Puts(j)
  PROVE  /\ Uses(j) /\ url[j] \in DOMAIN session /\ j \in session[url[j]].by
         /\ \E n \in Nat, e \in Nat : IsChunk(j, n, e)
<1>1. CopyTypes /\ Stands(j) /\ Keeps(j)
  BY DEF CopyInv, RunInv
<1>2. pc[j] = "put" \/ pc[j] = "closePut" \/ (pc[j] = "close" /\ Streams(j))
  BY DEF Puts
<1>3. Uses(j) /\ url[j] # 0 /\ j \in session[url[j]].by
  BY <1>1, <1>2 DEF Uses, Stands
<1>4. url[j] \in DOMAIN session
  <2>1. url[j] \in Nat /\ url[j] <= Len(session) /\ DOMAIN session = 1..Len(session) /\ Len(session) \in Nat
    BY <1>1, CopyFacts
  <2> QED BY <1>3, <2>1
<1>s. PICK s \in Nat, l \in Nat, at \in Nat, v \in Nat :
        s = sent[j] /\ l = Len(pending[j]) /\ at = reading[j].at /\ v = reading[j].version
  BY <1>1, CopyFacts
<1>5. pending[j] \in Seq(Byte) /\ size[j] \in Nat \cup {Unknown} /\ (Streams(j) => size[j] \in Nat)
  BY <1>1, CopyFacts
<1>6. CASE pc[j] = "put"
  <2>1. Streams(j) /\ Flush(j, pending[j]) >= ALIGN /\ s < size[j] /\ size[j] \in Nat
    BY <1>1, <1>5, <1>6, <1>s DEF Stands
  <2>2. PICK z \in Nat : z = size[j]
    BY <2>1
  <2>3. PICK n : n = FlushOf(l, s, z)
    OBVIOUS
  <2>4. n = Flush(j, pending[j])
    BY <1>s, <2>2, <2>3, FlushIs
  <2>5. n \in 0..l /\ s + n < z /\ n % ALIGN = 0
    BY <2>1, <2>2, <2>3, FlushFits
  <2>6. PICK e \in Nat : e = s + n /\ n \in Nat /\ n <= l /\ e < z /\ n # 0
    BY <2>1, <2>4, <2>5, Sizes
  <2>7. Chunk(j) = SubSeq(pending[j], 1, n) /\ Total(j) = size[j]
    BY <1>6, <2>4 DEF Chunk, Total
  <2>8. Chunk(j) \in Seq(Byte) /\ Len(Chunk(j)) = n
    BY <1>s, <1>5, <2>6, <2>7, SlicedHead
  <2>9. Steady(j) => Chunk(j) = Bytes(j, v, s, e)
    <3>1. HasRead(j) /\ Base(j) = s
      BY <1>1, <1>6, <1>s, <2>1 DEF Keeps, Holds, Nothing, Base
    <3>2. at = s + l /\ (Steady(j) => pending[j] = Bytes(j, v, s, at))
      BY <1>s, <3>1 DEF HasRead
    <3>3. e <= at
      BY <2>6, <3>2
    <3>4. Part(Bytes(j, v, s, at), 1, n) = Bytes(j, v, s, e)
      BY <2>6, <3>3, BytesHead
    <3> QED BY <2>7, <3>2, <3>4 DEF Part
  <2>10. IsChunk(j, n, e)
    BY <1>6, <1>s, <2>1, <2>2, <2>4, <2>5, <2>6, <2>7, <2>8, <2>9 DEF IsChunk
  <2> QED BY <1>3, <1>4, <2>6, <2>10
<1>7. CASE pc[j] = "close"
  <2>1. Streams(j) /\ size[j] \in Nat
    BY <1>2, <1>5, <1>7
  <2>2. Chunk(j) = pending[j] /\ Total(j) = size[j]
    BY <1>7 DEF Chunk, Total
  <2>3. PICK e \in Nat : e = s + l
    OBVIOUS
  <2>4. Steady(j) => Chunk(j) = Bytes(j, v, s, e)
    <3>1. CASE Nothing(j)
      <4>1. pending[j] = <<>> /\ l = 0
        BY <1>s, <3>1 DEF Nothing
      <4>2. e = s
        BY <2>3, <4>1
      <4> QED BY <2>2, <4>1, <4>2, NoBytes
    <3>2. CASE ~Nothing(j)
      <4>1. HasRead(j) /\ Base(j) = s
        BY <1>1, <1>7, <1>s, <2>1, <3>2 DEF Keeps, Holds, Base
      <4> QED BY <1>s, <2>2, <2>3, <4>1 DEF HasRead
    <3> QED BY <3>1, <3>2
  <2>5. IsChunk(j, l, e)
    BY <1>5, <1>7, <1>s, <2>1, <2>2, <2>3, <2>4 DEF IsChunk
  <2> QED BY <1>3, <1>4, <2>5
<1>8. CASE pc[j] = "closePut"
  <2>1. ~Streams(j) /\ s < l
    BY <1>1, <1>8, <1>s DEF Stands
  <2>2. PICK e : e = Min({s + FLUSH_AT, l})
    OBVIOUS
  <2>3. e \in Nat /\ s < e /\ e <= l /\ (e < l => e = s + FLUSH_AT)
    <3>1. s + FLUSH_AT \in Nat /\ s < s + FLUSH_AT
      BY Sizes
    <3>2. e = IF s + FLUSH_AT <= l THEN s + FLUSH_AT ELSE l
      BY <2>2, <3>1, MinOfTwo
    <3> QED BY <2>1, <3>1, <3>2
  <2>4. PICK n \in Nat : n = e - s
    BY <2>3
  <2>5. e = s + n /\ n # 0 /\ (e < l => n = FLUSH_AT)
    BY <2>3, <2>4, Sizes
  <2>6. Chunk(j) = SubSeq(pending[j], s + 1, e) /\ Total(j) = l
    BY <1>8, <1>s, <2>2 DEF Chunk, Total
  <2>7. Chunk(j) \in Seq(Byte) /\ Len(Chunk(j)) = n
    <3>1. s <= e /\ e <= Len(pending[j])
      BY <1>s, <2>3
    <3>2. SubSeq(pending[j], s + 1, e) \in Seq(Byte) /\ Len(SubSeq(pending[j], s + 1, e)) = e - s
      BY <1>5, <2>3, <3>1, Sliced
    <3> QED BY <2>4, <2>6, <3>2
  <2>8. Steady(j) => Chunk(j) = Bytes(j, v, s, e)
    <3>1. HasRead(j) /\ Base(j) = 0
      BY <1>1, <1>8, <2>1 DEF Keeps, Holds, Nothing, Base
    <3>2. at = 0 + l /\ (Steady(j) => pending[j] = Bytes(j, v, 0, at))
      BY <1>s, <3>1 DEF HasRead
    <3>3. s <= e /\ e <= at
      BY <2>3, <3>2
    <3>4. Part(Bytes(j, v, 0, at), s + 1, e) = Bytes(j, v, s, e)
      BY <2>3, <3>3, BytesMiddle
    <3> QED BY <2>6, <3>2, <3>4 DEF Part
  <2>9. IsChunk(j, n, e)
    BY <1>8, <1>s, <2>1, <2>3, <2>5, <2>6, <2>7, <2>8 DEF IsChunk
  <2> QED BY <1>3, <1>4, <2>3, <2>9
<1> QED BY <1>2, <1>6, <1>7, <1>8

\* What the server makes of a range that fits.
Longer(id, j) == session[id].got \o Chunk(j)

LEMMA Received ==
  ASSUME CopyInv, NEW j \in Job, Puts(j), PutFits(j), Receive(url[j], Chunk(j), Total(j)),
         NEW n \in Nat, NEW e \in Nat, IsChunk(j, n, e), NEW id, id = url[j]
  PROVE  /\ id \in DOMAIN session /\ session[id].live /\ Len(session[id].got) = sent[j] /\ n # 0
         /\ session[id].total \in {Unknown, Total(j)}
         /\ e = Total(j) \/ (e < Total(j) /\ n % ALIGN = 0)
         /\ session' \in Seq(Upload) /\ Len(session') = Len(session) /\ DOMAIN session' = DOMAIN session
         /\ \A k \in DOMAIN session \ {id} : session'[k] = session[k]
         /\ session'[id].by = session[id].by /\ session'[id].total = Total(j)
         /\ session'[id].got = Longer(id, j) /\ Len(session'[id].got) = e
         /\ session'[id].live <=> e < Total(j)
         /\ dst' = IF e = Total(j) THEN session'[id].got ELSE dst
<1>1. CopyTypes /\ id \in DOMAIN session /\ session[id] \in Upload
  <2>1. id \in DOMAIN session
    BY Chunks
  <2>2. CopyTypes
    BY DEF CopyInv
  <2> QED BY <2>1, <2>2 DEF CopyTypes
<1>2. /\ session[id].live /\ sent[j] = Len(session[id].got) /\ n > 0
      /\ session[id].total \in {Unknown, Total(j)}
      /\ sent[j] + n = Total(j) \/ (sent[j] + n < Total(j) /\ n % ALIGN = 0)
  BY DEF PutFits, Fits, Live, IsChunk
<1>3. /\ Chunk(j) \in Seq(Byte) /\ Len(Chunk(j)) = n /\ e = sent[j] + n /\ Total(j) \in Nat
      /\ session[id].got \in Seq(Byte)
  BY <1>1 DEF IsChunk, Upload
<1>g. PICK got : got = session[id].got \o Chunk(j)
  OBVIOUS
<1>4. got \in Seq(Byte) /\ Len(got) = e
  <2>1. got \in Seq(Byte) /\ Len(got) = Len(session[id].got) + Len(Chunk(j))
    BY <1>g, <1>3, Joined
  <2> QED BY <1>2, <1>3, <2>1
<1>u. PICK u : u = [session[id] EXCEPT !.total = Total(j), !.got = got, !.live = Len(got) < Total(j)]
  OBVIOUS
<1>5. /\ u \in Upload /\ u.by = session[id].by /\ u.total = Total(j) /\ u.got = got
      /\ u.live <=> e < Total(j)
  <2>1. (Len(got) < Total(j)) \in BOOLEAN
    OBVIOUS
  <2> QED BY <1>1, <1>3, <1>4, <1>u, <2>1 DEF Upload
<1>6. session' = [session EXCEPT ![id] = u] /\ dst' = IF Len(got) = Total(j) THEN got ELSE dst
  BY <1>g, <1>u DEF Receive
<1>7. /\ session' \in Seq(Upload) /\ Len(session') = Len(session) /\ DOMAIN session' = DOMAIN session
      /\ session'[id] = u /\ \A k \in DOMAIN session \ {id} : session'[k] = session[k]
  BY <1>1, <1>5, <1>6, SessionSet DEF CopyTypes
<1>8. n # 0 /\ (e = Total(j) \/ (e < Total(j) /\ n % ALIGN = 0))
  BY <1>2, <1>3
<1> QED BY <1>1, <1>2, <1>4, <1>5, <1>6, <1>7, <1>8, <1>g DEF Longer

\* A source that has one version has that one read.
LEMMA FirstVersion ==
  ASSUME CopyTypes, NEW j \in Job, Version(j) = 1
  PROVE  reading[j].version = 1 /\ Steady(j)
<1>1. reading[j].version \in Nat \ {0} /\ reading[j].version <= 1
  BY CopyFacts
<1>2. reading[j].version = 1
  BY <1>1
<1> QED BY <1>2 DEF Steady

LEMMA ReceivedCarries ==
  ASSUME CopyInv, NEW j \in Job, Puts(j), PutFits(j), Receive(url[j], Chunk(j), Total(j)), MovesAlone(j)
  PROVE  \A id \in DOMAIN session' : Carries(id, j)'
<1>1. CopyTypes /\ \A id \in DOMAIN session : Carries(id, j)
  BY DEF CopyInv, RunInv
<1>2. PICK n \in Nat, e \in Nat : IsChunk(j, n, e)
  BY Chunks
<1>i. PICK id : id = url[j]
  OBVIOUS
<1>3. /\ id \in DOMAIN session /\ session[id].live /\ Len(session[id].got) = sent[j]
      /\ e = Total(j) \/ (e < Total(j) /\ n % ALIGN = 0)
      /\ DOMAIN session' = DOMAIN session
      /\ \A k \in DOMAIN session \ {id} : session'[k] = session[k]
      /\ session'[id].by = session[id].by /\ session'[id].total = Total(j)
      /\ session'[id].got = Longer(id, j) /\ Len(session'[id].got) = e
      /\ session'[id].live <=> e < Total(j)
  BY <1>2, <1>i, Received
<1>4. /\ Streams(j)' <=> Streams(j)
      /\ Version(j)' = Version(j)
      /\ size' = size
  BY DEF Streams, Version, MovesAlone, LeavesOthers
<1>5. \A k \in DOMAIN session \ {id} : Carries(k, j)'
  BY <1>1, <1>3, <1>4 DEF Carries, Bytes
<1>6. Carries(id, j)'
  <2> SUFFICES ASSUME session[id].by = {j}, Streams(j), Version(j) = 1
               PROVE  /\ session'[id].got = Bytes(j, 1, 0, e)
                      /\ session'[id].total = size[j]
                      /\ session'[id].live => e < size[j] /\ e % ALIGN = 0
    BY <1>3, <1>4 DEF Carries, Bytes
  <2>1. /\ session[id].got = Bytes(j, 1, 0, sent[j]) /\ sent[j] % ALIGN = 0
    BY <1>1, <1>3 DEF Carries
  <2>2. /\ Chunk(j) = Bytes(j, 1, sent[j], e) /\ e = sent[j] + n /\ Total(j) = size[j]
    BY <1>1, <1>2, FirstVersion DEF IsChunk
  <2>3. PICK s \in Nat : s = sent[j]
    BY <1>1, CopyFacts
  <2>4. Bytes(j, 1, 0, s) \o Bytes(j, 1, s, e) = Bytes(j, 1, 0, e)
    <3>1. 0 <= s /\ s <= e
      BY <2>2, <2>3
    <3> QED BY <3>1, Prefixes
  <2>5. e < size[j] => e % ALIGN = 0
    <3>1. s % ALIGN = 0 /\ n % ALIGN = 0 => (s + n) % ALIGN = 0
      BY Sizes, SumOfBlocks
    <3>2. PICK z \in Nat : z = size[j]
      BY <1>1, CopyFacts
    <3>3. e < z => n % ALIGN = 0
      BY <1>3, <2>2, <3>2
    <3> QED BY <2>1, <2>2, <2>3, <3>1, <3>2, <3>3
  <2> QED BY <1>3, <2>1, <2>2, <2>3, <2>4, <2>5 DEF Longer
<1> QED BY <1>3, <1>5, <1>6

\* What of the types a range that was put leaves.
LEMMA ReceivedTypes ==
  ASSUME CopyInv, session' \in Seq(Upload), Len(session') = Len(session),
         from' = from, to' = to, job' = job, reading' = reading, url' = url,
         uploadSessions' \in {0, uploadSessions}, sent' \in [Job -> Nat], pending' \in [Job -> Seq(Byte)],
         pc' \in [Job -> {"queued", "status", "create", "openRead", "read", "put", "close",
                          "closeCreate", "closePut", "done", "failed"}]
  PROVE  CopyTypes'
<1>1. CopyTypes
  BY DEF CopyInv
<1>2. source' = source
  BY DEF job
<1>3. \A i \in Job : Version(i)' = Version(i)
  BY <1>2, VersionsStay
<1>4. uploadSessions' \in 0..Len(session')
  <2>1. uploadSessions \in 0..Len(session) /\ Len(session) \in Nat
    BY <1>1 DEF CopyTypes
  <2> QED BY <2>1
<1> QED BY <1>1, <1>3, <1>4 DEF CopyTypes, job

LEMMA PutSteps ==
  ASSUME CopyInv, NEW j \in Job, Put(j)  PROVE CopyInv'
<1>1. CopyTypes /\ RunInv(j) /\ Stands(j) /\ Keeps(j) /\ Bounded(j) /\ InStep(j)
  BY DEF CopyInv, RunInv
<1>2. Puts(j) /\ PutFits(j) /\ Receive(url[j], Chunk(j), Total(j))
  BY DEF Put
<1>3. PICK n \in Nat, e \in Nat : IsChunk(j, n, e)
  BY <1>2, Chunks
<1>i. PICK id : id = url[j]
  OBVIOUS
<1>4. /\ id \in DOMAIN session /\ session[id].live /\ Len(session[id].got) = sent[j]
      /\ e = Total(j) \/ (e < Total(j) /\ n % ALIGN = 0)
      /\ session' \in Seq(Upload) /\ Len(session') = Len(session) /\ DOMAIN session' = DOMAIN session
      /\ \A k \in DOMAIN session \ {id} : session'[k] = session[k]
      /\ session'[id].by = session[id].by /\ session'[id].total = Total(j)
      /\ session'[id].got = Longer(id, j) /\ Len(session'[id].got) = e
      /\ session'[id].live <=> e < Total(j)
  <2>1. /\ id \in DOMAIN session /\ session[id].live /\ Len(session[id].got) = sent[j]
        /\ e = Total(j) \/ (e < Total(j) /\ n % ALIGN = 0)
        /\ DOMAIN session' = DOMAIN session
        /\ \A k \in DOMAIN session \ {id} : session'[k] = session[k]
    BY <1>2, <1>3, <1>i, Received
  <2>2. /\ session' \in Seq(Upload) /\ Len(session') = Len(session)
        /\ session'[id].by = session[id].by /\ session'[id].total = Total(j)
    BY <1>2, <1>3, <1>i, Received
  <2>3. /\ session'[id].got = Longer(id, j) /\ Len(session'[id].got) = e
        /\ session'[id].live <=> e < Total(j)
    BY <1>2, <1>3, <1>i, Received
  <2> QED BY <2>1, <2>2, <2>3
<1>5. Uses(j) /\ j \in session[id].by
  BY <1>2, <1>i, Chunks
<1>6. /\ from' = from /\ to' = to /\ job' = job /\ reading' = reading /\ url' = url
  BY DEF Put
<1>c. PICK chunk : chunk = Chunk(j)
  OBVIOUS
<1>7. chunk \in Seq(Byte) /\ Len(chunk) = n /\ e = sent[j] + n
  BY <1>3, <1>c DEF IsChunk
<1>8. pc[j] = "put" \/ pc[j] = "closePut" \/ (pc[j] = "close" /\ Streams(j))
  BY <1>2 DEF Puts
<1>9. ASSUME \A i \in Job \ {j} : pc'[i] = pc[i] /\ pending'[i] = pending[i] /\ sent'[i] = sent[i]
      PROVE  /\ MovesAlone(j)
             /\ \A k \in DOMAIN session' : Carries(k, j)'
             /\ Streams(j)' <=> Streams(j)
             /\ Version(j)' = Version(j)
             /\ size' = size /\ source' = source
  <2>1. \A k \in DOMAIN session' : \/ k \in DOMAIN session /\ session'[k] = session[k]
                                   \/ j \in session'[k].by /\ session[k].by \subseteq session'[k].by
    BY <1>4, <1>5
  <2>2. MovesAlone(j)
    BY <1>4, <1>6, <1>9, <2>1 DEF MovesAlone, LeavesOthers, job
  <2>3. \A k \in DOMAIN session' : Carries(k, j)'
    BY <1>2, <2>2, ReceivedCarries
  <2> QED BY <2>2, <2>3 DEF Streams, Version, MovesAlone, LeavesOthers
<1>10. CASE pc[j] = "close"
  <2>1. /\ uploadSessions' = 0 /\ pc' = [pc EXCEPT ![j] = "done"] /\ pending' = pending /\ sent' = sent
    BY <1>10 DEF Put
  <2>2. CopyTypes'
    BY <1>1, <1>4, <1>6, <2>1, ReceivedTypes DEF CopyTypes
  <2>3. pc'[j] = "done" /\ \A i \in Job \ {j} : pc'[i] = pc[i] /\ pending'[i] = pending[i] /\ sent'[i] = sent[i]
    BY <1>1, <2>1 DEF CopyTypes
  <2>4. MovesAlone(j) /\ \A k \in DOMAIN session' : Carries(k, j)'
    BY <1>9, <2>3
  <2>5. pending'[j] = pending[j] /\ reading'[j] = reading[j]
    BY <1>6, <2>1
  <2> QED BY <2>2, <2>3, <2>4, <2>5, Idle, Together
<1>11. CASE pc[j] = "put"
  <2>1. /\ sent' = [sent EXCEPT ![j] = sent[j] + n]
        /\ pending' = [pending EXCEPT ![j] = SubSeq(pending[j], n + 1, Len(pending[j]))]
        /\ pc' = [pc EXCEPT ![j] = "read"] /\ uploadSessions' = uploadSessions
    BY <1>7, <1>11, <1>c DEF Put
  <2>k. PICK kept : kept = SubSeq(pending[j], n + 1, Len(pending[j]))
    OBVIOUS
  <2>n. PICK s \in Nat, l \in Nat, at \in Nat, v \in Nat :
          s = sent[j] /\ l = Len(pending[j]) /\ at = reading[j].at /\ v = reading[j].version
    BY <1>1, CopyFacts
  <2>2. /\ n # 0 /\ n % ALIGN = 0 /\ e < size[j] /\ n <= l /\ n = Flush(j, pending[j])
        /\ Streams(j) /\ size[j] \in Nat /\ s < size[j] /\ Total(j) = size[j] /\ e = s + n
    BY <1>1, <1>3, <1>11, <2>n, CopyFacts DEF IsChunk, Stands
  <2>z. PICK z \in Nat, m \in Nat : z = size[j] /\ m = l - n
    BY <2>2
  <2>3. kept \in Seq(Byte) /\ Len(kept) = m
    <3>1. pending[j] \in Seq(Byte)
      BY <1>1 DEF CopyTypes
    <3>2. SubSeq(pending[j], n + 1, l) \in Seq(Byte) /\ Len(SubSeq(pending[j], n + 1, l)) = l - n
      BY <2>2, <2>n, <3>1, Sliced
    <3> QED BY <2>k, <2>n, <2>z, <3>2
  <2>4. CopyTypes'
    <3>1. sent' \in [Job -> Nat] /\ pending' \in [Job -> Seq(Byte)]
      <4>1. sent[j] + n \in Nat
        BY <1>7
      <4> QED BY <1>1, <2>1, <2>3, <2>k, <4>1 DEF CopyTypes
    <3>2. pc' \in [Job -> {"queued", "status", "create", "openRead", "read", "put", "close",
                           "closeCreate", "closePut", "done", "failed"}]
      BY <1>1, <2>1 DEF CopyTypes
    <3> QED BY <1>4, <1>6, <2>1, <3>1, <3>2, ReceivedTypes
  <2>5. /\ pc'[j] = "read" /\ sent'[j] = e /\ pending'[j] = kept
        /\ \A i \in Job \ {j} : pc'[i] = pc[i] /\ pending'[i] = pending[i] /\ sent'[i] = sent[i]
    BY <1>1, <1>7, <2>1, <2>k DEF CopyTypes
  <2>6. /\ MovesAlone(j)
        /\ \A k \in DOMAIN session' : Carries(k, j)'
        /\ Streams(j)' <=> Streams(j)
        /\ Version(j)' = Version(j)
        /\ size' = size /\ source' = source
    BY <1>9, <2>5
  <2>7. Uses(j)' /\ url'[j] = id
    BY <1>6, <1>i, <2>2, <2>5, <2>6 DEF Uses
  <2>8. Stands(j)'
    <3>1. id # 0
      BY <1>1, <1>5, <1>i DEF Stands
    <3> QED BY <1>1, <1>4, <1>5, <2>2, <2>5, <2>6, <2>7, <3>1 DEF Stands
  <2>9. HasRead(j) /\ at = s + l
    BY <1>1, <1>11, <2>2, <2>n DEF Keeps, Holds, Nothing, HasRead, Base
  <2>10. at = e + m
    BY <2>2, <2>9, <2>z
  <2>11. Keeps(j)'
    <3>1. (Steady(j)' <=> Steady(j)) /\ Base(j)' = e
      BY <1>6, <2>2, <2>5, <2>6 DEF Steady, Base
    <3>2. Steady(j) => kept = Bytes(j, v, e, at)
      <4>1. Steady(j) => pending[j] = Bytes(j, v, s, at)
        BY <2>2, <2>9, <2>n DEF HasRead, Base
      <4>2. Part(Bytes(j, v, s, at), n + 1, at - s) = Bytes(j, v, e, at)
        <5>1. e <= at
          BY <2>10
        <5> QED BY <2>2, <5>1, BytesTail
      <4>3. at - s = l
        BY <2>9
      <4> QED BY <2>k, <2>n, <4>1, <4>2, <4>3 DEF Part
    <3>3. pending[j] # <<>> /\ reading[j].at <= reading[j].size /\ reading[j].size = source[j][reading[j].version]
      <4>1. l # 0
        BY <2>2
      <4>2. pending[j] # <<>>
        BY <2>n, <4>1
      <4> QED BY <2>9, <4>2 DEF HasRead
    <3>4. HasRead(j)'
      BY <1>6, <2>3, <2>5, <2>6, <2>10, <2>n, <3>1, <3>2, <3>3 DEF HasRead, Bytes
    <3> QED BY <3>4 DEF Keeps
  <2>12. Bounded(j)'
    <3> SUFFICES ASSUME reading[j].size <= size[j]
                 PROVE  m < FLUSH_AT + Buffer /\ (m < FLUSH_AT \/ at >= reading[j].size)
      BY <1>6, <2>3, <2>5, <2>6, <2>n DEF Bounded
    <3>1. l < FLUSH_AT + Buffer
      BY <1>1, <2>2, <2>n DEF Bounded
    <3>2. m < FLUSH_AT + Buffer
      BY <2>2, <2>z, <3>1, Sizes
    <3>3. l - n < FLUSH_AT \/ (z - s) - n <= ALIGN
      <4>1. n = FlushOf(l, s, z)
        BY <2>2, <2>n, <2>z, FlushIs
      <4>2. s < z
        BY <2>2, <2>z
      <4> QED BY <4>1, <4>2, FlushFits
    <3>4. reading[j].size \in Nat /\ reading[j].size <= z /\ at <= reading[j].size
      <4>1. pending[j] # <<>>
        BY <2>2, <2>n
      <4> QED BY <1>1, <2>9, <2>n, <2>z, <4>1, CopyFacts DEF HasRead
    <3>5. m < FLUSH_AT \/ at >= reading[j].size
      <4>1. CASE l - n < FLUSH_AT
        BY <2>z, <4>1
      <4>2. CASE (z - s) - n <= ALIGN
        <5>1. m <= z - e
          BY <2>2, <2>10, <3>4
        <5>2. z - e <= FLUSH_AT
          BY <2>2, <4>2, Sizes
        <5>3. m >= FLUSH_AT => e + m >= z
          BY <2>2, <5>1, <5>2, Sizes
        <5> QED BY <2>10, <3>4, <5>3, Sizes
      <4> QED BY <3>3, <4>1, <4>2
    <3> QED BY <3>2, <3>5
  <2>13. InStep(j)'
    <3>1. session'[id].live
      BY <1>4, <2>2
    <3> QED BY <1>4, <2>5, <2>7, <3>1 DEF InStep
  <2> QED BY <2>4, <2>6, <2>8, <2>11, <2>12, <2>13, Together DEF RunInv
<1>12. CASE pc[j] = "closePut"
  <2>1. /\ sent' = [sent EXCEPT ![j] = sent[j] + n] /\ pending' = pending
        /\ pc' = [pc EXCEPT ![j] = IF sent'[j] >= Len(pending[j]) THEN "done" ELSE "closePut"]
        /\ uploadSessions' = uploadSessions
    BY <1>7, <1>12, <1>c DEF Put
  <2>2. /\ n # 0 /\ e <= Len(pending[j]) /\ (e < Len(pending[j]) => n = FLUSH_AT)
        /\ Total(j) = Len(pending[j]) /\ ~Streams(j)
    BY <1>3, <1>12 DEF IsChunk
  <2>3. sent' \in [Job -> Nat] /\ sent'[j] = e
    BY <1>1, <1>7, <2>1 DEF CopyTypes
  <2>4. CopyTypes'
    <3>1. pc' \in [Job -> {"queued", "status", "create", "openRead", "read", "put", "close",
                           "closeCreate", "closePut", "done", "failed"}]
      BY <1>1, <2>1 DEF CopyTypes
    <3> QED BY <1>1, <1>4, <1>6, <2>1, <2>3, <3>1, ReceivedTypes DEF CopyTypes
  <2>5. /\ pc'[j] = IF e >= Len(pending[j]) THEN "done" ELSE "closePut"
        /\ \A i \in Job \ {j} : pc'[i] = pc[i] /\ pending'[i] = pending[i] /\ sent'[i] = sent[i]
    BY <1>1, <2>1, <2>3 DEF CopyTypes
  <2>6. /\ MovesAlone(j)
        /\ \A k \in DOMAIN session' : Carries(k, j)'
        /\ Streams(j)' <=> Streams(j)
        /\ Version(j)' = Version(j)
        /\ size' = size /\ source' = source
    BY <1>9, <2>5
  <2>7. pending'[j] = pending[j] /\ reading'[j] = reading[j] /\ url'[j] = id
    BY <1>6, <1>i, <2>1
  <2>8. CASE e >= Len(pending[j])
    BY <2>4, <2>5, <2>6, <2>7, <2>8, Idle, Together
  <2>9. CASE ~(e >= Len(pending[j]))
    <3>1. pc'[j] = "closePut" /\ n = FLUSH_AT /\ e < Len(pending[j]) /\ session'[id].live
      <4>1. Len(pending[j]) \in Nat
        BY <1>1, CopyFacts
      <4>2. e < Len(pending[j])
        BY <2>9, <4>1
      <4> QED BY <1>4, <2>2, <2>5, <2>9, <4>2
    <3>2. Stands(j)'
      <4>1. id # 0
        BY <1>1, <1>5, <1>i DEF Stands
      <4> QED BY <1>1, <1>4, <1>5, <1>12, <2>2, <2>3, <2>6, <2>7, <3>1, <4>1 DEF Stands
    <3>3. HasRead(j) /\ Base(j) = 0 /\ Base(j)' = 0 /\ (Steady(j)' <=> Steady(j))
      BY <1>1, <1>6, <1>12, <2>2, <2>6 DEF Keeps, Holds, Nothing, Base, Steady
    <3>4. Keeps(j)'
      <4>1. HasRead(j)'
        BY <1>6, <1>12, <2>1, <2>6, <3>1, <3>3 DEF HasRead, Bytes
      <4> QED BY <4>1 DEF Keeps
    <3>5. Bounded(j)'
      BY <2>2, <2>6 DEF Bounded
    <3>6. InStep(j)'
      <4> SUFFICES ASSUME session[id].by = {j}
                   PROVE  /\ e % ALIGN = 0
                          /\ Steady(j) => session'[id].got = Bytes(j, reading[j].version, 0, e)
        BY <1>4, <1>6, <2>2, <2>3, <2>6, <2>7, <3>1, <3>3 DEF InStep, Bytes
      <4>1. /\ sent[j] % ALIGN = 0
            /\ Steady(j) => session[id].got = Bytes(j, reading[j].version, 0, sent[j])
        BY <1>1, <1>4, <1>5, <1>12, <1>i, <2>2 DEF InStep
      <4>2. PICK s \in Nat, v \in Nat : s = sent[j] /\ v = reading[j].version
        BY <1>1, CopyFacts
      <4>3. e % ALIGN = 0
        <5>1. s % ALIGN = 0 /\ FLUSH_AT % ALIGN = 0
          BY <4>1, <4>2, Sizes
        <5>2. (s + FLUSH_AT) % ALIGN = 0
          BY <5>1, Sizes, SumOfBlocks
        <5> QED BY <1>7, <3>1, <4>2, <5>2
      <4>4. Bytes(j, v, 0, s) \o Bytes(j, v, s, e) = Bytes(j, v, 0, e)
        <5>1. 0 <= s /\ s <= e
          BY <1>7, <4>2
        <5> QED BY <5>1, Prefixes
      <4>5. Steady(j) => Chunk(j) = Bytes(j, v, s, e)
        BY <1>3, <4>2 DEF IsChunk
      <4> QED BY <1>4, <4>1, <4>2, <4>3, <4>4, <4>5 DEF Longer
    <3> QED BY <2>4, <2>6, <3>2, <3>4, <3>5, <3>6, Together DEF RunInv
  <2> QED BY <2>8, <2>9
<1> QED BY <1>8, <1>10, <1>11, <1>12

LEMMA AnswerLostSteps ==
  ASSUME CopyInv, NEW j \in Job, AnswerLost(j)  PROVE CopyInv'
<1>1. CopyTypes
  BY DEF CopyInv
<1>2. /\ from' = from /\ to' = to /\ job' = job /\ handle' = handle /\ uploadSessions' = uploadSessions
      /\ pc' = [pc EXCEPT ![j] = "failed"]
  BY DEF AnswerLost
<1>3. /\ source' = source /\ size' = size /\ attempted' = attempted /\ resume' = resume
      /\ reading' = reading /\ pending' = pending /\ sent' = sent /\ url' = url
  BY <1>2 DEF job, handle
<1>4. CASE session' = session
  <2>1. CopyTypes' /\ MovesAlone(j) /\ pc'[j] = "failed"
    BY <1>1, <1>2, <1>3, <1>4, Moved
  <2>2. \A id \in DOMAIN session' : Carries(id, j)'
    BY <1>4, <2>1, CarriesOn
  <2> QED BY <1>3, <2>1, <2>2, Idle, Together
<1>5. CASE Puts(j) /\ PutFits(j) /\ Receive(url[j], Chunk(j), Total(j))
  <2>1. PICK n \in Nat, e \in Nat : IsChunk(j, n, e)
    BY <1>5, Chunks
  <2>i. PICK id : id = url[j]
    OBVIOUS
  <2>2. /\ session' \in Seq(Upload) /\ Len(session') = Len(session)
    BY <1>5, <2>1, <2>i, Received
  <2>3. /\ DOMAIN session' = DOMAIN session /\ session'[id].by = session[id].by
        /\ \A k \in DOMAIN session \ {id} : session'[k] = session[k]
    BY <1>5, <2>1, <2>i, Received
  <2>4. CopyTypes'
    BY <1>1, <1>2, <1>3, <2>2, ReceivedTypes DEF CopyTypes
  <2>5. pc'[j] = "failed" /\ \A i \in Job \ {j} : pc'[i] = pc[i]
    BY <1>1, <1>2 DEF CopyTypes
  <2>6. MovesAlone(j)
    <3>1. j \in session[id].by
      BY <1>5, <2>i, Chunks
    <3>2. \A k \in DOMAIN session' : \/ k \in DOMAIN session /\ session'[k] = session[k]
                                     \/ j \in session'[k].by /\ session[k].by \subseteq session'[k].by
      BY <2>3, <3>1
    <3> QED BY <1>2, <1>3, <2>3, <2>5, <3>2 DEF MovesAlone, LeavesOthers
  <2>7. \A k \in DOMAIN session' : Carries(k, j)'
    BY <1>5, <2>6, ReceivedCarries
  <2> QED BY <1>3, <2>4, <2>5, <2>6, <2>7, Idle, Together
<1>6. session' = session \/ (Puts(j) /\ PutFits(j) /\ Receive(url[j], Chunk(j), Total(j)))
  BY DEF AnswerLost
<1> QED BY <1>4, <1>5, <1>6

-----------------------------------------------------------------------------
(***************************************************************************)
(* The invariant.                                                          *)
(***************************************************************************)
LEMMA InitCopyInv == CopyInit => CopyInv
<1> SUFFICES ASSUME CopyInit  PROVE CopyInv
  OBVIOUS
<1>1. <<from, to>> \in Pairs
  <2>1. PICK pair \in Pairs : from = pair[1] /\ to = pair[2]
    BY DEF CopyInit
  <2>2. pair \in {"onedrive", "s3", "webdav"} \X {"onedrive", "s3", "webdav"}
    BY HttpAssumption
  <2> QED BY <2>1, <2>2
<1>2. \A j \in Job : source[j] \in Seq(Lengths) /\ Version(j) = 1 /\ size[j] \in {source[j][1], Unknown}
  BY DEF CopyInit, Version, Length
<1>3. source \in [Job -> Seq(Lengths)]
  <2>1. source \in [Job -> {<<len>> : len \in Lengths}]
    BY DEF CopyInit
  <2>2. {<<len>> : len \in Lengths} \subseteq Seq(Lengths)
    <3>1. \A len \in Lengths : <<len>> \in Seq(Lengths)
      OBVIOUS
    <3> QED BY <3>1
  <2> QED BY <2>1, <2>2
<1>4. CopyTypes
  <2>1. <<>> \in Seq(Upload) /\ Len(<<>>) = 0 /\ <<>> \in Seq(Byte)
    OBVIOUS
  <2> QED BY <1>1, <1>2, <1>3, <2>1 DEF CopyInit, CopyTypes
<1>5. ASSUME NEW j \in Job  PROVE RunInv(j)
  <2>1. pc[j] = "queued" /\ pending[j] = <<>> /\ session = <<>>
    BY DEF CopyInit
  <2>2. ~Uses(j)
    BY <2>1 DEF Uses
  <2>3. Stands(j) /\ Keeps(j) /\ InStep(j)
    BY <1>2, <2>1, <2>2 DEF Stands, Keeps, Holds, InStep
  <2>4. Bounded(j)
    BY <2>1, Sizes DEF Bounded
  <2>5. DOMAIN session = {}
    BY <2>1
  <2> QED BY <2>3, <2>4, <2>5 DEF RunInv
<1>6. \A id \in DOMAIN session : session[id].by # {}
  BY DEF CopyInit
<1> QED BY <1>4, <1>5, <1>6 DEF CopyInv

LEMMA StepCopyInv == CopyInv /\ [CopyNext]_copyVars => CopyInv'
<1> SUFFICES ASSUME CopyInv, [CopyNext]_copyVars  PROVE CopyInv'
  OBVIOUS
<1>1. ASSUME NEW j \in Job, Run(j) \/ Retry(j) \/ SourceChanges(j)  PROVE CopyInv'
  <2>1. Start(j) => CopyInv'
    BY StartSteps
  <2>2. Status(j) \/ StatusGone(j) \/ Create(j) => CopyInv'
    BY StatusSteps, StatusGoneSteps, CreateSteps
  <2>3. OpenRead(j) \/ Read(j) \/ ReadEnds(j) => CopyInv'
    BY OpenReadSteps, ReadSteps, ReadEndsSteps
  <2>4. Put(j) \/ CloseBuffered(j) \/ CloseCreates(j) => CopyInv'
    BY PutSteps, CloseBufferedSteps, CloseCreatesSteps
  <2>5. Fails(j) \/ AnswerLost(j) \/ Retry(j) \/ SourceChanges(j) => CopyInv'
    BY FailsSteps, AnswerLostSteps, SourceChangesSteps
  <2> QED BY <1>1, <2>1, <2>2, <2>3, <2>4, <2>5 DEF Run
<1>2. ASSUME NEW id \in DOMAIN session, Expire(id)  PROVE CopyInv'
  BY <1>2, ExpireSteps
<1>3. CASE UNCHANGED copyVars
  <2>1. /\ from' = from /\ to' = to /\ pc' = pc /\ source' = source /\ size' = size
        /\ attempted' = attempted /\ resume' = resume /\ reading' = reading /\ pending' = pending
        /\ sent' = sent /\ url' = url /\ uploadSessions' = uploadSessions /\ session' = session
    BY <1>3 DEF copyVars, job, handle, drive
  <2>2. ASSUME NEW j \in Job  PROVE RunInv(j)'
    <3>1. /\ Streams(j)' <=> Streams(j)
          /\ Version(j)' = Version(j)
          /\ Uses(j)' <=> Uses(j)
          /\ Base(j)' = Base(j)
          /\ Steady(j)' <=> Steady(j)
          /\ Nothing(j)' <=> Nothing(j)
          /\ Flush(j, pending[j])' = Flush(j, pending[j])
          /\ Expired(url[j])' <=> Expired(url[j])
      BY <2>1 DEF Streams, Version, Uses, Base, Steady, Nothing, Flush, Expired
    <3>2. Stands(j) /\ Keeps(j) /\ Bounded(j) /\ InStep(j) /\ \A id \in DOMAIN session : Carries(id, j)
      BY DEF CopyInv, RunInv
    <3>3. HasRead(j)' <=> HasRead(j)
      BY <2>1, <3>1 DEF HasRead, Bytes
    <3>4. Keeps(j)' /\ Bounded(j)'
      BY <2>1, <3>1, <3>2, <3>3 DEF Keeps, Bounded
    <3>5. Stands(j)'
      BY <2>1, <3>1, <3>2 DEF Stands
    <3>6. InStep(j)'
      BY <2>1, <3>1, <3>2 DEF InStep, Bytes
    <3>7. \A id \in DOMAIN session' : Carries(id, j)'
      BY <2>1, <3>1, <3>2 DEF Carries, Bytes
    <3> QED BY <3>4, <3>5, <3>6, <3>7 DEF RunInv
  <2>3. CopyTypes'
    BY <2>1, VersionsStay DEF CopyInv, CopyTypes
  <2> QED BY <2>1, <2>2, <2>3 DEF CopyInv
<1> QED BY <1>1, <1>2, <1>3 DEF CopyNext

LEMMA CopySpecInv == CopySpec => []CopyInv
BY InitCopyInv, StepCopyInv, PTL DEF CopySpec

\* What a run of TLC checks of the types, and that memory stays bounded while the
\* source is no longer than it was listed (OneDriveFS.ts:243-244).
THEOREM CopyTypeCorrect == CopySpec => []CopyTypeOK
<1>1. CopyInv => CopyTypeOK
  <2> SUFFICES ASSUME CopyInv  PROVE CopyTypeOK
    OBVIOUS
  <2>1. CopyTypes
    BY DEF CopyInv
  <2>2. \A j \in Job : Streams(j) /\ reading[j].size <= size[j] => Len(pending[j]) < FLUSH_AT + Buffer
    BY DEF CopyInv, RunInv, Bounded
  <2>3. {uploadSessions} \cup {url[j] : j \in Job} \subseteq 0..Len(session)
    <3>1. \A j \in Job : url[j] \in 0..Len(session)
      <4> SUFFICES ASSUME NEW j \in Job  PROVE url[j] \in 0..Len(session)
        OBVIOUS
      <4>1. url[j] \in Nat /\ url[j] <= Len(session) /\ Len(session) \in Nat
        BY <2>1, CopyFacts
      <4> QED BY <4>1
    <3>2. uploadSessions \in 0..Len(session)
      BY <2>1 DEF CopyTypes
    <3> QED BY <3>1, <3>2
  <2> QED BY <2>1, <2>2, <2>3 DEF CopyTypes, CopyTypeOK
<1> QED BY <1>1, CopySpecInv, PTL

-----------------------------------------------------------------------------
(***************************************************************************)
(* What was found to hold of a run that nothing disturbed.                 *)
(***************************************************************************)

\* Its session is its own, and either there and in step with it or expired.
LEMMA OwnSession ==
  ASSUME CopyInv, NEW j \in Job, Puts(j), Undisturbed(j), NEW id, id = url[j]
  PROVE  /\ session[id].by = {j} /\ Steady(j) /\ Len(session[id].got) = sent[j] /\ id # 0
         /\ session[id].live \/ Expired(id)
         /\ session[id].live => session[id].total \in {Unknown, Total(j)}
         /\ session[id].got = Bytes(j, reading[j].version, 0, sent[j])
<1>1. CopyTypes /\ Stands(j) /\ InStep(j) /\ \A k \in DOMAIN session : Carries(k, j)
  BY DEF CopyInv, RunInv
<1>2. Uses(j) /\ url[j] \in DOMAIN session /\ j \in session[url[j]].by
  BY Chunks
<1>3. id # 0 /\ id \in DOMAIN session
  BY <1>1, <1>2 DEF Stands
<1>4. session[id].by = {j} /\ Steady(j) /\ (Streams(j) => Version(j) = 1)
  BY <1>2, <1>3 DEF Undisturbed, Mixed, Steady
<1>5. /\ Len(session[id].got) = sent[j] /\ (session[id].live \/ Expired(id))
      /\ pc[j] = "closePut" =>
           /\ session[id].total \in {Unknown, Len(pending[j])}
           /\ session[id].got = Bytes(j, reading[j].version, 0, sent[j])
  BY <1>1, <1>2, <1>4 DEF InStep
<1>6. CASE pc[j] = "closePut"
  BY <1>3, <1>4, <1>5, <1>6 DEF Total
<1>7. CASE pc[j] # "closePut"
  <2>1. Streams(j) /\ Version(j) = 1 /\ Total(j) = size[j]
    BY <1>2, <1>4, <1>7 DEF Uses, Total
  <2>2. /\ session[id].got = Bytes(j, 1, 0, sent[j])
        /\ session[id].total \in {Unknown, size[j]}
    BY <1>1, <1>3, <1>4, <1>5, <2>1 DEF Carries
  <2>3. reading[j].version = 1
    BY <1>1, <2>1, FirstVersion
  <2> QED BY <1>3, <1>4, <1>5, <2>1, <2>2, <2>3
<1> QED BY <1>6, <1>7

\* A run whose file is streamed and complete has read exactly that.
LEMMA ClosesWhole ==
  ASSUME CopyInv, NEW j \in Job, pc[j] = "close", Streams(j), Version(j) = 1, sent[j] < size[j]
  PROVE  sent[j] + Len(pending[j]) = size[j] /\ size[j] = source[j][1]
<1>1. CopyTypes /\ Stands(j) /\ Keeps(j)
  BY DEF CopyInv, RunInv
<1>2. PICK s \in Nat, l \in Nat, at \in Nat, z \in Nat :
        s = sent[j] /\ l = Len(pending[j]) /\ at = reading[j].at /\ z = size[j]
  BY <1>1, CopyFacts
<1>3. z = source[j][1]
  BY <1>1, <1>2, Sizes DEF Stands
<1>4. HasRead(j)
  <2>1. ~(s >= z)
    BY <1>2
  <2> QED BY <1>1, <1>2, <2>1 DEF Keeps, Holds, Nothing
<1>5. at = s + l /\ at >= z /\ (at <= z \/ pending[j] = <<>>)
  BY <1>1, <1>2, <1>3, <1>4, FirstVersion DEF HasRead, Base
<1>6. pending[j] = <<>> => l = 0
  BY <1>2
<1>7. s + l = z
  BY <1>2, <1>5, <1>6
<1> QED BY <1>2, <1>3, <1>7

LEMMA InvRangesFit == CopyInv => RangesFit
<1> SUFFICES ASSUME CopyInv, NEW j \in Job, Puts(j), Undisturbed(j)
             PROVE  /\ Expired(url[j]) \/ PutFits(j)
                    /\ Chunk(j) = Bytes(j, reading[j].version, sent[j], sent[j] + Len(Chunk(j)))
  BY DEF RangesFit
<1>1. CopyTypes /\ Stands(j)
  BY DEF CopyInv, RunInv
<1>2. PICK n \in Nat, e \in Nat : IsChunk(j, n, e)
  BY Chunks
<1>i. PICK id : id = url[j]
  OBVIOUS
<1>3. /\ session[id].by = {j} /\ Steady(j) /\ Len(session[id].got) = sent[j] /\ id # 0
      /\ session[id].live \/ Expired(id)
      /\ session[id].live => session[id].total \in {Unknown, Total(j)}
  BY <1>i, OwnSession
<1>4. Chunk(j) = Bytes(j, reading[j].version, sent[j], sent[j] + Len(Chunk(j)))
  BY <1>2, <1>3 DEF IsChunk
<1>5. ASSUME session[id].live  PROVE PutFits(j)
  <2>s. PICK s \in Nat, l \in Nat, t \in Nat : s = sent[j] /\ l = Len(pending[j]) /\ t = Total(j)
    BY <1>1, <1>2, CopyFacts DEF IsChunk
  <2>1. n > 0 /\ (s + n = t \/ (s + n < t /\ n % ALIGN = 0))
    <3>1. CASE pc[j] = "put"
      <4>1. n # 0 /\ n % ALIGN = 0 /\ s + n < t
        BY <1>1, <1>2, <2>s, <3>1 DEF IsChunk, Stands
      <4> QED BY <4>1
    <3>2. CASE pc[j] = "close"
      <4>1. Streams(j) /\ Version(j) = 1 /\ Carries(id, j)
        <5>1. Streams(j) /\ id \in DOMAIN session
          BY <1>i, <3>2, Chunks DEF Puts
        <5> QED BY <5>1 DEF Undisturbed, CopyInv, RunInv
      <4>2. t = size[j] /\ n = l
        BY <1>2, <2>s, <3>2, <4>1 DEF IsChunk
      <4>3. s < t
        BY <1>3, <1>5, <2>s, <4>1, <4>2 DEF Carries
      <4>4. s + l = t
        BY <2>s, <3>2, <4>1, <4>2, <4>3, ClosesWhole
      <4> QED BY <4>2, <4>3, <4>4
    <3>3. CASE pc[j] = "closePut"
      <4>1. n # 0 /\ s + n <= t /\ (s + n < t => n = FLUSH_AT)
        BY <1>2, <2>s, <3>3 DEF IsChunk
      <4>2. FLUSH_AT % ALIGN = 0
        BY Sizes
      <4> QED BY <4>1, <4>2
    <3> QED BY <3>1, <3>2, <3>3 DEF Puts
  <2>2. n = Len(Chunk(j))
    BY <1>2 DEF IsChunk
  <2> QED BY <1>3, <1>5, <1>i, <2>s, <2>1, <2>2 DEF PutFits, Fits, Live
<1> QED BY <1>3, <1>4, <1>5, <1>i

\* "Graph requires upload chunks to be multiples of 320 KiB" (OneDriveFS.ts:26): the
\* ranges put to a session fit it and carry the source's own bytes, however long the
\* file, wherever a run resumes and whatever was lost.
THEOREM CopyRangesFit == CopySpec => []RangesFit
BY CopySpecInv, InvRangesFit, PTL

-----------------------------------------------------------------------------
(***************************************************************************)
(* What reaches the path.                                                  *)
(***************************************************************************)
AVersion(j, file) == \E v \in 1..Version(j) : file = Bytes(j, v, 0, source[j][v])

LEMMA ReceivedWhole ==
  ASSUME CopyInv, NEW j \in Job, Puts(j), PutFits(j), Receive(url[j], Chunk(j), Total(j)), Undisturbed(j),
         NEW n \in Nat, NEW e \in Nat, IsChunk(j, n, e), e = Total(j)
  PROVE  AVersion(j, dst')
<1>1. CopyTypes /\ Stands(j) /\ Keeps(j)
  BY DEF CopyInv, RunInv
<1>i. PICK id : id = url[j]
  OBVIOUS
<1>2. dst' = Longer(id, j)
  <2>1. /\ session'[id].got = Longer(id, j)
        /\ dst' = IF e = Total(j) THEN session'[id].got ELSE dst
    BY <1>i, Received
  <2> QED BY <2>1
<1>s. PICK s \in Nat, l \in Nat, at \in Nat, v \in Nat :
        s = sent[j] /\ l = Len(pending[j]) /\ at = reading[j].at /\ v = reading[j].version
  BY <1>1, CopyFacts
<1>3. Steady(j) /\ session[id].got = Bytes(j, v, 0, s)
  BY <1>i, <1>s, OwnSession
<1>4. Chunk(j) = Bytes(j, v, s, e) /\ e = s + n
  BY <1>3, <1>s DEF IsChunk
<1>5. dst' = Bytes(j, v, 0, e)
  <2>1. Bytes(j, v, 0, s) \o Bytes(j, v, s, e) = Bytes(j, v, 0, e)
    <3>1. s <= e
      BY <1>4
    <3> QED BY <3>1, Prefixes
  <2> QED BY <1>2, <1>3, <1>4, <2>1 DEF Longer
<1>6. e = source[j][v]
  <2>1. CASE pc[j] = "close"
    <3>1. Streams(j) /\ Version(j) = 1
      BY <2>1 DEF Puts, Undisturbed
    <3>2. v = 1 /\ size[j] = source[j][1] /\ e = size[j]
      BY <1>1, <1>s, <3>1, FirstVersion, CopyFacts, Sizes DEF Stands, IsChunk
    <3> QED BY <3>2
  <2>2. CASE pc[j] = "closePut"
    <3>1. e = l /\ n # 0 /\ ~Streams(j)
      BY <1>s, <2>2 DEF IsChunk
    <3>2. HasRead(j)
      BY <1>1, <2>2 DEF Keeps, Holds, Nothing
    <3>3. l # 0
      BY <1>4, <3>1
    <3>4. pending[j] # <<>>
      BY <1>s, <3>3
    <3>5. at = 0 + l /\ at <= source[j][v] /\ at >= source[j][v]
      BY <1>s, <2>2, <3>1, <3>2, <3>4 DEF HasRead, Base
    <3>6. source[j][v] \in Nat
      BY <1>1, <1>s, CopyFacts
    <3> QED BY <3>1, <3>5, <3>6
  <2>3. CASE pc[j] = "put"
    <3>1. e < size[j] /\ Total(j) = size[j] /\ size[j] \in Nat
      BY <1>1, <2>3, CopyFacts DEF IsChunk, Stands
    <3> QED BY <3>1
  <2> QED BY <2>1, <2>2, <2>3 DEF Puts
<1>7. v \in 1..Version(j)
  BY <1>1, <1>s DEF CopyTypes
<1> QED BY <1>5, <1>6, <1>7 DEF AVersion

LEMMA BufferedWhole ==
  ASSUME CopyInv, NEW j \in Job, pc[j] = "close", ~Streams(j), Steady(j)
  PROVE  AVersion(j, pending[j])
<1>1. CopyTypes /\ Stands(j) /\ Keeps(j)
  BY DEF CopyInv, RunInv
<1>s. PICK l \in Nat, at \in Nat, v \in Nat, z \in Nat :
        /\ l = Len(pending[j]) /\ at = reading[j].at /\ v = reading[j].version
        /\ z = source[j][v]
  BY <1>1, CopyFacts
<1>2. v \in 1..Version(j) /\ 1 \in 1..Version(j)
  <2>1. Version(j) \in Nat \ {0} /\ v \in 1..Version(j)
    BY <1>1, <1>s, CopyFacts DEF CopyTypes
  <2> QED BY <2>1
<1>3. CASE Nothing(j)
  <2>1. pending[j] = <<>> /\ size[j] # Unknown /\ sent[j] = 0 /\ sent[j] >= size[j]
    BY <1>1, <1>3 DEF Nothing, Stands
  <2>2. size[j] = source[j][1] /\ source[j][1] \in Nat
    BY <1>1, <2>1, CopyFacts DEF Stands
  <2>3. source[j][1] = 0
    BY <2>1, <2>2
  <2>4. Bytes(j, 1, 0, source[j][1]) = <<>>
    BY <2>3, NoBytes
  <2> QED BY <1>2, <2>1, <2>4 DEF AVersion
<1>4. CASE HasRead(j)
  <2>1. /\ at = 0 + l /\ pending[j] = Bytes(j, v, 0, at) /\ at >= z
        /\ at <= z \/ pending[j] = <<>>
    BY <1>4, <1>s DEF HasRead, Base
  <2>2. pending[j] = <<>> => l = 0
    BY <1>s
  <2>3. at = z
    BY <2>1, <2>2
  <2> QED BY <1>2, <1>s, <2>1, <2>3 DEF AVersion
<1> QED BY <1>1, <1>3, <1>4 DEF Keeps, Holds

Delivers(j) ==
  Undisturbed(j)' =>
    /\ pc[j] # "done" /\ pc'[j] = "done" => Whole(j, dst)'
    /\ dst' # dst /\ pc'[j] # pc[j] => Whole(j, dst)'

\* Only three of the steps can change the file or finish a job.
LEMMA OnlyThese ==
  ASSUME CopyInv, CopyNext, NEW j \in Job, pc'[j] # pc[j], dst' # dst \/ pc'[j] = "done"
  PROVE  Put(j) \/ CloseBuffered(j) \/ AnswerLost(j)
<1>1. pc \in [Job -> {"queued", "status", "create", "openRead", "read", "put", "close",
                      "closeCreate", "closePut", "done", "failed"}]
  BY DEF CopyInv, CopyTypes
<1>2. PICK i \in Job : Run(i) \/ Retry(i) \/ SourceChanges(i)
  BY DEF CopyNext, Expire
<1>3. \E p : pc' = [pc EXCEPT ![i] = p]
  <2>1. Start(i) => \E p : pc' = [pc EXCEPT ![i] = p]
    BY DEF Start, Open
  <2>2. Status(i) \/ StatusGone(i) \/ Create(i) \/ OpenRead(i) => \E p : pc' = [pc EXCEPT ![i] = p]
    BY DEF Status, StatusGone, Create, Open, OpenRead
  <2>3. Read(i) \/ ReadEnds(i) \/ Put(i) => \E p : pc' = [pc EXCEPT ![i] = p]
    BY DEF Read, ReadEnds, Put
  <2>4. CloseBuffered(i) \/ CloseCreates(i) \/ Fails(i) \/ AnswerLost(i) \/ Retry(i) =>
          \E p : pc' = [pc EXCEPT ![i] = p]
    BY DEF CloseBuffered, CloseCreates, Fails, AnswerLost, Retry
  <2>5. ~SourceChanges(i)
    BY DEF SourceChanges
  <2> QED BY <1>2, <2>1, <2>2, <2>3, <2>4, <2>5 DEF Run
<1>4. i = j
  BY <1>1, <1>3
<1>5. ~Start(j) /\ ~Status(j) /\ ~StatusGone(j) /\ ~Create(j)
  BY <1>1 DEF Start, Open, Status, StatusGone, Create, drive
<1>6. ~OpenRead(j) /\ ~Read(j) /\ ~ReadEnds(j) /\ ~CloseCreates(j)
  BY <1>1 DEF OpenRead, Read, ReadEnds, CloseCreates, drive
<1>7. ~Fails(j) /\ ~Retry(j) /\ ~SourceChanges(j)
  BY <1>1 DEF Fails, Retry, SourceChanges, drive
<1> QED BY <1>2, <1>4, <1>5, <1>6, <1>7 DEF Run

LEMMA StepDelivers ==
  ASSUME CopyInv, CopyNext, NEW j \in Job, Undisturbed(j)', pc'[j] # pc[j], dst' # dst \/ pc'[j] = "done"
  PROVE  Whole(j, dst)'
<1>1. Put(j) \/ CloseBuffered(j) \/ AnswerLost(j)
  BY OnlyThese
<1>2. CopyTypes /\ Stands(j)
  BY DEF CopyInv, RunInv
<1>3. /\ from' = from /\ to' = to /\ job' = job /\ reading' = reading /\ url' = url
  BY <1>1 DEF Put, CloseBuffered, AnswerLost, handle
<1>4. /\ source' = source /\ size' = size
      /\ Version(j)' = Version(j)
      /\ Streams(j)' <=> Streams(j)
  BY <1>3 DEF job, Version, Streams
<1>5. AVersion(j, dst') => Whole(j, dst)'
  BY <1>4 DEF AVersion, Whole, Bytes
<1>6. ASSUME session' = session  PROVE Undisturbed(j) /\ Steady(j)
  BY <1>3, <1>4, <1>6 DEF Undisturbed, Mixed, Steady
<1>7. CASE session' = session /\ pc[j] = "close" /\ ~Streams(j) /\ dst' = pending[j]
  BY <1>5, <1>6, <1>7, BufferedWhole
<1>8. CASE Puts(j) /\ PutFits(j) /\ Receive(url[j], Chunk(j), Total(j)) /\ ~CloseBuffered(j)
  <2>1. PICK n \in Nat, e \in Nat : IsChunk(j, n, e)
    BY <1>8, Chunks
  <2>i. PICK id : id = url[j]
    OBVIOUS
  <2>2. /\ session'[id].by = session[id].by
        /\ dst' = IF e = Total(j) THEN session'[id].got ELSE dst
        /\ e = Total(j) \/ e < Total(j)
    BY <1>8, <2>1, <2>i, Received
  <2>3. Undisturbed(j)
    BY <1>3, <1>4, <2>2, <2>i DEF Undisturbed, Mixed
  <2>4. e = Total(j)
    <3>1. CASE dst' # dst
      BY <2>2, <3>1
    <3>2. CASE dst' = dst
      <4>1. pc'[j] = "done" /\ Put(j)
        BY <1>1, <1>2, <1>8, <3>2 DEF AnswerLost, CopyTypes
      <4>2. CASE pc[j] = "close"
        <5>1. sent[j] + n = Total(j) \/ sent[j] + n < Total(j)
          BY <2>1, <2>2 DEF IsChunk
        <5>2. Streams(j) /\ Version(j) = 1 /\ id \in DOMAIN session
          BY <1>8, <2>3, <2>i, <4>2, Chunks DEF Puts, Undisturbed
        <5>3. session[id].live /\ session[id].by = {j} /\ Len(session[id].got) = sent[j]
          <6>1. session[id].live
            BY <1>8, <2>i DEF PutFits, Fits, Live
          <6> QED BY <1>8, <2>3, <2>i, <6>1, OwnSession
        <5>4. sent[j] < size[j]
          BY <5>2, <5>3 DEF CopyInv, RunInv, Carries
        <5>5. sent[j] + Len(pending[j]) = size[j] /\ Total(j) = size[j] /\ n = Len(pending[j])
          BY <2>1, <4>2, <5>2, <5>4, ClosesWhole DEF IsChunk
        <5> QED BY <2>1, <5>5 DEF IsChunk
      <4>3. CASE pc[j] = "closePut"
        <5>1. e <= Len(pending[j]) /\ Total(j) = Len(pending[j]) /\ Len(pending[j]) \in Nat
          BY <1>2, <2>1, <4>3, CopyFacts DEF IsChunk
        <5>2. sent'[j] = e
          BY <1>2, <2>1, <4>1, <4>3 DEF Put, IsChunk, CopyTypes
        <5>3. sent'[j] >= Len(pending[j])
          BY <1>2, <4>1, <4>3 DEF Put, CopyTypes
        <5> QED BY <5>1, <5>2, <5>3
      <4>4. CASE pc[j] = "put"
        BY <1>2, <4>1, <4>4 DEF Put, CopyTypes
      <4> QED BY <1>8, <4>2, <4>3, <4>4 DEF Puts
    <3> QED BY <3>1, <3>2
  <2> QED BY <1>5, <1>8, <2>1, <2>3, <2>4, ReceivedWhole
<1>9. CloseBuffered(j) => session' = session /\ pc[j] = "close" /\ ~Streams(j) /\ dst' = pending[j]
  BY <1>2 DEF CloseBuffered, CopyTypes
<1>10. AnswerLost(j) => \/ session' = session /\ pc[j] = "close" /\ ~Streams(j) /\ dst' = pending[j]
                        \/ Puts(j) /\ PutFits(j) /\ Receive(url[j], Chunk(j), Total(j))
  BY DEF AnswerLost
<1>11. Put(j) => Puts(j) /\ PutFits(j) /\ Receive(url[j], Chunk(j), Total(j))
  BY DEF Put
<1> QED BY <1>1, <1>7, <1>8, <1>9, <1>10, <1>11

\* The file at the path changes only to a whole version of a source, and a job that is
\* done has left its own ("rolled back" otherwise, engine.ts:46-48), unless a source has
\* changed, or two jobs shared a session, under the copy.
THEOREM CopiesStayWhole == CopySpec => CopiesAreWhole
<1>1. CopyInv /\ [CopyNext]_copyVars => [\A j \in Job : Delivers(j)]_copyVars
  <2> SUFFICES ASSUME CopyInv, CopyNext, NEW j \in Job, Undisturbed(j)',
                      pc'[j] # pc[j], dst' # dst \/ pc'[j] = "done"
               PROVE  Whole(j, dst)'
    BY DEF Delivers
  <2> QED BY StepDelivers
<1> QED BY <1>1, CopySpecInv, PTL DEF CopySpec, CopiesAreWhole, Delivers
=============================================================================
