-------------------------- MODULE OneDriveSession --------------------------
(***************************************************************************)
(* src/onedrive/session.ts (class OneDriveSession) with the recovery flag  *)
(* that src/onedrive/auth.ts keeps in localStorage.                        *)
(*                                                                         *)
(* acquire() and clearSession() are asynchronous: each is an action up to  *)
(* its await on the host, and an action for what follows when the host's   *)
(* answer arrives.  A call that returns before the await (blocked, or the  *)
(* live token) changes nothing and is not an action.  The c-th acquire     *)
(* that reaches the host is call c, and its token is named after it.       *)
(***************************************************************************)
EXTENDS Integers

CONSTANTS MaxCalls,    \* bound: acquires that reach the host
          MaxClears,   \* bound: clearSession() calls that reach the host
          MaxReloads,  \* bound: page loads after the first
          None         \* no token

ASSUME SessionAssumption ==
  /\ MaxCalls \in Nat /\ MaxClears \in Nat /\ MaxReloads \in Nat
  /\ None \notin 1..MaxCalls

Call == 1..MaxCalls

SessionState == {"sign_in_required", "signed_in", "clearing", "clear_failed"}

VARIABLES
  token, generation, acquireSeq, stateValue,
  clearing,     \* the promise is not null
  flag,         \* localStorage has CLEAR_KEY
  writable,     \* localStorage takes writes; if not they are ignored
  awaiting,     \* calls awaiting the host
  gen, seq,     \* what each call read before its await
  begun, clears, reloads,   \* counts, for the bounds
  superseded,   \* history: calls that a later clear or a later acquire overtook
  refused       \* history: the host refused a clear, and none has succeeded since

local  == <<token, generation, acquireSeq, stateValue, clearing>>
stored == <<flag, writable>>
calls  == <<awaiting, gen, seq>>
counts == <<begun, clears, reloads>>
vars   == <<local, stored, calls, counts, superseded, refused>>

-----------------------------------------------------------------------------
\* Slip: nothing looks at the clear in flight.
AllowedWhileClearing == stateValue # "clear_failed"

\* acquire() goes on to the host.
Allowed == ~clearing /\ stateValue # "clear_failed"

Acquire(interactive) ==
  /\ Allowed
  /\ interactive \/ token = None
  /\ begun < MaxCalls
  /\ begun' = begun + 1
  /\ acquireSeq' = acquireSeq + 1
  /\ awaiting' = awaiting \cup {begun'}
  /\ gen' = [gen EXCEPT ![begun'] = generation]
  /\ seq' = [seq EXCEPT ![begun'] = acquireSeq']
  /\ superseded' = superseded \cup awaiting
  /\ UNCHANGED <<token, generation, stateValue, clearing, stored, clears, reloads, refused>>

\* Slip: the generation is not compared.
CurrentBySequence(c) == seq[c] = acquireSeq

Current(c) == gen[c] = generation /\ seq[c] = acquireSeq

\* The host answers: ok, or a failure, which leaves everything as it was.
AcquireSettles(c, ok) ==
  /\ c \in awaiting
  /\ awaiting' = awaiting \ {c}
  /\ IF ok /\ Current(c)
     THEN token' = c /\ stateValue' = "signed_in"
     ELSE UNCHANGED <<token, stateValue>>
  /\ UNCHANGED <<generation, acquireSeq, clearing, stored, gen, seq, counts,
                 superseded, refused>>

ClearSession ==
  /\ ~clearing /\ clears < MaxClears
  /\ clearing' = TRUE /\ clears' = clears + 1
  /\ generation' = generation + 1
  /\ token' = None
  /\ stateValue' = "clearing"
  /\ superseded' = superseded \cup awaiting
  /\ UNCHANGED <<acquireSeq, stored, calls, begun, reloads, refused>>

\* RecoveryStore.setClearRequired
SetClearRequired(v) == flag' = IF writable THEN v ELSE flag

\* Slip: the generation is bumped when the clear is over, too.
ClearSettlesBumping(ok) ==
  /\ clearing
  /\ clearing' = FALSE
  /\ generation' = generation + 1
  /\ stateValue' = IF ok THEN "sign_in_required" ELSE "clear_failed"
  /\ SetClearRequired(~ok)
  /\ refused' = ~ok
  /\ UNCHANGED <<token, acquireSeq, writable, calls, counts, superseded>>

ClearSettles(ok) ==
  /\ clearing
  /\ clearing' = FALSE
  /\ stateValue' = IF ok THEN "sign_in_required" ELSE "clear_failed"
  /\ SetClearRequired(~ok)
  /\ refused' = ~ok
  /\ UNCHANGED <<token, generation, acquireSeq, writable, calls, counts, superseded>>

\* The page is loaded again: a new OneDriveSession.  What was in flight is lost.
Reload ==
  /\ reloads < MaxReloads
  /\ reloads' = reloads + 1
  /\ token' = None /\ generation' = 0 /\ acquireSeq' = 0 /\ clearing' = FALSE
  /\ stateValue' = IF flag THEN "clear_failed" ELSE "sign_in_required"
  /\ awaiting' = {}
  /\ UNCHANGED <<stored, gen, seq, begun, clears, superseded, refused>>

Init ==
  /\ token = None /\ generation = 0 /\ acquireSeq = 0 /\ clearing = FALSE
  /\ flag = FALSE /\ writable \in BOOLEAN /\ refused = FALSE
  /\ stateValue = IF flag THEN "clear_failed" ELSE "sign_in_required"
  /\ awaiting = {} /\ superseded = {}
  /\ gen = [c \in Call |-> 0] /\ seq = [c \in Call |-> 0]
  /\ begun = 0 /\ clears = 0 /\ reloads = 0

Next ==
  \/ \E interactive \in BOOLEAN : Acquire(interactive)
  \/ \E c \in Call, ok \in BOOLEAN : AcquireSettles(c, ok)
  \/ ClearSession
  \/ \E ok \in BOOLEAN : ClearSettles(ok)
  \/ Reload

Spec == Init /\ [][Next]_vars

-----------------------------------------------------------------------------
TypeOK ==
  /\ token \in Call \cup {None}
  /\ generation \in 0..clears /\ acquireSeq \in 0..begun
  /\ stateValue \in SessionState
  /\ clearing \in BOOLEAN /\ flag \in BOOLEAN /\ writable \in BOOLEAN
  /\ awaiting \subseteq Call /\ superseded \subseteq Call
  /\ gen \in [Call -> Nat] /\ seq \in [Call -> Nat]
  /\ begun \in 0..MaxCalls /\ clears \in 0..MaxClears /\ reloads \in 0..MaxReloads
  /\ refused \in BOOLEAN

\* The two records of the same fact agree: the state says signed_in exactly when
\* there is a token, and clearing exactly while a clear is in flight.
OneSourceOfTruth ==
  /\ stateValue = "signed_in" <=> token # None
  /\ stateValue = "clearing" <=> clearing

\* A late answer never restores what a clear or a newer sign-in has replaced
\* (session.ts:11-13).
NoStaleCommit ==
  [][token' # token /\ token' # None => token' \notin superseded]_vars

\* While a clear is in flight, and after one has failed, every acquire that the
\* host may still answer is one that the clear has invalidated: no OAuth is started.
NoSignInUnderClear ==
  clearing \/ stateValue = "clear_failed" => awaiting \subseteq superseded

\* Once the host has refused a clear, the session stays closed until a clear
\* succeeds, across reloads as long as localStorage can be written.
RefusedClearBlocks ==
  refused /\ (writable \/ reloads = 0) => stateValue \in {"clearing", "clear_failed"}

\* So nothing signs in under a clear, nor after one that was refused.
ClearIsFinal == NoSignInUnderClear /\ RefusedClearBlocks
=============================================================================
