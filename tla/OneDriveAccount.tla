-------------------------- MODULE OneDriveAccount --------------------------
(***************************************************************************)
(* Who calls OneDriveSession: the page when it is loaded, the account      *)
(* button (src/state/AppProvider.tsx, src/ui/AccountButton.tsx) and the    *)
(* requests of OneDriveFS (graphFetch in src/onedrive/graph.ts), and what  *)
(* the interface shows of the session.                                     *)
(***************************************************************************)
EXTENDS OneDriveSession

VARIABLES
  signedIn, connecting,
  mounted,     \* the effect that tries a silent sign-in has run
  caller,      \* of each call: the page, the button or a request
  refreshing,  \* calls that have succeeded, whose caller awaits refreshUser()
  used,        \* there has been a OneDriveFS on this page: jobs may keep it
  forcing,     \* a request has got no token silently
  late         \* history: signedIn was set for a call that a clear had overtaken

shown    == <<signedIn, connecting, mounted>>
callers  == <<caller, refreshing, used, forcing>>
allVars  == <<vars, shown, callers, late>>

Caller == {"page", "button", "request"}

-----------------------------------------------------------------------------
By(who) == caller' = [caller EXCEPT ![begun'] = who]

\* The effect on mount.  acquire() returns at once if it is blocked.
Mount ==
  /\ ~mounted /\ mounted' = TRUE
  /\ \/ Acquire(FALSE) /\ By("page")
     \/ ~Allowed /\ UNCHANGED <<vars, caller>>
  /\ UNCHANGED <<signedIn, connecting, refreshing, used, forcing, late>>

\* The button offers to connect; if acquire() is blocked nothing is said.
ConnectOneDrive ==
  /\ ~signedIn /\ ~connecting /\ connecting' = TRUE
  /\ Acquire(TRUE) /\ By("button")
  /\ UNCHANGED <<signedIn, mounted, refreshing, used, forcing, late>>

\* getToken(false), unless there is a token.
RequestSilently ==
  /\ used /\ Acquire(FALSE) /\ By("request")
  /\ UNCHANGED <<shown, refreshing, used, forcing, late>>

\* getToken(true), without a token or after the token has been refused with 401.
RequestForced ==
  /\ used /\ (forcing \/ token # None)
  /\ Acquire(TRUE) /\ By("request")
  /\ forcing' = FALSE
  /\ UNCHANGED <<shown, refreshing, used, late>>

\* acquire() returns to its caller.
Settles(c, ok) ==
  /\ AcquireSettles(c, ok)
  /\ LET signs == ok /\ Current(c)
     IN  /\ refreshing' = IF signs /\ caller[c] # "request" THEN refreshing \cup {c} ELSE refreshing
         /\ connecting' = (connecting /\ (signs \/ caller[c] # "button"))
         /\ forcing' = (forcing \/ (~signs /\ caller[c] = "request"))
  /\ UNCHANGED <<signedIn, mounted, caller, used, late>>

\* The user's name is there, or not: sdkGetUser() never throws.
Refreshed(c) ==
  /\ c \in refreshing /\ refreshing' = refreshing \ {c}
  /\ signedIn' = TRUE /\ used' = TRUE
  /\ connecting' = (connecting /\ caller[c] # "button")
  /\ late' = (late \/ gen[c] # generation)
  /\ UNCHANGED <<vars, mounted, caller, forcing>>

\* The button offers to sign out.
SignOut ==
  /\ signedIn /\ ClearSession
  /\ UNCHANGED <<shown, callers, late>>

\* Slip: the account is hidden only when the host has confirmed.
SignedOutIfCleared(ok) ==
  /\ ClearSettles(ok)
  /\ signedIn' = (signedIn /\ ~ok)
  /\ late' = FALSE
  /\ UNCHANGED <<connecting, mounted, callers>>

\* The account is hidden, whether the host has cleared it or not.
SignedOut(ok) ==
  /\ ClearSettles(ok)
  /\ signedIn' = FALSE /\ late' = FALSE
  /\ UNCHANGED <<connecting, mounted, callers>>

LoadPage ==
  /\ Reload
  /\ signedIn' = FALSE /\ connecting' = FALSE /\ mounted' = FALSE
  /\ refreshing' = {} /\ used' = FALSE /\ forcing' = FALSE /\ late' = FALSE
  /\ UNCHANGED caller

AccountInit ==
  /\ Init
  /\ signedIn = FALSE /\ connecting = FALSE /\ mounted = FALSE
  /\ caller = [c \in Call |-> "page"] /\ refreshing = {}
  /\ used = FALSE /\ forcing = FALSE /\ late = FALSE

AccountNext ==
  \/ Mount \/ ConnectOneDrive \/ RequestSilently \/ RequestForced
  \/ \E c \in Call, ok \in BOOLEAN : Settles(c, ok)
  \/ \E c \in Call : Refreshed(c)
  \/ SignOut \/ LoadPage
  \/ \E ok \in BOOLEAN : SignedOut(ok)

AccountSpec == AccountInit /\ [][AccountNext]_allVars

-----------------------------------------------------------------------------
\* An account that the interface shows as signed in is one that the session has a
\* token for, or is just being cleared, unless its user's name came only after the
\* sign-out (AppProvider.tsx:491-513).
AccountShown == signedIn /\ ~late => token # None \/ clearing
=============================================================================
