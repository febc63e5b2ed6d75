----------------------------- MODULE VaultStore ------------------------------
(***************************************************************************)
(* src/connections/vault.ts and store.ts, and what AppProvider.tsx does    *)
(* with them: saved connections in localStorage, their secrets encrypted   *)
(* under the vault's key, the passphrase dialog with what waits for it,    *)
(* and the lock after inactivity.                                          *)
(*                                                                         *)
(* A key is named by the submit of the dialog that made it, since every    *)
(* initialize() takes a new salt, and a secret by the key it is encrypted  *)
(* under.  Derivation, encryption and decryption are awaits; reading and   *)
(* writing localStorage is not.                                            *)
(***************************************************************************)
EXTENDS Integers, FiniteSets

CONSTANTS Conn,        \* ids of saved connections
          NoConn,
          MaxSubmits,  \* bound: submits of the passphrase dialog
          MaxSaves,    \* bound: connections saved
          MaxLoads     \* bound: page loads

ASSUME VaultAssumption ==
  NoConn \notin Conn /\ MaxSubmits \in Nat /\ MaxSaves \in Nat /\ MaxLoads \in Nat

Submit == 1..MaxSubmits
Save   == 1..MaxSaves
Key    == 0..MaxSubmits  \* 0: none

VARIABLES
  meta, file,             \* localStorage: the vault's parameters (its key), the connections
  vaultState, vaultKey,
  dialog, busy,           \* the passphrase dialog, and the submit that it waits for
  pendingSave, pendingConnect,
  submits, saves,         \* setMasterPassphrase() or unlockVault(), and save(), by number
  reading,                \* getSecret(): the connection, and whether its secret can be read
  minutes, timer,         \* vaultLockMinutes, and whether its timer is armed
  loads,
  twice                   \* history: a vault was initialized over another

vault == <<meta, vaultState, vaultKey, twice>>
ui    == <<dialog, busy, pendingSave, pendingConnect>>
vars  == <<vault, file, ui, submits, saves, reading, minutes, timer, loads>>

Absent == [saved |-> FALSE, alwaysPrompt |-> FALSE, secret |-> 0]
Entry  == [saved : {TRUE}, alwaysPrompt : BOOLEAN, secret : Key] \cup {Absent}
File   == [Conn -> Entry]
NoFile == [c \in Conn |-> Absent]

NoSubmit == [at |-> "none", right |-> FALSE, salt |-> 0]
NoSave == [at |-> "none", conn |-> NoConn, alwaysPrompt |-> FALSE, secret |-> FALSE,
           key |-> 0, read |-> NoFile, by |-> 0]

\* The dialog is modal: it covers everything else.
Uncovered == dialog = "none"
Next1(f, n) == f[n].at = "none" /\ \A m \in 1..(n - 1) : f[m].at # "none"
Asking == IF vaultState = "uninitialized" THEN "set" ELSE "unlock"

-----------------------------------------------------------------------------
(***************************************************************************)
(* The store.                                                              *)
(***************************************************************************)

\* localStorage may be full.
WritesFile(f) == file' \in {f, file}

Stored(save, secret) == [saved |-> TRUE, alwaysPrompt |-> save.alwaysPrompt, secret |-> secret]

\* store.save(): with a secret to encrypt, what was read is kept over the await; without
\* one it is written at once.  by: the submit that runs it, or 0.
StoreSave(s, save, key, by) ==
  IF save.secret
  THEN /\ saves' = [saves EXCEPT ![s] = [save EXCEPT !.at = "encrypting", !.key = key,
                                                     !.read = file, !.by = by]]
       /\ file' = file
  ELSE /\ saves' = [saves EXCEPT ![s] = [save EXCEPT !.at = "over"]]
       /\ LET kept == IF save.alwaysPrompt THEN 0 ELSE file[save.conn].secret
          IN  WritesFile([file EXCEPT ![save.conn] = Stored(save, kept)])

\* saveConnection(): without the key that it needs it asks for the passphrase.  A secret
\* is not saved with "always prompt" (ConnectDialog.tsx).
SaveConnection(s, c, alwaysPrompt, secret) ==
  /\ Uncovered /\ Next1(saves, s) /\ (secret => ~alwaysPrompt)
  /\ LET save == [NoSave EXCEPT !.conn = c, !.alwaysPrompt = alwaysPrompt, !.secret = secret]
     IN IF secret /\ vaultState # "unlocked"
        THEN /\ saves' = [saves EXCEPT ![s] = [save EXCEPT !.at = "waiting"]]
             /\ pendingSave' = s /\ dialog' = Asking /\ UNCHANGED file
        ELSE StoreSave(s, save, vaultKey, 0) /\ UNCHANGED <<pendingSave, dialog>>
  /\ UNCHANGED <<vault, busy, pendingConnect, submits, reading, minutes, timer, loads>>

Remove(c) ==
  /\ Uncovered /\ file[c].saved
  /\ WritesFile([file EXCEPT ![c] = Absent])
  /\ UNCHANGED <<vault, ui, submits, saves, reading, minutes, timer, loads>>

Duplicate(c, copy) ==
  /\ Uncovered /\ file[c].saved /\ ~file[copy].saved
  /\ WritesFile([file EXCEPT ![copy] = [file[c] EXCEPT !.secret = 0]])
  /\ UNCHANGED <<vault, ui, submits, saves, reading, minutes, timer, loads>>

-----------------------------------------------------------------------------
(***************************************************************************)
(* Connecting to a saved connection.                                       *)
(***************************************************************************)

\* connectSaved(), for what the file is then: it reads the secret, or asks for the
\* passphrase.  Without a secret it opens the connect dialog, which asks.
ConnectSavedIn(f, c) ==
  IF c = NoConn \/ f[c].secret = 0
  THEN pendingConnect' = NoConn /\ UNCHANGED <<dialog, reading>>
  ELSE IF vaultState = "unlocked"
  THEN /\ reading' = reading \cup {<<c, f[c].secret = vaultKey>>}
       /\ pendingConnect' = NoConn /\ UNCHANGED dialog
  ELSE pendingConnect' = c /\ dialog' = Asking /\ UNCHANGED reading

ConnectSaved(c) ==
  /\ Uncovered /\ file[c].saved
  /\ ConnectSavedIn(file, c)
  /\ UNCHANGED <<vault, file, busy, pendingSave, submits, saves, minutes, timer, loads>>

\* Every use of the vault restarts its timer.
TouchVault == timer' = (minutes # 0)

ReadEnds(c, readable) ==
  /\ <<c, readable>> \in reading /\ reading' = reading \ {<<c, readable>>}
  /\ IF readable THEN TouchVault ELSE UNCHANGED timer
  /\ UNCHANGED <<vault, file, ui, submits, saves, minutes, loads>>

\* The encryption is done: the file is written as it was read, with the new entry.  If a
\* submit has run it and it succeeds, the connection that waited as well is next.
SaveEnds(s) ==
  /\ saves[s].at = "encrypting"
  /\ saves' = [saves EXCEPT ![s] = [NoSave EXCEPT !.at = "over"]]
  /\ LET by == saves[s].by
         whole == [saves[s].read EXCEPT ![saves[s].conn] = Stored(saves[s], saves[s].key)]
     IN /\ submits' = IF by = 0 THEN submits ELSE [submits EXCEPT ![by].at = "over"]
        /\ \/ file' = whole /\ by # 0 /\ ConnectSavedIn(whole, pendingConnect)
           \/ file' = whole /\ by = 0 /\ UNCHANGED <<dialog, pendingConnect, reading>>
           \/ file' = file /\ UNCHANGED <<dialog, pendingConnect, reading>>
  /\ UNCHANGED <<vault, busy, pendingSave, minutes, timer, loads>>

-----------------------------------------------------------------------------
(***************************************************************************)
(* The passphrase dialog.                                                  *)
(***************************************************************************)

\* A new dialog is not busy, although what its predecessor began goes on.
ClosePassphraseDialog ==
  /\ dialog # "none" /\ dialog' = "none" /\ busy' = 0
  /\ pendingSave' = 0 /\ pendingConnect' = NoConn
  /\ saves' = IF pendingSave = 0 THEN saves
              ELSE [saves EXCEPT ![pendingSave] = [NoSave EXCEPT !.at = "over"]]
  /\ UNCHANGED <<vault, file, submits, reading, minutes, timer, loads>>

\* The user's passphrase may be wrong, if there is a vault.
SubmitPassphrase(n, right) ==
  /\ dialog # "none" /\ busy = 0 /\ Next1(submits, n)
  /\ \/ dialog = "set" /\ vaultState = "uninitialized" /\ right
     \/ dialog = "unlock" /\ vaultState # "uninitialized"
  /\ submits' = [submits EXCEPT ![n] =
       [at |-> IF dialog = "set" THEN "initialize" ELSE "unlock", right |-> right, salt |-> meta]]
  /\ busy' = n
  /\ UNCHANGED <<vault, file, dialog, pendingSave, pendingConnect, saves, reading, minutes, timer, loads>>

\* Slip: the dialog closes and forgets what it was opened for.
UnlockedOnly(n, key) ==
  /\ submits' = [submits EXCEPT ![n].at = "over"]
  /\ UNCHANGED <<pendingSave, pendingConnect, saves, file, reading>>

\* What had to wait: the save, and then the connection.
ThenPending(n, key) ==
  /\ pendingSave' = 0
  /\ IF pendingSave # 0
     THEN /\ StoreSave(pendingSave, saves[pendingSave], key, n)
          /\ submits' = [submits EXCEPT ![n].at = "saving"]
          /\ UNCHANGED <<pendingConnect, reading>>
     ELSE /\ submits' = [submits EXCEPT ![n].at = "over"]
          /\ pendingConnect' = NoConn
          /\ reading' = IF pendingConnect = NoConn \/ file[pendingConnect].secret = 0 THEN reading
                        ELSE reading \cup {<<pendingConnect, file[pendingConnect].secret = key>>}
          /\ UNCHANGED <<saves, file>>

\* What setMasterPassphrase() and unlockVault() do when they succeed.
Unlocks(n, key) ==
  /\ vaultState' = "unlocked" /\ vaultKey' = key
  /\ TouchVault
  /\ dialog' = "none" /\ busy' = 0
  /\ ThenPending(n, key)

InitializeEnds(n) ==
  /\ submits[n].at = "initialize"
  /\ meta' = n /\ twice' = (twice \/ meta # 0)
  /\ Unlocks(n, n)
  /\ UNCHANGED <<minutes, loads>>

\* Slip: any passphrase opens the vault.
OpensAny(n) == TRUE

\* The verifier can be decrypted.
Opens(n) == submits[n].right /\ submits[n].salt = meta

\* Slip: a wrong passphrase leaves the dialog busy.
BusyForEver(n) == busy

BusyAfter(n) == IF busy = n THEN 0 ELSE busy

UnlockEnds(n) ==
  /\ submits[n].at = "unlock"
  /\ \/ /\ Opens(n)
        /\ Unlocks(n, IF submits[n].right THEN submits[n].salt ELSE n)
     \/ /\ ~Opens(n)
        /\ submits' = [submits EXCEPT ![n].at = "over"]
        /\ busy' = BusyAfter(n)
        /\ UNCHANGED <<vaultState, vaultKey, dialog, pendingSave, pendingConnect, saves, file,
                       reading, timer>>
  /\ UNCHANGED <<meta, twice, minutes, loads>>

-----------------------------------------------------------------------------
(***************************************************************************)
(* The lock after inactivity, and page loads.                              *)
(***************************************************************************)

AutoLock ==
  /\ timer /\ timer' = FALSE
  /\ IF vaultState = "unlocked" THEN vaultState' = "locked" /\ vaultKey' = 0
     ELSE UNCHANGED <<vaultState, vaultKey>>
  /\ UNCHANGED <<meta, twice, file, ui, submits, saves, reading, minutes, loads>>

\* Slip: a new setting takes effect at the next use.
TimerAfterSettingLater(m) == timer /\ m # 0

TimerAfterSetting(m) == vaultState = "unlocked" /\ m # 0

SetVaultLockMinutes(m) ==
  /\ Uncovered /\ m # minutes /\ minutes' = m
  /\ timer' = TimerAfterSetting(m)
  /\ UNCHANGED <<vault, file, ui, submits, saves, reading, loads>>

Finish(f, none) == [n \in DOMAIN f |-> IF f[n].at = "none" THEN none ELSE [none EXCEPT !.at = "over"]]

Load ==
  /\ loads < MaxLoads /\ loads' = loads + 1
  /\ vaultState' = (IF meta = 0 THEN "uninitialized" ELSE "locked") /\ vaultKey' = 0
  /\ dialog' = "none" /\ busy' = 0 /\ pendingSave' = 0 /\ pendingConnect' = NoConn
  /\ submits' = Finish(submits, NoSubmit) /\ saves' = Finish(saves, NoSave)
  /\ reading' = {} /\ timer' = FALSE
  /\ UNCHANGED <<meta, twice, file, minutes>>

-----------------------------------------------------------------------------
Init ==
  /\ meta = 0 /\ file = NoFile /\ vaultState = "uninitialized" /\ vaultKey = 0
  /\ dialog = "none" /\ busy = 0 /\ pendingSave = 0 /\ pendingConnect = NoConn
  /\ submits = [n \in Submit |-> NoSubmit] /\ saves = [s \in Save |-> NoSave]
  /\ reading = {} /\ minutes \in {0, 1} /\ timer = FALSE /\ loads = 0 /\ twice = FALSE

User ==
  \/ \E s \in Save, c \in Conn, p, secret \in BOOLEAN : SaveConnection(s, c, p, secret)
  \/ \E c \in Conn : Remove(c) \/ ConnectSaved(c) \/ \E d \in Conn : Duplicate(c, d)
  \/ ClosePassphraseDialog
  \/ \E n \in Submit, right \in BOOLEAN : SubmitPassphrase(n, right)
  \/ \E m \in {0, 1} : SetVaultLockMinutes(m)

Next ==
  \/ User
  \/ \E s \in Save : SaveEnds(s)
  \/ \E n \in Submit : InitializeEnds(n) \/ UnlockEnds(n)
  \/ \E c \in Conn, readable \in BOOLEAN : ReadEnds(c, readable)
  \/ AutoLock \/ Load

Spec == Init /\ [][Next]_vars

-----------------------------------------------------------------------------
(***************************************************************************)
(* Properties.                                                             *)
(***************************************************************************)

TypeOK ==
  /\ {meta, vaultKey} \subseteq Key /\ file \in File
  /\ vaultState \in {"uninitialized", "locked", "unlocked"} /\ dialog \in {"none", "set", "unlock"}
  /\ busy # 0 => busy \in Submit /\ submits[busy].at \in {"initialize", "unlock"}
  /\ pendingSave \in 0..MaxSaves /\ pendingConnect \in Conn \cup {NoConn}
  /\ \A n \in Submit : /\ submits[n].at \in {"none", "initialize", "unlock", "saving", "over"}
                       /\ submits[n].right \in BOOLEAN /\ submits[n].salt \in Key
  /\ \A s \in Save : /\ saves[s].at \in {"none", "waiting", "encrypting", "over"}
                     /\ saves[s].at = "encrypting" => saves[s].key \in Key \ {0}
  /\ reading \subseteq Conn \X BOOLEAN
  /\ minutes \in {0, 1} /\ {timer, twice} \subseteq BOOLEAN /\ loads \in 0..MaxLoads

\* A saved secret can be read again: it is encrypted under the key of the vault that is
\* there, unless the dialog was closed and used again while initialize() was under way,
\* and the second vault took the place of the first (vault.ts:61-74).
SecretsReadable ==
  ~twice => \A c \in Conn : file[c].secret \in {0, meta}

\* What waits for the passphrase is being asked for, or is next after a save: a save or a
\* connection is neither forgotten, nor done at a later, unrelated unlock
\* (AppProvider.tsx:402-489).
NothingForgotten ==
  /\ \A s \in Save : saves[s].at = "waiting" => pendingSave = s /\ dialog # "none"
  /\ pendingConnect # NoConn => dialog # "none"

\* "If nothing touches the vault for vaultLockMinutes of inactivity, it locks itself"
\* (AppProvider.tsx:329-332): an unlocked vault has its timer armed, whatever was set
\* and done in the meantime.
UnlockedIsTimed == vaultState = "unlocked" /\ minutes # 0 => timer
=============================================================================
