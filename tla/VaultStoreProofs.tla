--------------------------- MODULE VaultStoreProofs ---------------------------
(***************************************************************************)
(* The vault, its timer and what waits for its passphrase, proved for any  *)
(* number of connections, saves, submits of the dialog and page loads.     *)
(***************************************************************************)
EXTENDS VaultStore, TLAPS

(***************************************************************************)
(* The types, in the form that the steps need: whole functions of records. *)
(***************************************************************************)
SubmitRecord ==
  [at : {"none", "initialize", "unlock", "saving", "over"}, right : BOOLEAN, salt : Key]
SaveRecord ==
  [at : {"none", "waiting", "encrypting", "over"}, conn : Conn \cup {NoConn},
   alwaysPrompt : BOOLEAN, secret : BOOLEAN, key : Key, read : File, by : 0..MaxSubmits]

Types ==
  /\ meta \in Key /\ vaultKey \in Key /\ file \in File
  /\ vaultState \in {"uninitialized", "locked", "unlocked"} /\ dialog \in {"none", "set", "unlock"}
  /\ busy \in 0..MaxSubmits /\ pendingSave \in 0..MaxSaves /\ pendingConnect \in Conn \cup {NoConn}
  /\ submits \in [Submit -> SubmitRecord] /\ saves \in [Save -> SaveRecord]
  /\ reading \subseteq Conn \X BOOLEAN
  /\ minutes \in {0, 1} /\ timer \in BOOLEAN /\ twice \in BOOLEAN /\ loads \in 0..MaxLoads

(***************************************************************************)
(* What the vault's state says of its key.  A second initialize() changes  *)
(* the parameters under whoever holds the key of the first.                *)
(***************************************************************************)
KeyIsOfVault ==
  /\ vaultState = "uninitialized" <=> meta = 0
  /\ vaultState = "unlocked" <=> vaultKey # 0
  /\ ~twice /\ vaultState = "unlocked" => vaultKey = meta

(***************************************************************************)
(* A submit under way was begun when there was a vault, or is of the       *)
(* dialog that makes one; one that a save belongs to has ended its own     *)
(* derivation, and is not what the dialog waits for.                       *)
(***************************************************************************)
SubmitsUnderWay ==
  /\ busy # 0 => submits[busy].at \in {"initialize", "unlock"}
  /\ \A n \in Submit : submits[n].at = "unlock" => submits[n].salt # 0

(***************************************************************************)
(* A save whose encryption is awaited holds a key, and what it has read is *)
(* under the vault's key as well: it will write all of that back.          *)
(***************************************************************************)
SavesUnderWay ==
  \A s \in Save :
    /\ saves[s].at \in {"waiting", "encrypting"} => saves[s].conn \in Conn
    /\ saves[s].at = "encrypting" =>
         /\ saves[s].key # 0
         /\ saves[s].by # 0 => submits[saves[s].by].at \in {"saving", "over"}
         /\ ~twice => /\ saves[s].key = meta
                      /\ \A c \in Conn : saves[s].read[c].secret \in {0, meta}

(***************************************************************************)
(* What the dialog was opened for is a save or a connection, not both, and *)
(* the save it was opened for is waiting.                                  *)
(***************************************************************************)
DialogHasReason ==
  pendingSave # 0 =>
    saves[pendingSave].at = "waiting" /\ dialog # "none" /\ pendingConnect = NoConn

IInv ==
  /\ Types /\ KeyIsOfVault /\ SubmitsUnderWay /\ SavesUnderWay /\ DialogHasReason
  /\ SecretsReadable /\ NothingForgotten /\ UnlockedIsTimed

-----------------------------------------------------------------------------
LEMMA InitIInv == Init => IInv
<1> SUFFICES ASSUME Init PROVE IInv
  OBVIOUS
<1> USE VaultAssumption DEF Init, Key, Submit, Save
<1>1. Absent \in Entry /\ NoFile \in File
  BY DEF Absent, Entry, File, NoFile
<1>2. NoSubmit \in SubmitRecord /\ NoSave \in SaveRecord
  BY <1>1 DEF NoSubmit, NoSave, SubmitRecord, SaveRecord
<1>3. Types
  <2>1. meta \in Key /\ vaultKey \in Key /\ busy \in 0..MaxSubmits /\ pendingSave \in 0..MaxSaves
    OBVIOUS
  <2>2. file \in File /\ submits \in [Submit -> SubmitRecord] /\ saves \in [Save -> SaveRecord]
    BY <1>1, <1>2
  <2>3. loads \in 0..MaxLoads
    OBVIOUS
  <2>4. reading \subseteq Conn \X BOOLEAN /\ timer \in BOOLEAN /\ twice \in BOOLEAN
    OBVIOUS
  <2>5. QED
    BY <2>1, <2>2, <2>3, <2>4 DEF Types
<1>4. KeyIsOfVault /\ DialogHasReason
  BY DEF KeyIsOfVault, DialogHasReason
<1>5. SubmitsUnderWay /\ SavesUnderWay
  BY DEF SubmitsUnderWay, SavesUnderWay, NoSubmit, NoSave
<1>6. SecretsReadable /\ NothingForgotten /\ UnlockedIsTimed
  BY DEF SecretsReadable, NothingForgotten, UnlockedIsTimed, NoFile, Absent, NoSave
<1>7. QED
  BY <1>3, <1>4, <1>5, <1>6 DEF IInv

(***************************************************************************)
(* The store.                                                              *)
(***************************************************************************)

\* An entry of the file has a secret, and names the key that it is under.
LEMMA EntrySecret ==
  ASSUME NEW e \in Entry
  PROVE  e.secret \in Key
<1>1. CASE e = Absent
  BY <1>1, VaultAssumption DEF Absent, Key
<1>2. CASE e \in [saved : {TRUE}, alwaysPrompt : BOOLEAN, secret : Key]
  BY <1>2
<1>3. QED
  BY <1>1, <1>2 DEF Entry

\* What store.save() writes, or awaits to write, is of the key it was given and of what
\* was there: if both are of the keys M, so is all that will be in the file.
LEMMA StoreSaveWrites ==
  ASSUME IInv, NEW s \in Save, NEW save \in SaveRecord, save.conn \in Conn,
         NEW key \in Key, NEW by \in 0..MaxSubmits, StoreSave(s, save, key, by),
         NEW M, 0 \in M, save.secret => key # 0 /\ key \in M,
         \A c \in Conn : file[c].secret \in M
  PROVE  /\ file' \in File
         /\ \A c \in Conn : file'[c].secret \in M
         /\ \E r \in SaveRecord :
              /\ saves' = [saves EXCEPT ![s] = r] /\ r.at \in {"encrypting", "over"}
              /\ r.conn \in Conn
              /\ r.at = "encrypting" =>
                   /\ r.key # 0 /\ r.key \in M /\ r.by = by
                   /\ \A c \in Conn : r.read[c].secret \in M
<1>1. file \in File /\ \A c \in Conn : file[c] \in Entry /\ file[c].secret \in Key
  BY EntrySecret DEF IInv, Types, File
<1>2. CASE save.secret
  <2> DEFINE r == [save EXCEPT !.at = "encrypting", !.key = key, !.read = file, !.by = by]
  <2>1. r \in SaveRecord /\ r.conn = save.conn /\ r.key = key /\ r.by = by /\ r.read = file
        /\ r.at = "encrypting"
    BY <1>1 DEF SaveRecord
  <2>2. saves' = [saves EXCEPT ![s] = r] /\ file' = file
    BY <1>2 DEF StoreSave
  <2>3. QED
    BY <1>1, <1>2, <2>1, <2>2
<1>3. CASE ~save.secret
  <2> DEFINE r == [save EXCEPT !.at = "over"]
             kept == IF save.alwaysPrompt THEN 0 ELSE file[save.conn].secret
             new == [file EXCEPT ![save.conn] = Stored(save, kept)]
  <2>1. r \in SaveRecord /\ r.at = "over" /\ r.conn = save.conn
    BY DEF SaveRecord
  <2>2. saves' = [saves EXCEPT ![s] = r] /\ file' \in {new, file}
    BY <1>3 DEF StoreSave, WritesFile
  <2>3. kept \in Key
    BY <1>1, VaultAssumption DEF Key
  <2>4. Stored(save, kept) \in Entry /\ Stored(save, kept).secret = kept
    BY <2>3 DEF Stored, Entry, SaveRecord
  <2>5. new \in File /\ \A c \in Conn : new[c] = IF c = save.conn THEN Stored(save, kept) ELSE file[c]
    BY <1>1, <2>4 DEF File
  <2>6. \A c \in Conn : new[c].secret \in M
    BY <2>4, <2>5
  <2>7. QED
    BY <1>1, <2>1, <2>2, <2>5, <2>6
<1>4. QED
  BY <1>2, <1>3

(***************************************************************************)
(* A step that leaves the vault's key, the submits and the saves alone,    *)
(* and writes to the file no secret that was not there.                    *)
(***************************************************************************)
LEMMA FileStep ==
  ASSUME IInv, file' \in File,
         \A c \in Conn : \E d \in Conn : file'[c].secret \in {0, file[d].secret},
         UNCHANGED <<vault, ui, submits, saves, reading, minutes, timer, loads>>
  PROVE  IInv'
<1>1. SecretsReadable'
  BY DEF IInv, SecretsReadable, vault
<1>2. QED
  BY <1>1 DEF IInv, Types, KeyIsOfVault, SubmitsUnderWay, SavesUnderWay, DialogHasReason,
              NothingForgotten, UnlockedIsTimed, vault, ui

LEMMA RemoveStep == ASSUME IInv, NEW c \in Conn, Remove(c) PROVE IInv'
<1> DEFINE new == [file EXCEPT ![c] = Absent]
<1>1. file \in File
  BY DEF IInv, Types
<1>2. new \in File /\ \A d \in Conn : new[d].secret \in {0, file[d].secret}
  BY <1>1 DEF File, Entry, Absent
<1>3. file' \in {new, file}
  BY DEF Remove, WritesFile
<1>4. QED
  BY <1>1, <1>2, <1>3, FileStep DEF Remove

LEMMA DuplicateStep ==
  ASSUME IInv, NEW c \in Conn, NEW copy \in Conn, Duplicate(c, copy) PROVE IInv'
<1> DEFINE new == [file EXCEPT ![copy] = [file[c] EXCEPT !.secret = 0]]
<1>1. file \in File /\ file[c].saved
  BY DEF IInv, Types, Duplicate
<1>2. file[c] \in [saved : {TRUE}, alwaysPrompt : BOOLEAN, secret : Key]
  <2>1. file[c] \in Entry
    BY <1>1 DEF File
  <2>2. Absent.saved = FALSE
    BY DEF Absent
  <2>3. QED
    BY <1>1, <2>1, <2>2 DEF Entry
<1>3. [file[c] EXCEPT !.secret = 0] \in Entry
  <2>1. 0 \in Key
    BY VaultAssumption DEF Key
  <2>2. [file[c] EXCEPT !.secret = 0] \in [saved : {TRUE}, alwaysPrompt : BOOLEAN, secret : Key]
    BY <1>2, <2>1
  <2>3. QED
    BY <2>2 DEF Entry
<1>4. new \in File /\ \A d \in Conn : new[d].secret \in {0, file[d].secret}
  BY <1>1, <1>2, <1>3 DEF File
<1>5. file' \in {new, file}
  BY DEF Duplicate, WritesFile
<1>6. QED
  BY <1>1, <1>4, <1>5, FileStep DEF Duplicate

(***************************************************************************)
(* A step that changes no more than the lock, its timer and what is read.  *)
(***************************************************************************)
LEMMA LockStep ==
  ASSUME IInv, UNCHANGED <<meta, twice, file, ui, submits, saves, loads>>,
         reading' \subseteq Conn \X BOOLEAN, minutes' \in {0, 1}, timer' \in BOOLEAN,
         \/ UNCHANGED <<vaultState, vaultKey>> /\ (vaultState = "unlocked" /\ minutes' # 0 => timer')
         \/ vaultState = "unlocked" /\ vaultState' = "locked" /\ vaultKey' = 0
  PROVE  IInv'
<1>1. Types' /\ UnlockedIsTimed'
  BY VaultAssumption DEF IInv, Types, UnlockedIsTimed, ui, Key
<1>2. KeyIsOfVault'
  BY DEF IInv, KeyIsOfVault
<1>3. QED
  BY <1>1, <1>2 DEF IInv, SubmitsUnderWay, SavesUnderWay, DialogHasReason, SecretsReadable,
                    NothingForgotten, ui

LEMMA ReadStep ==
  ASSUME IInv, NEW c \in Conn, NEW readable \in BOOLEAN, ReadEnds(c, readable) PROVE IInv'
<1>1. reading' \subseteq Conn \X BOOLEAN /\ minutes' \in {0, 1} /\ timer' \in BOOLEAN
  BY DEF ReadEnds, TouchVault, IInv, Types
<1>2. vaultState = "unlocked" /\ minutes' # 0 => timer'
  BY DEF ReadEnds, TouchVault, IInv, UnlockedIsTimed
<1>3. QED
  BY <1>1, <1>2, LockStep DEF ReadEnds, vault

LEMMA AutoLockStep == ASSUME IInv, AutoLock PROVE IInv'
<1>1. reading' \subseteq Conn \X BOOLEAN /\ minutes' \in {0, 1} /\ timer' \in BOOLEAN
  BY DEF AutoLock, IInv, Types
<1>2. QED
  BY <1>1, LockStep DEF AutoLock

LEMMA SettingStep ==
  ASSUME IInv, NEW m \in {0, 1}, SetVaultLockMinutes(m) PROVE IInv'
<1>1. reading' \subseteq Conn \X BOOLEAN /\ minutes' \in {0, 1} /\ timer' \in BOOLEAN
  BY DEF SetVaultLockMinutes, TimerAfterSetting, IInv, Types
<1>2. vaultState = "unlocked" /\ minutes' # 0 => timer'
  BY DEF SetVaultLockMinutes, TimerAfterSetting
<1>3. QED
  BY <1>1, <1>2, LockStep DEF SetVaultLockMinutes, vault

LEMMA LoadStep == ASSUME IInv, Load PROVE IInv'
<1>1. NoSubmit \in SubmitRecord /\ NoSave \in SaveRecord
  BY VaultAssumption DEF NoSubmit, NoSave, SubmitRecord, SaveRecord, Key, Entry, File, Absent, NoFile
<1>2. /\ submits' \in [Submit -> SubmitRecord] /\ saves' \in [Save -> SaveRecord]
      /\ \A n \in Submit : submits'[n].at \in {"none", "over"}
      /\ \A s \in Save : saves'[s].at \in {"none", "over"}
  BY <1>1 DEF Load, Finish, IInv, Types, NoSubmit, NoSave, SubmitRecord, SaveRecord
<1>3. Types'
  <2>1. loads' \in 0..MaxLoads /\ vaultKey' \in Key /\ vaultState' \in {"uninitialized", "locked", "unlocked"}
    BY VaultAssumption DEF Load, IInv, Types, Key
  <2>2. /\ dialog' = "none" /\ busy' \in 0..MaxSubmits /\ pendingSave' \in 0..MaxSaves
        /\ pendingConnect' = NoConn /\ reading' = {} /\ timer' = FALSE
        /\ UNCHANGED <<meta, twice, file, minutes>>
    BY VaultAssumption DEF Load
  <2>3. QED
    BY <1>2, <2>1, <2>2 DEF IInv, Types
<1>4. KeyIsOfVault' /\ SecretsReadable' /\ DialogHasReason' /\ NothingForgotten' /\ UnlockedIsTimed'
  BY <1>2, VaultAssumption DEF Load, IInv, KeyIsOfVault, SecretsReadable, DialogHasReason,
     NothingForgotten, UnlockedIsTimed, Types, Key
<1>5. SubmitsUnderWay' /\ SavesUnderWay'
  BY <1>2 DEF Load, SubmitsUnderWay, SavesUnderWay
<1>6. QED
  BY <1>3, <1>4, <1>5 DEF IInv

(***************************************************************************)
(* What connectSaved() leaves to be done keeps the dialog open.            *)
(***************************************************************************)
LEMMA ConnectSavedAsks ==
  ASSUME IInv, NEW f \in File, NEW c \in Conn \cup {NoConn}, ConnectSavedIn(f, c)
  PROVE  /\ reading' \subseteq Conn \X BOOLEAN
         /\ dialog' \in {"none", "set", "unlock"} /\ (dialog # "none" => dialog' # "none")
         /\ pendingConnect' = NoConn \/ (pendingConnect' = c /\ c \in Conn /\ dialog' # "none")
<1>1. CASE c = NoConn \/ f[c].secret = 0
  BY <1>1 DEF ConnectSavedIn, IInv, Types
<1>2. CASE c # NoConn /\ vaultState # "unlocked" /\ f[c].secret # 0
  BY <1>2 DEF ConnectSavedIn, Asking, IInv, Types
<1>3. CASE c # NoConn /\ vaultState = "unlocked" /\ f[c].secret # 0
  <2>1. /\ reading' = reading \cup {<<c, f[c].secret = vaultKey>>} /\ pendingConnect' = NoConn
        /\ dialog' = dialog
    BY <1>3 DEF ConnectSavedIn
  <2>2. <<c, f[c].secret = vaultKey>> \in Conn \X BOOLEAN
    BY <1>3
  <2>3. QED
    BY <2>1, <2>2 DEF IInv, Types
<1>4. QED
  BY <1>1, <1>2, <1>3

LEMMA ConnectStep == ASSUME IInv, NEW c \in Conn, ConnectSaved(c) PROVE IInv'
<1>1. file \in File /\ dialog = "none" /\ ConnectSavedIn(file, c)
  BY DEF ConnectSaved, Uncovered, IInv, Types
<1>2. /\ reading' \subseteq Conn \X BOOLEAN /\ dialog' \in {"none", "set", "unlock"}
      /\ pendingConnect' = NoConn \/ (pendingConnect' = c /\ dialog' # "none")
  BY <1>1, ConnectSavedAsks
<1>3. pendingSave = 0 /\ \A s \in Save : saves[s].at # "waiting"
  BY <1>1 DEF IInv, DialogHasReason, NothingForgotten
<1>4. Types'
  BY <1>2 DEF ConnectSaved, vault, IInv, Types
<1>5. DialogHasReason' /\ NothingForgotten'
  BY <1>2, <1>3 DEF ConnectSaved, DialogHasReason, NothingForgotten
<1>6. QED
  BY <1>4, <1>5 DEF ConnectSaved, vault, IInv, KeyIsOfVault, SubmitsUnderWay, SavesUnderWay,
                    SecretsReadable, UnlockedIsTimed

LEMMA SaveStep ==
  ASSUME IInv, NEW s \in Save, NEW c \in Conn, NEW p \in BOOLEAN, NEW secret \in BOOLEAN,
         SaveConnection(s, c, p, secret)
  PROVE  IInv'
<1> DEFINE save == [NoSave EXCEPT !.conn = c, !.alwaysPrompt = p, !.secret = secret]
<1>1. save \in SaveRecord /\ save.conn = c /\ save.secret = secret
  <2>1. NoSave \in SaveRecord
    BY VaultAssumption DEF NoSave, SaveRecord, Key, Entry, File, Absent, NoFile
  <2>2. QED
    BY <2>1 DEF SaveRecord
<1>2. /\ dialog = "none" /\ saves[s].at = "none"
      /\ UNCHANGED <<meta, vaultState, vaultKey, twice, busy, pendingConnect, submits, reading,
                     minutes, timer, loads>>
  BY DEF SaveConnection, Uncovered, Next1, vault
<1>3. pendingSave = 0 /\ pendingConnect = NoConn /\ \A t \in Save : saves[t].at # "waiting"
  BY <1>2 DEF IInv, DialogHasReason, NothingForgotten
<1>4. saves \in [Save -> SaveRecord] /\ file \in File
  BY DEF IInv, Types
<1> HIDE DEF save
<1>5. CASE secret /\ vaultState # "unlocked"
  <2> DEFINE r == [save EXCEPT !.at = "waiting"]
  <2>1. /\ saves' = [saves EXCEPT ![s] = r]
        /\ pendingSave' = s /\ dialog' \in {"set", "unlock"} /\ file' = file
    BY <1>5 DEF SaveConnection, Asking, save
  <2>2. r \in SaveRecord /\ r.at = "waiting" /\ r.conn = c
    BY <1>1 DEF SaveRecord
  <2>3. /\ saves' \in [Save -> SaveRecord] /\ saves'[s] = r
        /\ \A t \in Save : t # s => saves'[t] = saves[t]
    BY <1>4, <2>1, <2>2
  <2>4. Types'
    BY <1>2, <2>1, <2>3, VaultAssumption DEF IInv, Types, Save
  <2>5. DialogHasReason' /\ NothingForgotten'
    BY <1>2, <1>3, <2>1, <2>2, <2>3 DEF DialogHasReason, NothingForgotten
  <2>6. SavesUnderWay'
    BY <1>2, <2>2, <2>3 DEF IInv, SavesUnderWay
  <2>7. QED
    BY <1>2, <2>1, <2>4, <2>5, <2>6
    DEF IInv, KeyIsOfVault, SubmitsUnderWay, SecretsReadable, UnlockedIsTimed
<1>6. CASE ~(secret /\ vaultState # "unlocked")
  <2>1. StoreSave(s, save, vaultKey, 0) /\ UNCHANGED <<pendingSave, dialog>>
    BY <1>6 DEF SaveConnection, save
  <2> DEFINE M == IF twice THEN Key ELSE {0, meta}
  <2>2. save.secret => vaultKey # 0 /\ vaultKey \in M
    BY <1>1, <1>6 DEF IInv, KeyIsOfVault, Types
  <2>3. vaultKey \in Key /\ 0 \in 0..MaxSubmits /\ 0 \in M /\ \A d \in Conn : file[d].secret \in M
    BY <1>4, EntrySecret, VaultAssumption DEF IInv, Types, SecretsReadable, Key, File
  <2> HIDE DEF M
  <2>4. file' \in File /\ \A d \in Conn : file'[d].secret \in M
    BY <1>1, <2>1, <2>2, <2>3, StoreSaveWrites
  <2>5. PICK r \in SaveRecord :
          /\ saves' = [saves EXCEPT ![s] = r] /\ r.at \in {"encrypting", "over"} /\ r.conn \in Conn
          /\ r.at = "encrypting" =>
               /\ r.key # 0 /\ r.key \in M /\ r.by = 0
               /\ \A d \in Conn : r.read[d].secret \in M
    BY <1>1, <2>1, <2>2, <2>3, StoreSaveWrites
  <2>6. /\ saves' \in [Save -> SaveRecord] /\ saves'[s] = r
        /\ \A t \in Save : t # s => saves'[t] = saves[t]
    BY <1>4, <2>5
  <2>7. Types'
    BY <1>2, <2>1, <2>4, <2>6 DEF IInv, Types
  <2>8. DialogHasReason' /\ NothingForgotten'
    BY <1>2, <1>3, <2>1, <2>5, <2>6 DEF DialogHasReason, NothingForgotten
  <2>9. SavesUnderWay'
    BY <1>2, <2>5, <2>6 DEF IInv, SavesUnderWay, M
  <2>10. SecretsReadable'
    BY <1>2, <2>4 DEF SecretsReadable, M
  <2>11. QED
    BY <1>2, <2>1, <2>10, <2>7, <2>8, <2>9
    DEF IInv, KeyIsOfVault, SubmitsUnderWay, UnlockedIsTimed
<1>7. QED
  BY <1>5, <1>6

LEMMA SaveEndsStep == ASSUME IInv, NEW s \in Save, SaveEnds(s) PROVE IInv'
<1> DEFINE over == [NoSave EXCEPT !.at = "over"]
           by == saves[s].by
           whole == [saves[s].read EXCEPT ![saves[s].conn] = Stored(saves[s], saves[s].key)]
<1>1. /\ saves \in [Save -> SaveRecord] /\ saves[s].at = "encrypting" /\ file \in File
      /\ submits \in [Submit -> SubmitRecord]
  BY DEF SaveEnds, IInv, Types
<1>2. over \in SaveRecord /\ over.at = "over"
  <2>1. NoSave \in SaveRecord
    BY VaultAssumption DEF NoSave, SaveRecord, Key, Entry, File, Absent, NoFile
  <2>2. QED
    BY <2>1 DEF SaveRecord
<1>3. /\ saves' \in [Save -> SaveRecord] /\ saves'[s] = over
      /\ \A t \in Save : t # s => saves'[t] = saves[t]
  BY <1>1, <1>2 DEF SaveEnds
<1>4. UNCHANGED <<vault, busy, pendingSave, minutes, timer, loads>>
  BY DEF SaveEnds
<1>5. /\ submits' \in [Submit -> SubmitRecord]
      /\ \A n \in Submit : \/ submits'[n] = submits[n]
                           \/ /\ submits'[n].at = "over" /\ submits[n].at \in {"saving", "over"}
  <2>1. CASE by = 0
    BY <1>1, <2>1 DEF SaveEnds
  <2>2. CASE by # 0
    <3>1. by \in Submit /\ submits[by].at \in {"saving", "over"}
      BY <1>1, <2>2, VaultAssumption DEF IInv, SavesUnderWay, SaveRecord, Submit
    <3>2. submits' = [submits EXCEPT ![by].at = "over"]
      BY <2>2 DEF SaveEnds
    <3>3. [submits[by] EXCEPT !.at = "over"] \in SubmitRecord
      BY <1>1, <3>1 DEF SubmitRecord
    <3>4. QED
      BY <1>1, <3>1, <3>2, <3>3 DEF SubmitRecord
  <2>3. QED
    BY <2>1, <2>2
<1>6. whole \in File /\ (~twice => \A c \in Conn : whole[c].secret \in {0, meta})
  <2>1. /\ saves[s].read \in File /\ saves[s].conn \in Conn /\ saves[s].key \in Key
        /\ saves[s].alwaysPrompt \in BOOLEAN
    BY <1>1 DEF IInv, SavesUnderWay, SaveRecord
  <2>2. Stored(saves[s], saves[s].key) \in Entry /\ Stored(saves[s], saves[s].key).secret = saves[s].key
    BY <2>1 DEF Stored, Entry
  <2>3. whole \in File /\ \A c \in Conn : whole[c] = IF c = saves[s].conn
                                                     THEN Stored(saves[s], saves[s].key) ELSE saves[s].read[c]
    BY <2>1, <2>2 DEF File
  <2>4. QED
    BY <1>1, <2>2, <2>3 DEF IInv, SavesUnderWay
<1>7. file' \in {whole, file}
  BY DEF SaveEnds
<1>8. /\ reading' \subseteq Conn \X BOOLEAN
      /\ dialog' \in {"none", "set", "unlock"} /\ (dialog # "none" => dialog' # "none")
      /\ pendingConnect' = NoConn \/ (pendingConnect' = pendingConnect /\ pendingConnect \in Conn /\ dialog' # "none")
  <2>1. CASE UNCHANGED <<dialog, pendingConnect, reading>>
    BY <2>1 DEF IInv, Types, NothingForgotten
  <2>2. CASE ConnectSavedIn(whole, pendingConnect)
    <3>1. pendingConnect \in Conn \cup {NoConn}
      BY DEF IInv, Types
    <3>2. QED
      BY <1>6, <2>2, <3>1, ConnectSavedAsks
  <2>3. QED
    BY <2>1, <2>2 DEF SaveEnds
<1>9. Types'
  BY <1>3, <1>4, <1>5, <1>6, <1>7, <1>8 DEF IInv, Types, vault
<1>10. SecretsReadable'
  BY <1>4, <1>6, <1>7 DEF IInv, SecretsReadable, vault
<1>11. SubmitsUnderWay'
  BY <1>4, <1>5, VaultAssumption DEF IInv, Types, SubmitsUnderWay, Submit
<1>12. SavesUnderWay'
  <2>1. \A t \in Save : saves[t].by # 0 => saves[t].by \in Submit
    BY <1>1, VaultAssumption DEF SaveRecord, Submit
  <2> SUFFICES ASSUME NEW t \in Save, t # s
               PROVE  /\ saves'[t].at \in {"waiting", "encrypting"} => saves'[t].conn \in Conn
                      /\ saves'[t].at = "encrypting" =>
                           /\ saves'[t].key # 0
                           /\ saves'[t].by # 0 => submits'[saves'[t].by].at \in {"saving", "over"}
                           /\ ~twice' => /\ saves'[t].key = meta'
                                         /\ \A c \in Conn : saves'[t].read[c].secret \in {0, meta'}
    BY <1>2, <1>3 DEF SavesUnderWay
  <2>2. saves'[t] = saves[t] /\ meta' = meta /\ twice' = twice
    BY <1>3, <1>4 DEF vault
  <2>3. QED
    BY <1>5, <2>1, <2>2 DEF IInv, SavesUnderWay
<1>13. DialogHasReason' /\ NothingForgotten'
  <2>1. pendingSave # 0 => pendingSave \in Save
    BY VaultAssumption DEF IInv, Types, Save
  <2>2. QED
    BY <1>1, <1>2, <1>3, <1>4, <1>8, <2>1 DEF IInv, DialogHasReason, NothingForgotten
<1>14. QED
  BY <1>4, <1>9, <1>10, <1>11, <1>12, <1>13 DEF IInv, KeyIsOfVault, UnlockedIsTimed, vault

(***************************************************************************)
(* The passphrase dialog.                                                  *)
(***************************************************************************)
LEMMA CloseStep == ASSUME IInv, ClosePassphraseDialog PROVE IInv'
<1> DEFINE over == [NoSave EXCEPT !.at = "over"]
<1>1. saves \in [Save -> SaveRecord] /\ (pendingSave # 0 => pendingSave \in Save)
  BY VaultAssumption DEF IInv, Types, Save
<1>2. over \in SaveRecord /\ over.at = "over"
  <2>1. NoSave \in SaveRecord
    BY VaultAssumption DEF NoSave, SaveRecord, Key, Entry, File, Absent, NoFile
  <2>2. QED
    BY <2>1 DEF SaveRecord
<1>3. /\ saves' \in [Save -> SaveRecord]
      /\ \A s \in Save : \/ saves'[s] = over
                         \/ saves'[s] = saves[s] /\ saves[s].at # "waiting"
  <2>1. CASE pendingSave = 0
    BY <1>1, <2>1 DEF ClosePassphraseDialog, IInv, NothingForgotten, Save
  <2>2. CASE pendingSave # 0
    <3>1. saves' = [saves EXCEPT ![pendingSave] = over] /\ pendingSave \in Save
      BY <1>1, <2>2 DEF ClosePassphraseDialog
    <3>2. QED
      BY <1>1, <1>2, <3>1 DEF IInv, NothingForgotten
  <2>3. QED
    BY <2>1, <2>2
<1>4. Types'
  BY <1>3, VaultAssumption DEF ClosePassphraseDialog, vault, IInv, Types
<1>5. DialogHasReason' /\ NothingForgotten' /\ SubmitsUnderWay'
  BY <1>2, <1>3 DEF ClosePassphraseDialog, IInv, DialogHasReason, NothingForgotten, SubmitsUnderWay
<1>6. SavesUnderWay'
  BY <1>2, <1>3 DEF ClosePassphraseDialog, vault, IInv, SavesUnderWay
<1>7. QED
  BY <1>4, <1>5, <1>6 DEF ClosePassphraseDialog, vault, IInv, KeyIsOfVault, SecretsReadable, UnlockedIsTimed

LEMMA SubmitStep ==
  ASSUME IInv, NEW n \in Submit, NEW right \in BOOLEAN, SubmitPassphrase(n, right) PROVE IInv'
<1> DEFINE r == [at |-> IF dialog = "set" THEN "initialize" ELSE "unlock", right |-> right, salt |-> meta]
<1>1. submits \in [Submit -> SubmitRecord] /\ submits[n].at = "none" /\ meta \in Key
  BY DEF SubmitPassphrase, Next1, IInv, Types
<1>2. r \in SubmitRecord /\ r.at \in {"initialize", "unlock"} /\ (r.at = "unlock" => r.salt # 0)
  BY <1>1 DEF SubmitRecord, SubmitPassphrase, IInv, KeyIsOfVault
<1>3. /\ submits' \in [Submit -> SubmitRecord] /\ submits'[n] = r
      /\ \A m \in Submit : m # n => submits'[m] = submits[m]
  BY <1>1, <1>2 DEF SubmitPassphrase
<1>4. UNCHANGED <<vault, file, dialog, pendingSave, pendingConnect, saves, reading, minutes, timer, loads>>
      /\ busy' = n
  BY DEF SubmitPassphrase
<1>5. Types'
  BY <1>3, <1>4, VaultAssumption DEF vault, IInv, Types, Submit
<1>6. SubmitsUnderWay'
  BY <1>2, <1>3, <1>4 DEF IInv, SubmitsUnderWay
<1>7. SavesUnderWay'
  <2>1. \A s \in Save : saves[s].by # 0 => saves[s].by \in Submit
    BY VaultAssumption DEF IInv, Types, SaveRecord, Submit
  <2>2. \A s \in Save : saves[s].at = "encrypting" /\ saves[s].by # 0 => saves[s].by # n
    BY <1>1 DEF IInv, SavesUnderWay
  <2>3. QED
    BY <1>3, <1>4, <2>1, <2>2 DEF vault, IInv, SavesUnderWay
<1>8. QED
  BY <1>4, <1>5, <1>6, <1>7 DEF vault, IInv, KeyIsOfVault, DialogHasReason, SecretsReadable,
                                NothingForgotten, UnlockedIsTimed

(***************************************************************************)
(* A submit that succeeds, over parameters that were there or are new: it  *)
(* holds their key, and so does the save that it goes on with.             *)
(***************************************************************************)
LEMMA UnlocksStep ==
  ASSUME IInv, NEW n \in Submit, submits[n].at \in {"initialize", "unlock"},
         NEW key \in Key, key # 0, Unlocks(n, key), meta' \in Key, meta' # 0, twice' \in BOOLEAN,
         ~twice' => ~twice /\ key = meta' /\ meta \in {0, meta'},
         UNCHANGED <<minutes, loads>>
  PROVE  IInv'
<1>1. /\ submits \in [Submit -> SubmitRecord] /\ saves \in [Save -> SaveRecord] /\ file \in File
      /\ pendingSave # 0 => pendingSave \in Save
  BY VaultAssumption DEF IInv, Types, Save
<1>2. /\ vaultState' = "unlocked" /\ vaultKey' = key /\ dialog' = "none" /\ busy' = 0
      /\ pendingSave' = 0 /\ ThenPending(n, key) /\ timer' = (minutes # 0)
  BY DEF Unlocks, ThenPending, TouchVault
<1>3. ~twice' => \A c \in Conn : file[c].secret \in {0, meta'}
  BY DEF IInv, SecretsReadable
<1>4. /\ submits' \in [Submit -> SubmitRecord] /\ submits'[n].at \in {"saving", "over"}
      /\ \A m \in Submit : m # n => submits'[m] = submits[m]
  <2>1. submits' \in {[submits EXCEPT ![n].at = "saving"], [submits EXCEPT ![n].at = "over"]}
    BY <1>2 DEF ThenPending
  <2>2. [submits[n] EXCEPT !.at = "saving"] \in SubmitRecord /\ [submits[n] EXCEPT !.at = "over"] \in SubmitRecord
    BY <1>1 DEF SubmitRecord
  <2>3. submits[n] \in SubmitRecord
    BY <1>1
  <2>4. QED
    BY <1>1, <2>1, <2>2, <2>3 DEF SubmitRecord
<1>5. \A s \in Save : saves[s].at = "encrypting" =>
        /\ saves[s].key # 0
        /\ saves[s].by # 0 => saves[s].by # n /\ submits'[saves[s].by].at \in {"saving", "over"}
        /\ ~twice' => saves[s].key = meta' /\ \A c \in Conn : saves[s].read[c].secret \in {0, meta'}
  <2>1. \A s \in Save : saves[s].by # 0 => saves[s].by \in Submit
    BY <1>1, VaultAssumption DEF SaveRecord, Submit
  <2>2. QED
    BY <1>4, <2>1 DEF IInv, SavesUnderWay
<1>6. /\ pendingConnect' = NoConn /\ reading' \subseteq Conn \X BOOLEAN
      /\ file' \in File /\ saves' \in [Save -> SaveRecord]
      /\ ~twice' => \A c \in Conn : file'[c].secret \in {0, meta'}
      /\ \A s \in Save : \/ saves'[s] = saves[s] /\ saves[s].at # "waiting"
                         \/ /\ saves'[s].at \in {"encrypting", "over"} /\ saves'[s].conn \in Conn
                            /\ saves'[s].at = "encrypting" =>
                                 /\ saves'[s].key # 0 /\ saves'[s].by = n
                                 /\ ~twice' => /\ saves'[s].key = meta'
                                               /\ \A c \in Conn : saves'[s].read[c].secret \in {0, meta'}
  <2>1. CASE pendingSave # 0
    <3> DEFINE save == saves[pendingSave]
    <3>1. StoreSave(pendingSave, save, key, n) /\ pendingConnect = NoConn /\ UNCHANGED <<pendingConnect, reading>>
      BY <1>2, <2>1 DEF ThenPending, IInv, DialogHasReason
    <3>2. /\ pendingSave \in Save /\ save \in SaveRecord /\ save.at = "waiting" /\ save.conn \in Conn
      BY <1>1, <2>1 DEF IInv, DialogHasReason, SavesUnderWay
    <3> DEFINE M == IF twice' THEN Key ELSE {0, meta'}
    <3>3. n \in 0..MaxSubmits /\ 0 \in M /\ key \in M /\ \A c \in Conn : file[c].secret \in M
      BY <1>1, <1>3, EntrySecret, VaultAssumption DEF Submit, Key, File
    <3> HIDE DEF save, M
    <3>4. file' \in File /\ \A c \in Conn : file'[c].secret \in M
      BY <1>3, <3>1, <3>2, <3>3, StoreSaveWrites
    <3>5. PICK r \in SaveRecord :
            /\ saves' = [saves EXCEPT ![pendingSave] = r] /\ r.at \in {"encrypting", "over"} /\ r.conn \in Conn
            /\ r.at = "encrypting" =>
                 /\ r.key # 0 /\ r.key \in M /\ r.by = n
                 /\ \A c \in Conn : r.read[c].secret \in M
      BY <1>3, <3>1, <3>2, <3>3, StoreSaveWrites
    <3>6. /\ saves' \in [Save -> SaveRecord] /\ saves'[pendingSave] = r
          /\ \A s \in Save : s # pendingSave => saves'[s] = saves[s] /\ saves[s].at # "waiting"
      BY <1>1, <3>2, <3>5 DEF IInv, NothingForgotten
    <3>7. reading' \subseteq Conn \X BOOLEAN /\ pendingConnect' = NoConn
      BY <3>1 DEF IInv, Types
    <3>8. QED
      BY <3>4, <3>5, <3>6, <3>7 DEF M
  <2>2. CASE pendingSave = 0
    <3>1. /\ pendingConnect' = NoConn /\ UNCHANGED <<saves, file>>
          /\ reading' = IF pendingConnect = NoConn \/ file[pendingConnect].secret = 0 THEN reading
                        ELSE reading \cup {<<pendingConnect, file[pendingConnect].secret = key>>}
      BY <1>2, <2>2 DEF ThenPending
    <3>2. <<pendingConnect, file[pendingConnect].secret = key>> \in Conn \X BOOLEAN \/ pendingConnect = NoConn
      BY DEF IInv, Types
    <3>3. reading' \subseteq Conn \X BOOLEAN
      BY <3>1, <3>2 DEF IInv, Types
    <3>4. \A s \in Save : saves[s].at # "waiting"
      BY <2>2, VaultAssumption DEF IInv, NothingForgotten, Save
    <3>5. QED
      BY <1>1, <1>3, <3>1, <3>3, <3>4
  <2>3. QED
    BY <2>1, <2>2
<1>7. Types'
  BY <1>2, <1>4, <1>6, VaultAssumption DEF IInv, Types
<1>8. KeyIsOfVault' /\ SecretsReadable' /\ UnlockedIsTimed'
  BY <1>2, <1>6 DEF KeyIsOfVault, SecretsReadable, UnlockedIsTimed
<1>9. SubmitsUnderWay'
  BY <1>2, <1>4 DEF IInv, SubmitsUnderWay
<1>10. SavesUnderWay'
  BY <1>4, <1>5, <1>6 DEF IInv, SavesUnderWay
<1>11. DialogHasReason' /\ NothingForgotten'
  BY <1>2, <1>6 DEF DialogHasReason, NothingForgotten
<1>12. QED
  BY <1>7, <1>8, <1>9, <1>10, <1>11 DEF IInv

LEMMA InitializeStep == ASSUME IInv, NEW n \in Submit, InitializeEnds(n) PROVE IInv'
<1>1. /\ submits[n].at = "initialize" /\ meta' = n /\ twice' = (twice \/ meta # 0) /\ Unlocks(n, n)
      /\ UNCHANGED <<minutes, loads>>
  BY DEF InitializeEnds
<1>2. n \in Key /\ n # 0 /\ twice' \in BOOLEAN
  BY <1>1, VaultAssumption DEF Submit, Key
<1>3. QED
  BY <1>1, <1>2, UnlocksStep

LEMMA UnlockStep == ASSUME IInv, NEW n \in Submit, UnlockEnds(n) PROVE IInv'
<1>1. submits[n].at = "unlock" /\ submits \in [Submit -> SubmitRecord] /\ UNCHANGED <<meta, twice, minutes, loads>>
  BY DEF UnlockEnds, IInv, Types
<1>2. CASE Opens(n) /\ Unlocks(n, IF submits[n].right THEN submits[n].salt ELSE n)
  <2>1. submits[n].salt = meta /\ meta \in Key /\ meta # 0 /\ twice \in BOOLEAN /\ Unlocks(n, meta)
    BY <1>1, <1>2 DEF Opens, IInv, SubmitsUnderWay, Types
  <2>2. QED
    BY <1>1, <2>1, UnlocksStep
<1>3. CASE /\ submits' = [submits EXCEPT ![n].at = "over"] /\ busy' = BusyAfter(n)
           /\ UNCHANGED <<vaultState, vaultKey, dialog, pendingSave, pendingConnect, saves, file,
                          reading, timer>>
  <2>1. [submits[n] EXCEPT !.at = "over"] \in SubmitRecord
    BY <1>1 DEF SubmitRecord
  <2>2. /\ submits' \in [Submit -> SubmitRecord] /\ submits'[n].at = "over"
        /\ \A m \in Submit : m # n => submits'[m] = submits[m]
    BY <1>1, <1>3, <2>1 DEF SubmitRecord
  <2>3. Types'
    BY <1>1, <1>3, <2>2, VaultAssumption DEF BusyAfter, IInv, Types
  <2>4. SubmitsUnderWay'
    BY <1>3, <2>2, VaultAssumption DEF BusyAfter, IInv, Types, SubmitsUnderWay, Submit
  <2>5. SavesUnderWay'
    <3>1. \A s \in Save : saves[s].by # 0 => saves[s].by \in Submit
      BY VaultAssumption DEF IInv, Types, SaveRecord, Submit
    <3>2. QED
      BY <1>1, <1>3, <2>2, <3>1 DEF IInv, SavesUnderWay
  <2>6. QED
    BY <1>1, <1>3, <2>3, <2>4, <2>5 DEF IInv, KeyIsOfVault, DialogHasReason, SecretsReadable,
                                        NothingForgotten, UnlockedIsTimed
<1>4. QED
  BY <1>2, <1>3 DEF UnlockEnds

-----------------------------------------------------------------------------
LEMMA StepIInv == IInv /\ [Next]_vars => IInv'
<1> SUFFICES ASSUME IInv, [Next]_vars PROVE IInv'
  OBVIOUS
<1>1. CASE UNCHANGED vars
  BY <1>1 DEF vars, vault, ui, IInv, Types, KeyIsOfVault, SubmitsUnderWay, SavesUnderWay,
     DialogHasReason, SecretsReadable, NothingForgotten, UnlockedIsTimed
<1>2. CASE User
  BY <1>2, SaveStep, RemoveStep, ConnectStep, DuplicateStep, CloseStep, SubmitStep, SettingStep DEF User
<1>3. CASE \E s \in Save : SaveEnds(s)
  BY <1>3, SaveEndsStep
<1>4. CASE \E n \in Submit : InitializeEnds(n) \/ UnlockEnds(n)
  BY <1>4, InitializeStep, UnlockStep
<1>5. CASE \E c \in Conn, readable \in BOOLEAN : ReadEnds(c, readable)
  BY <1>5, ReadStep
<1>6. CASE AutoLock \/ Load
  BY <1>6, AutoLockStep, LoadStep
<1>7. QED
  BY <1>1, <1>2, <1>3, <1>4, <1>5, <1>6 DEF Next

LEMMA Inductive == Spec => []IInv
BY InitIInv, StepIInv, PTL DEF Spec

\* Every variable keeps its type, and the dialog is busy only with a derivation under way.
THEOREM TypeCorrect == Spec => []TypeOK
<1>1. IInv => TypeOK
  <2> SUFFICES ASSUME IInv PROVE TypeOK
    OBVIOUS
  <2>1. \A n \in Submit : submits[n] \in SubmitRecord
    BY DEF IInv, Types
  <2>2. \A s \in Save : saves[s] \in SaveRecord /\ (saves[s].at = "encrypting" => saves[s].key # 0)
    BY DEF IInv, Types, SavesUnderWay
  <2>3. busy # 0 => busy \in Submit /\ submits[busy].at \in {"initialize", "unlock"}
    BY VaultAssumption DEF IInv, Types, SubmitsUnderWay, Submit
  <2>4. QED
    BY <2>1, <2>2, <2>3 DEF TypeOK, IInv, Types, SubmitRecord, SaveRecord
<1>2. QED
  BY <1>1, Inductive, PTL

\* A saved secret can be read again under the key of the vault that is there, whatever was
\* saved, removed, unlocked or reloaded over the awaits of the derivation and the
\* encryption (store.ts:129, vault.ts:61-103).
THEOREM SecretsStayReadable == Spec => []SecretsReadable
<1>1. IInv => SecretsReadable
  BY DEF IInv
<1>2. QED
  BY <1>1, Inductive, PTL

\* A save or a connection that waits for the passphrase is being asked for, and is never
\* left to a later, unrelated unlock (AppProvider.tsx:402-489).
THEOREM WaitingIsAskedFor == Spec => []NothingForgotten
<1>1. IInv => NothingForgotten
  BY DEF IInv
<1>2. QED
  BY <1>1, Inductive, PTL

\* An unlocked vault has its timer armed, whatever was set, read or reloaded in the
\* meantime (AppProvider.tsx:329-332).
THEOREM UnlockedVaultIsTimed == Spec => []UnlockedIsTimed
<1>1. IInv => UnlockedIsTimed
  BY DEF IInv
<1>2. QED
  BY <1>1, Inductive, PTL
=============================================================================
