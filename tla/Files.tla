--------------------------------- MODULE Files ---------------------------------
(***************************************************************************)
(* A pane of src/ui/PaneView.tsx on a file system, and what changes that   *)
(* file system beside it: the pane's own actions, transfers of a whole     *)
(* tree (src/transfer/engine.ts) and a synchronization (transfer/sync.ts,  *)
(* applySync() in state/AppProvider.tsx).  The other pane, which is the    *)
(* source, is in a folder of the same path.                                *)
(*                                                                         *)
(* What the user starts is a deed.  Deeds overlap freely.  How one file is *)
(* copied is TransferQueue's and SftpFile's: here a copy succeeds or not.  *)
(***************************************************************************)
EXTENDS FileTree

CONSTANTS MaxDeeds,  \* bound: deeds
          Folders,   \* bound: the folders that the pane may open
          Kinds, Trees,  \* what there may be at first: file systems, pairs of trees
          Bare,          \* bound: the folders of a bucket that have no marker at first
          Modes,         \* bound: whether a synchronization is a mirror, and compares times
          Tolerance  \* mtimeToleranceMs

ASSUME FilesAssumption ==
  /\ MaxDeeds \in Nat \ {0} /\ Tolerance \in Nat /\ <<>> \in Folders /\ Folders \subseteq {<<>>} \cup Path
  /\ Bare \subseteq Path
  /\ Modes \subseteq [mirror : BOOLEAN, byTime : BOOLEAN]

Deed == 1..MaxDeeds
Now  == 9  \* the mtime of what is copied: later than all there was

\* A file of the source, and the attributes of it and of its copy that both listings tell.
Attributes == {"size", "mtime"}
Source(size, mtime, told) == [kind |-> "file", size |-> size, mtime |-> mtime, told |-> told]

\* What there is at first are trees: whatever is somewhere has directories above it.
ASSUME TreesAssumption ==
  \A pair \in Trees, p \in Path : \A t \in {pair[1], pair[2]} :
    /\ t[p] \in {None, Dir, Link} \/ t[p].kind = "file"
    /\ t[p].mtime \in 0..Now
    /\ pair[1][p].kind = "file" => pair[1][p].told \subseteq Attributes
    /\ t[p] # None => \A n \in 1..(Len(p) - 1) : t[SubSeq(p, 1, n)] = Dir

VARIABLES
  src,                     \* the source: a node at each path
  cwd, shown, error,       \* the pane: its folder, what it lists and of which folder
  listing,                 \* the call of list() that counts: others find alive = false
  deed,
  failed,                  \* history: something has failed
  overlap                  \* history: the deeds that were not alone

pane == <<cwd, shown, error, listing>>
filesVars == <<tree, src, pane, deed, failed, overlap>>

NoListing == [at |-> "none", dir |-> <<>>, rows |-> {}]
NoDeed == [what |-> "none", phase |-> "none", ops |-> <<>>, todo |-> <<>>, walk |-> <<>>, copies |-> {},
           wanted |-> {}, deletes |-> <<>>, root |-> <<>>, mirror |-> FALSE, byTime |-> FALSE,
           clash |-> FALSE]
\* Bound: the network fails once, and not under deeds that overlap.
MayFail == ~failed /\ overlap = {}

Active == {n \in Deed : deed[n].what \notin {"none", "over"}}

-----------------------------------------------------------------------------
(***************************************************************************)
(* The pane.                                                               *)
(***************************************************************************)

\* Slip: while a call is under way there is no other.
ListsUnlessAsked(c) ==
  IF listing.at = "none" THEN listing' = [at |-> "asked", dir |-> c, rows |-> {}] /\ error' = FALSE
  ELSE UNCHANGED <<listing, error>>

\* The effect that lists the folder, after any change of what it depends on.  A call that
\* is under way is overtaken.
Lists(c) == listing' = [at |-> "asked", dir |-> c, rows |-> {}] /\ error' = FALSE

Reloads == Lists(cwd) /\ UNCHANGED <<cwd, shown>>

Answered ==
  /\ listing.at = "asked"
  /\ kind = "s3" \/ IsDir(Real(listing.dir))
  /\ listing' = [listing EXCEPT !.at = "answered", !.rows = Entries(listing.dir)]
  /\ UNCHANGED <<tree, src, cwd, shown, error, deed, failed, overlap>>

ListFails ==
  /\ listing.at = "asked" /\ listing' = NoListing /\ error' = TRUE
  /\ \/ kind # "s3" /\ ~IsDir(Real(listing.dir)) /\ UNCHANGED failed
     \/ MayFail /\ failed' = TRUE
  /\ UNCHANGED <<tree, src, cwd, shown, deed, overlap>>

Show ==
  /\ listing.at = "answered"
  /\ shown' = [dir |-> listing.dir, rows |-> listing.rows]
  /\ listing' = NoListing
  /\ UNCHANGED <<tree, src, cwd, error, deed, failed, overlap>>

\* Bound: it is done while no deeds overlap.
Navigate(c) ==
  /\ c \in Folders /\ overlap = {}
  /\ \/ cwd # <<>> /\ c = Front(cwd)
     \/ \E e \in shown.rows : e.node.kind = "dir" /\ e.path = c
  /\ c # cwd /\ cwd' = c /\ Lists(c)
  /\ UNCHANGED <<tree, src, shown, deed, failed, overlap>>

Refresh ==
  /\ listing.at = "none" /\ error /\ Reloads
  /\ UNCHANGED <<tree, src, deed, failed, overlap>>

-----------------------------------------------------------------------------
(***************************************************************************)
(* Deeds.                                                                  *)
(***************************************************************************)

Starts(d) ==
  /\ \E n \in Deed :
       /\ deed[n].what = "none" /\ \A m \in 1..(n - 1) : deed[m].what # "none"
       /\ deed' = [deed EXCEPT ![n] = d]
       /\ overlap' = IF Active = {} THEN overlap ELSE overlap \cup Active \cup {n}
  /\ UNCHANGED <<tree, src, pane, failed>>

PaneDeed(ops) == [NoDeed EXCEPT !.what = "pane", !.phase = "apply", !.ops = ops]

HandleNewFolder(p) ==
  /\ p \in Children(cwd)
  /\ Starts(PaneDeed(<<Mkdir(p)>>))

\* Bound: what is renamed, or made, has a place.
Fits(from, to) == \A q \in AtOrBelow(from) : IsFile(q) \/ q \in dirs => Moved(from, to, q) \in Path
HasPlace(r, made) ==
  /\ made \subseteq Path
  /\ r.ask = "move" => Fits(r.path, r.to)
  /\ r.ask = "copyKey" => r.to \in Path

\* What is selected are rows of the folder that was listed, the new name is of the folder
\* that is open.
HandleRename(to) ==
  /\ to \in Children(cwd)
  /\ \E e \in shown.rows : Fits(e.path, to) /\ Starts(PaneDeed(<<Rename(e.path, to)>>))

HandleDeleteConfirm(rows) ==
  /\ rows # {}
  /\ LET RemovalOf(e) == Removal(e.path, e.node.kind = "dir")
     IN  Starts(PaneDeed(ForEach(rows, RemovalOf)))

\* enqueueTransfer() of an entry of the other pane.
EnqueueTransfer(p) ==
  /\ p \in Children(cwd) /\ src[p].kind \in {"file", "dir"}
  /\ Starts([NoDeed EXCEPT !.what = "transfer", !.phase = "tree", !.walk = <<p>>])

\* The other pane is in the folder of that path.
ApplySync(mode) ==
  /\ cwd # <<>> => src[cwd] = Dir
  /\ Starts([NoDeed EXCEPT !.what = "sync", !.phase = "root", !.ops = <<Mkdir(cwd)>>,
                           !.root = cwd, !.mirror = mode.mirror, !.byTime = mode.byTime,
                           !.clash = Links(cwd) # {}])

\* Slip: the operations that were to follow stay.
ThrowsMidway(n, left) ==
  /\ failed' = TRUE
  /\ deed' = [deed EXCEPT ![n].phase = "failed", ![n].copies = left,
                          ![n].what = IF left = {} THEN "over" ELSE @]
  /\ UNCHANGED pane

\* What throws leaves the pane as it is.  Copies that are queued go on.
Throws(n, left) ==
  /\ failed' = TRUE
  /\ deed' = [deed EXCEPT ![n] =
       [@ EXCEPT !.ops = <<>>, !.todo = <<>>, !.walk = <<>>, !.deletes = <<>>, !.wanted = {},
                 !.phase = "failed", !.copies = left, !.what = IF left = {} THEN "over" ELSE deed[n].what]]
  /\ UNCHANGED pane

\* The next request of the operation that is under way.
Request(n) ==
  /\ deed[n].ops # <<>> /\ deed[n].phase # "walk"
  /\ LET d == deed[n]
         o == Head(d.ops)
         todo == IF d.todo = <<>> THEN <<FirstAsk(o)>> ELSE d.todo
         a == Served(o, Head(todo))
         rest == a.more \o Tail(todo)
         \* applySync() and transferTree() take a directory that is there.
         fine == a.ends = "ok" \/ (a.ends = "exists" /\ d.what # "pane")
     IN \/ /\ fine /\ HasPlace(Head(todo), a.dirs) /\ file' = a.file /\ dirs' = a.dirs
           /\ deed' = [deed EXCEPT ![n] = IF rest = <<>> \/ a.ends = "exists"
                         THEN [d EXCEPT !.todo = <<>>, !.ops = Tail(d.ops)] ELSE [d EXCEPT !.todo = rest]]
           /\ UNCHANGED <<failed, pane>>
        \/ /\ fine => MayFail
           /\ Throws(n, deed[n].copies) /\ UNCHANGED <<file, dirs>>
  /\ UNCHANGED <<kind, src, overlap>>

\* runAction() reloads; a job that is done and applySync() refresh the pane.
Finishes(n) ==
  /\ deed[n].ops = <<>> /\ deed[n].walk = <<>>
  /\ \/ deed[n].what \in {"pane", "transfer"} /\ deed[n].copies = {}
     \/ deed[n].what = "sync" /\ deed[n].phase = "delete"
  /\ deed' = [deed EXCEPT ![n].phase = IF deed[n].what = "sync" THEN "synced" ELSE "done",
                          ![n].what = IF deed[n].copies = {} THEN "over" ELSE @]
  /\ Reloads
  /\ UNCHANGED <<tree, src, failed, overlap>>

\* A file has been copied: what is there is whole, and new.
CopyEnds(n, p) ==
  /\ p \in deed[n].copies /\ CanWrite(p)
  /\ file' = [file EXCEPT ![Real(p)] = File(src[p].size, Now)]
  /\ LET left == deed[n].copies \ {p}
     IN deed' = [deed EXCEPT ![n].copies = left,
                   ![n].what = IF left = {} /\ deed[n].phase \in {"synced", "failed"} THEN "over" ELSE @]
  /\ IF deed[n].what = "sync" THEN Reloads ELSE UNCHANGED pane
  /\ UNCHANGED <<kind, dirs, src, failed, overlap>>

\* Over SFTP, what has been written until then stays.
CopyFails(n, p) ==
  /\ p \in deed[n].copies /\ (CanWrite(p) => MayFail)
  /\ file' \in IF CanWrite(p) /\ kind = "sftp"
               THEN {file, [file EXCEPT ![Real(p)] = File(0, Now)]} ELSE {file}
  /\ LET left == deed[n].copies \ {p}
     IN IF deed[n].what = "transfer" THEN Throws(n, left)
        ELSE /\ failed' = TRUE
             /\ deed' = [deed EXCEPT ![n].copies = left,
                           ![n].what = IF left = {} /\ deed[n].phase \in {"synced", "failed"} THEN "over" ELSE @]
             /\ UNCHANGED pane
  /\ UNCHANGED <<kind, dirs, src, overlap>>

\* transferTree(): a directory is made and its entries are next, a file is copied.
WalkTransfer(n) ==
  /\ deed[n].what = "transfer" /\ deed[n].walk # <<>> /\ deed[n].ops = <<>> /\ deed[n].copies = {}
  /\ LET d == deed[n]
         p == Head(d.walk)
         below == SetToSeq({q \in Children(p) : src[q] # None})
     IN deed' = [deed EXCEPT ![n] =
          IF src[p].kind = "dir" THEN [d EXCEPT !.ops = <<Mkdir(p)>>, !.walk = below \o Tail(d.walk)]
          ELSE [d EXCEPT !.copies = {p}, !.walk = Tail(d.walk)]]
  /\ UNCHANGED <<tree, src, pane, failed, overlap>>

\* Slip: the tolerance is exceeded a unit too late.
ChangedBeyond(s, d, byTime) ==
  \/ "size" \in s.told /\ s.size # d.size
  \/ byTime /\ "mtime" \in s.told /\ s.mtime > d.mtime + Tolerance + 1

\* fileNeedsCopy(): what one side does not tell is not compared.
Changed(s, d, byTime) ==
  \/ "size" \in s.told /\ s.size # d.size
  \/ byTime /\ "mtime" \in s.told /\ s.mtime > d.mtime + Tolerance

WholeRemoval(e) == Removal(e.path, TRUE)

Deletes(mirror, extra) == IF mirror THEN ForEach(extra, WholeRemoval) ELSE <<>>

\* computeSyncPlan() at one directory.  A file hides the directory of its name.
WalkSync(n) ==
  /\ deed[n].what = "sync" /\ deed[n].phase = "walk" /\ deed[n].walk # <<>>
  /\ LET d == deed[n]
         p == Head(d.walk)
         there == IF Exists(Real(p)) THEN Entries(p) ELSE {}
         here == {q \in Children(p) : src[q] # None}
         IsThere(q, k) == \E e \in there : e.path = q /\ e.node.kind = k
         folders == {q \in here : src[q].kind = "dir"}
         files == {q \in here : src[q].kind = "file"}
         made == {q \in folders : ~IsThere(q, "dir") \/ IsThere(q, "file")}
         copied == {q \in files : ~IsThere(q, "file") \/
                      \E e \in there : e.path = q /\ e.node.kind = "file" /\ Changed(src[q], e.node, d.byTime)}
         extra == {e \in there : e.path \notin here}
         clash == \E e \in there : e.path \in here /\ e.node.kind # src[e.path].kind
     IN deed' = [deed EXCEPT ![n] =
          [d EXCEPT !.walk = SetToSeq(folders) \o Tail(d.walk),
                    !.ops = d.ops \o ForEach(made, Mkdir),
                    !.wanted = d.wanted \cup copied, !.clash = d.clash \/ clash,
                    !.deletes = d.deletes \o Deletes(d.mirror, extra)]]
  /\ UNCHANGED <<tree, src, pane, failed, overlap>>

\* list() of the destination fails: it is not a directory, or the server does not answer.
WalkFails(n) ==
  /\ deed[n].phase \in {"walk", "tree"} /\ deed[n].walk # <<>> /\ deed[n].copies = {} /\ MayFail
  /\ deed[n].what = "transfer" => deed[n].ops = <<>>
  /\ Throws(n, {})
  /\ UNCHANGED <<tree, src, overlap>>

\* The phases of applySync(): the root, the plan, the directories, the queue, the deletes.
NextPhase(n) ==
  /\ deed[n].what = "sync"
  /\ \/ /\ deed[n].phase = "root" /\ deed[n].ops = <<>>
        /\ deed' = [deed EXCEPT ![n].phase = "walk", ![n].walk = <<deed[n].root>>]
     \/ /\ deed[n].phase = "walk" /\ deed[n].walk = <<>>
        /\ deed' = [deed EXCEPT ![n].phase = "mkdir"]
     \/ /\ deed[n].phase = "mkdir" /\ deed[n].ops = <<>>
        /\ deed' = [deed EXCEPT ![n].phase = "delete", ![n].copies = deed[n].wanted,
                                ![n].wanted = {}, ![n].ops = deed[n].deletes, ![n].deletes = <<>>]
  /\ UNCHANGED <<tree, src, pane, failed, overlap>>

-----------------------------------------------------------------------------
FilesInit ==
  /\ kind \in Kinds
  /\ \E pair \in Trees : LET t == pair[2] IN
       /\ src = pair[1]
       /\ file = [p \in Path |-> IF t[p].kind = "dir" THEN None ELSE t[p]]
       /\ dirs = {p \in Path : t[p].kind = "dir" /\ (kind = "s3" => p \notin Bare)}
       /\ kind # "sftp" => \A p \in Path : t[p] # Link
  /\ cwd = <<>> /\ shown = [dir |-> <<>>, rows |-> {}] /\ error = FALSE
  /\ listing = [at |-> "asked", dir |-> <<>>, rows |-> {}]
  /\ deed = [n \in Deed |-> NoDeed] /\ failed = FALSE /\ overlap = {}

Pane ==
  \/ Answered \/ ListFails \/ Show \/ Refresh
  \/ \E c \in Folders : Navigate(c)

Start ==
  \/ \E p \in Path : HandleNewFolder(p) \/ HandleRename(p) \/ EnqueueTransfer(p)
  \/ \E rows \in SUBSET shown.rows : HandleDeleteConfirm(rows)
  \/ \E mode \in Modes : ApplySync(mode)

FilesNext ==
  \/ Pane \/ Start
  \/ \E n \in Deed : Request(n) \/ WalkTransfer(n) \/ WalkSync(n) \/ WalkFails(n) \/ NextPhase(n) \/ Finishes(n)
  \/ \E n \in Deed, p \in Path : CopyEnds(n, p) \/ CopyFails(n, p)

FilesSpec == FilesInit /\ [][FilesNext]_filesVars

-----------------------------------------------------------------------------
(***************************************************************************)
(* Properties.                                                             *)
(***************************************************************************)

FilesTypeOK ==
  /\ kind \in Kinds /\ dirs \subseteq Path /\ \A p \in Path : file[p].kind \in {"none", "file", "symlink"}
  /\ kind # "s3" => \A p \in Path : /\ ~(p \in dirs /\ IsFile(p))
                                    /\ p \in dirs \/ IsFile(p) => IsDir(Front(p))
  /\ {cwd, listing.dir, shown.dir} \subseteq Folders
  /\ Active \cup overlap \subseteq {n \in Deed : deed[n] # NoDeed}
  /\ \A n \in Deed : /\ deed[n].todo # <<>> => deed[n].ops # <<>>
                     /\ deed[n].what = "over" => /\ <<>> = deed[n].ops /\ <<>> = deed[n].walk
                                                 /\ {} = deed[n].copies

\* Once the pane's list is there it is the one of its folder, whichever calls were
\* overtaken; and once nothing is under way and nothing has failed it is what is there
\* (PaneView.tsx:104-123, AppProvider.tsx:950-956, 1108-1110).
PaneIsFresh ==
  listing.at = "none" /\ ~error =>
    /\ shown.dir = cwd
    /\ Active = {} /\ ~failed => shown.rows = Entries(cwd)

\* What vanishes was to be removed, by a deed that meant it: a synchronization removes only
\* as a mirror, and nothing whose name the source has; what is no directory is removed
\* alone; and what is renamed is at its new place.  Except: SftpFS.remove() follows a
\* symbolic link above, at or below what it removes, a rename may replace what has its new
\* name (WebDAV, S3) and tears what is renamed into itself (S3), and deeds that overlap do
\* not wait for one another.
Vanishes(q) == (file[q] # None /\ file'[q] = None) \/ q \in dirs \ dirs'

MeantBy(n, q) ==
  LET o == Head(deed[n].ops)
      linked == /\ o.op = "remove"
                /\ \E l \in Path : file[l] = Link /\ (IsPrefix(o.path, l) \/ IsPrefix(l, o.path))
  IN  /\ deed[n].ops # <<>> /\ o.op \in {"remove", "rename"}
      /\ \/ IsPrefix(o.path, q) \/ linked
         \/ (o.op = "rename" /\ IsPrefix(o.to, q))
      /\ o.op = "remove" /\ ~o.recursive /\ n \notin overlap => (q = o.path \/ linked)
      /\ deed[n].what = "sync" => deed[n].mirror /\ ~(o.path \in Path /\ src[o.path] # None)
      /\ /\ o.op = "rename" /\ n \notin overlap
         /\ IsPrefix(o.path, q) /\ ~IsPrefix(o.to, q) /\ ~IsPrefix(o.path, o.to)
         => (file[q] # file'[q] => file'[Moved(o.path, o.to, q)] = file[q])

NothingElseVanishes == [][\A q \in Path : Vanishes(q) => \E n \in Deed : MeantBy(n, q)]_filesVars

\* "make the destination match exactly" (SyncDialog.tsx:124): after a synchronization that
\* was alone and met no entry of another kind under a name, no file is missing, of another
\* size or, if times count, older, as far as both sides tell the size and the time
\* (sync.ts:51-52); and after a mirror nothing else is there.  Except: a mirror on S3 may
\* leave no key that tells of a directory in which the source has no file.
HasFile(p) == \E q \in Below(p) : src[q].kind = "file"

Matches(d) ==
  \A p \in Below(d.root) :
    /\ src[p].kind = "dir" => IsDir(p) \/ (kind = "s3" /\ d.mirror /\ ~HasFile(p))
    /\ src[p].kind = "file" =>
         /\ file[p].kind = "file"
         /\ "size" \in src[p].told => file[p].size = src[p].size
         /\ d.byTime /\ "mtime" \in src[p].told => ~(src[p].mtime > file[p].mtime + Tolerance)
    /\ d.mirror /\ Exists(p) => src[p] # None

Undisturbed(n) ==
  /\ ~failed /\ ~deed[n].clash /\ n \notin overlap
  /\ \A m \in Deed : m > n => deed[m].what = "none"

SyncConverges ==
  \A n \in Deed :
    deed[n].what = "over" /\ deed[n].phase = "synced" /\ Undisturbed(n) => Matches(deed[n])
=============================================================================
