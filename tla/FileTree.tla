------------------------------- MODULE FileTree -------------------------------
(***************************************************************************)
(* A destination file system, and mkdir(), rename() and remove() on it as  *)
(* the requests that the file systems of src/sftp, src/s3, src/webdav and  *)
(* src/onedrive make.  A request is served at one instant; between two of  *)
(* them anything may happen.                                               *)
(*                                                                         *)
(* What a server does with a request is external: a request of SFTP        *)
(* follows symbolic links, S3 has only objects and markers, and a rename   *)
(* onto a name that is taken replaces it on WebDAV and S3 alone.           *)
(***************************************************************************)
EXTENDS Integers, Sequences, FiniteSets, SequencesExt

CONSTANTS Path,    \* the paths that may be used, as sequences of names; the root is <<>>
          Target,  \* the directory that every symbolic link leads to
          Longer   \* the pairs of names of which the first begins with the second

ASSUME PathAssumption ==
  /\ Path \subseteq Seq(STRING) \ {<<>>} /\ IsFiniteSet(Path) /\ Target \in Path
  /\ \A p \in Path : \A n \in 1..(Len(p) - 1) : SubSeq(p, 1, n) \in Path

VARIABLES kind,  \* which file system it is
          file,  \* the file, symbolic link or object at each path
          dirs   \* the directories; with S3, the folder markers

tree == <<kind, file, dirs>>

Node(k, size, mtime) == [kind |-> k, size |-> size, mtime |-> mtime]
File(size, mtime) == Node("file", size, mtime)
None == Node("none", 0, 0)
Dir  == Node("dir", 0, 0)
Link == Node("symlink", 0, 0)

\* One call for each of a set, in some order.
ForEach(S, Call(_)) == LET s == SetToSeq(S) IN [i \in DOMAIN s |-> Call(s[i])]

-----------------------------------------------------------------------------
(***************************************************************************)
(* Looking at it.                                                          *)
(***************************************************************************)

AtOrBelow(p) == {q \in Path : IsPrefix(p, q)}
Below(p) == AtOrBelow(p) \ {p}
Children(p) == {q \in Path : Front(q) = p}

\* Where what is at q, at or below from, comes to be when from becomes to.
Moved(from, to, q) == to \o SubSeq(q, Len(from) + 1, Len(q))

\* Where a path leads, and where the link itself is.
Links(p) == {n \in 1..Len(p) : SubSeq(p, 1, n) \in Path /\ file[SubSeq(p, 1, n)] = Link}
Real(p) == IF Links(p) = {} THEN p
           ELSE Target \o SubSeq(p, 1 + CHOOSE n \in Links(p) : TRUE, Len(p))
Unfollowed(p) == IF p = <<>> THEN p ELSE Append(Real(Front(p)), Last(p))

IsFile(p) == p \in Path /\ file[p] # None

\* Slip: the prefix lacks its slash.
KeysNamedLike(p) ==
  LET Like(q) == IsPrefix(p, q) \/ (/\ Len(q) >= Len(p) /\ Front(p) = SubSeq(q, 1, Len(p) - 1)
                                    /\ <<q[Len(p)], Last(p)>> \in Longer)
  IN  {[path |-> q, marker |-> FALSE] : q \in {q \in Path : Like(q) /\ file[q] # None}}
        \cup {[path |-> q, marker |-> TRUE] : q \in {q \in Path : Like(q) /\ q \in dirs}}

\* The keys of S3 with the prefix of a directory, which ends in a slash.
KeysUnder(p) ==
  {[path |-> q, marker |-> FALSE] : q \in {q \in Below(p) : file[q] # None}}
    \cup {[path |-> q, marker |-> TRUE] : q \in AtOrBelow(p) \cap dirs}

IsDir(p) == p = <<>> \/ p \in dirs \/ (kind = "s3" /\ KeysUnder(p) # {})
Exists(p) == IsDir(p) \/ IsFile(p)

\* list().  With S3 an object and a directory may have one name.
Entries(p) ==
  LET here == Children(Real(p))
      Entry(q, node) == [path |-> Append(p, Last(q)), node |-> node]
  IN  {Entry(q, file[q]) : q \in {q \in here : IsFile(q)}}
        \cup {Entry(q, Dir) : q \in {q \in here : IsDir(q)}}

-----------------------------------------------------------------------------
(***************************************************************************)
(* The requests of an operation.  Each is answered with the tree after it, *)
(* what has to be asked next, and whether the operation has failed.        *)
(***************************************************************************)

Ask(what, p, to, marker) == [ask |-> what, path |-> p, to |-> to, marker |-> marker]
AskOf(what, p) == Ask(what, p, <<>>, FALSE)

Answer(ends, f, d, more) == [ends |-> ends, file |-> f, dirs |-> d, more |-> more]
Refused(how) == Answer(how, file, dirs, <<>>)
Then(more)   == Answer("ok", file, dirs, more)

Mkdir(p)             == [op |-> "mkdir", path |-> p, to |-> <<>>, recursive |-> FALSE]
Rename(from, to)     == [op |-> "rename", path |-> from, to |-> to, recursive |-> TRUE]
Removal(p, recursive) == [op |-> "remove", path |-> p, to |-> <<>>, recursive |-> recursive]

FirstAsk(o) ==
  CASE o.op = "mkdir"  -> AskOf(IF kind = "s3" THEN "probe" ELSE "make", o.path)
    [] o.op = "rename" -> Ask(IF kind = "s3" THEN "isPrefix" ELSE "move", o.path, o.to, FALSE)
    [] o.op = "remove" -> AskOf(CASE kind = "sftp" -> "look" [] kind = "s3" -> "head"
                                  [] kind = "webdav" /\ o.recursive -> "delete"
                                  [] OTHER -> "check", o.path)

\* mkdir().  A refusal is told apart by a look at what is there.
Make(p) ==
  LET at == Unfollowed(p)
  IN  IF Exists(at) THEN Refused("exists")
      ELSE IF ~IsDir(Front(at)) THEN Refused("failed")
      ELSE Answer("ok", file, dirs \cup {at}, <<>>)

Probe(p) == IF IsDir(p) THEN Refused("exists") ELSE Then(<<AskOf("mark", p)>>)
Mark(p) == Answer("ok", file, dirs \cup {p}, <<>>)

\* SftpFS.remove(): STAT, which follows links, and the list of a directory.
Look(o, p) ==
  LET at == Real(p)
  IN  IF ~Exists(at) THEN Refused("failed")
      ELSE IF ~IsDir(at) THEN Then(<<AskOf("unlink", p)>>)
      ELSE IF Entries(p) # {} /\ ~o.recursive THEN Refused("failed")
      ELSE Then(LET LookAt(e) == AskOf("look", e.path)
                IN  ForEach(Entries(p), LookAt) \o <<AskOf("rmdir", p)>>)
Unlink(p) ==
  LET at == Unfollowed(p)
  IN  IF IsFile(at) THEN Answer("ok", [file EXCEPT ![at] = None], dirs, <<>>) ELSE Refused("failed")
Rmdir(p) ==
  LET at == Unfollowed(p)
  IN  IF at \in dirs /\ Entries(at) = {} THEN Answer("ok", file, dirs \ {at}, <<>>) ELSE Refused("failed")

\* S3FS: an object is deleted alone, a directory key by key.
AskEach(what, keys, from, to) ==
  LET AskOfKey(key) == Ask(what, key.path, Moved(from, to, key.path), key.marker)
  IN  ForEach(keys, AskOfKey)
Head1(o, p) ==
  IF IsFile(p) THEN Then(<<AskOf("deleteKey", p)>>)
  ELSE LET keys == KeysUnder(p)
       IN  IF keys = {} \/ (~o.recursive /\ \E k \in keys : k.path # p) THEN Refused("failed")
           ELSE Then(AskEach("deleteKey", keys, <<>>, <<>>))
DeleteKey(r) ==
  IF r.marker THEN Answer("ok", file, dirs \ {r.path}, <<>>)
  ELSE Answer("ok", [file EXCEPT ![r.path] = None], dirs, <<>>)

\* S3FS.move(): all keys are copied, and then all are deleted.
MoveKeys(from, to) ==
  LET keys == KeysUnder(from)
  IN  Then(AskEach("copyKey", keys, from, to) \o AskEach("deleteKey", keys, from, to))

IsPrefixOf(from, to) ==
  IF KeysUnder(from) # {} THEN Then(<<Ask("listAllKeys", from, to, FALSE)>>)
  ELSE Then(<<Ask("copyKey", from, to, FALSE), Ask("deleteKey", from, to, FALSE)>>)
CopyKey(r) ==
  IF r.path = r.to \/ (IF r.marker THEN r.path \notin dirs ELSE ~IsFile(r.path)) THEN Refused("failed")
  ELSE IF r.marker THEN Answer("ok", file, dirs \cup {r.to}, <<>>)
  ELSE Answer("ok", [file EXCEPT ![r.to] = file[r.path]], dirs, <<>>)

\* WebDavFS and OneDriveFS: a look for children, and the server deletes all there is.
Check(o, p) ==
  IF ~Exists(p) \/ (~o.recursive /\ Entries(p) # {}) THEN Refused("failed")
  ELSE Then(<<AskOf("delete", p)>>)
Delete(p) ==
  IF ~Exists(p) THEN Refused("failed")
  ELSE Answer("ok", [q \in Path |-> IF IsPrefix(p, q) THEN None ELSE file[q]], dirs \ AtOrBelow(p), <<>>)

\* rename() in one request.  To its own name, OneDriveFS asks nothing.
Move(from, to) ==
  LET Old(q) == Moved(to, from, q)
  IN  IF from = to /\ kind = "onedrive" THEN Then(<<>>)
      ELSE IF \/ ~Exists(from) \/ ~IsDir(Front(to)) \/ IsPrefix(from, to)
              \/ Exists(to) /\ (kind # "webdav" \/ IsPrefix(to, from))
           THEN Refused("failed")
      ELSE Answer("ok",
             [q \in Path |-> IF IsPrefix(to, q) THEN (IF Old(q) \in Path THEN file[Old(q)] ELSE None)
                             ELSE IF IsPrefix(from, q) THEN None ELSE file[q]],
             {q \in Path : IF IsPrefix(to, q) THEN Old(q) \in dirs
                           ELSE q \in dirs /\ ~IsPrefix(from, q)}, <<>>)

Served(o, r) ==
  CASE r.ask = "make" -> Make(r.path)
    [] r.ask = "probe" -> Probe(r.path)
    [] r.ask = "mark" -> Mark(r.path)
    [] r.ask = "look" -> Look(o, r.path)
    [] r.ask = "unlink" -> Unlink(r.path)
    [] r.ask = "rmdir" -> Rmdir(r.path)
    [] r.ask = "head" -> Head1(o, r.path)
    [] r.ask = "deleteKey" -> DeleteKey(r)
    [] r.ask = "isPrefix" -> IsPrefixOf(r.path, r.to)
    [] r.ask = "listAllKeys" -> MoveKeys(r.path, r.to)
    [] r.ask = "copyKey" -> CopyKey(r)
    [] r.ask = "check" -> Check(o, r.path)
    [] r.ask = "delete" -> Delete(r.path)
    [] r.ask = "move" -> Move(r.path, r.to)

\* close() of a writer: the file is there, whole, and new.
CanWrite(p) ==
  LET at == Real(p)
  IN  at \in Path /\ (kind = "s3" \/ (IsDir(Front(at)) /\ ~IsDir(at)))
=============================================================================
