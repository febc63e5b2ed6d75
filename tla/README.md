# WebSCP in TLA+

WebSCP is a browser file-transfer client: two panes, one on OneDrive and one on a
remote server over SFTP, FTP, S3 or WebDAV, a queue of transfers between them, and
hand-written protocol stacks (SSH, SFTP, FTP, TLS) on top of a TCP proxy of the host
page. It runs in one thread of JavaScript. Nothing is preempted, but every `await` is
a point where everything else may happen, and that is where its hard behaviour lies.
These modules model it at that grain: **an action is the code from one `await` to the
next**, a variable such as `pc` says at which `await` an asynchronous function is
suspended, and `src/` below is short for `src/src/`, the application's source.

## 1. Inventory

| Component | State | Operations | Interacts with | Hard |
|---|---|---|---|---|
| Transfer queue (`transfer/queue.ts`) | `jobsList`, `activeCount`, `controllers`, the persisted list | enqueue, cancel, cancelAll, retry, clearFinished, pump, run, restore | engine, conflict dialog, file systems, localStorage | slots on every way out of `run`, cancel while the dialog is open, resume, names tested and then used, page load |
| Transfer engine (`transfer/engine.ts`) | locals of one copy | transferFile, transferTree | two file systems | partial failure, abort, resume offset |
| Sync (`transfer/sync.ts`, `applySync`) | none; a plan | computeSyncPlan, applySync | file systems, queue | deletes beside queued copies, a plan that is stale |
| OneDrive session (`onedrive/session.ts`, `auth.ts`) | token, generation, sequence, state, recovery flag | acquire, clearSession, load | host SDK, localStorage, account button, requests | late answers, clear against sign-in, page load while clearing |
| OneDrive file system (`OneDriveFS.ts`, `graph.ts`) | upload sessions by path | the FileSystem operations | session, Graph | upload in pieces, resume of a session, one retry with a new token |
| SSH transport (`ssh/SshClient.ts`) | send chain, rekey gate, ciphers, channel map | connect, authenticate, openSubsystem, send, readLoop, performRekey, keepalive, disconnect | ByteStream, channel, known hosts | cipher boundary, held sends, deadlock, double notice, credentials to the right server |
| SSH channel (`ssh/channel.ts`) | two windows, buffers, waiters, write chain | write, read, close, onData, onWindowAdjust, onEof, onClose | transport, SFTP framer | flow control, writes kept whole, who is released at the end |
| SFTP client (`sftp/SftpClient.ts`) | pending requests by id | request, readLoop, close | channel | late answers, timeouts, id wrap |
| SFTP file system (`sftp/SftpFS.ts`) | pipelines of open handles | openRead, openWrite, list, mkdir, rename, remove | SFTP client, engine | holes after a failed pipelined write, symbolic links |
| FTP (`ftp/`) | control-connection lock, data sockets | login, openRead, openWrite, list, ... | engine, TLS | lock held by a handle across awaits |
| S3, WebDAV | none between calls | one request each, or one per key | engine | commit on close, operations of many requests |
| Vault and store (`connections/`) | key, state, stored file | initialize, unlock, lock; save, remove, duplicate, getSecret | localStorage, WebCrypto | read, await, write back; a dialog closed and opened again |
| Application state (`state/AppProvider.tsx`) | tabs, prompts, conflict queue, timers | connect, disconnect, switch, reconnect, resolve prompts | everything | one prompt slot, timeouts, stale choices |
| Pane (`ui/PaneView.tsx`) | folder, rows, error | list, navigate, new folder, rename, delete | file system | a listing that comes late |
| TCP (`sdk/tcp.ts`, `net/`) | none, or a receive in flight | connect, send, receive | host | an abandoned receive |
| Settings, theme, diagnostics, key formats, ciphers | — | — | — | not behaviour for a model checker |

What makes each correct: the queue never loses a slot and serves in order, never
touches a file nobody agreed to overwrite, and "done" means a whole copy; the session
never brings back a token that a sign-out removed, and the interface shows what the
session has; each packet is sealed and opened with the keys both sides mean, and
credentials go only to the host whose key was accepted; bytes of two SFTP packets are
never mixed and no window is lost; a pending request is always settled, exactly once; a
lock is always released; a saved secret can be read again; a prompt is answered for the
connection it was shown for; a pane shows the folder it is in; a synchronization makes
its destination match and removes nothing else.

`PROJECT.json` lists every component with its status, and under `hazards` the places
where the code is hard to test, with the properties that would catch each going wrong,
and a note where the code does go wrong or no property covers it.

## 2. What is modelled

| Module | Models | Composes |
|---|---|---|
| `TransferQueue` | the queue and the file copy each job runs, against an in-place or commit-on-close destination | — |
| `JobPool` | abstract: a first-come first-served pool of `Capacity` slots | refined by `TransferQueue` |
| `HttpCopy` | `transferFile` with the handles of OneDrive, S3 and WebDAV, and the upload sessions of OneDrive | — |
| `OneDriveSession` | the session coordinator and its recovery flag | — |
| `OneDriveAccount` | its callers: the page, the account button, the requests of `graphFetch`; what the interface shows | extends `OneDriveSession` |
| `SshTransport` | `SshClient` once the subsystem is open, and an RFC 4253 server | — |
| `SshConnection` | `connectSftp`: identification, key exchange, host key, authentication, subsystem, and then the transport | extends `SshTransport` |
| `SshChannel` | `SshChannel`, its writers and the SFTP framer that reads it, and an RFC 4254 peer | — |
| `SftpClient` | requests and answers of SFTP over an in-order channel: ids, pending promises, timeouts, the read loop | — |
| `SftpFile` | the handles of `SftpFS.openRead` and `openWrite`, with a pipeline of requests, and an SFTP server with one file | extends `SftpClient` |
| `FtpSession` | the login and every call of `FtpFS` as commands under the lock of one control connection, the data connections, `quit()`, and an FTP server | — |
| `FileTree` | `mkdir`, `rename`, `remove` and `list` of SFTP, S3, WebDAV and OneDrive as their requests, and servers with a tree | — |
| `Files` | the pane, its operations, `transferTree`, `computeSyncPlan` and `applySync` on one file system that others change | extends `FileTree` |
| `AppSessions` | remote sessions of `AppProvider`: attempts, timer, host-key question, tabs, drops, reconnects | — |
| `VaultStore` | the vault, the store of saved connections, the passphrase dialog and what waits for it, the idle lock | — |
| `TransferQueueProofs`, `OneDriveProofs`, `SshConnectionProofs`, `SshChannelProofs`, `SftpFileProofs`, `FtpSessionProofs`, `AppProofs`, `VaultStoreProofs` | theorems; `OneDriveProofs` is about the account and the copies over HTTP, `AppProofs` about the sessions and the pane | extend the modules above |
| `MC*` | small instances for TLC | |

**TransferQueue.** `pc[j]` is the await at which `run(job j)` is suspended: `stat`,
`choose` (the race of the conflict resolver and the abort signal), `probe` (each `stat`
of `uniqueName`), then those of `transferFile`. The synchronous tail of a run, the
`finally` with `activeCount--` and `pump()`, belongs to the action that ends the run
(`EndRun`), together with the start of the next runs up to their first await
(`Pumps`, `StartRuns`). Job k is the k-th job enqueued, so the order of `jobsList` is
the order of numbers. A file is a sequence of tags, each the source its chunk came
from, which is what tells a whole copy from a mixture. `inPlace` chooses the kind of
destination: SFTP and FTP create or truncate at open and write in place, S3 and WebDAV
commit at close. The handle of an in-place destination is `SftpFS.openWrite`'s, call by
call: `ResumeStat` asks how long the partial copy is, `Opens` is the open request, an
await later; `flight` holds the WRITEs that are issued and not answered, at most `Depth`
(`pipelineDepth`) of them, which settle in any order (`Settles`), taken, refused, or
given up after the server has acted or before; `refused` is the handle's `failure`, which
the next `write()` and `close()` read. FTP sends one chunk after another, which is a
`Depth` of 1; unlike SFTP it truncates when there is nothing to resume from, and `Opens`
allows both. `Silent` allows a server that does not tell a size (`attrs.size ?? 0`).
`Committed` is the `close()` of the S3 handle. A call that fails may have taken effect
at the server or not. `Reload` is a page load: jobs are restored from localStorage,
everything else is gone.

**HttpCopy.** A byte is its job, the version of its source and its place, for a source
may change under a copy; the sizes of the code (blocks of 320 KiB, flushes at ten of them)
are the constants `ALIGN` and `FLUSH_AT`. `Flush` keeps the last block for `close()`.
`uploadSessions` is the map of `OneDriveFS`, here for the one path of the jobs;
`session` is what the server has of each upload session, `Fits` what it accepts. A
request may fail before the server has acted (`Fails`) or its answer may be lost
(`AnswerLost`); a session may expire. OneDrive's reader asks for every range anew, S3's
and WebDAV's go on with one response, which may ignore the range.

**OneDriveSession, OneDriveAccount.** `acquire` and `clearSession` each split at their
await on the host. A call remembers the generation and the sequence number it read
before (`gen`, `seq`). `writable` is FALSE in a browser whose localStorage throws, which
the code swallows. `OneDriveAccount` adds who calls: the effect on mount, the button,
and the requests of file systems that jobs may still hold, with `graphFetch`'s one retry.
A caller that has signed in awaits `refreshUser()` before it sets `signedIn`
(`Refreshed`).

**SshTransport, SshConnection.** `chain` is `sendChain`, `held` the sends suspended on
the rekey gate; `pc` the await of the read loop, inside `performRekey` and
`handleGlobalRequest` too. `closeRekeyGate` puts what was held on the chain in order.
The server keeps RFC 4253 and numbers the cipher each of its packets is sealed with;
`c2sCipher` and `s2cCipher` count how often the client has replaced its own. Parsing,
MACs and key derivation are abstracted to "accepted" or "not". `SshConnection` starts
one step earlier: `asked` is the message of the dialogue that waits for its answer, and
every refusal on the way is an action's other branch. `known` is what is stored for the
host: nothing, the key that `connect()` is shown, or another; `writable` is FALSE where
localStorage takes no writes, which `saveStore` swallows. `key` is the host key of the
last exchange that was accepted, and a re-exchange may show another (`ReadRekeyReply`).

**SshChannel.** `writer[w]` is where the w-th `write()` is suspended: in the write
chain, on the window, on its `send`. `out` is what the transport has taken, first in,
first out, as `chain` of `SshTransport` is. `TransportEnds` is what `teardownChannels`
does to the channel.

**SftpClient, SftpFile.** A promise is known by the id of its request. `Issue` is
`request()` for one or more requests in a row; what nobody awaits any more is forgotten,
as `inflight = []` does with the reads abandoned at the end of the file or after a
short read. A byte is the number of its place in the source and 0 is a byte that was
never written, so a hole shows. The unit of a write is one message of
`MAX_SFTP_PAYLOAD`. `WriteCaught` is the `.catch` of `issue()`, which remembers the
failure; a write resumes (`WriteResumes`) or drains (`Drained`) on promises that this
catch has settled. A behaviour is the life of one handle, reader or writer; the writer
is opened again to resume after a failure. The server performs requests in order, as
the protocol demands, and its answers arrive in any order or never.

**FtpSession.** `login` is the command of `connectFtp` whose reply is awaited, plain or
upgraded by `AUTH TLS` or `AUTH SSL`. `pc[t]` is the command whose reply task t
awaits. `Then` is the code between a reply and the next command, for all of `FtpFS`; a
reply is a code, and codes the code does not tell apart are one. The lock is the queue
of those who asked for it: the chain of promises in `acquire` and `withLock` is first
come, first served. `data` holds the data connections that are open on this side; those
that the code forgets stay in it. An entry of a removed directory is a file.

**FileTree, Files.** An operation is the list of requests it has still to make:
`FirstAsk` is its first, `Served` what each does to the tree and what has to be asked
next. Between two requests everything else may happen. Symbolic links are SFTP's, keys
and folder markers S3's. A deed is what the user starts: an operation of the pane, a
transfer of an entry, a synchronization; `walk` is what `transferTree` or
`computeSyncPlan` has still to visit, `ops` the operations to come, `copies` the files
being copied, each at once and whole. `listing` is the one call of `list()` whose
`alive` is true. `Reloads` is a change of what the listing effect depends on. `told`
says whether the listings of a file tell its size and its modification time, which are
optional in `FsEntry`; what a side leaves out `Changed` does not compare.

**AppSessions.** Attempts to connect are numbered; an attempt's number names its
connection and, if it opens a tab, its session. `hostKeyPrompt`, `hostKeyResolver` and
`pendingHost` are the one state and the two refs that all attempts share. The refs
change at once, the dialog on the screen (`rendered`) in a step of its own (`Render`), and
a click on it (`ResolveHostKey`) reads the fingerprint of the one and the host and
resolver of the others. Other renders follow their handler. `settled` is
the local of `performConnect` that the 30-second timer sets. `parked` are the sessions
of the tabs that are not active. `displaced`, `accepted` and `slipped` are histories.

**VaultStore.** A key is named by the submit that derived it and a secret by the key it
is encrypted under. `submits` and `saves` are the calls whose derivation or encryption
is awaited; a save keeps what it had read of the file over its await (`read`). The
dialog forgets, when it closes, what it was to do next, but not what is under way.

Each module ends with its properties. Definitions under a comment "Slip:" are not part
of the model: each is a plausible mistake in the definition that follows it, and shows
that the property it is listed with in `PROJECT.json` can fail.

## 3. Runs

| Run | Bounds | Shows |
|---|---|---|
| `queue_pool` | 3 jobs, 1 slot, 1 chunk, 1 WRITE in flight, 1 retry, names with no free alternative, servers that may tell no size | the queue implements `JobPool`: no slot is lost, released twice or idle, and what is shown is what runs; a cancelled job ends although nobody answers its dialog, and a queued job is served if the user answers dialogs (`EveryJobGetsOn`) |
| `queue_copy` | 2 jobs in 2 slots onto one name, 2 chunks, 2 WRITEs in flight, an old file of 1 or 3 chunks, 1 retry, both kinds of destination, servers that tell sizes | an old file changes only by consent (`OldFileConsent`); "done" is a whole copy, however the WRITEs are answered, unless another run wrote the same file, or the run resumed a file that was not its own or had a hole (`DoneIsCopyOfOwnPartial`) |
| `queue_resume` | 1 job, 1 retry | violation: `DoneIsCopy` (the finding below) |
| `http_copy` | 2 jobs onto one path, from WebDAV to OneDrive or back, sources of 0 or 12 bytes, blocks of 3, flushes at 6, sessions above 7, buffers of 2; 1 retry, 1 failed request, lost answer or expired session, 1 changed source | memory stays bounded (`CopyTypeOK`); every range fits its session and carries the bytes of its place (`RangesFit`); the path only ever holds whole files, and "done" is a whole copy (`CopiesAreWhole`) |
| `onedrive` | 4 acquires, 3 clears, 2 page loads | no late answer restores a token (`NoStaleCommit`); no sign-in under a clear, and a refused clear blocks across page loads (`ClearIsFinal`); an account is shown only if there is one (`AccountShown`) |
| `ssh_rekey` | the whole handshake, with and without a localStorage that takes writes, 1 channel message, 1 keepalive, 1 exchange from each side, 1 other server message | keys change exactly between the packets both sides mean (`KeyBoundary`); credentials leave only under both keys and to the host key that was accepted, which stays the connection's while it is stored, and a stored key is never replaced (`CredentialsGuarded`); the dialogue ends, and `performRekey` ends and releases what it holds (`ExchangeEnds`) |
| `ssh_channel` | 2 writes of 3 and 2 bytes, packets and windows of 2, 2 chunks of the peer | both ends agree on both windows (`WindowsAgree`); writes arrive whole and in order, and the framer sees every chunk before the end (`StreamsIntact`); every write settles, and `close()` releases who waits (`WaitersReleased`) |
| `sftp` | 3 messages, pipelines of 1 and 2, buffers and chunks of 1 and 2, 1 refused request, 1 resume | read() returns the file in order (`ReadsTheFile`); a close() that succeeds left a whole file (`ClosedIsWhole`); every call returns (`CallsReturn`) |
| `ftp` | a login, then 2 calls of any of nine kinds, 2 entries in a removed directory | replies go to their commands (`InSync`), an upload that ends well was confirmed (`UploadConfirmed`), the login and every call end, unless a copy has left its reader open (`EndsUnlessLeftOpen`) |
| `sessions` | 3 attempts, 2 hosts of SSH and 1 without keys, 2 keys, 1 automatic reconnect | no key is trusted without consent for that host, however questions overtake one another and the render (`TrustIsConsent`); a tab keeps its host (`TabKeepsHost`); an open connection has a tab (`NoneLeaks`) |
| `vault` | 2 connections, 3 submits, 2 saves, 1 page load | saved secrets can be read again (`SecretsReadable`); what waits for the passphrase is neither forgotten nor done at another unlock (`NothingForgotten`); an unlocked vault has its timer (`UnlockedIsTimed`) |
| `files` | 2 deeds on 4 pairs of trees of two names and two levels, with a file whose size and time are not told, four kinds of file system, 1 failure; the pane opens folders while no deeds overlap; a bucket has markers for all its folders but one | the pane's list is its folder's, and up to date once nothing is under way (`PaneIsFresh`); a synchronization makes its destination match (`SyncConverges`); nothing vanishes that was not to (`NothingElseVanishes`) |

Why the bounds are enough. Three jobs and one slot is the least with two jobs waiting,
so that order and starvation show; two jobs and two slots is the least where a target
is shared; an old file shorter and one longer than the source give both branches of the
resume offset. Two WRITEs in flight are the least where the first can be refused while the
second lands; that a server tells no size makes a resume start at 0, which `queue_pool`
has and `DoneIsWhole` covers for any depth. In `http_copy` a source of twelve bytes takes two flushes and a last block of
exactly the alignment, the case that `Flush` is about; a buffer that does not divide
the alignment leaves every remainder; one failure and one retry give a resume at each
block. One call overtaken by a clear, one by a later call, one after each and a
page load between is what `onedrive` has room for. In `ssh_rekey` exchanges from both
sides may cross, with a message of each kind queued before, between and after. A write
longer than a packet and than the window waits for credit in its middle, and the next
is cut by the window. In `sftp` the ids begin at 13 of 16 and wrap: what the code does
at 2^32. Three messages and a pipeline of two give a full, a short and a speculative
read, and a write that waits for the oldest with another behind it. Two FTP calls are
enough for one to leave something on the connection that the other finds. Three attempts are one
in the active tab, one parked and one under way. Three submits let a dialog be closed
during a derivation and used twice again. Two names, one a prefix of the other, with an
entry below each are the least where a prefix without its slash would take too much;
the trees differ in kind, size and time, one has a symbolic link in a folder and one at
its top, and two deeds overlap. What is made or renamed has a place among the paths
(`HasPlace`).

Exceptions, which are the code's known limits and not checked away elsewhere:

* `DoneIsCopyOfOwnPartial` excludes runs that shared their file with another run at the
  same time (`shared`): `stat` and `openWrite` are two calls, the code does not prevent
  it, and no document says it does. And a run that resumed anything but what its own job
  had written (`kept`): the file of a stranger (section 4), or a hole. With `pipelineDepth`
  above 1, the default, a refused WRITE beside later ones that landed leaves a hole below
  the file's size; the run fails, but its retry resumes past the hole
  (`SftpFS.ts:259-260`) and is reported done, although `FileSystem.ts:57-59` calls
  `startOffset` "the number of bytes already present".
* `CopiesAreWhole` and `RangesFit` are about jobs nobody disturbed (`Undisturbed`):
  upload sessions are kept by path alone (`OneDriveFS.ts:67`), so another job's retry
  resumes them and mixes two sources; a source that changes between two runs is
  continued with its new bytes, and one that changes under OneDrive's reader is read in
  parts of both.
* The memory bound in `CopyTypeOK` excepts a source that has grown since it was listed:
  `flush` stops at the listed length, so what lies beyond it is kept until `close()`,
  although `OneDriveFS.ts:243-244` says that memory stays bounded.
* `AccountShown` excepts a user's name that arrives after the sign-out (`late`).
* `ClearIsFinal` is about clears that the host has refused. One that a page load
  interrupts leaves no flag (`session.ts:146`), although `session.ts:60-61` says it does.
* `CredentialsGuarded` excepts connections whose accepted key localStorage did not take
  (`writable`; `knownhosts.ts:30-36` swallows the error): a re-exchange then finds nothing
  stored, and any key is "new" and goes on without a question, although `SshClient.ts:317`
  says "AND match the key pinned on first connect".
* `TrustIsConsent` excepts what a click accepts on a dialog that a later question, or its
  end, had overtaken before it was rendered (`slipped`): `resolveHostKey` takes the
  fingerprint from the last render and the host and resolver from the refs
  (`AppProvider.tsx:538-541`, `583-585`), so A's dialog can accept B and store A's key for B.
* `KeyBoundary` excepts the last packet of `disconnect()`, which the gate does not hold.
* `ExchangeEnds` excepts an exchange that the server starts before the read loop runs:
  `recvExpecting` drops its KEXINIT and the connect never ends. And it is about
  `performRekey`: after `requestRekey()` a GLOBAL_REQUEST read before the server's KEXINIT
  makes the read loop await a reply that the gate holds (`SshClient.ts:624`). Only tests
  call `requestRekey()`.
* `WaitersReleased` excepts a `close()` whose message could not be
  sent: then `closed` is already set, `teardown()` never runs and a later `onClose()`
  returns early (`channel.ts:262-271`), so whoever waits on the channel is left there.
  The application closes the transport, not the channel, and does not meet it today.
* `ClosedIsWhole` is about the bytes from the start offset on when writes are pipelined,
  for the reason given at `DoneIsCopyOfOwnPartial`.
* `InSync` and `UploadConfirmed` hold until somebody gives up a reply that
  may still come (`abandoned`): a read of it timed out, `readAll()` of a listing threw
  (`FtpFS.ts:134`), or the login's `OPTS UTF8 ON` was not answered in time
  (`FtpConnection.ts:342`). The next command then reads the reply to the one before.
* `EndsUnlessLeftOpen` excepts a copy whose writer fails to commit (`leftOpen`): `transferFile`
  closes the writer and then the reader outside of its `try` (`engine.ts:101-102`), so
  the reader keeps the lock of its FTP connection for ever.
* `NoneLeaks` excepts connections whose place a reconnect has taken that came back
  after its tab was left (`displaced`).
* `SecretsReadable` excepts a vault initialized over another (`twice`): the dialog closed
  during a derivation and used again runs two `initialize()` at once.
* `NothingElseVanishes` and `SyncConverges` except what overlapping deeds do to one
  another. `NothingElseVanishes` also excepts what a rename replaces on WebDAV and S3,
  what a rename into itself tears on S3 (`S3FS.move` copies keys below the new name and
  then deletes the old ones), and, for removals over SFTP, what a symbolic link above, at or
  below the path leads to: `SftpFS.remove` uses STAT, which follows links
  (`SftpFS.ts:136-143`).
* `SyncConverges` is about what both sides tell: a file whose size or time a listing leaves
  out (`WebDavFS.ts:152-160`, `SftpFS.ts:47-48`) counts as up to date (`sync.ts:51-52`) and
  may differ afterwards, although `SyncDialog.tsx:124` says "make the destination match
  exactly".
* `SyncConverges` excepts a synchronization that met an entry of another kind under a
  name (`clash`), or whose root is reached over a link; and on S3, after a mirror, a
  directory in which the source has no file, which may have vanished with its last key.

Fairness. Weak fairness on the steps of the runtime: a promise that has settled
resumes its function, and a call to a server settles (`receive` gives up after 30
seconds, so it does even if the server is silent). None on the user:
`EveryJobGetsOn` holds of cancelled jobs although nobody answers, and states "if dialogs
are answered" as a hypothesis for the others; the host-key question of `ExchangeEnds`
may stay open for ever. Timers of SFTP requests fire, and a read of FTP that gets nothing gives up
(`idleTolerantReceive`), so nothing is assumed of those servers. The SSH server is assumed to
answer what it reads, and the SSH peer to grant window again once it is used up; without
that a transfer rightly waits.

Runs set `CHECK_DEADLOCK FALSE` because the bounds can be used up and a client with
nothing to do rests. That everything that should go on does is stated by the liveness
properties.

## 4. Finding

**A retry may take a stranger's file for its own partial copy.** `run()` sets
`attempted` before the conflict dialog (`queue.ts:268-269`). A job cancelled in the
dialog, or whose `stat` failed, never wrote anything, but its retry asks no question
and resumes at the old file's length: the result is a mixture, or "done" at once if
the old file is at least as long (`engine.ts:67-73`).
`docs/superpowers/plans/2026-08-28-resumable-transfers.md:37-38` promises a restart
and "no accidental append onto an unrelated file".

Besides the exceptions above, modelling showed:

* An attempt's end, its timeout or its own question takes the host-key question of
  another off the screen; the other then waits for an answer that cannot come
  (`AppProvider.tsx:583-587`).
* After a refused clear no control of the interface can clear again, and `acquire()`
  answers "blocked", which nobody shows (`AppProvider.tsx:517-523`).
* `connectSftp` does not close its stream when a step of it fails
  (`SftpConnection.ts:46-56`), nor does a failed FTP login.
* Two first connects to one host at once both find no pin, and the later answer
  replaces the pin of the earlier (each was accepted by the user).
* `save()` writes the file back as it was before its await (`store.ts:129`), so what
  another save or a removal did meanwhile is undone.
* A pane whose folder has changed still lets rows of the old one be selected until the
  new list is there (`PaneView.tsx:290-297`); a failed deletion of several entries does not reload
  (`304-307`).
* A mirror over SFTP removes an extra symbolic link to a directory by deleting what is
  in that directory, which may be entries that the source has, and then fails at the
  `rmdir` of the link (`SftpFS.ts:134-146`; `sync.ts:3-4` speaks of "deletions of extraneous
  destination entries").
* On S3 `list` shows a directory that is only the common prefix of keys, so no `mkdir`
  is planned for it (`sync.ts:94`). If a mirror then deletes all of those keys, the
  directory goes with the last, although the source has it (`SyncDialog.tsx:124`: "make
  the destination match exactly"); a second synchronization makes it.
* On WebDAV and S3 a rename replaces what has the new name (`WebDavFS.ts:248`);
  `FileSystem.ts:87-88` leaves it to callers to detect conflicts, and `handleRename` does not.

## 5. Theorems

TLC checks small instances; these hold for every value of the constants that satisfies
the named assumptions (`QueueAssumption`, `SessionAssumption` of the account and of FTP,
`SessionsAssumption`, `TransportAssumption`, `VaultAssumption`, `ChannelAssumption`,
`ClientAssumption`, `FileAssumption`, `HttpAssumption`, `FilesAssumption`,
`PathAssumption`, `TreesAssumption`), which say that bounds are numbers, that the names
of nothing, of the old file and of a hole are not names of something else, that paths
are finitely many sequences of names, each with those above it, and that what is there
at first are trees, no newer than what is copied later. Four of them say more, each what
the code's own constants satisfy: a grant of a window is no larger than the window; a pipeline has fewer requests
than there are ids (64 at most, of 2^32 - 1); a flush is a whole number of blocks and
shorter than the largest file that needs no session; and a buffer is smaller than a block
(255 KiB and 320 KiB). Each invariant below was first checked by TLC on the instance of
its run.

* `TransferQueueProofs`: `TypeCorrect`, `SlotsAccounted`, `SlotsBusy`, `ShowsWhatRuns`.
  The slot count is not inductive alone. The invariant `IInv` adds that jobs not yet
  enqueued are absent and restored jobs are finished (`Listed`), that a run that
  writes in place has its file (`HasItsFile`), and that only such a run, with its handle
  open, has WRITEs in flight or refused (`WritesOpen`), both for the types;
  `SlotAccounting` and `ShownAsRunning` need one another, since `pump` takes jobs by state and the count is of program
  counters. The argument has one lemma per way of moving: `PumpLemma` (what a pump
  does to the count, for any number of free slots and waiting jobs), `EndRunLemma`
  (every way out of a run), `AwaitLemma` (a run that goes on) and `QueueLemma` (a step
  that starts nothing); every action then is a case of one of them.
* `TransferQueueProofs`, of files: `OldFilesNeedConsent`, `DoneIsWhole`. The properties
  speak of one step, and nothing in that step says why it is right. `Asked` carries the
  consent from the dialog to the last write: a run that may open a file with old chunks
  has the right to, since no step brings back an old chunk (`OldStays`) and a name that
  `stat` found free cannot become an old file. `OwnCopy` says what a run that shares its
  file with nobody has there after each call: what it found is its own and still there
  when it opens the file (`FoundOwn`), and from then on every chunk that it has passed has
  landed at its place, but for those in flight, unless one was refused (`Landed`). So a
  `close()` that waits for all of them and finds no failure leaves a whole copy, in
  whatever order they were answered. For a resumed run this needs that the partial copy
  is not longer than the source (`TagsPlaced`: every chunk stands at its place), and for
  the sharing that both runs know of it (`SharingStays`). `Placed` says how far each run
  is at each await. `StepEffects` reduces every action to what it does to a
  run (`Moves`) and to the files (`Changes`); the four parts are then proved from that.
* `TransferQueueProofs`, of the pool: `QueueImplementsPool`, that every behaviour of the queue is
  one of `JobPool` under `PhaseOf`. `PumpDispatches` shows that what `pump` takes is
  what the pool fills its slots with; then each action is a step of the pool
  (`EnqueueSubmits`, `RetryResubmits`, `EndRunFinishes`, `CancelWithdraws`,
  `ClearDrops`, `ReloadRestarts`) or a stutter (`GoesOnStutters`). It rests on `IInv`.
* `OneDriveProofs`, of the session: `TypeCorrect`, `StateAndTokenAgree`, `LateAnswersAreDropped`,
  `ClearKeepsClosed`. The strengthening `Numbered` says that a
  pending call holds a generation and a sequence number no larger than the current
  ones, and matches both exactly when nothing has superseded it; `Recorded` relates
  the recovery flag to the last refusal. Without it nothing says why a stale call
  cannot match the counters again.
* `OneDriveProofs`, of its callers: `AccountUsesSession`, that every behaviour of the callers is
  one of the session, so that `AccountKeepsClosed` and `AccountDropsLateAnswers` follow
  from what is proved of it; and `AccountIsThere`. What a caller awaits while the
  interface still shows the old state is the strengthening (`Awaited`): it was given the
  token that is there, or the generation has moved on.
* `SshConnectionProofs`: `TypeCorrect`, `KeysChangeTogether`, `CredentialsStayGuarded`, for any number of
  messages, keepalives and exchanges. `KeyBoundary` speaks of the packet at the head of a
  stream, so the invariant has to say where every NEWKEYS is. `SendingKeys`: the keys of
  the sending cipher and the NEWKEYS that have left the chain agree, or one NEWKEYS is in
  the chain and only `disconnect()` follows it. `ReceivingKeys`: where the exchange stands,
  from ECDH_INIT in the chain over the request under way to the reply and the NEWKEYS in
  the server's stream, which is sealed with the old keys up to it and with the new ones
  behind (`InFlight`). `RequestsSealed` keeps the server's requests out of the first
  exchange, and `InDialogue` says that the dialogue sends one message at a time.
  `Credentials` carries both keys from the first exchange to the request, in the chain
  and on the stream, and `KeyTaken` and `KeyStored` the accepted host key from the trust
  decision through every later exchange: it is the stored one, or localStorage took none.
  `TypeCorrect` needs to know how many keys
  there can be: every number that the server seals with is paid for by the first
  exchange, a `requestRekey()` or an exchange of the server (`Budget`). That rests on the
  order of what the client has sent and the server has not read (`AheadOrder`), of what
  the server has said (`ServerOrder`), on whose turn it is (`Turn`), on the two ciphers
  being no further than the server's (`InStep`), and on what of the exchange is left in
  the chain (`NewkeysLeft`).
* `SshChannelProofs`: `TypeCorrect`, `WindowsStayInAgreement`, `StreamsStayIntact`, for any
  number of writers, chunks and grants. `Windows` is the equation itself, for both
  directions: what one side may still send, what is on its way and what the other has
  taken and not granted again make up a window. It sums over sequences of any length;
  the library's induction cannot be used, so `Induction` is proved here for sets of
  numbers, by the least that is missing, and with it that sums exist, are unique and
  grow with what is appended (`SumsExist`, `SumsUnique`, `TotalAppend`, `TotalTail`).
  `Writers` says that one write sends at a time and the others wait behind it, `Sends`
  and `DataFields` what the chain and the stream hold of each, `InOrder` that each DATA
  message continues the one before it, and `Received` that the framer has not read
  beyond what came, nor the end before the last chunk.
* `SftpFileProofs`: `TypeCorrect`, `ReadersGetTheFile`, `ClosedFilesAreWhole`, for files of any
  length, pipelines of any depth, any sizes of reads and any timeouts. `Link` ties an id to
  the request it was given to, wherever that is (the channel, the server, the table of
  pending promises), and `Right` says what any answer to that request is worth; both
  survive that ids wrap, since fewer requests are under way than there are ids
  (`ModInjective`, `NextIdInjective`). `Order` says that the reads in flight are chained:
  each begins where the one before will end if it is full, and after a short one those
  behind are dropped (`Got`). `Owed` says which writes are still to be confirmed, and
  `Whole` that the file has every byte that is not owed.
* `OneDriveProofs`, of copies over HTTP: `CopyTypeCorrect`, `CopyRangesFit`,
  `CopiesStayWhole`, for any number of jobs, retries and lost answers, and any sizes of
  blocks, flushes, buffers and files. `Stands` says where a run is in its file and what it
  has buffered, `Bounded` how much that may be; `Keeps` what an upload session has got:
  the beginning of a source, if one job alone has used it; `InStep` that a run and its
  session agree on the next byte, unless a request is under way whose answer may be lost;
  and `Carries` what the range under way brings. The arithmetic is in the lemmas on
  blocks: what a flush sends is a multiple of the block, and it always leaves something
  for `close()`, whose range is the last.
* `FtpSessionProofs`: `TypeCorrect`, `RepliesAnswerTheirCommand`, `UploadsAreConfirmed`,
  for any number of calls. `OneHolder`: only the head of the lock's queue is past its
  wait. `InConversation`: what is under way is that of one command, in one of its forms,
  a command that is written, a reply to it, a 150 with the transfer or the final reply
  behind it (`Outstanding`), a transfer whose 150 has been read (`Transferring`), or
  nothing (`Silent`). It is lost when a reply is given up, which is what `abandoned`
  says. `UploadPath`: an upload reaches its end only over the reply to its own transfer.
* `AppProofs`, of host keys: `ConsentIsNeeded`, for any number of hosts, keys and attempts at
  once, and renders as late as they may come. The strengthening `OneQuestion` says that
  the question, the resolver and the host that would be remembered belong to one attempt,
  which asks, and that the dialog on the screen, which may be another's, is of an attempt
  that still asks. `KeepsConsent` is the lemma for every step that neither asks nor
  answers.
* `AppProofs`, of tabs: `TypeCorrect`, `TabsKeepTheirHosts`, `NoConnectionLeaks`.
  `Numbered`: a session has the number of its first attempt and one host. `ActiveTab`
  and `ParkedTabs`: what a tab shows or parks is a connection of its session. `OpenAlone`:
  of every session at most one attempt may still be installed, and none while a tab
  holds a connection of that session; without it a reconnect could come back to a tab
  that is parked, and park it twice. `DisplacedAlone` says the same of a connection whose
  place was taken, so that its drop is nobody's. `Installs`, `Switches`, `Closes`,
  `Begins` and `Drops` are the steps, `EndsKeepTabs` all others.
* `AppProofs`, of the pane: `PaneStaysFresh`, for any trees, folders and number of deeds.
  `Listed` says that a call of `list()` that still counts is for the folder that is open,
  and `Deeds` that every way in which a deed ends, or a copy of it, makes the pane list
  again. `EntriesStay`: a step that is no deed's leaves what is there. What was
  listed under a deed may be old, but the deed is then not over.
* `AppProofs`, of the trees: `FilesTypeCorrect`, `NothingElseIsRemoved`. `TreeInv` has four
  parts. `Shaped`: over what is somewhere there are directories up to the root. `Plans`:
  each request that is left is of its operation (`RightAsk`), about its path or below
  it, and each operation is one that its deed may do (`MayDo`); and a deed that is alone
  may rely on what it found: a directory it found empty is empty (`Emptied`), and a key
  that it will delete in a rename is at its new place, or its copy comes first
  (`Carried`). `Shown`: the rows that the user selects from have names. `Alone`: which
  deeds overlap. `RequestShape` is the lemma for what a request does to the tree, `MoreAsks`
  for what it asks next, `WhatVanishes` for what it removes; under them are lemmas on
  prefixes and on moving what is below one path to below another (`MovedIs`,
  `MovedBack`).
* `VaultStoreProofs`: `TypeCorrect`, `SecretsStayReadable`, `WaitingIsAskedFor`,
  `UnlockedVaultIsTimed`, for any number of connections, saves, submits and page loads.
  `KeyIsOfVault` relates the vault's state, its key and the stored parameters;
  `SavesUnderWay` says that a save in the middle of its encryption holds the key of the
  vault that is there, and so does all that it has read and will write back;
  `SubmitsUnderWay` and `DialogHasReason` say whose dialog is open and what for.

Only model-checked. Liveness (`EveryJobGetsOn`, `ExchangeEnds`, `WaitersReleased`,
`CallsReturn`, `EndsUnlessLeftOpen`): the prover has no ENABLED and no fairness. And the
invariant `SyncConverges`, which needs at every point of a synchronization what has been
planned, made, copied and removed, for each kind of file system.

## 6. Plan

Done: the queue with its copies, the account, the SSH connection from its first line,
the channel, SFTP, FTP, the handles over HTTP, trees and synchronization, remote
sessions, the vault; and the theorems above, which state every safety property of the
runs but one. Left: `SyncConverges` as a theorem, and a model of the provider's queue of
conflict dialogs.

## 7. Not modelled

* A WRITE that the server performs after its answer was given up and the run that sent it
  has ended, or after a page load: `Settles` lets a WRITE land only while its handle is
  open. Sources of unknown size (`engine.ts:67` then never takes the short cut).
* A source that is a symbolic link: `WalkTransfer` takes it for no directory, where
  `transferTree` follows it (`src.stat`). `Look`, `Make` and `Head1` of `FileTree` each stand
  for two requests, of which the first changes nothing.
* Byte formats (SSH and SFTP packets, TLS records, XML and FTP listings, signatures, key
  files) and cryptographic primitives: functions of their input, covered by the
  repository's unit tests. Their outcomes, accepted or not, are in the models.
* The provider's queue of conflict dialogs (`AppProvider.tsx:922`): the queue's side, a
  resolver that may answer at any time or never, is in `TransferQueue`.
* What the host does with a receive that was given up (`sdk/tcp.ts`): it is not in the
  source.
* `synchronize()` in `sync.ts`, `vault.reset()` and the channel's `eof()`, which nothing
  calls; `chmod`, one request that changes an attribute.
* Rendering, selections, settings, diagnostics, progress reports and the notifications
  of `emit()`.
