------------------------------ MODULE Settings ------------------------------
(***************************************************************************)
(* Hot settings: the service (app/settings), the YAML file it polls and     *)
(* replaces (adapter/settings/file), and the model providers that install   *)
(* a catalog from every committed document (adapter/model/provider).        *)
(*                                                                          *)
(* A document is the pair of the last outside edit and the last update it   *)
(* contains: enough to tell which writer's change a later one dropped.      *)
(***************************************************************************)
EXTENDS Naturals, FiniteSets

CONSTANTS
  Providers,   \* the providers that watch the service
  Updaters,    \* callers of Update (/model commands)
  MaxEdits,    \* bound: edits of the file from outside this process
  MaxUpdates,  \* bound: calls of Update
  MaxFaults    \* bound: failing reads and writes of the file

VARIABLES
  file,     \* the settings file: a document, Absent or Bad
  lock,     \* the lock file beside it: "free", "other" process, or an updater
  hash,     \* Provider.lastHash: the content remembered last
  service,  \* Service: stage, document, revision
  writeMu,  \* Service.writeMu
  poll,     \* the polling goroutine: its step and the content it read
  upd,      \* the Update calls
  commits,  \* commits whose callbacks still run: the document, the watchers left
  prov,     \* each provider: stage, installed catalog, its watcher's calls
  done,     \* history: the update numbers that returned an error
  overlap,  \* history: a commit fell inside another one, or inside a provider's start
  left      \* what remains of the bounds

vars == <<file, lock, hash, service, writeMu, poll, upd, commits, prov, done, overlap, left>>

Doc(edit, n) == [kind |-> "document", edit |-> edit, upd |-> n]
Defaults == Doc(0, 0)
Absent == [Defaults EXCEPT !.kind = "absent"]   \* no file
Bad == [Defaults EXCEPT !.kind = "bad"]         \* a file read refuses
NoDoc == [Defaults EXCEPT !.kind = "none"]      \* no catalog installed
Nobody == "nobody"
Poller == "poller"

\* Resolve: the user layer over the defaults; an absent file is an empty layer.
Resolve(content) == IF content = Absent THEN Defaults ELSE content

Quiet == [doc |-> Defaults, todo |-> {}, now |-> Nobody]

Init ==
  /\ file \in {Absent, Doc(1, 0)} /\ lock = "free" /\ hash = Absent
  /\ service = [stage |-> "new", document |-> Defaults, revision |-> 0]
  /\ writeMu = Nobody
  /\ poll = [pc |-> "off", seen |-> Absent]
  /\ upd = [u \in Updaters |-> [pc |-> "idle", n |-> 0, expected |-> 0, doc |-> Defaults, cut |-> FALSE]]
  /\ commits = [c \in Updaters \union {Poller} |-> Quiet]
  /\ prov = [p \in Providers |-> [stage |-> "off", catalog |-> NoDoc, calls |-> 0, quiet |-> FALSE]]
  /\ done = {} /\ overlap = FALSE
  /\ left = [edits |-> MaxEdits, updates |-> MaxUpdates, faults |-> MaxFaults]

Spend(b) == left[b] > 0 /\ left' = [left EXCEPT ![b] = @ - 1]
Active == service.stage \in {"started", "mounted"}

-----------------------------------------------------------------------------
(* The service's lifecycle.                                                 *)

Start ==
  /\ service.stage = "new"
  /\ service' = [service EXCEPT !.stage = "started"]
  /\ UNCHANGED <<file, lock, hash, writeMu, poll, upd, commits, prov, done, overlap, left>>

\* Mount: Load reads and remembers the file, then polling begins.  An invalid
\* file fails the start.
Mount ==
  /\ service.stage = "started" /\ file # Bad
  /\ hash' = file
  /\ service' = [stage |-> "mounted", document |-> Resolve(file), revision |-> 1]
  /\ poll' = [pc |-> "idle", seen |-> Absent]
  /\ UNCHANGED <<file, lock, writeMu, upd, commits, prov, done, overlap, left>>

\* The cleanup of Mount cancels the watch and waits for it; providers started
\* later are stopped earlier.
Unmount ==
  /\ service.stage = "mounted" /\ poll.pc = "idle" /\ commits[Poller] = Quiet
  /\ \A p \in Providers : prov[p].stage \in {"off", "stopped"}
  /\ poll' = [poll EXCEPT !.pc = "off"]
  /\ service' = [service EXCEPT !.stage = "unmounted"]
  /\ UNCHANGED <<file, lock, hash, writeMu, upd, commits, prov, done, overlap, left>>

\* The cleanup of Start: the service is inactive and forgets its watchers.
Stop ==
  /\ service.stage = "unmounted" /\ service' = [service EXCEPT !.stage = "stopped"]
  /\ UNCHANGED <<file, lock, hash, writeMu, poll, upd, commits, prov, done, overlap, left>>

-----------------------------------------------------------------------------
(* commit: publish the document, then call every watcher captured with it.  *)

Watching == {p \in Providers : prov[p].stage = "watching"}

\* Another publication is under way: a poll between its read and its commit,
\* an update between its rename and its commit, callbacks, a provider's start.
Amid(c) ==
  \/ c # Poller /\ poll.pc # "idle"
  \/ \E u \in Updaters \ {c} : upd[u].pc \in {"written", "persisted"}
  \/ \E d \in DOMAIN commits \ {c} : commits[d] # Quiet
  \/ \E p \in Providers : prov[p].stage = "starting"

Commit(c, doc) ==
  /\ overlap' = (overlap \/ Amid(c))
  /\ service' = IF service.stage \in {"mounted", "unmounted"}
                THEN [service EXCEPT !.document = doc, !.revision = @ + 1] ELSE service
  /\ commits' = IF service.stage \in {"mounted", "unmounted"}
                THEN [commits EXCEPT ![c] = IF Watching = {} THEN Quiet ELSE [doc |-> doc, todo |-> Watching, now |-> Nobody]]
                ELSE commits
  /\ prov' = IF service.stage \in {"mounted", "unmounted"}
             THEN [p \in Providers |-> [prov[p] EXCEPT !.calls = @ + (IF p \in Watching THEN 1 ELSE 0)]]
             ELSE prov

\* callWatcher: one callback at a time in the order of a map, that is in any.
Notify(c, p) ==
  /\ p \in commits[c].todo /\ commits[c].now = Nobody
  /\ commits' = [commits EXCEPT ![c].now = p, ![c].todo = @ \ {p}]
  /\ UNCHANGED <<file, lock, hash, service, writeMu, poll, upd, prov, done, overlap, left>>

\* Provider.install is the callback; it is ignored once the provider stopped.
\* Whoever disposes of the watcher goes on when its last callback returned.
Installs(p) == prov[p].stage # "stopped"

Notified(c) ==
  LET p == commits[c].now IN
  /\ p # Nobody
  /\ commits' = [commits EXCEPT ![c] = IF @.todo = {} THEN Quiet ELSE [@ EXCEPT !.now = Nobody]]
  /\ prov' = [prov EXCEPT ![p].catalog = IF Installs(p) THEN commits[c].doc ELSE @, ![p].calls = @ - 1]
  /\ UNCHANGED <<file, lock, hash, service, writeMu, poll, upd, done, overlap, left>>

Returned(c) == commits[c].todo = {} /\ commits[c].now = Nobody

-----------------------------------------------------------------------------
(* A provider: Start installs the current document and then watches; its    *)
(* cleanup disposes of the watch and withdraws the catalog.                 *)

ProviderSnapshot(p) ==
  /\ service.stage = "mounted" /\ prov[p].stage = "off"
  /\ prov' = [prov EXCEPT ![p].stage = "starting", ![p].catalog = service.document]
  /\ UNCHANGED <<file, lock, hash, service, writeMu, poll, upd, commits, done, overlap, left>>

ProviderWatch(p) ==
  /\ prov[p].stage = "starting" /\ Active
  /\ prov' = [prov EXCEPT ![p].stage = "watching"]
  /\ UNCHANGED <<file, lock, hash, service, writeMu, poll, upd, commits, done, overlap, left>>

\* unwatch withdraws the registration at once ...
Unwatch(p) ==
  /\ prov[p].stage = "watching"
  /\ prov' = [prov EXCEPT ![p].stage = "disposing"]
  /\ UNCHANGED <<file, lock, hash, service, writeMu, poll, upd, commits, done, overlap, left>>

\* Mutant: dispose does not wait for callbacks that run.
IdleAtOnce(p) == TRUE

\* ... and returns nil when no callback runs.
Idle(p) == prov[p].calls = 0

Disposed(p) ==
  /\ prov[p].stage = "disposing" /\ Idle(p)
  /\ prov' = [prov EXCEPT ![p].stage = "stopped", ![p].catalog = NoDoc, ![p].quiet = TRUE]
  /\ UNCHANGED <<file, lock, hash, service, writeMu, poll, upd, commits, done, overlap, left>>

\* The cleanup's context ends first: the provider stops all the same.
DisposeTimeout(p) ==
  /\ prov[p].stage = "disposing" /\ ~Idle(p)
  /\ prov' = [prov EXCEPT ![p].stage = "stopped", ![p].catalog = NoDoc]
  /\ UNCHANGED <<file, lock, hash, service, writeMu, poll, upd, commits, done, overlap, left>>

-----------------------------------------------------------------------------
(* Outside this process: an editor, or another harness under the lock.      *)

Edit(content) ==
  /\ Spend("edits")
  /\ file' = content
  /\ UNCHANGED <<lock, hash, service, writeMu, poll, upd, commits, prov, done, overlap>>

OtherLocks ==
  /\ lock = "free" /\ left.edits > 0 /\ lock' = "other"
  /\ UNCHANGED <<file, hash, service, writeMu, poll, upd, commits, prov, done, overlap, left>>

OtherUnlocks ==
  /\ lock = "other" /\ lock' = "free"
  /\ UNCHANGED <<file, hash, service, writeMu, poll, upd, commits, prov, done, overlap, left>>

-----------------------------------------------------------------------------
(* Watch: read, compare with what was remembered, remember, publish.        *)

\* read fails or the document is invalid: only lastErr changes.
PollRead ==
  /\ poll.pc = "idle" /\ Returned(Poller)
  /\ file # Bad
  /\ poll' = [pc |-> "read", seen |-> file]
  /\ UNCHANGED <<file, lock, hash, service, writeMu, upd, commits, prov, done, overlap, left>>

PollChanged ==
  /\ poll.pc = "read"
  /\ poll' = IF poll.seen = hash THEN [pc |-> "idle", seen |-> Absent] ELSE [poll EXCEPT !.pc = "changed"]
  /\ UNCHANGED <<file, lock, hash, service, writeMu, upd, commits, prov, done, overlap, left>>

PollRemember ==
  /\ poll.pc = "changed"
  /\ hash' = poll.seen /\ poll' = [poll EXCEPT !.pc = "publish"]
  /\ UNCHANGED <<file, lock, service, writeMu, upd, commits, prov, done, overlap, left>>

PollPublish ==
  /\ poll.pc = "publish" /\ poll' = [pc |-> "idle", seen |-> Absent]
  /\ Commit(Poller, Resolve(poll.seen))
  /\ UNCHANGED <<file, lock, hash, writeMu, upd, done, left>>

-----------------------------------------------------------------------------
(* Update, as /model uses it: read the revision, then update against it; or *)
(* without an expected revision (zero), against whatever is there.          *)

UpdateRead(u) ==
  /\ upd[u].pc = "idle" /\ Active /\ Spend("updates")
  /\ \E expected \in {0, service.revision} :
       upd' = [upd EXCEPT ![u] = [pc |-> "begin", n |-> MaxUpdates + 1 - left.updates,
                                  expected |-> expected, doc |-> Defaults, cut |-> FALSE]]
  /\ UNCHANGED <<file, lock, hash, service, writeMu, poll, commits, prov, done, overlap>>

Return(u) == [upd EXCEPT ![u] = [@ EXCEPT !.pc = "idle", !.expected = 0, !.doc = Defaults, !.cut = FALSE]]
Failed(u) == upd' = Return(u) /\ done' = done \union {upd[u].n} /\ writeMu' = Nobody

\* Under writeMu: the snapshot, the revision check, the mutation, which it or
\* the validation of its result may refuse.
Expects(u) == upd[u].expected \in {0, service.revision}

UpdateBegin(u) ==
  /\ upd[u].pc = "begin" /\ writeMu = Nobody
  /\ \/ /\ Active /\ Expects(u)
        /\ writeMu' = u /\ UNCHANGED done
        /\ upd' = [upd EXCEPT ![u].pc = "mutated", ![u].doc = [service.document EXCEPT !.upd = upd[u].n]]
     \/ Failed(u)
  /\ UNCHANGED <<file, lock, hash, service, poll, commits, prov, overlap, left>>

\* The provider is looked up after that; once it was, an unmount does not keep
\* Persist from writing.
UpdateProvider(u) ==
  /\ upd[u].pc = "mutated"
  /\ IF service.stage = "mounted"
     THEN upd' = [upd EXCEPT ![u].pc = "locking"] /\ UNCHANGED <<done, writeMu>>
     ELSE Failed(u)
  /\ UNCHANGED <<file, lock, hash, service, poll, commits, prov, overlap, left>>

Cancel(u) ==
  /\ upd[u].pc \in {"begin", "mutated", "locking", "locked", "written"} /\ ~upd[u].cut
  /\ upd' = [upd EXCEPT ![u].cut = TRUE]
  /\ UNCHANGED <<file, lock, hash, service, writeMu, poll, commits, prov, done, overlap, left>>

\* withLock: cancellation, then the attempt; the deadline when it is taken.
PersistLock(u) ==
  /\ upd[u].pc = "locking" /\ ~upd[u].cut /\ lock = "free"
  /\ lock' = u /\ upd' = [upd EXCEPT ![u].pc = "locked"]
  /\ UNCHANGED <<file, hash, service, writeMu, poll, commits, prov, done, overlap, left>>

PersistRefused(u) ==
  /\ upd[u].pc = "locking"
  /\ upd[u].cut \/ lock # "free"
  /\ Failed(u)
  /\ UNCHANGED <<file, lock, hash, service, poll, commits, prov, overlap, left>>

\* Cancellation is checked once more under the lock; then the write runs to
\* its end.  The deferred removal of the lock file runs on every path.
Unlock == lock' = "free"

PersistAborted(u) ==
  /\ upd[u].pc = "locked"
  /\ \/ upd[u].cut /\ UNCHANGED left
     \/ ~upd[u].cut /\ Spend("faults")
  /\ Failed(u) /\ Unlock
  /\ UNCHANGED <<file, hash, service, poll, commits, prov, overlap>>

PersistRename(u) ==
  /\ upd[u].pc = "locked" /\ ~upd[u].cut
  /\ file' = upd[u].doc /\ upd' = [upd EXCEPT ![u].pc = "written"]
  /\ UNCHANGED <<lock, hash, service, writeMu, poll, commits, prov, done, overlap, left>>

PersistRemember(u) ==
  /\ upd[u].pc = "written"
  /\ hash' = upd[u].doc /\ Unlock /\ upd' = [upd EXCEPT ![u].pc = "persisted"]
  /\ UNCHANGED <<file, service, writeMu, poll, commits, prov, done, overlap, left>>

UpdateCommit(u) ==
  /\ upd[u].pc = "persisted"
  /\ Commit(u, upd[u].doc) /\ upd' = [upd EXCEPT ![u].pc = "notifying"]
  /\ UNCHANGED <<file, lock, hash, writeMu, poll, done, left>>

UpdateReturns(u) ==
  /\ upd[u].pc = "notifying" /\ Returned(u)
  /\ upd' = Return(u) /\ writeMu' = Nobody /\ commits' = [commits EXCEPT ![u] = Quiet]
  /\ UNCHANGED <<file, lock, hash, service, poll, prov, done, overlap, left>>

-----------------------------------------------------------------------------
\* An editor changes what it read, which may be older than the file.
Contents == {Absent, Bad} \union {Doc(MaxEdits + 2 - left.edits, n) : n \in {0, file.upd}}

Next ==
  \/ Start \/ Mount \/ Unmount \/ Stop
  \/ \E c \in Updaters \union {Poller} : Notified(c) \/ \E p \in Providers : Notify(c, p)
  \/ \E p \in Providers :
       ProviderSnapshot(p) \/ ProviderWatch(p) \/ Unwatch(p) \/ Disposed(p) \/ DisposeTimeout(p)
  \/ \E content \in Contents : Edit(content)
  \/ OtherLocks \/ OtherUnlocks
  \/ PollRead \/ PollChanged \/ PollRemember \/ PollPublish
  \/ \E u \in Updaters :
       \/ UpdateRead(u) \/ UpdateBegin(u) \/ UpdateProvider(u) \/ Cancel(u)
       \/ PersistLock(u) \/ PersistRefused(u) \/ PersistAborted(u)
       \/ PersistRename(u) \/ PersistRemember(u)
       \/ UpdateCommit(u) \/ UpdateReturns(u)

-----------------------------------------------------------------------------
(* Properties.                                                              *)

\* A provider that stopped holds no catalog, whatever callback still runs;
\* and when dispose returned nil no commit, by the poller or by an update,
\* has a callback of it running or to run (settings.go, unwatch and commit;
\* provider.go, install).
WithdrawnIsQuiet ==
  \A p \in Providers : prov[p].stage = "stopped" =>
    /\ prov[p].catalog = NoDoc
    /\ prov[p].quiet => \A c \in DOMAIN commits : commits[c].now # p /\ p \notin commits[c].todo

\* An Update that returned an error left nothing behind, neither in the file,
\* nor in the remembered hash, nor in memory or a catalog, and no lock file:
\* cancellation, the lock's deadline and a failing write all come before the
\* rename, and nothing fails after it (file.go, withLock and Persist).
FailedUpdateLeavesNothing ==
  /\ \A content \in {file, hash, service.document} \union {prov[p].catalog : p \in Providers} :
       content.upd \notin done
  /\ lock \in Updaters => upd[lock].pc \in {"locked", "written"}

\* When no poll, update or callback is under way and the poller sees nothing
\* new in the file, the service's document is the file's and every watching
\* provider has installed it (provider.go: it "follows validated settings
\* commits"), unless two publications overlapped.  Then they may disagree for
\* good: a poll that read before an update commits after it with the file
\* remembered as the update's, callbacks of two commits run in either order,
\* and a commit between a provider's Snapshot and its Watch passes it by.
CatalogFollows ==
  (/\ ~overlap /\ service.stage = "mounted" /\ poll.pc = "idle" /\ file = hash
   /\ \A c \in DOMAIN commits : Returned(c)
   /\ \A u \in Updaters : upd[u].pc \in {"idle", "begin"}) =>
    /\ service.document = Resolve(file)
    /\ \A p \in Providers : prov[p].stage = "watching" => prov[p].catalog = service.document

\* Settings are published, followed and withdrawn whole.
SettingsKept == WithdrawnIsQuiet /\ FailedUpdateLeavesNothing /\ CatalogFollows
=============================================================================
