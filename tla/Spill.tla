------------------------------- MODULE Spill --------------------------------
(***************************************************************************)
(* The spill store (adapter/spill): tool calls create artifacts in their    *)
(* session's directory while the sweep of this process, and the sweeps of   *)
(* other processes over the same root, delete expired files and prune the   *)
(* directories they emptied.                                                *)
(*                                                                          *)
(* One session directory inside one workspace partition.  Directories are   *)
(* removed by rmdir, which fails on one that is not empty.                  *)
(***************************************************************************)
EXTENDS Naturals, FiniteSets

CONSTANTS
  Calls,     \* tool calls of this process, one artifact each
  OldFiles,  \* expired artifacts of earlier runs
  Others,    \* other processes, one sweep each, of other workspaces
  Attempts,  \* createAttempts
  MaxFaults  \* bound: directories, names, opens, writes, syncs and closes that fail

VARIABLES
  tree,     \* the directories that exist: "partition", "session"
  files,    \* the artifacts in the session directory
  layout,   \* Store.layout: its holder
  store,    \* Store: running, open, what stop is doing, whether it gave up
  call,     \* each call of Create and its artifact
  sweeper,  \* the sweeps: this process's and the others'
  raced,    \* history: the calls under whose hands another process pruned
  left      \* what remains of the bounds

vars == <<tree, files, layout, store, call, sweeper, raced, left>>

Own == "own"
Nobody == "nobody"
Sweepers == {Own} \union Others

Init ==
  /\ tree = IF OldFiles = {} THEN {"partition"} ELSE {"partition", "session"}
  /\ files = OldFiles
  /\ layout = Nobody
  /\ store = [running |-> TRUE, open |-> 0, stop |-> "no", late |-> FALSE]
  /\ call = [k \in Calls |-> [pc |-> "idle", tries |-> 0, spoilt |-> FALSE]]
  /\ sweeper = [s \in Sweepers |-> [pc |-> "start", todo |-> {}, remaining |-> 0]]
  /\ raced = {} /\ left = MaxFaults

Fault == left > 0 /\ left' = left - 1
At(k, pc) == call' = [call EXCEPT ![k].pc = pc]

-----------------------------------------------------------------------------
(* Create: admission, then attempts under the layout lock.                  *)

Create(k) ==
  /\ call[k].pc = "idle" /\ store.running
  /\ store' = [store EXCEPT !.open = @ + 1] /\ At(k, "attempt")
  /\ UNCHANGED <<tree, files, layout, sweeper, raced, left>>

\* Create after stop: ErrClosed.
CreateClosed(k) ==
  /\ call[k].pc = "idle" /\ ~store.running /\ At(k, "refused")
  /\ UNCHANGED <<tree, files, layout, store, sweeper, raced, left>>

Attempt(k) ==
  /\ call[k].pc = "attempt" /\ layout = Nobody
  /\ layout' = k /\ call' = [call EXCEPT ![k].pc = "partition", ![k].tries = @ + 1]
  /\ UNCHANGED <<tree, files, store, sweeper, raced, left>>

\* preparePrivate: MkdirAll makes the partition, then the session directory
\* in it, then the directory is inspected.
MakePartition(k) ==
  /\ call[k].pc = "partition" /\ tree' = tree \union {"partition"} /\ At(k, "session")
  /\ UNCHANGED <<files, layout, store, sweeper, raced, left>>

MakeSession(k) ==
  /\ call[k].pc = "session" /\ "partition" \in tree
  /\ tree' = tree \union {"session"} /\ At(k, "inspect")
  /\ UNCHANGED <<files, layout, store, sweeper, raced, left>>

Inspect(k) ==
  /\ call[k].pc = "inspect" /\ "session" \in tree /\ At(k, "open")
  /\ UNCHANGED <<tree, files, layout, store, sweeper, raced, left>>

\* release: the last artifact to close lets stop go on.
Release == store' = [store EXCEPT !.open = @ - 1]

\* errDirectory: the directory vanished before it was inspected; Create does
\* not try again.
DirectoryFails(k) ==
  /\ \/ call[k].pc = "session" /\ "partition" \notin tree
     \/ call[k].pc = "inspect" /\ "session" \notin tree
  /\ layout' = Nobody /\ Release /\ At(k, "failed")
  /\ UNCHANGED <<tree, files, sweeper, raced, left>>

Open(k) ==
  /\ call[k].pc = "open" /\ "session" \in tree
  /\ files' = files \union {k} /\ layout' = Nobody /\ At(k, "writing")
  /\ UNCHANGED <<tree, store, sweeper, raced, left>>

\* The directory vanished before the exclusive create: another attempt.
OpenFails(k) ==
  /\ call[k].pc = "open" /\ "session" \notin tree /\ layout' = Nobody
  /\ IF call[k].tries < Attempts THEN At(k, "attempt") /\ UNCHANGED store
                                 ELSE At(k, "failed") /\ Release
  /\ UNCHANGED <<tree, files, sweeper, raced, left>>

\* The random name is taken: another attempt, as long as there is one.
NameTaken(k) ==
  /\ call[k].pc = "open" /\ call[k].tries < Attempts /\ Fault
  /\ layout' = Nobody /\ At(k, "attempt")
  /\ UNCHANGED <<tree, files, store, sweeper, raced>>

\* Any other error of the random source, a directory or the open, or the last
\* name taken: Create gives up.
CreateFails(k) ==
  /\ call[k].pc \in {"attempt", "partition", "session", "inspect", "open"} /\ Fault
  /\ layout' = IF call[k].pc = "attempt" THEN layout ELSE Nobody
  /\ Release /\ At(k, "broken")
  /\ UNCHANGED <<tree, files, sweeper, raced>>

\* Write fails, or passes the size limit: the artifact is spoilt.
WriteFails(k) ==
  /\ call[k].pc = "writing" /\ ~call[k].spoilt /\ Fault
  /\ call' = [call EXCEPT ![k].spoilt = TRUE]
  /\ UNCHANGED <<tree, files, layout, store, sweeper, raced>>

\* Commit: sync, close, hand out the locator.  A failure removes the file.
Commit(k) ==
  /\ call[k].pc = "writing" /\ ~call[k].spoilt
  /\ At(k, "committed") /\ Release
  /\ UNCHANGED <<tree, files, layout, sweeper, raced, left>>

CommitFails(k) ==
  /\ call[k].pc = "writing"
  /\ IF call[k].spoilt THEN UNCHANGED left ELSE Fault
  /\ files' = files \ {k} /\ At(k, "discarded") /\ Release
  /\ UNCHANGED <<tree, layout, sweeper, raced>>

\* Discard: the caller's call ended without the artifact.
Discard(k) ==
  /\ call[k].pc = "writing"
  /\ files' = files \ {k} /\ At(k, "discarded") /\ Release
  /\ UNCHANGED <<tree, layout, sweeper, raced, left>>

-----------------------------------------------------------------------------
(* sweep: list, delete what expired, prune what was emptied.                *)

\* A cancelled sweep of this process stops at its next entry.
Cancelled(s) == s = Own /\ store.stop \in {"cancelled", "stopped"}

SweepList(s) ==
  /\ sweeper[s].pc = "start" /\ ~Cancelled(s)
  /\ sweeper' = [sweeper EXCEPT ![s] =
       IF "session" \in tree
       THEN [pc |-> "files", todo |-> files, remaining |-> Cardinality(files)]
       ELSE [pc |-> "workspace", todo |-> {}, remaining |-> 0]]
  /\ UNCHANGED <<tree, files, layout, store, call, raced, left>>

\* lstat and remove one listed file: only what was modified before the cutoff.
Expired(f) == f \in OldFiles

SweepFile(s) ==
  /\ sweeper[s].pc = "files"
  /\ \E f \in sweeper[s].todo :
       LET removed == f \in files /\ Expired(f) IN
       /\ files' = IF removed THEN files \ {f} ELSE files
       /\ sweeper' = [sweeper EXCEPT ![s].todo = @ \ {f}, ![s].remaining = @ - (IF removed THEN 1 ELSE 0)]
  /\ ~Cancelled(s)
  /\ UNCHANGED <<tree, layout, store, call, raced, left>>

\* The calls of this process that are between their first mkdir and their open.
InCreate == {k \in Calls : call[k].pc \in {"session", "inspect", "open"}}

\* prune removes the directory, which fails unless it is empty; this process's
\* sweep holds the layout lock, another's does not.
Emptied(s) == sweeper[s].remaining = 0

\* Mutant: this process prunes without the layout lock.
AdmitsAlways(s) == TRUE

Admits(s) == s = Own => layout = Nobody

SweepPrune(s) ==
  /\ sweeper[s].pc = "files" /\ sweeper[s].todo = {} /\ ~Cancelled(s)
  /\ IF Emptied(s)
     THEN /\ Admits(s)
          /\ IF files = {} /\ "session" \in tree
             THEN /\ tree' = tree \ {"session"}
                  /\ raced' = IF s = Own THEN raced ELSE raced \union InCreate
                  /\ sweeper' = [sweeper EXCEPT ![s].pc = "workspace"]
             ELSE UNCHANGED <<tree, raced>> /\ sweeper' = [sweeper EXCEPT ![s].pc = "done"]
     ELSE UNCHANGED <<tree, raced>> /\ sweeper' = [sweeper EXCEPT ![s].pc = "done"]
  /\ UNCHANGED <<files, layout, store, call, left>>

\* A partition that is not this process's own is removed once it is empty.
SweepWorkspace(s) ==
  /\ sweeper[s].pc = "workspace"
  /\ IF s # Own /\ tree = {"partition"}
     THEN tree' = {} /\ raced' = raced \union InCreate
     ELSE UNCHANGED <<tree, raced>>
  /\ sweeper' = [sweeper EXCEPT ![s].pc = "done"]
  /\ UNCHANGED <<files, layout, store, call, left>>

SweepCancelled ==
  /\ Cancelled(Own) /\ sweeper[Own].pc \in {"start", "files"}
  /\ sweeper' = [sweeper EXCEPT ![Own].pc = "done"]
  /\ UNCHANGED <<tree, files, layout, store, call, raced, left>>

-----------------------------------------------------------------------------
(* The cleanup: refuse new artifacts, wait for the open ones, join the sweep. *)

Stop ==
  /\ store.stop = "no" /\ store' = [store EXCEPT !.running = FALSE, !.stop = "draining"]
  /\ UNCHANGED <<tree, files, layout, call, sweeper, raced, left>>

Drained == store.open = 0

StopDrained ==
  /\ store.stop = "draining" /\ Drained
  /\ store' = [store EXCEPT !.stop = "cancelled"]
  /\ UNCHANGED <<tree, files, layout, call, sweeper, raced, left>>

\* The cleanup's context ends first: the sweep is stopped all the same.
StopTimeout ==
  /\ store.stop = "draining" /\ ~Drained
  /\ store' = [store EXCEPT !.stop = "cancelled", !.late = TRUE]
  /\ UNCHANGED <<tree, files, layout, call, sweeper, raced, left>>

StopJoined ==
  /\ store.stop = "cancelled" /\ sweeper[Own].pc = "done"
  /\ store' = [store EXCEPT !.stop = "stopped"]
  /\ UNCHANGED <<tree, files, layout, call, sweeper, raced, left>>

Next ==
  \/ \E k \in Calls :
       \/ Create(k) \/ CreateClosed(k) \/ Attempt(k) \/ MakePartition(k) \/ MakeSession(k)
       \/ Inspect(k) \/ DirectoryFails(k) \/ Open(k) \/ OpenFails(k) \/ NameTaken(k) \/ CreateFails(k)
       \/ WriteFails(k) \/ Commit(k) \/ CommitFails(k) \/ Discard(k)
  \/ \E s \in Sweepers : SweepList(s) \/ SweepFile(s) \/ SweepPrune(s) \/ SweepWorkspace(s)
  \/ SweepCancelled \/ Stop \/ StopDrained \/ StopTimeout \/ StopJoined

-----------------------------------------------------------------------------
(* Properties.                                                              *)

\* A locator handed out names a file of a directory that exists, whatever
\* sweeps run; a create finds its directory gone only when another process
\* pruned it, never through this process's own sweep; and when the cleanup
\* returned nil no call of this process has a file half written and no sweep of it
\* runs (store.go, createIn and stop; sweep.go, prune).
SpillKept ==
  /\ \A k \in Calls :
       /\ call[k].pc \in {"writing", "committed"} => k \in files
       /\ call[k].pc = "failed" => k \in raced
       /\ store.stop = "stopped" /\ ~store.late =>
            call[k].pc \in {"idle", "refused", "failed", "broken", "committed", "discarded"}
  /\ files # {} => tree = {"partition", "session"}
  /\ store.stop = "stopped" => sweeper[Own].pc = "done"
=============================================================================
