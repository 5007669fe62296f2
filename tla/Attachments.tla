---------------------------- MODULE Attachments -----------------------------
(***************************************************************************)
(* The attachment store (adapter/attachment): normalized images under their *)
(* content address, written by several processes that share a root.  An     *)
(* object is staged, synced, published by an exclusive hard link, and its   *)
(* directories are synced before a reference is returned.                   *)
(*                                                                          *)
(* One prefix directory.  A power loss keeps what was synced; an entry that *)
(* was not may be gone.  Operations with the same owner share a process.    *)
(***************************************************************************)
EXTENDS Naturals, FiniteSets

CONSTANTS
  Digests,         \* content addresses in the prefix
  Ops,             \* operations of this process: SaveImage, Commit, ReadImage
  Peers,           \* SaveImage calls of other processes
  MaxConversions,  \* maxConversions
  MaxFaults,       \* bound: failing steps, cancellations and damage by others
  MaxLosses        \* bound: power losses

VARIABLES
  prefix,     \* the entry of the prefix directory: "none", "volatile", "durable"
  entry,      \* each object's entry in it
  bytes,      \* what an object's file holds: "good", or "bad" after damage or loss
  store,      \* Store of this process: running, its active operations, stop
  op,         \* the operations
  observer,   \* the observer: stage, its running callbacks, disposed cleanly
  refs,       \* history: the digests a reference was returned for
  damaged,    \* history: the objects somebody else altered or removed
  left        \* what remains of the bounds

vars == <<prefix, entry, bytes, store, op, observer, refs, damaged, left>>

Everyone == Ops \union Peers
NoDigest == "none"
Resting == [pc |-> "idle", digest |-> NoDigest]

Init ==
  /\ prefix = "none" /\ entry = [d \in Digests |-> "none"] /\ bytes = [d \in Digests |-> "good"]
  /\ store = [running |-> TRUE, stop |-> "no", late |-> FALSE]
  /\ op = [k \in Everyone |-> Resting]
  /\ observer = [stage |-> "on", calls |-> 0, quiet |-> FALSE]
  /\ refs = {} /\ damaged = {}
  /\ left = [faults |-> MaxFaults, losses |-> MaxLosses]

Spend(b) == left[b] > 0 /\ left' = [left EXCEPT ![b] = @ - 1]
At(k, pc) == op' = [op EXCEPT ![k].pc = pc]

\* begin and end: Store.active is the number of this process's operations.
Running == {k \in Ops : op[k].pc \notin {"idle", "done"}}
Ends(k) == op' = [op EXCEPT ![k] = [Resting EXCEPT !.pc = "done"]]

-----------------------------------------------------------------------------
(* SaveImage, and Commit of an image prepared before.                       *)

Begin(k, d, pc) ==
  /\ op[k].pc = "idle" /\ (k \in Ops => store.running)
  /\ op' = [op EXCEPT ![k] = [pc |-> pc, digest |-> d]]

SaveImage(k, d) ==
  /\ Begin(k, d, "converting")
  /\ UNCHANGED <<prefix, entry, bytes, store, observer, refs, damaged, left>>

\* Commit verifies that the bytes are those of the reference.
CommitImage(k, d) ==
  /\ k \in Ops /\ Begin(k, d, "publish")
  /\ UNCHANGED <<prefix, entry, bytes, store, observer, refs, damaged, left>>

\* convert waits for one of the conversion tokens.
Converting == {k \in Ops : op[k].pc = "normalizing"}

Convert(k) ==
  /\ op[k].pc = "converting"
  /\ k \in Ops => Cardinality(Converting) < MaxConversions
  /\ At(k, "normalizing")
  /\ UNCHANGED <<prefix, entry, bytes, store, observer, refs, damaged, left>>

\* SaveImage goes on to publish; PrepareFile, which began and converted the
\* same way, returns the bytes and stores nothing.
Normalized(k) ==
  /\ op[k].pc = "normalizing" /\ (At(k, "publish") \/ Ends(k))
  /\ UNCHANGED <<prefix, entry, bytes, store, observer, refs, damaged, left>>

\* The context ends, the image is refused, or a step fails; the staged file is
\* removed.  What was linked stays.
Saving == {"converting", "normalizing", "publish", "staged", "linked", "prefix-synced"}

SaveFails(k) ==
  /\ op[k].pc \in Saving /\ Spend("faults") /\ Ends(k)
  /\ UNCHANGED <<prefix, entry, bytes, store, observer, refs, damaged>>

\* publish: the prefix directory, then the staged file written and synced.
Stage(k) ==
  /\ op[k].pc = "publish" /\ At(k, "staged")
  /\ prefix' = IF prefix = "none" THEN "volatile" ELSE prefix
  /\ UNCHANGED <<entry, bytes, store, observer, refs, damaged, left>>

\* Mutant: an object that was there already is taken to be durable.
LinkTrusted(k) ==
  LET d == op[k].digest IN
  /\ op[k].pc = "staged"
  /\ \/ /\ entry[d] = "none" /\ At(k, "linked")
        /\ entry' = [entry EXCEPT ![d] = "volatile"] /\ bytes' = [bytes EXCEPT ![d] = "good"]
     \/ entry[d] # "none" /\ bytes[d] = "good" /\ At(k, "prefix-synced") /\ UNCHANGED <<entry, bytes>>
     \/ entry[d] # "none" /\ bytes[d] = "bad" /\ Ends(k) /\ UNCHANGED <<entry, bytes>>
  /\ UNCHANGED <<prefix, store, observer, refs, damaged, left>>

\* The exclusive link, or the object that is there is verified and shared.
Link(k) ==
  LET d == op[k].digest IN
  /\ op[k].pc = "staged"
  /\ \/ /\ entry[d] = "none" /\ At(k, "linked")
        /\ entry' = [entry EXCEPT ![d] = "volatile"] /\ bytes' = [bytes EXCEPT ![d] = "good"]
     \/ entry[d] # "none" /\ bytes[d] = "good" /\ At(k, "linked") /\ UNCHANGED <<entry, bytes>>
     \/ entry[d] # "none" /\ bytes[d] = "bad" /\ Ends(k) /\ UNCHANGED <<entry, bytes>>
  /\ UNCHANGED <<prefix, store, observer, refs, damaged, left>>

\* The object is made read-only and the directories are synced, also when the
\* object was shared: whoever linked it may not have come so far.
SyncPrefix(k) ==
  /\ op[k].pc = "linked" /\ At(k, "prefix-synced")
  /\ entry' = [d \in Digests |-> IF entry[d] = "volatile" THEN "durable" ELSE entry[d]]
  /\ UNCHANGED <<prefix, bytes, store, observer, refs, damaged, left>>

Published(k) ==
  /\ op[k].pc = "prefix-synced" /\ Ends(k)
  /\ prefix' = IF prefix = "volatile" THEN "durable" ELSE prefix
  /\ refs' = refs \union {op[k].digest}
  /\ UNCHANGED <<entry, bytes, store, observer, damaged, left>>

-----------------------------------------------------------------------------
(* ReadImage: the bytes are verified against the reference on every read.   *)

ReadImage(k, d) ==
  /\ k \in Ops /\ Begin(k, d, "reading")
  /\ UNCHANGED <<prefix, entry, bytes, store, observer, refs, damaged, left>>

\* readObject and verify.
Verified(d) == prefix # "none" /\ entry[d] # "none" /\ bytes[d] = "good"

\* unavailable captures the registered observers before it calls them.
ReadReturns(k) ==
  LET d == op[k].digest IN
  /\ op[k].pc = "reading"
  /\ \/ Verified(d) /\ Ends(k) /\ UNCHANGED observer
     \/ /\ ~Verified(d)
        /\ IF observer.stage = "on"
           THEN At(k, "notifying") /\ observer' = [observer EXCEPT !.calls = @ + 1]
           ELSE Ends(k) /\ UNCHANGED observer
  /\ UNCHANGED <<prefix, entry, bytes, store, refs, damaged, left>>

Notified(k) ==
  /\ op[k].pc = "notifying" /\ Ends(k)
  /\ observer' = [observer EXCEPT !.calls = @ - 1]
  /\ UNCHANGED <<prefix, entry, bytes, store, refs, damaged, left>>

\* withdraw: the registration at once, then its callbacks.
Withdraw ==
  /\ observer.stage = "on" /\ observer' = [observer EXCEPT !.stage = "withdrawing"]
  /\ UNCHANGED <<prefix, entry, bytes, store, op, refs, damaged, left>>

Withdrawn ==
  /\ observer.stage = "withdrawing"
  /\ \E quiet \in BOOLEAN :
       /\ quiet => observer.calls = 0
       /\ observer' = [observer EXCEPT !.stage = "off", !.quiet = quiet]
  /\ UNCHANGED <<prefix, entry, bytes, store, op, refs, damaged, left>>

-----------------------------------------------------------------------------
(* The store stops; the machine loses power; somebody damages an object.    *)

Stop ==
  /\ store.stop = "no" /\ store' = [store EXCEPT !.running = FALSE, !.stop = "waiting"]
  /\ UNCHANGED <<prefix, entry, bytes, op, observer, refs, damaged, left>>

Stopped ==
  /\ store.stop = "waiting"
  /\ \E late \in BOOLEAN :
       /\ ~late => Running = {}
       /\ store' = [store EXCEPT !.stop = "stopped", !.late = late]
  /\ UNCHANGED <<prefix, entry, bytes, op, observer, refs, damaged, left>>

\* Entries not synced may be lost, and with the prefix everything in it.
PowerLoss ==
  /\ Spend("losses")
  /\ \E keep \in SUBSET Digests, prefixKept \in BOOLEAN :
       /\ prefix = "durable" => prefixKept
       /\ prefix' = IF prefix # "none" /\ prefixKept THEN "durable" ELSE "none"
       /\ entry' = [d \in Digests |->
            IF prefix' # "none" /\ (entry[d] = "durable" \/ (entry[d] = "volatile" /\ d \in keep))
            THEN "durable" ELSE "none"]
  /\ op' = [k \in Everyone |-> [Resting EXCEPT !.pc = "done"]]
  /\ observer' = [stage |-> "off", calls |-> 0, quiet |-> TRUE]
  /\ store' = [running |-> FALSE, stop |-> "stopped", late |-> FALSE]
  /\ UNCHANGED <<bytes, refs, damaged>>

Damage(d) ==
  /\ entry[d] # "none" /\ Spend("faults") /\ damaged' = damaged \union {d}
  /\ \/ entry' = [entry EXCEPT ![d] = "none"] /\ UNCHANGED bytes
     \/ bytes' = [bytes EXCEPT ![d] = "bad"] /\ UNCHANGED entry
  /\ UNCHANGED <<prefix, store, op, observer, refs>>

Next ==
  \/ \E k \in Everyone :
       \/ \E d \in Digests : SaveImage(k, d) \/ CommitImage(k, d) \/ ReadImage(k, d)
       \/ Convert(k) \/ Normalized(k) \/ SaveFails(k) \/ Stage(k) \/ Link(k)
       \/ SyncPrefix(k) \/ Published(k) \/ ReadReturns(k) \/ Notified(k)
  \/ Withdraw \/ Withdrawn \/ Stop \/ Stopped \/ PowerLoss
  \/ \E d \in Digests : Damage(d)

-----------------------------------------------------------------------------
(* Properties.                                                              *)

\* "A returned reference always names durable bytes" (store.go): unless
\* somebody damaged it, the object of every returned reference is there with
\* the right bytes, also after a power loss and when the object was linked by
\* another process that had not synced it.  No callback runs once the observer
\* was withdrawn, and no operation once the store stopped, if those cleanups
\* returned nil.
ReferencesDurable ==
  /\ \A d \in refs \ damaged : prefix # "none" /\ entry[d] # "none" /\ bytes[d] = "good"
  /\ observer.stage = "off" /\ observer.quiet => \A k \in Ops : op[k].pc # "notifying"
  /\ store.stop = "stopped" /\ ~store.late => Running = {}
=============================================================================
