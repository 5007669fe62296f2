----------------------------- MODULE FileGuard ------------------------------
(***************************************************************************)
(* The guarded file tools (adapter/tool/file): read records what a session  *)
(* observed of a file; write and edit check that observation before the     *)
(* approval and again under the target's lock, and publish atomically.      *)
(* Other programs change the file meanwhile.                                *)
(*                                                                          *)
(* One target.  A content stands for the whole file and its digest.  The    *)
(* calls of one session that mutate run alone (the tool runtime's barrier); *)
(* reads of a session overlap.                                              *)
(***************************************************************************)
EXTENDS Naturals, FiniteSets

CONSTANTS
  Contents,   \* what the file may hold
  Large,      \* the contents too large to hash in Check
  Sessions,   \* sessions with a mutating call each
  Readers,    \* reads: a session and a number each
  MaxWrites,  \* bound: mutating calls of one session
  MaxOutside, \* bound: changes by other programs
  MaxFaults   \* bound: failed staging writes and removals

Absent == "absent"
Unseen == "unseen"

VARIABLES
  file,     \* the target: Absent or its content
  obs,      \* observations: what each session last learned
  lock,     \* the target's path lock
  op,       \* each session's mutating call
  reads,    \* each read in flight and the content it opened
  staged,   \* sessions whose staging file exists
  stuck,    \* history: sessions whose staging file could not be removed
  raced,    \* history: another program changed the file under this call's check
  left      \* what remains of the bounds

vars == <<file, obs, lock, op, reads, staged, stuck, raced, left>>

Idle == [pc |-> "idle", kind |-> "write", new |-> Absent, exists |-> FALSE, canceled |-> FALSE]

Init ==
  /\ file \in Contents \union {Absent}
  /\ obs = [s \in Sessions |-> Unseen]
  /\ lock = "free"
  /\ op = [s \in Sessions |-> Idle]
  /\ reads = [r \in Readers |-> Unseen]
  /\ staged = {} /\ stuck = {} /\ raced = {}
  /\ left = [writes |-> [s \in Sessions |-> MaxWrites], outside |-> MaxOutside, faults |-> MaxFaults]

At(s, pc) == op' = [op EXCEPT ![s].pc = pc]
Present(o) == o \in Contents
Reading(s) == \E r \in Readers : r[1] = s /\ reads[r] # Unseen

-----------------------------------------------------------------------------
(* read: what was opened is hashed to its end and recorded, without a lock. *)

ReadOpen(r) ==
  /\ reads[r] = Unseen /\ op[r[1]].pc = "idle"
  /\ reads' = [reads EXCEPT ![r] = file]
  /\ UNCHANGED <<file, obs, lock, op, staged, stuck, raced, left>>

ReadRecord(r) ==
  /\ reads[r] # Unseen
  /\ obs' = [obs EXCEPT ![r[1]] = reads[r]] /\ reads' = [reads EXCEPT ![r] = Unseen]
  /\ UNCHANGED <<file, lock, op, staged, stuck, raced, left>>

\* Not text, out of range or cancelled: nothing is recorded.
ReadFails(r) ==
  /\ Present(reads[r]) /\ reads' = [reads EXCEPT ![r] = Unseen]
  /\ UNCHANGED <<file, obs, lock, op, staged, stuck, raced, left>>

-----------------------------------------------------------------------------
(* admitWrite and observedContent: the guard of a mutation.                 *)

\* A file this session has not read is only created; one it has read must
\* still hold what was read.  Check does not hash a large file.
AdmitWrite(s, hashes) ==
  IF Present(obs[s])
  THEN file # Absent /\ (hashes \/ file \notin Large => file = obs[s])
  ELSE file = Absent
ObservedContent(s) == Present(obs[s]) /\ file = obs[s]

\* Mutant: what Check admitted is not looked at again under the lock.
AdmitsOnce(s, kind, hashes) ==
  hashes \/ IF kind = "write" THEN AdmitWrite(s, FALSE) ELSE ObservedContent(s)

Admits(s, kind, hashes) == IF kind = "write" THEN AdmitWrite(s, hashes) ELSE ObservedContent(s)

\* Check, before a person is asked.
Check(s, kind) ==
  /\ op[s].pc = "idle" /\ ~Reading(s) /\ left.writes[s] > 0
  /\ left' = [left EXCEPT !.writes[s] = @ - 1]
  /\ op' = [op EXCEPT ![s] = [Idle EXCEPT !.pc = IF Admits(s, kind, FALSE) THEN "approval" ELSE "idle", !.kind = kind]]
  /\ UNCHANGED <<file, obs, lock, reads, staged, stuck, raced>>

Denied(s) ==
  /\ op[s].pc = "approval" /\ At(s, "idle")
  /\ UNCHANGED <<file, obs, lock, reads, staged, stuck, raced, left>>

\* Execute waits for the target's lock.
Execute(s) ==
  /\ op[s].pc = "approval" /\ lock = "free"
  /\ lock' = s /\ At(s, "admit") /\ raced' = raced \ {s}
  /\ UNCHANGED <<file, obs, reads, staged, stuck, left>>

Return(s) ==
  /\ lock' = "free" /\ op' = [op EXCEPT ![s] = Idle]

\* The guard again, now with the digest; the call keeps whether it replaces.
Admit(s) ==
  /\ op[s].pc = "admit" /\ Admits(s, op[s].kind, TRUE)
  /\ \E c \in Contents :
       /\ op[s].kind = "edit" => c # file
       /\ op' = [op EXCEPT ![s].pc = "stage", ![s].new = c, ![s].exists = file # Absent]
  /\ UNCHANGED <<file, obs, lock, reads, staged, stuck, raced, left>>

\* Stale, not read, or no match for the edit.
Refuse(s) ==
  /\ op[s].pc = "admit" /\ (Admits(s, op[s].kind, TRUE) => op[s].kind = "edit")
  /\ Return(s)
  /\ UNCHANGED <<file, obs, reads, staged, stuck, raced, left>>

-----------------------------------------------------------------------------
(* writeAtomic: stage, look at the context, publish, record.                *)

Stage(s) ==
  /\ op[s].pc = "stage"
  /\ IF op[s].canceled THEN Return(s) /\ UNCHANGED staged
     ELSE staged' = staged \union {s} /\ At(s, "publish") /\ UNCHANGED lock
  /\ UNCHANGED <<file, obs, reads, stuck, raced, left>>

\* An error after staging removes the staging file, if it can.
Unstage(s) ==
  \/ staged' = staged \ {s} /\ UNCHANGED <<stuck, left>>
  \/ /\ left.faults > 0 /\ left' = [left EXCEPT !.faults = @ - 1]
     /\ stuck' = stuck \union {s} /\ UNCHANGED staged

StageFails(s) ==
  /\ op[s].pc = "publish" /\ left.faults > 0
  /\ staged' = staged \ {s} /\ left' = [left EXCEPT !.faults = @ - 1]
  /\ Return(s)
  /\ UNCHANGED <<file, obs, reads, stuck, raced>>

PublishAborted(s) ==
  /\ op[s].pc = "publish" /\ op[s].canceled
  /\ Unstage(s) /\ Return(s)
  /\ UNCHANGED <<file, obs, reads, raced>>

\* A replacement renames over the target, whatever is there by now.
Replace(s) ==
  /\ op[s].pc = "publish" /\ op[s].exists
  /\ file' = op[s].new /\ staged' = staged \ {s} /\ At(s, "record")
  /\ UNCHANGED <<obs, lock, reads, stuck, raced, left>>

\* A creation links, which fails when a file is there by now.
Link(s) ==
  /\ op[s].pc = "publish" /\ ~op[s].exists /\ file = Absent
  /\ file' = op[s].new /\ Unstage(s) /\ At(s, "record")
  /\ UNCHANGED <<obs, lock, reads, raced>>

LinkFails(s) ==
  /\ op[s].pc = "publish" /\ ~op[s].exists /\ file # Absent
  /\ Unstage(s) /\ Return(s)
  /\ UNCHANGED <<file, obs, reads, raced>>

RecordWritten(s) ==
  /\ op[s].pc = "record" /\ obs' = [obs EXCEPT ![s] = op[s].new]
  /\ Return(s)
  /\ UNCHANGED <<file, reads, staged, stuck, raced, left>>

Cancel(s) ==
  /\ op[s].pc # "idle" /\ ~op[s].canceled /\ op' = [op EXCEPT ![s].canceled = TRUE]
  /\ UNCHANGED <<file, obs, lock, reads, staged, stuck, raced, left>>

-----------------------------------------------------------------------------
\* Another program writes or removes the file.
Outside(c) ==
  /\ left.outside > 0 /\ c # file /\ left' = [left EXCEPT !.outside = @ - 1]
  /\ file' = c
  /\ raced' = raced \union {s \in Sessions : op[s].pc \in {"stage", "publish"}}
  /\ UNCHANGED <<obs, lock, op, reads, staged, stuck>>

Next ==
  \/ \E r \in Readers : ReadOpen(r) \/ ReadRecord(r) \/ ReadFails(r)
  \/ \E s \in Sessions : \/ \E kind \in {"write", "edit"} : Check(s, kind)
                         \/ Denied(s) \/ Execute(s) \/ Admit(s) \/ Refuse(s) \/ Stage(s) \/ StageFails(s)
                         \/ PublishAborted(s) \/ Replace(s) \/ Link(s) \/ LinkFails(s) \/ RecordWritten(s) \/ Cancel(s)
  \/ \E c \in Contents \union {Absent} : Outside(c)

-----------------------------------------------------------------------------
\* A call that returned leaves no staging file, unless its removal failed.
StagingGone == \A s \in staged : op[s].pc = "publish" \/ s \in stuck

\* A tool never overwrites what its session has not seen: what a publication
\* replaces is the content the session last read or wrote, unless another
\* program changed the file between the check and the rename; another
\* session's write or edit cannot come in between (observe.go and writeAtomic).
PublishesSeen ==
  \A s \in Sessions : op[s].pc = "publish" /\ op'[s].pc = "record" =>
    file = Absent \/ file = obs[s] \/ (op[s].exists /\ s \in raced)

\* Every step publishes only over what was seen, and leaves no staging file.
FileKept == [][PublishesSeen /\ StagingGone']_vars
=============================================================================
