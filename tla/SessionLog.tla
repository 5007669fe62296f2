----------------------------- MODULE SessionLog -----------------------------
(***************************************************************************)
(* One session file and the processes that open it:                        *)
(* internal/adapter/session/jsonl/jsonl.go.  The file is the order state   *)
(* its complete lines fold to and the condition of its tail; each process  *)
(* that has the session open keeps the fold of the events it knows.        *)
(* Appends of one process are serialised by Log.mu; an append is split     *)
(* where a crash can separate the file from memory.                        *)
(***************************************************************************)
EXTENDS SessionOrder

CONSTANTS
    Procs,        \* processes that open the session
    MaxEvents,    \* bound: complete lines of the file (maxSessionBytes)
    MaxFaults     \* bound: failing writes and rollbacks

ASSUME LogAssumption ==
    /\ MaxEvents \in Nat /\ MaxFaults \in Nat
    /\ None \notin Procs /\ "stale" \notin Procs

VARIABLES
    file,      \* the fold of the file's complete lines
    lines,     \* how many there are (Log.size)
    tail,      \* "clean", "torn" (a partial line), "ahead" (a line no writer
               \* acknowledged), "corrupt" (unreadable)
    lock,      \* the lock file: None, the process that made it, or "stale"
    pc,        \* what each process does with the session
    memory,    \* Log.events of each process, folded
    writing,   \* the record each process is appending
    faults,
    acked      \* history: the fold of every record an Append returned

vars == <<file, lines, tail, lock, pc, memory, writing, faults, acked>>

PcStates == {"closed", "locked", "repair", "repairing", "open", "appending"}
NoRecord == Rec(None, 0, 0)

Init ==
    /\ file = Empty /\ lines = 0 /\ tail = "clean" /\ lock = None
    /\ pc = [p \in Procs |-> "closed"] /\ memory = [p \in Procs |-> Empty]
    /\ writing = [p \in Procs |-> NoRecord]
    /\ faults = 0 /\ acked = Empty

Fault == faults < MaxFaults /\ faults' = faults + 1

Moves(p, to) == pc' = [pc EXCEPT ![p] = to]

\* The process no longer has the session open; the Log is forgotten.
Leaves(p) == Moves(p, "closed") /\ memory' = [memory EXCEPT ![p] = Empty]

-----------------------------------------------------------------------------
\* acquireLock: O_CREATE|O_EXCL.
LockFree == lock = None

\* Open: acquire the lock, or return ErrSessionInUse.
Acquire(p) ==
    /\ pc[p] = "closed" /\ LockFree
    /\ lock' = p /\ Moves(p, "locked")
    /\ UNCHANGED <<file, lines, tail, memory, writing, faults, acked>>

\* readSession refuses a torn or unreadable file; Open then gives the lock up.
\* An unacknowledged complete line is read like any other.
Load(p) ==
    /\ pc[p] = "locked"
    /\ IF tail \in {"torn", "corrupt"}
       THEN /\ lock' = None /\ Moves(p, "closed")
            /\ UNCHANGED <<tail, memory, acked>>
       ELSE /\ memory' = [memory EXCEPT ![p] = file] /\ tail' = "clean" /\ acked' = file
            /\ Moves(p, "repair") /\ UNCHANGED lock
    /\ UNCHANGED <<file, lines, writing, faults>>

\* repairInterrupted: append what closes the tail, one record after the other.
Repair(p) ==
    /\ pc[p] = "repair"
    /\ \E r \in RepairRecords(memory[p]) :
          /\ Accepts(memory[p], r) /\ lines < MaxEvents
          /\ writing' = [writing EXCEPT ![p] = r]
    /\ Moves(p, "repairing")
    /\ UNCHANGED <<file, lines, tail, lock, memory, faults, acked>>

\* The tail is closed: Open publishes the log.
Opened(p) ==
    /\ pc[p] = "repair" /\ RepairRecords(memory[p]) = {}
    /\ Moves(p, "open")
    /\ UNCHANGED <<file, lines, tail, lock, memory, writing, faults, acked>>

\* The file is full, or the context of Open is done: the repair stops where
\* it is and the lock is given up.
RepairStops(p) ==
    /\ pc[p] = "repair" /\ RepairRecords(memory[p]) # {}
    /\ lock' = None /\ Leaves(p)
    /\ UNCHANGED <<file, lines, tail, writing, faults, acked>>

\* appendLocked before the write: the order holds and the size allows it.
MayAppend(o, r) == Accepts(o, r) /\ lines < MaxEvents

\* Append of any record by a caller of the open log.
AppendRecord(p, r) ==
    /\ pc[p] = "open" /\ MayAppend(memory[p], r)
    /\ writing' = [writing EXCEPT ![p] = r] /\ Moves(p, "appending")
    /\ UNCHANGED <<file, lines, tail, lock, memory, faults, acked>>

\* Mutant: the log is published after the first record of its repair.
ReturnedEarly(p) == "open"

\* Where the caller of appendLocked goes on.
Returned(p) == IF pc[p] = "appending" THEN "open" ELSE "repair"

\* Write and Sync succeed, then the event is published.  Bytes after a torn or
\* unacknowledged tail make the file unreadable.
Commit(p) ==
    /\ pc[p] \in {"appending", "repairing"}
    /\ LET r == writing[p] IN
          /\ memory' = [memory EXCEPT ![p] = Apply(@, r)]
          /\ acked' = Apply(memory[p], r)
          /\ IF tail = "clean" THEN file' = Apply(file, r) /\ UNCHANGED tail
                               ELSE tail' = "corrupt" /\ UNCHANGED file
    /\ lines' = lines + 1
    /\ writing' = [writing EXCEPT ![p] = NoRecord] /\ Moves(p, Returned(p))
    /\ UNCHANGED <<lock, faults>>

\* What bytes of a failed append can remain in the file: a part of the line
\* or, when only Sync failed, all of it.
Remains(r) ==
    \/ tail' = (IF tail = "clean" THEN "torn" ELSE "corrupt") /\ UNCHANGED <<file, lines>>
    \/ /\ tail' = (IF tail = "clean" THEN "ahead" ELSE "corrupt")
       /\ file' = (IF tail = "clean" THEN Apply(file, r) ELSE file)
       /\ lines' = lines + 1

\* Mutant: the event is published although it is not durable.
FailPublished(p) ==
    /\ pc[p] \in {"appending", "repairing"} /\ Fault
    /\ memory' = [memory EXCEPT ![p] = Apply(@, writing[p])] /\ acked' = Apply(memory[p], writing[p])
    /\ writing' = [writing EXCEPT ![p] = NoRecord] /\ Moves(p, Returned(p))
    /\ UNCHANGED <<file, lines, tail, lock>>

\* Write or Sync fails: rollback truncates to the known length, or fails as
\* well.  An Open that was repairing abandons the log and its lock.
Fail(p) ==
    /\ pc[p] \in {"appending", "repairing"} /\ Fault
    /\ UNCHANGED <<file, lines, tail>> \/ Remains(writing[p])
    /\ writing' = [writing EXCEPT ![p] = NoRecord]
    /\ IF pc[p] = "appending" THEN Moves(p, "open") /\ UNCHANGED <<lock, memory>>
                              ELSE Leaves(p) /\ lock' = None
    /\ UNCHANGED acked

\* Close: the lock file is removed once the file is quiet.
Close(p) ==
    /\ pc[p] = "open"
    /\ lock' = None /\ Leaves(p)
    /\ UNCHANGED <<file, lines, tail, writing, faults, acked>>

\* The process dies: its lock stays, and of a record it was writing nothing,
\* a part or all may have reached the file.
Crash(p) ==
    /\ pc[p] # "closed"
    /\ lock' = "stale" /\ Leaves(p)
    /\ writing' = [writing EXCEPT ![p] = NoRecord]
    /\ \/ UNCHANGED <<file, lines, tail>>
       \/ pc[p] \in {"appending", "repairing"} /\ Remains(writing[p])
    /\ UNCHANGED <<faults, acked>>

\* The operator deletes the lock a crash left behind.
RemoveStale ==
    /\ lock = "stale" /\ lock' = None
    /\ UNCHANGED <<file, lines, tail, pc, memory, writing, faults, acked>>

Next ==
    \/ RemoveStale
    \/ \E p \in Procs :
          \/ Acquire(p) \/ Load(p) \/ Repair(p) \/ Opened(p) \/ RepairStops(p)
          \/ \E r \in Records : AppendRecord(p, r)
          \/ Commit(p) \/ Fail(p) \/ Close(p) \/ Crash(p)

Spec == Init /\ [][Next]_vars

-----------------------------------------------------------------------------
(* Properties.                                                             *)

TypeOK ==
    /\ file \in Orders /\ acked \in Orders /\ memory \in [Procs -> Orders]
    /\ lines \in 0..MaxEvents /\ tail \in {"clean", "torn", "ahead", "corrupt"}
    /\ lock \in Procs \cup {None, "stale"} /\ pc \in [Procs -> PcStates]
    /\ writing \in [Procs -> Records \cup {NoRecord}] /\ faults \in 0..MaxFaults

\* The writer lock is exclusive: two processes never hold the session at
\* once, whatever open, close, failed repair or crash happened before.
SingleWriter == \A p, q \in Procs : pc[p] # "closed" /\ pc[q] # "closed" => p = q

\* Every log the code accepts, in memory or in the file, is coherent: questions
\* and results stay inside their step, steps inside their turn.
LogCoherent == Coherent(file) /\ \A p \in Procs : Coherent(memory[p])

\* repairInterrupted never meets an error of its own making: each record it
\* appends is valid where it stands (a result or a decision carries the step it
\* needs) and is one the log accepts, from every tail a crash or a failed
\* repair can leave.
RepairAccepted == \A p \in Procs : pc[p] = "repair" =>
                      \A r \in RepairRecords(memory[p]) : r \in Records /\ Accepts(memory[p], r)

\* While the tail is clean, the file is what the writer acknowledged, or one
\* record more that is being written or was being written at a crash.
AckedIsDurable ==
    /\ tail = "clean" => file = acked
    /\ tail = "ahead" => \E r \in Records : Accepts(acked, r) /\ file = Apply(acked, r)

\* Opening a session leaves no interrupted tail: the first record appended
\* to a just opened log finds it closed.
OpenedIsClosed ==
    [][\A p \in Procs : pc[p] \notin {"open", "appending"} /\ pc'[p] = "open" => Closed(memory'[p])]_vars
=============================================================================
