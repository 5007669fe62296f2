-------------------------- MODULE SessionLogProofs --------------------------
(***************************************************************************)
(* Proofs about SessionLog for every set of processes, calls, questions    *)
(* and compactions, every length of the file and any number of faults.     *)
(*                                                                         *)
(* Two facts about the order rules alone carry the argument: an accepted   *)
(* record keeps a coherent order coherent (AcceptedCoherent), and every    *)
(* record the repair appends to a coherent order is valid and accepted     *)
(* (RepairValid).  The inductive invariant Inv adds who holds the lock and *)
(* how the file, the memory of the writer and the acknowledged records     *)
(* relate at each of the writer's control points.                          *)
(***************************************************************************)
EXTENDS SessionLog, TLAPS

-----------------------------------------------------------------------------
(* The records.                                                            *)

\* What a record's type says about its other fields.
Shaped(r) ==
    /\ r.turn \in 0..MaxTurn /\ r.step \in 0..MaxStep
    /\ r.type = "turn/start" => r.turn # 0
    /\ r.type = "step/start" => r.step # 0 /\ r.turn # 0
    /\ r.type \in {"tool/call", "tool/result", "tool/success", "todo/write"} =>
           r.id \in Calls /\ r.step # 0
    /\ r.type = "approval/asked" => r.id \in Asks /\ r.call \in Calls
    /\ r.type = "subagent/catalog" => r.id \in Children
    /\ r.type = "compaction/start" => r.id \in Compactions

\* Every record has the fields its type requires.
LEMMA RecordsShaped == \A r \in Records : Shaped(r)
<1> USE OrderAssumption
<1>1. \A r \in TurnRecords(1..MaxTurn) : Shaped(r)
  BY DEF TurnRecords, Shaped, Rec, RecOf
<1>2. \A r \in BareRecords(1..MaxTurn, 1..MaxStep) : Shaped(r)
  BY DEF BareRecords, Shaped, Rec
<1>3. \A r \in CallRecords(1..MaxTurn, 1..MaxStep) : Shaped(r)
  BY DEF CallRecords, Shaped, RecOf, AskOf
<1>4. \A r \in SurfaceRecords(1..MaxTurn) : Shaped(r)
  BY DEF SurfaceRecords, Shaped, Rec, RecOf
<1> QED
  BY <1>1, <1>2, <1>3, <1>4 DEF Records

\* The bounds of the instance, kept by every accepted record.
Bounded(o) == o.lastTurn \in 0..MaxTurn /\ o.lastStep \in 0..MaxStep

Sound(o) == o \in Orders /\ Coherent(o) /\ Bounded(o)

\* The empty log is sound.
LEMMA EmptySound == Sound(Empty)
  BY OrderAssumption, SMTT(30) DEF Sound, Empty, Orders, Coherent, Bounded

\* The types of the records that change what the log knows.
Changing == {"turn/start", "turn/end", "step/start", "step/end", "assistant/message", "tool/call",
             "tool/result", "tool/success", "approval/asked", "approval/decided", "todo/write",
             "subagent/catalog", "compaction/start", "compaction/end", "plan/on", "plan/off"}

\* What the log knows after an accepted record is an order state.
LEMMA ApplyType ==
    ASSUME NEW o \in Orders, NEW r \in Records
    PROVE  Apply(o, r) \in Orders
<1> USE OrderAssumption DEF Apply, Orders, Shaped
<1>1. Shaped(r)
  BY RecordsShaped
<1>2. CASE r.type = "turn/start"
  <2>1. r.turn \in Nat
    BY <1>1
  <2> DEFINE t == [o EXCEPT !.turn = r.turn, !.lastTurn = r.turn, !.lastStep = 0]
  <2>2. t \in Orders
    BY <2>1
  <2>3. Apply(o, r) = [t EXCEPT !.assistant = FALSE]
    BY <1>2
  <2> HIDE DEF t, Apply
  <2>4. [t EXCEPT !.assistant = FALSE] \in Orders
    BY <2>2
  <2> QED
    BY <2>3, <2>4
<1>3. CASE r.type = "turn/end"
  BY <1>3
<1>4. CASE r.type = "step/start"
  <2>1. r.step \in Nat
    BY <1>1
  <2> DEFINE t == [o EXCEPT !.step = r.step, !.lastStep = r.step]
  <2>2. t \in Orders
    BY <2>1
  <2>3. Apply(o, r) = [t EXCEPT !.assistant = FALSE]
    BY <1>4
  <2> HIDE DEF t, Apply
  <2>4. [t EXCEPT !.assistant = FALSE] \in Orders
    BY <2>2
  <2> QED
    BY <2>3, <2>4
<1>5. CASE r.type = "step/end"
  BY <1>5
<1>6. CASE r.type = "assistant/message"
  BY <1>6
<1>7. CASE r.type = "tool/call"
  BY <1>1, <1>7
<1>8. CASE r.type \in {"tool/result", "tool/success"}
  BY <1>8
<1>9. CASE r.type = "approval/asked"
  <2>1. <<r.id, r.call>> \in Asks \X Calls /\ r.id \in Asks
    BY <1>1, <1>9
  <2>2. Apply(o, r) = [o EXCEPT !.asked = @ \cup {<<r.id, r.call>>}, !.seen = @ \cup {r.id}]
    BY <1>9
  <2>3. o.asked \cup {<<r.id, r.call>>} \in SUBSET (Asks \X Calls) /\ o.seen \cup {r.id} \in SUBSET Asks
    BY <2>1
  <2> QED
    BY <2>2, <2>3, ZenonT(60)
<1>10. CASE r.type = "approval/decided"
  BY <1>10
<1>11. CASE r.type = "todo/write"
  BY <1>1, <1>11
<1>12. CASE r.type = "subagent/catalog"
  BY <1>1, <1>12
<1>13. CASE r.type = "compaction/start"
  BY <1>1, <1>13
<1>14. CASE r.type = "compaction/end"
  BY <1>14
<1>15. CASE r.type \in {"plan/on", "plan/off"}
  BY <1>15
<1>16. CASE r.type \notin Changing
  BY <1>16 DEF Changing
<1> QED
  BY <1>2, <1>3, <1>4, <1>5, <1>6, <1>7, <1>8, <1>9, <1>10, <1>11, <1>12, <1>13, <1>14, <1>15,
     <1>16 DEF Changing

\* An accepted record keeps a coherent order coherent.
LEMMA AcceptedCoherent ==
    ASSUME NEW o \in Orders, NEW r \in Records, Accepts(o, r), Coherent(o)
    PROVE  Coherent(Apply(o, r))
<1> USE OrderAssumption DEF Apply, Orders, Shaped, Coherent
<1>1. Shaped(r)
  BY RecordsShaped
<1>2. CASE r.type = "turn/start"
  BY <1>1, <1>2, ZenonT(60) DEF Accepts, AcceptsTurn, AcceptsStep, AcceptsCall, AcceptsCompaction
<1>3. CASE r.type = "turn/end"
  BY <1>3 DEF Accepts, AcceptsTurn, AcceptsStep, AcceptsCall, AcceptsCompaction, Between
<1>4. CASE r.type = "step/start"
  <2>1. o.step = 0 /\ o.turn # 0 /\ o.turn \in {0, o.lastTurn}
    BY <1>1, <1>4 DEF Accepts, AcceptsTurn, AcceptsStep, AcceptsCall, AcceptsCompaction, Between
  <2>2. o.calls = {} /\ o.asked = {} /\ o.todos = {}
    BY <2>1
  <2> QED
    BY <1>4, <2>1, <2>2
<1>5. CASE r.type = "step/end"
  BY <1>5 DEF Accepts, AcceptsTurn, AcceptsStep, AcceptsCall, AcceptsCompaction, StepMayEnd
<1>6. CASE r.type = "assistant/message"
  BY <1>6
<1>7. CASE r.type = "tool/call"
  BY <1>1, <1>7 DEF Accepts, AcceptsTurn, AcceptsStep, AcceptsCall, AcceptsCompaction, InStep
<1>8. CASE r.type \in {"tool/result", "tool/success"}
  BY <1>8 DEF Accepts, AcceptsTurn, AcceptsStep, AcceptsCall, AcceptsCompaction, ResultMayFollow
<1>9. CASE r.type = "approval/asked"
  <2>1. r.call \in o.calls
    BY <1>9 DEF Accepts, AcceptsTurn, AcceptsStep, AcceptsCall, AcceptsCompaction
  <2>2. \A q \in o.asked \cup {<<r.id, r.call>>} : q[2] \in o.calls /\ q[1] \in o.seen \cup {r.id}
    BY <2>1
  <2>3. Apply(o, r) = [o EXCEPT !.asked = @ \cup {<<r.id, r.call>>}, !.seen = @ \cup {r.id}]
    BY <1>9
  <2> DEFINE a == Apply(o, r)
  <2> HIDE DEF Apply, Shaped
  <2>4. /\ a.turn = o.turn /\ a.lastTurn = o.lastTurn /\ a.step = o.step /\ a.lastStep = o.lastStep
        /\ a.calls = o.calls /\ a.todos = o.todos
        /\ a.asked = o.asked \cup {<<r.id, r.call>>} /\ a.seen = o.seen \cup {r.id}
    BY <2>3
  <2> HIDE DEF a
  <2>5. Coherent(a)
    BY <2>2, <2>4
  <2> QED
    BY <2>5 DEF a
<1>10. CASE r.type = "approval/decided"
  BY <1>10
<1>11. CASE r.type = "todo/write"
  BY <1>11, SMTT(30) DEF Accepts, AcceptsTurn, AcceptsStep, AcceptsCall, AcceptsCompaction
<1>12. CASE r.type \in {"subagent/catalog", "compaction/start", "compaction/end"}
  BY <1>12
<1>13. CASE r.type \in {"plan/on", "plan/off"}
  BY <1>13, SMTT(30)
<1>14. CASE r.type \notin Changing
  BY <1>14 DEF Changing
<1> QED
  BY <1>2, <1>3, <1>4, <1>5, <1>6, <1>7, <1>8, <1>9, <1>10, <1>11, <1>12, <1>13, <1>14 DEF Changing

\* Accepting a record keeps a sound log sound.
LEMMA AcceptedSound ==
    ASSUME NEW o, NEW r \in Records, Sound(o), Accepts(o, r)
    PROVE  Sound(Apply(o, r))
<1>1. Shaped(r)
  BY RecordsShaped
<1>2. Bounded(Apply(o, r))
  BY <1>1, OrderAssumption DEF Sound, Apply, Orders, Shaped, Bounded
<1> QED
  BY <1>2, ApplyType, AcceptedCoherent DEF Sound

\* The repair: each record it may append next is valid and accepted.
LEMMA RepairValid ==
    ASSUME NEW o, Sound(o), NEW r \in RepairRecords(o)
    PROVE  r \in Records /\ Accepts(o, r)
<1> USE OrderAssumption, NamesAssumption DEF Sound, Orders, Coherent, Bounded
<1>1. o.turn \in 0..MaxTurn /\ o.step \in 0..MaxStep /\ (o.step # 0 => o.turn \in 1..MaxTurn)
  OBVIOUS
<1>2. CASE o.asked # {}
  <2>1. PICK q \in o.asked : r = RecOf("approval/decided", o.turn, o.step, q[1])
    BY <1>2 DEF RepairRecords
  <2>2. q[1] \in Asks /\ q[2] \in o.calls /\ o.turn \in 1..MaxTurn /\ o.step \in 1..MaxStep
    BY <1>1
  <2>3. r \in CallRecords(1..MaxTurn, 1..MaxStep)
    BY <2>1, <2>2 DEF CallRecords
  <2>4. AcceptsCall(o, r)
    BY <2>1 DEF AcceptsCall, RecOf, InStep
  <2> QED
    BY <2>3, <2>4 DEF Records, Accepts
<1>3. CASE o.asked = {} /\ o.calls # {}
  <2>1. PICK c \in o.calls : r = RecOf("tool/result", o.turn, o.step, c)
    BY <1>3 DEF RepairRecords
  <2>2. c \in Calls /\ o.turn \in 1..MaxTurn /\ o.step \in 1..MaxStep
    BY <1>1
  <2>3. r \in CallRecords(1..MaxTurn, 1..MaxStep)
    BY <2>1, <2>2 DEF CallRecords
  <2>4. AcceptsCall(o, r)
    BY <2>1, <1>3 DEF AcceptsCall, RecOf, InStep, ResultMayFollow
  <2> QED
    BY <2>3, <2>4 DEF Records, Accepts
<1>4. CASE o.asked = {} /\ o.calls = {} /\ o.compaction # None
  <2>1. r = RecOf("compaction/end", o.turn, 0, o.compaction)
    BY <1>4 DEF RepairRecords
  <2>2. o.turn \in 1..MaxTurn \cup {0} /\ o.compaction \in Compactions
    BY <1>1, <1>4
  <2>3. r \in SurfaceRecords(1..MaxTurn)
    BY <2>1, <2>2 DEF SurfaceRecords
  <2>4. AcceptsCompaction(o, r)
    BY <2>1 DEF AcceptsCompaction, RecOf
  <2> QED
    BY <2>3, <2>4 DEF Records, Accepts
<1>5. CASE o.asked = {} /\ o.calls = {} /\ o.compaction = None /\ o.step # 0
  <2>1. r = Rec("step/end", o.turn, o.step)
    BY <1>5 DEF RepairRecords
  <2>2. o.turn \in 1..MaxTurn /\ o.step \in 1..MaxStep
    BY <1>1, <1>5
  <2>3. r \in BareRecords(1..MaxTurn, 1..MaxStep)
    BY <2>1, <2>2 DEF BareRecords
  <2>4. AcceptsStep(o, r)
    BY <2>1, <1>5 DEF AcceptsStep, Rec, InStep, StepMayEnd
  <2> QED
    BY <2>3, <2>4 DEF Records, Accepts
<1>6. CASE o.asked = {} /\ o.calls = {} /\ o.compaction = None /\ o.step = 0
  <2>1. o.turn # 0 /\ r = RecOf("turn/end", o.turn, 0, "other")
    BY <1>6 DEF RepairRecords
  <2>2. o.turn \in 1..MaxTurn
    BY <1>1, <2>1
  <2>3. r \in TurnRecords(1..MaxTurn)
    BY <2>1, <2>2 DEF TurnRecords
  <2>4. AcceptsTurn(o, r)
    BY <2>1, <1>6 DEF AcceptsTurn, RecOf, Between
  <2> QED
    BY <2>3, <2>4 DEF Records, Accepts
<1> QED
  BY <1>2, <1>3, <1>4, <1>5, <1>6

\* When nothing is left to append, the log is closed.
LEMMA RepairedIsClosed ==
    ASSUME NEW o, RepairRecords(o) = {}
    PROVE  Closed(o)
<1>1. o.asked = {} /\ o.calls = {}
  <2>1. CASE o.asked # {}
    <3>1. PICK q \in o.asked : TRUE
      BY <2>1
    <3>2. RecOf("approval/decided", o.turn, o.step, q[1]) \in RepairRecords(o)
      BY <2>1, <3>1 DEF RepairRecords
    <3> QED
      BY <3>2
  <2>2. CASE o.asked = {} /\ o.calls # {}
    <3>1. PICK c \in o.calls : TRUE
      BY <2>2
    <3>2. RecOf("tool/result", o.turn, o.step, c) \in RepairRecords(o)
      BY <2>2, <3>1 DEF RepairRecords
    <3> QED
      BY <3>2
  <2> QED
    BY <2>1, <2>2
<1> QED
  BY <1>1 DEF RepairRecords, Closed

-----------------------------------------------------------------------------
(* The inductive invariant.                                                *)

Typed ==
    /\ lines \in 0..MaxEvents /\ tail \in {"clean", "torn", "ahead", "corrupt"}
    /\ lock \in Procs \cup {None, "stale"} /\ pc \in [Procs -> PcStates]
    /\ memory \in [Procs -> Orders]
    /\ writing \in [Procs -> Records \cup {NoRecord}] /\ faults \in 0..MaxFaults

\* Whoever has the session open made the lock file.
HoldsLock == \A p \in Procs : pc[p] # "closed" => lock = p

\* The fold of every log is sound, and the writer knows what it acknowledged.
Agrees ==
    /\ Sound(file) /\ Sound(acked) /\ \A p \in Procs : Sound(memory[p])
    /\ \A p \in Procs : pc[p] \in {"repair", "repairing", "open", "appending"} => memory[p] = acked

\* A record being written was accepted and fits.
Writes == \A p \in Procs : pc[p] \in {"repairing", "appending"} =>
              writing[p] \in Records /\ Accepts(memory[p], writing[p]) /\ lines < MaxEvents

Inv == Typed /\ HoldsLock /\ Agrees /\ Writes /\ AckedIsDurable

\* An empty file with no process satisfies the invariant.
LEMMA InvInit == Init => Inv
<1> SUFFICES ASSUME Init PROVE Inv
  OBVIOUS
<1>1. Typed
  BY LogAssumption, EmptySound DEF Init, Typed, PcStates, Sound
<1>2. HoldsLock /\ Agrees /\ Writes /\ AckedIsDurable
  BY EmptySound DEF Init, HoldsLock, Agrees, Writes, AckedIsDurable
<1> QED
  BY <1>1, <1>2 DEF Inv

\* A process alone holds the session.
LEMMA Alone ==
    ASSUME Inv, NEW p \in Procs, pc[p] # "closed"
    PROVE  \A q \in Procs : q # p => pc[q] = "closed"
  BY DEF Inv, HoldsLock

\* The record being written leads from what was acknowledged to a sound order.
LEMMA WrittenSound ==
    ASSUME Inv, NEW p \in Procs, pc[p] \in {"appending", "repairing"}
    PROVE  /\ memory[p] = acked /\ writing[p] \in Records /\ Accepts(acked, writing[p])
           /\ lines < MaxEvents /\ Sound(Apply(acked, writing[p]))
<1>1. memory[p] = acked /\ Sound(acked)
  BY DEF Inv, Agrees
<1>2. writing[p] \in Records /\ Accepts(acked, writing[p]) /\ lines < MaxEvents
  BY <1>1 DEF Inv, Writes
<1> QED
  BY <1>1, <1>2, AcceptedSound

\* Bytes of a failed append leave a sound file, at most one record ahead.
LEMMA RemainsSafe ==
    ASSUME Inv, NEW p \in Procs, pc[p] \in {"appending", "repairing"}, Remains(writing[p]),
           UNCHANGED acked
    PROVE  /\ Sound(file') /\ lines' \in 0..MaxEvents /\ AckedIsDurable'
           /\ tail' \in {"clean", "torn", "ahead", "corrupt"}
<1>1. /\ writing[p] \in Records /\ Accepts(acked, writing[p]) /\ lines < MaxEvents
      /\ Sound(Apply(acked, writing[p]))
  BY WrittenSound
<1>2. lines \in 0..MaxEvents /\ MaxEvents \in Nat /\ Sound(file) /\ (tail = "clean" => file = acked)
      /\ tail \in {"clean", "torn", "ahead", "corrupt"}
  BY LogAssumption DEF Inv, Typed, Agrees, AckedIsDurable
<1>3. CASE tail' = (IF tail = "clean" THEN "torn" ELSE "corrupt") /\ UNCHANGED <<file, lines>>
  BY <1>2, <1>3 DEF AckedIsDurable
<1>4. CASE /\ tail' = (IF tail = "clean" THEN "ahead" ELSE "corrupt")
           /\ file' = (IF tail = "clean" THEN Apply(file, writing[p]) ELSE file)
           /\ lines' = lines + 1
  <2>1. lines' \in 0..MaxEvents /\ tail' \in {"ahead", "corrupt"} /\ Sound(file')
    BY <1>1, <1>2, <1>4
  <2>2. tail' = "ahead" => file' = Apply(acked, writing[p])
    BY <1>2, <1>4
  <2>3. AckedIsDurable'
    BY <1>1, <2>1, <2>2 DEF AckedIsDurable
  <2> QED
    BY <2>1, <2>3
<1> QED
  BY <1>3, <1>4 DEF Remains

\* A process that leaves the session keeps the invariant of the others.
LEMMA LeavesSafe ==
    ASSUME Inv, NEW p \in Procs, pc[p] # "closed", Leaves(p)
    PROVE  /\ pc' = [q \in Procs |-> "closed"] /\ memory' \in [Procs -> Orders]
           /\ \A q \in Procs : Sound(memory'[q])
<1>1. pc \in [Procs -> PcStates] /\ memory \in [Procs -> Orders] /\ \A q \in Procs : Sound(memory[q])
  BY DEF Inv, Typed, Agrees
<1>2. pc' = [pc EXCEPT ![p] = "closed"] /\ memory' = [memory EXCEPT ![p] = Empty]
  BY DEF Leaves, Moves
<1>3. pc' = [q \in Procs |-> "closed"]
  BY <1>1, <1>2, Alone
<1>4. \A q \in Procs : memory'[q] = memory[q] \/ memory'[q] = Empty
  BY <1>1, <1>2
<1>5. Empty \in Orders
  BY EmptySound DEF Sound
<1> QED
  BY <1>1, <1>2, <1>3, <1>4, <1>5, EmptySound

\* Taking the lock.
LEMMA AcquireStep == ASSUME Inv, NEW p \in Procs, Acquire(p) PROVE Inv'
<1>1. \A q \in Procs : pc[q] = "closed"
  BY LogAssumption DEF Inv, HoldsLock, Acquire, LockFree
<1> QED
  BY <1>1 DEF Inv, Typed, HoldsLock, Agrees, Writes, AckedIsDurable, Acquire, Moves, PcStates, Sound

\* Reading the file under the lock.
LEMMA LoadStep == ASSUME Inv, NEW p \in Procs, Load(p) PROVE Inv'
<1>1. pc[p] = "locked" /\ \A q \in Procs : q # p => pc[q] = "closed"
  BY Alone DEF Load
<1>2. CASE tail \in {"torn", "corrupt"}
  BY <1>1, <1>2 DEF Inv, Typed, HoldsLock, Agrees, Writes, AckedIsDurable, Load, Moves, PcStates
<1>3. CASE tail \notin {"torn", "corrupt"}
  <2>1. Sound(file) /\ file \in Orders
    BY DEF Inv, Agrees, Sound
  <2>2. UNCHANGED <<file, lock, lines, writing, faults>> /\ acked' = file /\ tail' = "clean"
        /\ pc' = [pc EXCEPT ![p] = "repair"] /\ memory' = [memory EXCEPT ![p] = file]
    BY <1>3 DEF Load, Moves
  <2> HIDE DEF Load
  <2>3. Typed'
    BY <2>1, <2>2 DEF Inv, Typed, PcStates
  <2>4. Agrees'
    BY <1>1, <2>1, <2>2 DEF Inv, Typed, Agrees
  <2>5. HoldsLock' /\ Writes' /\ AckedIsDurable'
    BY <1>1, <2>2 DEF Inv, Typed, HoldsLock, Writes, AckedIsDurable
  <2> QED
    BY <2>3, <2>4, <2>5 DEF Inv
<1> QED
  BY <1>2, <1>3

\* Deciding on a record: repair, open or append.
LEMMA StartStep ==
    ASSUME Inv, NEW p \in Procs, NEW r \in Records, Accepts(memory[p], r), lines < MaxEvents,
           \/ pc[p] = "repair" /\ Moves(p, "repairing")
           \/ pc[p] = "open" /\ Moves(p, "appending"),
           writing' = [writing EXCEPT ![p] = r],
           UNCHANGED <<file, lines, tail, lock, memory, faults, acked>>
    PROVE  Inv'
<1>1. \A q \in Procs : q # p => pc[q] = "closed"
  BY Alone
<1>2. Typed' /\ HoldsLock' /\ AckedIsDurable'
  BY DEF Inv, Typed, HoldsLock, AckedIsDurable, Moves, PcStates
<1>3. Agrees' /\ Writes'
  BY <1>1 DEF Inv, Typed, Agrees, Writes, Moves, Sound
<1> QED
  BY <1>2, <1>3 DEF Inv

\* A record reaches the file and is acknowledged.
LEMMA CommitStep == ASSUME Inv, NEW p \in Procs, Commit(p) PROVE Inv'
<1> DEFINE a == Apply(acked, writing[p])
<1>1. pc[p] \in {"appending", "repairing"} /\ \A q \in Procs : q # p => pc[q] = "closed"
  BY Alone DEF Commit
<1>2. memory[p] = acked /\ lines < MaxEvents /\ Sound(a) /\ a \in Orders
  BY <1>1, WrittenSound DEF Sound
<1>3. /\ memory' = [memory EXCEPT ![p] = a] /\ acked' = a
      /\ IF tail = "clean" THEN file' = a /\ tail' = "clean" ELSE tail' = "corrupt" /\ file' = file
      /\ lines' = lines + 1 /\ writing' = [writing EXCEPT ![p] = NoRecord]
      /\ pc' = [pc EXCEPT ![p] = Returned(p)] /\ UNCHANGED <<lock, faults>>
  BY <1>2 DEF Commit, Moves, Inv, Typed, AckedIsDurable
<1>4. Returned(p) \in {"open", "repair"}
  BY DEF Returned
<1> HIDE DEF a
<1>5. Typed'
  BY <1>2, <1>3, <1>4, LogAssumption DEF Inv, Typed, PcStates
<1>6. HoldsLock' /\ Writes' /\ AckedIsDurable'
  BY <1>1, <1>3, <1>4 DEF Inv, Typed, HoldsLock, Writes, AckedIsDurable
<1>7. Agrees'
  BY <1>1, <1>2, <1>3, <1>4 DEF Inv, Typed, Agrees
<1> QED
  BY <1>5, <1>6, <1>7 DEF Inv

\* The session is given up: nobody has it open, nothing is being written.
LEMMA GivenUp ==
    ASSUME Inv, NEW p \in Procs, pc[p] # "closed", Leaves(p), lock' \in {None, "stale"},
           writing' \in {writing, [writing EXCEPT ![p] = NoRecord]}, faults' \in 0..MaxFaults,
           UNCHANGED acked,
           Sound(file'), lines' \in 0..MaxEvents, AckedIsDurable',
           tail' \in {"clean", "torn", "ahead", "corrupt"}
    PROVE  Inv'
<1>1. /\ pc' = [q \in Procs |-> "closed"] /\ memory' \in [Procs -> Orders]
      /\ \A q \in Procs : Sound(memory'[q])
  BY LeavesSafe
<1>2. writing' \in [Procs -> Records \cup {NoRecord}]
  BY DEF Inv, Typed
<1>3. Typed' /\ HoldsLock' /\ Writes'
  BY <1>1, <1>2 DEF Typed, HoldsLock, Writes, PcStates
<1>4. Agrees'
  BY <1>1 DEF Inv, Agrees
<1> QED
  BY <1>3, <1>4 DEF Inv

\* A step that touches neither file nor acknowledged log keeps durability.
LEMMA QuietTail ==
    ASSUME Inv, UNCHANGED <<file, lines, tail, acked>>
    PROVE  /\ Sound(file') /\ lines' \in 0..MaxEvents /\ AckedIsDurable'
           /\ tail' \in {"clean", "torn", "ahead", "corrupt"}
  BY DEF Inv, Typed, Agrees, AckedIsDurable

\* A failed write or sync, rolled back or not.
LEMMA FailStep == ASSUME Inv, NEW p \in Procs, Fail(p) PROVE Inv'
<1>1. pc[p] \in {"appending", "repairing"} /\ \A q \in Procs : q # p => pc[q] = "closed"
  BY Alone DEF Fail
<1>2. /\ Sound(file') /\ lines' \in 0..MaxEvents /\ AckedIsDurable'
      /\ tail' \in {"clean", "torn", "ahead", "corrupt"}
  BY <1>1, RemainsSafe, QuietTail DEF Fail
<1>3. faults' \in 0..MaxFaults /\ UNCHANGED acked /\ writing' = [writing EXCEPT ![p] = NoRecord]
  BY LogAssumption DEF Fail, Fault, Inv, Typed
<1>4. CASE pc[p] = "repairing"
  BY <1>2, <1>3, <1>4, GivenUp DEF Fail
<1>5. CASE pc[p] = "appending"
  <2>1. pc' = [pc EXCEPT ![p] = "open"] /\ UNCHANGED <<lock, memory>>
    BY <1>5 DEF Fail, Moves
  <2>2. Typed' /\ HoldsLock' /\ Writes'
    BY <1>1, <1>2, <1>3, <2>1, <1>5 DEF Inv, Typed, HoldsLock, Writes, PcStates
  <2>3. Agrees'
    BY <1>2, <1>3, <1>5, <2>1 DEF Inv, Typed, Agrees
  <2> QED
    BY <1>2, <2>2, <2>3 DEF Inv
<1> QED
  BY <1>1, <1>4, <1>5

\* The process dies, with any part of its record in the file.
LEMMA CrashStep == ASSUME Inv, NEW p \in Procs, Crash(p) PROVE Inv'
<1>1. /\ Sound(file') /\ lines' \in 0..MaxEvents /\ AckedIsDurable'
      /\ tail' \in {"clean", "torn", "ahead", "corrupt"}
  BY RemainsSafe, QuietTail DEF Crash
<1>2. faults' \in 0..MaxFaults
  BY DEF Crash, Inv, Typed
<1> QED
  BY <1>1, <1>2, GivenUp DEF Crash

\* Every step preserves the invariant.
LEMMA InvStep == Inv /\ [Next]_vars => Inv'
<1> SUFFICES ASSUME Inv, [Next]_vars PROVE Inv'
  OBVIOUS
<1>1. CASE RemoveStale
  <2>1. \A q \in Procs : pc[q] = "closed"
    BY <1>1, LogAssumption DEF Inv, HoldsLock, RemoveStale
  <2> QED
    BY <1>1, <2>1 DEF RemoveStale, Inv, Typed, HoldsLock, Agrees, Writes, AckedIsDurable
<1>2. ASSUME NEW p \in Procs, Repair(p) PROVE Inv'
  <2>1. PICK r \in RepairRecords(memory[p]) :
            /\ Accepts(memory[p], r) /\ lines < MaxEvents /\ writing' = [writing EXCEPT ![p] = r]
    BY <1>2 DEF Repair
  <2>2. r \in Records
    BY <2>1, RepairValid DEF Inv, Agrees
  <2> QED
    BY <1>2, <2>1, <2>2, StartStep DEF Repair
<1>3. ASSUME NEW p \in Procs, Opened(p) PROVE Inv'
  BY <1>3 DEF Opened, Moves, PcStates, Inv, Typed, HoldsLock, Agrees, Writes, AckedIsDurable, Sound
<1>4. ASSUME NEW p \in Procs, RepairStops(p) PROVE Inv'
  BY <1>4, GivenUp, QuietTail DEF RepairStops, Inv, Typed
<1>5. ASSUME NEW p \in Procs, NEW r \in Records, AppendRecord(p, r) PROVE Inv'
  BY <1>5, StartStep DEF AppendRecord, MayAppend
<1>6. ASSUME NEW p \in Procs, Close(p) PROVE Inv'
  BY <1>6, GivenUp, QuietTail DEF Close, Inv, Typed
<1>7. CASE UNCHANGED vars
  BY <1>7 DEF vars, Inv, Typed, HoldsLock, Agrees, Writes, AckedIsDurable
<1> QED
  BY <1>1, <1>2, <1>3, <1>4, <1>5, <1>6, <1>7, AcquireStep, LoadStep, CommitStep, FailStep,
     CrashStep DEF Next

-----------------------------------------------------------------------------
(* The theorems.                                                           *)

\* The invariant holds in every reachable state.
LEMMA InvAlways == Spec => []Inv
  BY InvInit, InvStep, PTL DEF Spec

\* Every variable of the session file and its processes keeps its type; in
\* particular no append takes the file beyond its size limit.
THEOREM TypeCorrect == Spec => []TypeOK
<1>1. Inv => TypeOK
  BY DEF Inv, Typed, Agrees, Sound, TypeOK
<1> QED
  BY <1>1, InvAlways, PTL

\* The lock file of acquireLock admits one writer at a time, for any number of
\* processes and whatever crashes and failed repairs leave behind.
THEOREM OneWriter == Spec => []SingleWriter
<1>1. Inv => SingleWriter
  BY DEF Inv, HoldsLock, SingleWriter
<1> QED
  BY <1>1, InvAlways, PTL

\* validateOrder lets only coherent logs through: questions and results stay
\* inside their step and steps inside their turn.
THEOREM AlwaysCoherent == Spec => []LogCoherent
<1>1. Inv => LogCoherent
  BY DEF Inv, Agrees, Sound, LogCoherent
<1> QED
  BY <1>1, InvAlways, PTL

\* From every interrupted tail, each record of repairInterrupted is valid and
\* accepted by validateOrder.
THEOREM RepairAlwaysAccepted == Spec => []RepairAccepted
<1>1. Inv => RepairAccepted
  BY RepairValid DEF Inv, Agrees, RepairAccepted
<1> QED
  BY <1>1, InvAlways, PTL

\* While rollback works, the file holds exactly what appendLocked returned.
THEOREM AckedAlwaysDurable == Spec => []AckedIsDurable
<1>1. Inv => AckedIsDurable
  BY DEF Inv
<1> QED
  BY <1>1, InvAlways, PTL

\* Open publishes a log only when its tail is closed.
THEOREM OpenedAlwaysClosed == Spec => OpenedIsClosed
<1> DEFINE Publishes(p) == pc[p] \notin {"open", "appending"} /\ pc'[p] = "open"
<1>1. Inv /\ [Next]_vars => [\A p \in Procs : Publishes(p) => Closed(memory'[p])]_vars
  <2> SUFFICES ASSUME Inv, Next, NEW p \in Procs, Publishes(p) PROVE Closed(memory'[p])
    OBVIOUS
  <2>1. pc \in [Procs -> PcStates]
    BY DEF Inv, Typed
  <2>2. ASSUME NEW q \in Procs, NEW to, Moves(q, to), p # q \/ to # "open" PROVE FALSE
    BY <2>1, <2>2 DEF Moves
  <2>3. Opened(p)
    BY <2>1, <2>2 DEF Next, RemoveStale, Acquire, Load, Repair, Opened, RepairStops, AppendRecord, Commit,
       Returned, Fail, Close, Crash, Leaves
  <2> QED
    BY <2>3, RepairedIsClosed DEF Opened
<1> QED
  BY <1>1, InvAlways, PTL DEF Spec, OpenedIsClosed
=============================================================================
