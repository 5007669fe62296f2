-------------------------- MODULE AgentWorkerProofs --------------------------
(***************************************************************************)
(* Proofs about AgentWorker for every set of callers and messages, every   *)
(* channel capacity and step limit, and any number of faults and restarts. *)
(*                                                                         *)
(* Shape is the inductive invariant: types, what the worker's control      *)
(* point says about the agent's fields, and WokenHoldsNotice.  The proofs  *)
(* about the inbox (idle waiters, cancelled turns, stranded notices,       *)
(* one-shot agents and InboxKept) add to it what each needs: Requests (who *)
(* holds each counted request), Points (what a turn has done at each of    *)
(* its points) and Inbox (the line of every message from the queue to the  *)
(* log, what the log owes, and what has not entered the line yet).         *)
(***************************************************************************)
EXTENDS AgentWorker, FiniteSetTheorems, SequenceTheorems, TLAPS

-----------------------------------------------------------------------------
(* The inductive invariant.                                                *)

RunPoints == TurnPoints \cup {"begin", "restore", "finish", "reply"}

\* Inside a turn the agent is busy and the turn has a context.
TurnIsBusy == pc \in TurnPoints \cup {"restore", "finish"} => busy /\ turnCtx

\* The worker holds an opening message from the moment it takes one.
MessageHeld ==
    /\ pc \in RunPoints => msg \in Submits \cup Notices
    /\ pc = "restore" => msg \in Notices
    /\ pc = "reply" => msg \in Submits

\* A wake requested during a turn was requested after its cancellation.
WokenAfterAbort == woken /\ busy => Aborted

\* The agent is active until its worker resets it or the process dies.
ActiveRuns == active <=> pc \notin {"drain", "done", "crashed"}

Control == TurnIsBusy /\ MessageHeld /\ WokenAfterAbort /\ ActiveRuns

Shape == TypeOK /\ Control /\ WokenHoldsNotice

-----------------------------------------------------------------------------
(* Sequences.                                                              *)

\* Append, Head, Tail and \o stay within sequences of one set.
LEMMA SeqClosed ==
    ASSUME NEW S
    PROVE  /\ <<>> \in Seq(S)
           /\ \A s \in Seq(S), e \in S : Append(s, e) \in Seq(S) /\ <<e>> \o s \in Seq(S)
           /\ \A s \in Seq(S) : s # <<>> => Head(s) \in S /\ Tail(s) \in Seq(S)
           /\ \A s, t \in Seq(S) : s \o t \in Seq(S)
<1>1. <<>> \in Seq(S)
  OBVIOUS
<1>2. \A s \in Seq(S), e \in S : Append(s, e) \in Seq(S) /\ <<e>> \o s \in Seq(S)
  OBVIOUS
<1>3. \A s \in Seq(S) : s # <<>> => Head(s) \in S /\ Tail(s) \in Seq(S)
  OBVIOUS
<1>4. \A s, t \in Seq(S) : s \o t \in Seq(S)
  OBVIOUS
<1> QED
  BY <1>1, <1>2, <1>3, <1>4

\* Adding an element leaves a sequence nonempty.
LEMMA SeqNonempty ==
    ASSUME NEW S
    PROVE  \A s \in Seq(S), e \in S : Append(s, e) # <<>> /\ <<e>> \o s # <<>>
<1>1. ASSUME NEW s \in Seq(S), NEW e \in S PROVE Append(s, e) # <<>> /\ <<e>> \o s # <<>>
  <2>1. Len(Append(s, e)) = Len(s) + 1 /\ Len(<<e>> \o s) = 1 + Len(s) /\ Len(s) \in Nat
    OBVIOUS
  <2> QED
    BY <2>1
<1> QED
  BY <1>1

\* An enqueued notice leaves the queue nonempty.
LEMMA NoticeAppended ==
    \A s \in Seq(Notices), n \in Notices : Append(s, n) \in Seq(Notices) /\ Append(s, n) # <<>>
  BY SeqClosed, SeqNonempty

\* Queued notices are messages.
LEMMA SeqTypes == \A s \in Seq(Notices) : s \in Seq(Messages)
  BY DEF Messages

\* Delivering a notice leaves a sequence of notices owed.
LEMMA DeliverType ==
    ASSUME NEW m, owed \in Seq(Notices)
    PROVE  Deliver(m) \in Seq(Notices)
<1> DEFINE i == CHOOSE j \in DOMAIN owed : owed[j] = m
<1>1. CASE m \in Range(owed)
  <2>1. \E j \in DOMAIN owed : owed[j] = m
    BY <1>1 DEF Range
  <2>2. i \in DOMAIN owed
    BY <2>1
  <2> HIDE DEF i
  <2>3. i \in 1..Len(owed) /\ Len(owed) \in Nat /\ \A j \in 1..Len(owed) : owed[j] \in Notices
    BY <2>2
  <2>4. SubSeq(owed, 1, i - 1) \in Seq(Notices)
    BY <2>3, SubSeqProperties
  <2>5. SubSeq(owed, i + 1, Len(owed)) \in Seq(Notices)
    BY <2>3, SubSeqProperties
  <2>6. Deliver(m) = SubSeq(owed, 1, i - 1) \o SubSeq(owed, i + 1, Len(owed))
    BY <1>1 DEF Deliver, RemoveAt, i
  <2> QED
    BY <2>4, <2>5, <2>6, SeqClosed
<1>2. CASE m \notin Range(owed)
  BY <1>2 DEF Deliver
<1> QED
  BY <1>1, <1>2

-----------------------------------------------------------------------------
(* Shape is inductive.                                                     *)

\* A freshly opened agent has the shape.
LEMMA ShapeInit == Init => Shape
<1> SUFFICES ASSUME Init PROVE Shape
  OBVIOUS
<1> USE DEF Init
<1>1. TypeFlags
  BY Zenon DEF TypeFlags
<1>2. TypeScalars
  BY BoundsAssumption DEF TypeScalars, PcStates, Outcomes, None
<1>3. TypeQueues
  BY SeqClosed DEF TypeQueues
<1>4. TypeCallers
  BY DEF TypeCallers, CallStates, QueueStates, SteerStates, WaitStates
<1>5. Control /\ WokenHoldsNotice
  BY DEF Control, TurnIsBusy, MessageHeld, WokenAfterAbort, ActiveRuns, WokenHoldsNotice,
         TurnPoints, RunPoints
<1> QED
  BY <1>1, <1>2, <1>3, <1>4, <1>5 DEF Shape, TypeOK

\* Flags stay Boolean.
LEMMA FlagsStep == Shape /\ [Next]_vars => TypeFlags'
<1> SUFFICES ASSUME Shape, [Next]_vars PROVE TypeFlags'
  OBVIOUS
<1> USE DEF Shape, TypeOK, TypeFlags, inbox, control, context, turn, callers, log, history,
    worker, inTurn
<1>1. ASSUME ClaimWake PROVE TypeFlags'
  BY <1>1, Zenon DEF ClaimWake
<1>2. ASSUME NoWake PROVE TypeFlags'
  BY <1>2, ZenonT(60) DEF NoWake
<1>3. ASSUME WaitDone PROVE TypeFlags'
  BY <1>3, ZenonT(60) DEF WaitDone
<1>4. ASSUME WaitWake PROVE TypeFlags'
  BY <1>4, ZenonT(60) DEF WaitWake
<1>5. ASSUME WaitTurn PROVE TypeFlags'
  BY <1>5, ZenonT(60) DEF WaitTurn
<1>6. ASSUME Begin PROVE TypeFlags'
  BY <1>6, Zenon DEF Begin
<1>7. ASSUME Ended PROVE TypeFlags'
  BY <1>7, Zenon DEF Ended, Aborted
<1>8. ASSUME Restore PROVE TypeFlags'
  BY <1>8, ZenonT(60) DEF Restore
<1>9. ASSUME Finish PROVE TypeFlags'
  BY <1>9, Zenon DEF Finish, WakeAfter, Settled
<1>10. ASSUME Reply PROVE TypeFlags'
  BY <1>10, ZenonT(60) DEF Reply
<1>11. ASSUME Exit PROVE TypeFlags'
  BY <1>11, Zenon DEF Exit
<1>12. ASSUME Drain PROVE TypeFlags'
  BY <1>12, ZenonT(60) DEF Drain
<1>13. ASSUME Read PROVE TypeFlags'
  BY <1>13, ZenonT(60) DEF Read, Aborted, Fault
<1>14. ASSUME NotAdmitted PROVE TypeFlags'
  BY <1>14, ZenonT(60) DEF NotAdmitted
<1>15. ASSUME Open PROVE TypeFlags'
  <2>1. turnOpen' \in BOOLEAN /\ opened' \in BOOLEAN
    <3>1. CASE turnOpen' = TRUE /\ opened' = TRUE
      BY <3>1, Zenon
    <3>2. CASE UNCHANGED <<turnOpen, opened>>
      BY <3>2, Zenon
    <3> QED
      BY <1>15, <3>1, <3>2, Zenon DEF Open
  <2>2. UNCHANGED <<active, busy, woken, wake, turnCtx, cancelled, stopped, ran, numbered,
                    interrupted, parked>>
    BY <1>15 DEF Open
  <2> QED
    BY <2>1, <2>2, Zenon
<1>16. ASSUME Opening PROVE TypeFlags'
  BY <1>16, ZenonT(60) DEF Opening, AppendMessage, AppendFails, Fault, CloseWith, Aborted
<1>17. ASSUME StartBoundary PROVE TypeFlags'
  BY <1>17, ZenonT(60) DEF StartBoundary, Aborted, CloseWith
<1>18. ASSUME Take PROVE TypeFlags'
  BY <1>18, ZenonT(60) DEF Take, DrainNotices, Aborted
<1>19. ASSUME Commit PROVE TypeFlags'
  BY <1>19, ZenonT(60) DEF Commit, AppendMessage, AppendFails, Fault, CloseWith
<1>20. ASSUME Step PROVE TypeFlags'
  BY <1>20, ZenonT(60) DEF Step, StepsLeft, CloseWith
<1>21. ASSUME Model PROVE TypeFlags'
  BY <1>21, ZenonT(60) DEF Model, CloseWith
<1>22. ASSUME Answered PROVE TypeFlags'
  BY <1>22, ZenonT(60) DEF Answered, CloseWith
<1>23. ASSUME Tooled PROVE TypeFlags'
  BY <1>23, ZenonT(60) DEF Tooled, CloseWith
<1>24. ASSUME DrainSteers PROVE TypeFlags'
  BY <1>24, ZenonT(60) DEF DrainSteers
<1>25. ASSUME Complete PROVE TypeFlags'
  <2>1. turnOpen' \in BOOLEAN
    <3>1. CASE turnOpen' = FALSE
      BY <3>1, Zenon
    <3>2. CASE UNCHANGED turnOpen
      BY <3>2, Zenon
    <3> QED
      BY <1>25, <3>1, <3>2, Zenon DEF Complete
  <2>2. UNCHANGED <<active, busy, woken, wake, turnCtx, cancelled, stopped, ran, numbered, opened,
                    interrupted, parked>>
    BY <1>25 DEF Complete
  <2> QED
    BY <2>1, <2>2, ZenonT(60)
<1>26. ASSUME Close PROVE TypeFlags'
  <2>1. turnOpen' \in BOOLEAN
    <3>1. CASE turnOpen' = FALSE
      BY <3>1, Zenon
    <3>2. CASE UNCHANGED turnOpen
      BY <3>2, Zenon
    <3> QED
      BY <1>26, <3>1, <3>2, Zenon DEF Close
  <2>2. UNCHANGED <<active, busy, woken, wake, turnCtx, cancelled, stopped, ran, numbered, opened,
                    interrupted, parked>>
    BY <1>26 DEF Close
  <2> QED
    BY <2>1, <2>2, ZenonT(60)
<1>27. ASSUME NEW s \in Submits, SubmitCount(s) PROVE TypeFlags'
  BY <1>27, ZenonT(60) DEF SubmitCount
<1>28. ASSUME NEW s \in Submits, SubmitSend(s) PROVE TypeFlags'
  BY <1>28, ZenonT(60) DEF SubmitSend
<1>29. ASSUME NEW s \in Submits, SubmitCancel(s) PROVE TypeFlags'
  BY <1>29, ZenonT(60) DEF SubmitCancel
<1>30. ASSUME NEW s \in Submits, SubmitStopped(s) PROVE TypeFlags'
  BY <1>30, ZenonT(60) DEF SubmitStopped
<1>31. ASSUME NEW n \in Notices, QueueCheck(n) PROVE TypeFlags'
  BY <1>31, ZenonT(60) DEF QueueCheck
<1>32. ASSUME NEW n \in Notices, QueueCommit(n) PROVE TypeFlags'
  BY <1>32, ZenonT(60) DEF QueueCommit
<1>33. ASSUME NEW n \in Notices, QueueFail(n) PROVE TypeFlags'
  BY <1>33, ZenonT(60) DEF QueueFail
<1>34. ASSUME NEW m \in Steers, SteerCheck(m) PROVE TypeFlags'
  BY <1>34, ZenonT(60) DEF SteerCheck
<1>35. ASSUME NEW m \in Steers, SteerSend(m) PROVE TypeFlags'
  BY <1>35, ZenonT(60) DEF SteerSend
<1>36. ASSUME NEW m \in Steers, SteerGiveUp(m) PROVE TypeFlags'
  BY <1>36, ZenonT(60) DEF SteerGiveUp
<1>37. ASSUME NEW w \in Waiters, WhenIdle(w) PROVE TypeFlags'
  BY <1>37, ZenonT(60) DEF WhenIdle
<1>38. ASSUME Interrupt PROVE TypeFlags'
  BY <1>38, Zenon DEF Interrupt
<1>39. ASSUME Stop PROVE TypeFlags'
  BY <1>39, ZenonT(60) DEF Stop
<1>40. ASSUME Crash PROVE TypeFlags'
  BY <1>40, Zenon DEF Crash
<1>41. ASSUME Resume PROVE TypeFlags'
  BY <1>41, Zenon DEF Resume
<1>42. ASSUME NEW n \in Notices, Notify(n) PROVE TypeFlags'
  BY <1>42, ZenonT(60) DEF Notify, Refuse, Enqueue, WakesIdle, Aborted
<1>43. ASSUME NEW n \in Notices, QueueEnqueue(n) PROVE TypeFlags'
  BY <1>43, ZenonT(60) DEF QueueEnqueue, Refuse, Enqueue, WakesIdle, Aborted
<1>44. CASE UNCHANGED vars
  BY <1>44 DEF vars, moves
<1> QED
  BY <1>1, <1>2, <1>3, <1>4, <1>5, <1>6, <1>7, <1>8, <1>9, <1>10, <1>11, <1>12, <1>13, <1>14,
  <1>15, <1>16, <1>17, <1>18, <1>19, <1>20, <1>21, <1>22, <1>23, <1>24, <1>25, <1>26, <1>27,
  <1>28, <1>29, <1>30, <1>31, <1>32, <1>33, <1>34, <1>35, <1>36, <1>37, <1>38, <1>39, <1>40,
  <1>41, <1>42, <1>43, <1>44 DEF Next, WorkerStep, CallerStep, TurnStep

\* Control points, outcomes and counters stay in range.
LEMMA ScalarsStep == Shape /\ [Next]_vars => TypeScalars'
<1> SUFFICES ASSUME Shape, [Next]_vars PROVE TypeScalars'
  OBVIOUS
<1> USE DEF Shape, TypeOK, TypeScalars, PcStates, TurnPoints, Outcomes, inbox, control,
    context, turn, callers, log, history, worker, inTurn
<1>1. ASSUME ClaimWake \/ NoWake \/ WaitDone \/ WaitWake \/ WaitTurn \/ Begin \/ Ended \/
          Restore \/ Finish \/ Reply \/ Exit \/ Drain
      PROVE  TypeScalars'
  BY <1>1, BoundsAssumption DEF ClaimWake, NoWake, WaitDone, WaitWake, WaitTurn, Begin, Ended,
  Restore, Finish, Reply, Exit, Drain
<1>2. ASSUME TurnStep PROVE TypeScalars'
  BY <1>2, BoundsAssumption DEF TurnStep, Read, NotAdmitted, Open, Opening, StartBoundary,
  Take, Commit, Step, Model, Answered, Tooled, DrainSteers, Complete, Close, Fault, OutcomeFor,
  AppendFails, CloseWith, StepsLeft
<1>3. ASSUME NEW s \in Submits, SubmitCount(s) \/ SubmitSend(s) \/ SubmitCancel(s) \/
          SubmitStopped(s)
      PROVE  TypeScalars'
  BY <1>3, BoundsAssumption, SMTT(30) DEF SubmitCount, SubmitSend, SubmitCancel, SubmitStopped
<1>4. ASSUME NEW n \in Notices, Notify(n) \/ QueueCheck(n) \/ QueueCommit(n) \/
          QueueFail(n) \/ QueueEnqueue(n)
      PROVE  TypeScalars'
  BY <1>4, BoundsAssumption DEF Notify, QueueCheck, QueueCommit, QueueFail, QueueEnqueue
<1>5. ASSUME NEW m \in Steers, SteerCheck(m) \/ SteerSend(m) \/ SteerGiveUp(m) PROVE TypeScalars'
  BY <1>5, BoundsAssumption, SMTT(30) DEF SteerCheck, SteerSend, SteerGiveUp
<1>6. ASSUME NEW w \in Waiters, WhenIdle(w) PROVE TypeScalars'
  BY <1>6, BoundsAssumption DEF WhenIdle
<1>7. ASSUME Interrupt \/ Stop \/ Crash \/ Resume PROVE TypeScalars'
  BY <1>7, BoundsAssumption DEF Interrupt, Stop, Crash, Resume
<1>8. CASE UNCHANGED vars
  BY <1>8 DEF vars, moves
<1> QED
  BY <1>1, <1>2, <1>3, <1>4, <1>5, <1>6, <1>7, <1>8 DEF Next, WorkerStep, CallerStep, TurnStep

\* Queues hold messages of their kind; Head is only taken of a queue known to be non-empty.
LEMMA QueuesStep == Shape /\ [Next]_vars => TypeQueues'
<1> SUFFICES ASSUME Shape, [Next]_vars PROVE TypeQueues'
  OBVIOUS
<1> USE DEF Shape, TypeOK, TypeQueues, Control, MessageHeld, WokenHoldsNotice, RunPoints,
    TurnPoints, Messages, inbox, control, context, turn, callers, log, history, worker, inTurn
<1>1. ASSUME ClaimWake PROVE TypeQueues'
  BY <1>1, DeliverType, SeqClosed, SeqTypes DEF ClaimWake
<1>2. ASSUME NoWake PROVE TypeQueues'
  BY <1>2, DeliverType, SeqClosed, SeqTypes DEF NoWake
<1>3. ASSUME WaitDone PROVE TypeQueues'
  BY <1>3, DeliverType, SeqClosed, SeqTypes DEF WaitDone
<1>4. ASSUME WaitWake PROVE TypeQueues'
  BY <1>4, DeliverType, SeqClosed, SeqTypes DEF WaitWake
<1>5. ASSUME WaitTurn PROVE TypeQueues'
  BY <1>5, DeliverType, SeqClosed, SeqTypes DEF WaitTurn
<1>6. ASSUME Begin PROVE TypeQueues'
  BY <1>6, DeliverType, SeqClosed, SeqTypes DEF Begin
<1>7. ASSUME Ended PROVE TypeQueues'
  BY <1>7, DeliverType, SeqClosed, SeqTypes DEF Ended
<1>8. ASSUME Restore PROVE TypeQueues'
  BY <1>8, DeliverType, SeqClosed, SeqTypes DEF Restore
<1>9. ASSUME Finish PROVE TypeQueues'
  BY <1>9, DeliverType, SeqClosed, SeqTypes DEF Finish
<1>10. ASSUME Reply PROVE TypeQueues'
  BY <1>10, DeliverType, SeqClosed, SeqTypes DEF Reply
<1>11. ASSUME Exit PROVE TypeQueues'
  BY <1>11, DeliverType, SeqClosed, SeqTypes DEF Exit
<1>12. ASSUME Drain PROVE TypeQueues'
  BY <1>12, DeliverType, SeqClosed, SeqTypes, ZenonT(60) DEF Drain
<1>13. ASSUME Read PROVE TypeQueues'
  BY <1>13, DeliverType, SeqClosed, SeqTypes DEF Read
<1>14. ASSUME NotAdmitted PROVE TypeQueues'
  BY <1>14, DeliverType, SeqClosed, SeqTypes DEF NotAdmitted
<1>15. ASSUME Open PROVE TypeQueues'
  BY <1>15, DeliverType, SeqClosed, SeqTypes DEF Open
<1>16. ASSUME Opening PROVE TypeQueues'
  BY <1>16, DeliverType, SeqClosed, SeqTypes, ZenonT(60) DEF Opening, AppendMessage, CloseWith
<1>17. ASSUME StartBoundary PROVE TypeQueues'
  BY <1>17, DeliverType, SeqClosed, SeqTypes DEF StartBoundary, CloseWith
<1>18. ASSUME Take PROVE TypeQueues'
  BY <1>18, DeliverType, SeqClosed, SeqTypes DEF Take, DrainNotices
<1>19. ASSUME Commit PROVE TypeQueues'
  BY <1>19, DeliverType, SeqClosed, SeqTypes DEF Commit, AppendMessage, CloseWith
<1>20. ASSUME Step PROVE TypeQueues'
  BY <1>20, DeliverType, SeqClosed, SeqTypes DEF Step, CloseWith
<1>21. ASSUME Model PROVE TypeQueues'
  BY <1>21, DeliverType, SeqClosed, SeqTypes DEF Model, CloseWith
<1>22. ASSUME Answered PROVE TypeQueues'
  BY <1>22, DeliverType, SeqClosed, SeqTypes DEF Answered, CloseWith
<1>23. ASSUME Tooled PROVE TypeQueues'
  BY <1>23, DeliverType, SeqClosed, SeqTypes DEF Tooled, CloseWith
<1>24. ASSUME DrainSteers PROVE TypeQueues'
  <2>1. CASE steers # <<>>
    <3>1. Head(steers) \in Messages /\ Tail(steers) \in Seq(Steers)
      BY <2>1
    <3>2. hand' = Append(hand, Head(steers)) /\ steers' = Tail(steers)
      BY <1>24, <2>1, Zenon DEF DrainSteers
    <3>3. hand \in Seq(Messages)
      OBVIOUS
    <3>4. Append(hand, Head(steers)) \in Seq(Messages)
      BY <3>1, <3>3, SeqClosed, Zenon
    <3>5. UNCHANGED <<notices, turns, msg, committed, owed, accepted>>
      BY <1>24 DEF DrainSteers
    <3> QED
      BY <3>1, <3>2, <3>4, <3>5
  <2>2. CASE steers = <<>>
    BY <1>24, <2>2 DEF DrainSteers
  <2> QED
    BY <2>1, <2>2
<1>25. ASSUME Complete PROVE TypeQueues'
  BY <1>25, DeliverType, SeqClosed, SeqTypes DEF Complete, CloseWith
<1>26. ASSUME Close PROVE TypeQueues'
  BY <1>26, DeliverType, SeqClosed, SeqTypes DEF Close
<1>27. ASSUME NEW s \in Submits, SubmitCount(s) PROVE TypeQueues'
  BY <1>27, DeliverType, SeqClosed, SeqTypes DEF SubmitCount
<1>28. ASSUME NEW s \in Submits, SubmitSend(s) PROVE TypeQueues'
  BY <1>28, DeliverType, SeqClosed, SeqTypes DEF SubmitSend
<1>29. ASSUME NEW s \in Submits, SubmitCancel(s) PROVE TypeQueues'
  BY <1>29, DeliverType, SeqClosed, SeqTypes DEF SubmitCancel
<1>30. ASSUME NEW s \in Submits, SubmitStopped(s) PROVE TypeQueues'
  BY <1>30, DeliverType, SeqClosed, SeqTypes DEF SubmitStopped
<1>31. ASSUME NEW n \in Notices, Notify(n) PROVE TypeQueues'
  BY <1>31, DeliverType, SeqClosed, SeqTypes, NoticeAppended DEF Notify, Refuse, Enqueue
<1>32. ASSUME NEW n \in Notices, QueueCheck(n) PROVE TypeQueues'
  BY <1>32, DeliverType, SeqClosed, SeqTypes DEF QueueCheck
<1>33. ASSUME NEW n \in Notices, QueueCommit(n) PROVE TypeQueues'
  BY <1>33, DeliverType, SeqClosed, SeqTypes, NoticeAppended DEF QueueCommit
<1>34. ASSUME NEW n \in Notices, QueueFail(n) PROVE TypeQueues'
  BY <1>34, DeliverType, SeqClosed, SeqTypes DEF QueueFail
<1>35. ASSUME NEW n \in Notices, QueueEnqueue(n) PROVE TypeQueues'
  BY <1>35, DeliverType, SeqClosed, SeqTypes, NoticeAppended DEF QueueEnqueue, Refuse, Enqueue
<1>36. ASSUME NEW m \in Steers, SteerCheck(m) PROVE TypeQueues'
  BY <1>36, DeliverType, SeqClosed, SeqTypes DEF SteerCheck
<1>37. ASSUME NEW m \in Steers, SteerSend(m) PROVE TypeQueues'
  BY <1>37, DeliverType, SeqClosed, SeqTypes DEF SteerSend
<1>38. ASSUME NEW m \in Steers, SteerGiveUp(m) PROVE TypeQueues'
  BY <1>38, DeliverType, SeqClosed, SeqTypes DEF SteerGiveUp
<1>39. ASSUME NEW w \in Waiters, WhenIdle(w) PROVE TypeQueues'
  BY <1>39, DeliverType, SeqClosed, SeqTypes DEF WhenIdle
<1>40. ASSUME Interrupt PROVE TypeQueues'
  BY <1>40, DeliverType, SeqClosed, SeqTypes DEF Interrupt
<1>41. ASSUME Stop PROVE TypeQueues'
  BY <1>41, DeliverType, SeqClosed, SeqTypes DEF Stop
<1>42. ASSUME Crash PROVE TypeQueues'
  BY <1>42, DeliverType, SeqClosed, SeqTypes DEF Crash
<1>43. ASSUME Resume PROVE TypeQueues'
  BY <1>43, DeliverType, SeqClosed, SeqTypes DEF Resume, PendingNotices
<1>44. CASE UNCHANGED vars
  BY <1>44 DEF vars, moves
<1> QED
  BY <1>1, <1>2, <1>3, <1>4, <1>5, <1>6, <1>7, <1>8, <1>9, <1>10, <1>11, <1>12, <1>13, <1>14,
  <1>15, <1>16, <1>17, <1>18, <1>19, <1>20, <1>21, <1>22, <1>23, <1>24, <1>25, <1>26, <1>27,
  <1>28, <1>29, <1>30, <1>31, <1>32, <1>33, <1>34, <1>35, <1>36, <1>37, <1>38, <1>39, <1>40,
  <1>41, <1>42, <1>43, <1>44 DEF Next, WorkerStep, CallerStep, TurnStep

\* Callers stay in their states.
LEMMA CallersStep == Shape /\ [Next]_vars => TypeCallers'
<1> SUFFICES ASSUME Shape, [Next]_vars PROVE TypeCallers'
  OBVIOUS
<1> USE DEF Shape, TypeOK, TypeScalars, TypeQueues, TypeCallers, QueueStates, CallStates,
    SteerStates, WaitStates, MessageHeld, RunPoints, inbox, control, context, turn, callers, log,
    history, worker, inTurn
<1>1. ASSUME ClaimWake \/ NoWake \/ WaitDone \/ WaitWake \/ WaitTurn \/ Begin \/ Ended \/
          Restore \/ Finish \/ Reply \/ Exit \/ Drain
      PROVE  TypeCallers'
  BY <1>1, MessageAssumption DEF ClaimWake, NoWake, WaitDone, WaitWake, WaitTurn, Begin, Ended,
  Restore, Finish, Reply, Exit, Drain, NotifyIdle
<1>2. ASSUME TurnStep PROVE TypeCallers'
  BY <1>2, MessageAssumption DEF TurnStep, Read, NotAdmitted, Open, Opening, StartBoundary,
  Take, Commit, Step, Model, Answered, Tooled, DrainSteers, Complete, Close
<1>3. ASSUME NEW s \in Submits, SubmitCount(s) PROVE TypeCallers'
  BY <1>3, MessageAssumption DEF SubmitCount
<1>4. ASSUME NEW s \in Submits, SubmitSend(s) PROVE TypeCallers'
  BY <1>4, MessageAssumption DEF SubmitSend
<1>5. ASSUME NEW s \in Submits, SubmitCancel(s) PROVE TypeCallers'
  BY <1>5, MessageAssumption DEF SubmitCancel, NotifyIdle
<1>6. ASSUME NEW s \in Submits, SubmitStopped(s) PROVE TypeCallers'
  BY <1>6, MessageAssumption DEF SubmitStopped
<1>7. ASSUME NEW n \in Notices, Notify(n) PROVE TypeCallers'
  BY <1>7, MessageAssumption DEF Notify, Refuse, Enqueue
<1>8. ASSUME NEW n \in Notices, QueueCheck(n) PROVE TypeCallers'
  <2>1. queued + 1 \in Nat
    OBVIOUS
  <2>2. queue' \in [Notices -> QueueStates] /\ noticeId' \in [Notices -> Nat]
    BY <1>8, <2>1 DEF QueueCheck
  <2> QED
    BY <1>8, <2>2 DEF QueueCheck
<1>9. ASSUME NEW n \in Notices, QueueCommit(n) PROVE TypeCallers'
  BY <1>9, MessageAssumption DEF QueueCommit
<1>10. ASSUME NEW n \in Notices, QueueFail(n) PROVE TypeCallers'
  BY <1>10, MessageAssumption DEF QueueFail
<1>11. ASSUME NEW n \in Notices, QueueEnqueue(n) PROVE TypeCallers'
  BY <1>11, MessageAssumption DEF QueueEnqueue, Refuse, Enqueue
<1>12. ASSUME NEW m \in Steers, SteerCheck(m) \/ SteerSend(m) \/ SteerGiveUp(m) PROVE TypeCallers'
  BY <1>12, MessageAssumption DEF SteerCheck, SteerSend, SteerGiveUp
<1>13. ASSUME NEW w \in Waiters, WhenIdle(w) PROVE TypeCallers'
  BY <1>13, MessageAssumption DEF WhenIdle
<1>14. ASSUME Interrupt \/ Stop \/ Crash \/ Resume PROVE TypeCallers'
  BY <1>14, MessageAssumption, SMTT(30) DEF Interrupt, Stop, Crash, Resume
<1>15. CASE UNCHANGED vars
  BY <1>15 DEF vars, moves
<1> QED
  BY <1>1, <1>2, <1>3, <1>4, <1>5, <1>6, <1>7, <1>8, <1>9, <1>10, <1>11, <1>12, <1>13, <1>14,
  <1>15 DEF Next, WorkerStep, CallerStep, TurnStep

\* The worker's control point determines what the agent's fields hold.
LEMMA ControlStep == Shape /\ [Next]_vars => Control'
<1> SUFFICES ASSUME Shape, [Next]_vars PROVE Control'
  OBVIOUS
<1> USE DEF Shape, TypeOK, TypeFlags, TypeScalars, Control, TurnIsBusy, MessageHeld,
    WokenAfterAbort, ActiveRuns, PcStates, TurnPoints, RunPoints, Aborted, inbox, control, context,
    turn, callers, log, history, worker, inTurn
<1>1. ASSUME ClaimWake PROVE Control'
  BY <1>1, SeqClosed DEF ClaimWake, TypeQueues, WokenHoldsNotice
<1>2. ASSUME NoWake PROVE Control'
  BY <1>2 DEF NoWake
<1>3. ASSUME WaitDone PROVE Control'
  BY <1>3 DEF WaitDone
<1>4. ASSUME WaitWake PROVE Control'
  BY <1>4 DEF WaitWake
<1>5. ASSUME WaitTurn PROVE Control'
  BY <1>5, SeqClosed DEF WaitTurn, TypeQueues
<1>6. ASSUME Begin PROVE Control'
  BY <1>6 DEF Begin
<1>7. ASSUME Ended PROVE Control'
  BY <1>7 DEF Ended, Aborted
<1>8. ASSUME Restore PROVE Control'
  BY <1>8 DEF Restore
<1>9. ASSUME Finish PROVE Control'
  BY <1>9 DEF Finish, WakeAfter, Settled
<1>10. ASSUME Reply PROVE Control'
  BY <1>10 DEF Reply
<1>11. ASSUME Exit PROVE Control'
  BY <1>11 DEF Exit
<1>12. ASSUME Drain PROVE Control'
  BY <1>12 DEF Drain
<1>13. ASSUME TurnStep PROVE Control'
  BY <1>13 DEF TurnStep, Read, NotAdmitted, Open, Opening, StartBoundary, Take, Commit, Step,
  Model, Answered, Tooled, DrainSteers, Complete, Close, Aborted, CloseWith, DrainNotices
<1>14. ASSUME NEW s \in Submits, SubmitCount(s) \/ SubmitSend(s) \/ SubmitCancel(s) \/
          SubmitStopped(s)
      PROVE  Control'
  BY <1>14 DEF SubmitCount, SubmitSend, SubmitCancel, SubmitStopped
<1>15. ASSUME NEW n \in Notices, Notify(n) \/ QueueCheck(n) \/ QueueCommit(n) \/
          QueueFail(n) \/ QueueEnqueue(n)
      PROVE  Control'
  BY <1>15 DEF Notify, QueueCheck, QueueCommit, QueueFail, QueueEnqueue, Refuse, Enqueue,
  WakesIdle, Aborted
<1>16. ASSUME NEW m \in Steers, SteerCheck(m) \/ SteerSend(m) \/ SteerGiveUp(m) PROVE Control'
  BY <1>16 DEF SteerCheck, SteerSend, SteerGiveUp
<1>17. ASSUME NEW w \in Waiters, WhenIdle(w) PROVE Control'
  BY <1>17 DEF WhenIdle
<1>18. ASSUME Interrupt \/ Stop \/ Crash \/ Resume PROVE Control'
  BY <1>18 DEF Interrupt, Stop, Crash, Resume
<1>19. CASE UNCHANGED vars
  BY <1>19 DEF vars, moves
<1> QED
  BY <1>1, <1>2, <1>3, <1>4, <1>5, <1>6, <1>7, <1>8, <1>9, <1>10, <1>11, <1>12, <1>13, <1>14,
  <1>15, <1>16, <1>17, <1>18, <1>19 DEF Next, WorkerStep, CallerStep, TurnStep

\* Only the worker empties the queue, and never while a wake is due.
LEMMA WokenStep == Shape /\ [Next]_vars => WokenHoldsNotice'
<1> SUFFICES ASSUME Shape, [Next]_vars PROVE WokenHoldsNotice'
  OBVIOUS
<1> USE DEF Shape, TypeOK, TypeFlags, TypeQueues, Control, TurnIsBusy, MessageHeld,
    WokenAfterAbort, WokenHoldsNotice, TurnPoints, RunPoints, inbox, control, context, turn,
    callers, log, history, worker, inTurn
<1>1. ASSUME ClaimWake PROVE WokenHoldsNotice'
  BY <1>1, SeqClosed, SeqNonempty DEF ClaimWake
<1>2. ASSUME NoWake PROVE WokenHoldsNotice'
  BY <1>2, SeqClosed, SeqNonempty DEF NoWake
<1>3. ASSUME WaitDone PROVE WokenHoldsNotice'
  BY <1>3, SeqClosed, SeqNonempty DEF WaitDone
<1>4. ASSUME WaitWake PROVE WokenHoldsNotice'
  BY <1>4, SeqClosed, SeqNonempty DEF WaitWake
<1>5. ASSUME WaitTurn PROVE WokenHoldsNotice'
  BY <1>5, SeqClosed, SeqNonempty DEF WaitTurn
<1>6. ASSUME Begin PROVE WokenHoldsNotice'
  BY <1>6, SeqClosed, SeqNonempty DEF Begin
<1>7. ASSUME Ended PROVE WokenHoldsNotice'
  BY <1>7, SeqClosed, SeqNonempty DEF Ended, Aborted
<1>8. ASSUME Restore PROVE WokenHoldsNotice'
  BY <1>8, SeqClosed, SeqNonempty DEF Restore, Restorable
<1>9. ASSUME Finish PROVE WokenHoldsNotice'
  BY <1>9, SeqClosed, SeqNonempty DEF Finish, WakeAfter, Settled
<1>10. ASSUME Reply PROVE WokenHoldsNotice'
  BY <1>10, SeqClosed, SeqNonempty DEF Reply
<1>11. ASSUME Exit PROVE WokenHoldsNotice'
  BY <1>11, SeqClosed, SeqNonempty DEF Exit
<1>12. ASSUME Drain PROVE WokenHoldsNotice'
  BY <1>12, SeqClosed, SeqNonempty DEF Drain
<1>13. ASSUME TurnStep PROVE WokenHoldsNotice'
  BY <1>13, SeqClosed, SeqNonempty DEF TurnStep, Read, NotAdmitted, Open, Opening,
  StartBoundary, Take, Commit, Step, Model, Answered, Tooled, DrainSteers, Complete, Close,
  Aborted, CloseWith, DrainNotices
<1>14. ASSUME NEW s \in Submits, SubmitCount(s) \/ SubmitSend(s) \/ SubmitCancel(s) \/
          SubmitStopped(s)
      PROVE  WokenHoldsNotice'
  BY <1>14, SeqClosed, SeqNonempty DEF SubmitCount, SubmitSend, SubmitCancel, SubmitStopped
<1>15. ASSUME NEW n \in Notices, Notify(n) PROVE WokenHoldsNotice'
  BY <1>15, SeqClosed, SeqNonempty DEF Notify, Refuse, Enqueue, WakesIdle, Aborted
<1>16. ASSUME NEW n \in Notices, QueueCheck(n) PROVE WokenHoldsNotice'
  BY <1>16, SeqClosed, SeqNonempty DEF QueueCheck
<1>17. ASSUME NEW n \in Notices, QueueCommit(n) PROVE WokenHoldsNotice'
  BY <1>17, SeqClosed, SeqNonempty DEF QueueCommit
<1>18. ASSUME NEW n \in Notices, QueueFail(n) PROVE WokenHoldsNotice'
  BY <1>18, SeqClosed, SeqNonempty DEF QueueFail
<1>19. ASSUME NEW n \in Notices, QueueEnqueue(n) PROVE WokenHoldsNotice'
  BY <1>19, SeqClosed, SeqNonempty DEF QueueEnqueue, Refuse, Enqueue, WakesIdle, Aborted
<1>20. ASSUME NEW m \in Steers, SteerCheck(m) \/ SteerSend(m) \/ SteerGiveUp(m)
      PROVE  WokenHoldsNotice'
  BY <1>20, SeqClosed, SeqNonempty DEF SteerCheck, SteerSend, SteerGiveUp
<1>21. ASSUME NEW w \in Waiters, WhenIdle(w) PROVE WokenHoldsNotice'
  BY <1>21, SeqClosed, SeqNonempty DEF WhenIdle
<1>22. ASSUME Interrupt \/ Stop \/ Crash \/ Resume PROVE WokenHoldsNotice'
  BY <1>22, SeqClosed, SeqNonempty DEF Interrupt, Stop, Crash, Resume
<1>23. CASE UNCHANGED vars
  BY <1>23 DEF vars, moves
<1> QED
  BY <1>1, <1>2, <1>3, <1>4, <1>5, <1>6, <1>7, <1>8, <1>9, <1>10, <1>11, <1>12, <1>13, <1>14,
  <1>15, <1>16, <1>17, <1>18, <1>19, <1>20, <1>21, <1>22, <1>23 DEF Next, WorkerStep,
  CallerStep, TurnStep

\* Every step of the worker and of its callers preserves the shape.
LEMMA ShapeStep == Shape /\ [Next]_vars => Shape'
<1>1. [Next]_vars => mode' = mode
  BY DEF Next, vars
<1> QED
  BY <1>1, FlagsStep, ScalarsStep, QueuesStep, CallersStep, ControlStep, WokenStep DEF Shape, TypeOK

\* Every variable keeps its type.
THEOREM TypeCorrect == Spec => []TypeOK
<1>1. Init => Shape
  BY ShapeInit
<1>2. Shape /\ [Next]_vars => Shape'
  BY ShapeStep
<1>3. Shape => TypeOK
  BY DEF Shape
<1> QED
  BY <1>1, <1>2, <1>3, PTL DEF Spec

\* claimWake never indexes an empty queue: a woken agent holds a notice.
THEOREM WokenAlwaysHoldsNotice == Spec => []WokenHoldsNotice
<1>1. Init => Shape
  BY ShapeInit
<1>2. Shape /\ [Next]_vars => Shape'
  BY ShapeStep
<1>3. Shape => WokenHoldsNotice
  BY DEF Shape
<1> QED
  BY <1>1, <1>2, <1>3, PTL DEF Spec

-----------------------------------------------------------------------------
(* Sequences: what they hold, in which order, and without repetition.      *)

\* Concatenation is associative, and the empty sequence is its unit.
LEMMA SeqAlgebra ==
    ASSUME NEW S
    PROVE  /\ \A a, b, c \in Seq(S) : (a \o b) \o c = a \o (b \o c)
           /\ \A a \in Seq(S) : a \o <<>> = a /\ <<>> \o a = a
           /\ \A a \in Seq(S), e \in S : Append(a, e) = a \o <<e>>
           /\ \A a \in Seq(S) : a # <<>> => <<Head(a)>> \o Tail(a) = a
<1>1. \A a, b, c \in Seq(S) : (a \o b) \o c = a \o (b \o c)
  BY ConcatAssociative, SMTT(30)
<1>2. \A a \in Seq(S) : a \o <<>> = a /\ <<>> \o a = a
  BY ConcatEmptySeq
<1>3. \A a \in Seq(S), e \in S : Append(a, e) = a \o <<e>>
  BY AppendIsConcat
<1>4. ASSUME NEW a \in Seq(S), a # <<>> PROVE <<Head(a)>> \o Tail(a) = a
  BY <1>4, HeadTailProperties
<1> QED
  BY <1>1, <1>2, <1>3, <1>4

\* The places of a concatenation.
LEMMA ConcatPlaces ==
    ASSUME NEW S, NEW s \in Seq(S), NEW t \in Seq(S)
    PROVE  /\ DOMAIN s = 1..Len(s) /\ DOMAIN t = 1..Len(t) /\ DOMAIN (s \o t) = 1..(Len(s) + Len(t))
           /\ Len(s) \in Nat /\ Len(t) \in Nat
           /\ \A i \in 1..Len(s) : (s \o t)[i] = s[i]
           /\ \A i \in 1..Len(t) : (s \o t)[Len(s) + i] = t[i]
           /\ \A i \in 1..(Len(s) + Len(t)) :
                 i \in 1..Len(s) \/ (i - Len(s) \in 1..Len(t) /\ (s \o t)[i] = t[i - Len(s)])
  OBVIOUS

\* A concatenation holds what its parts hold.
LEMMA ConcatRange ==
    ASSUME NEW S
    PROVE  \A s, t \in Seq(S) : Range(s \o t) = Range(s) \cup Range(t)
<1> TAKE s, t \in Seq(S)
<1> DEFINE u == s \o t
<1>1. /\ DOMAIN s = 1..Len(s) /\ DOMAIN t = 1..Len(t) /\ DOMAIN u = 1..(Len(s) + Len(t))
      /\ Len(s) \in Nat /\ Len(t) \in Nat
      /\ \A i \in 1..Len(s) : u[i] = s[i]
      /\ \A i \in 1..Len(t) : u[Len(s) + i] = t[i]
      /\ \A i \in 1..(Len(s) + Len(t)) :
            i \in 1..Len(s) \/ (i - Len(s) \in 1..Len(t) /\ u[i] = t[i - Len(s)])
  BY ConcatPlaces
<1> HIDE DEF u
<1>2. Range(u) \subseteq Range(s) \cup Range(t)
  BY <1>1 DEF Range
<1>3. ASSUME NEW i \in 1..Len(s) PROVE s[i] \in Range(u)
  BY <1>1 DEF Range
<1>4. ASSUME NEW i \in 1..Len(t) PROVE t[i] \in Range(u)
  <2>1. Len(s) + i \in DOMAIN u /\ u[Len(s) + i] = t[i]
    BY <1>1
  <2> QED
    BY <2>1 DEF Range
<1>5. Range(s) \cup Range(t) \subseteq Range(u)
  BY <1>1, <1>3, <1>4 DEF Range
<1> QED
  BY <1>2, <1>5 DEF u

\* Membership in Before, without the pair.
LEMMA BeforePairs ==
    ASSUME NEW S, NEW s \in Seq(S), NEW a, NEW b
    PROVE  <<a, b>> \in Before(s) <=> \E i, j \in 1..Len(s) : i < j /\ s[i] = a /\ s[j] = b
<1>1. DOMAIN s = 1..Len(s)
  OBVIOUS
<1>2. \A i \in 1..Len(s) : s[i] \in Range(s)
  BY <1>1 DEF Range
<1> QED
  BY <1>1, <1>2 DEF Before

\* In a concatenation, all of the first part comes before all of the second.
LEMMA ConcatBefore ==
    ASSUME NEW S
    PROVE  \A s, t \in Seq(S) :
               \A a, b : <<a, b>> \in Before(s \o t)
                         <=> (<<a, b>> \in Before(s) \/ <<a, b>> \in Before(t)
                              \/ (a \in Range(s) /\ b \in Range(t)))
<1> TAKE s, t \in Seq(S)
<1> DEFINE u == s \o t
<1>1. /\ DOMAIN s = 1..Len(s) /\ DOMAIN t = 1..Len(t) /\ DOMAIN u = 1..(Len(s) + Len(t))
      /\ Len(s) \in Nat /\ Len(t) \in Nat /\ u \in Seq(S) /\ Len(u) = Len(s) + Len(t)
      /\ \A i \in 1..Len(s) : u[i] = s[i]
      /\ \A i \in 1..Len(t) : u[Len(s) + i] = t[i]
      /\ \A i \in 1..(Len(s) + Len(t)) :
            i \in 1..Len(s) \/ (i - Len(s) \in 1..Len(t) /\ u[i] = t[i - Len(s)])
  BY ConcatPlaces
<1> HIDE DEF u
<1>2. ASSUME NEW a, NEW b, <<a, b>> \in Before(u)
      PROVE  <<a, b>> \in Before(s) \/ <<a, b>> \in Before(t) \/ (a \in Range(s) /\ b \in Range(t))
  <2>1. PICK i \in 1..Len(u), j \in 1..Len(u) : i < j /\ u[i] = a /\ u[j] = b
    <3>1. u \in Seq(S)
      BY <1>1
    <3> QED
      BY <1>2, <3>1, BeforePairs
  <2>2. CASE i \in 1..Len(s) /\ j \in 1..Len(s)
    <3>1. s[i] = a /\ s[j] = b
      BY <1>1, <2>1, <2>2
    <3> QED
      BY <2>1, <2>2, <3>1, BeforePairs
  <2>3. CASE i \in 1..Len(s) /\ j - Len(s) \in 1..Len(t) /\ u[j] = t[j - Len(s)]
    <3>1. a \in Range(s) /\ b \in Range(t)
      BY <1>1, <2>1, <2>3 DEF Range
    <3> QED
      BY <3>1
  <2>4. CASE /\ i - Len(s) \in 1..Len(t) /\ u[i] = t[i - Len(s)]
             /\ j - Len(s) \in 1..Len(t) /\ u[j] = t[j - Len(s)]
    <3>1. i - Len(s) < j - Len(s) /\ t[i - Len(s)] = a /\ t[j - Len(s)] = b
      BY <1>1, <2>1, <2>4
    <3> QED
      BY <2>4, <3>1, BeforePairs
  <2>5. ~(i - Len(s) \in 1..Len(t) /\ j \in 1..Len(s))
    BY <1>1, <2>1
  <2>6. \A k \in 1..Len(u) :
           k \in 1..Len(s) \/ (k - Len(s) \in 1..Len(t) /\ u[k] = t[k - Len(s)])
    BY <1>1
  <2> QED
    BY <2>2, <2>3, <2>4, <2>5, <2>6
<1>3. ASSUME NEW a, NEW b, <<a, b>> \in Before(s) PROVE <<a, b>> \in Before(u)
  <2>1. PICK i \in 1..Len(s), j \in 1..Len(s) : i < j /\ s[i] = a /\ s[j] = b
    BY <1>3, BeforePairs
  <2>2. i \in 1..Len(u) /\ j \in 1..Len(u) /\ u[i] = a /\ u[j] = b
    BY <1>1, <2>1
  <2> QED
    BY <1>1, <2>1, <2>2, BeforePairs
<1>4. ASSUME NEW a, NEW b, <<a, b>> \in Before(t) PROVE <<a, b>> \in Before(u)
  <2>1. PICK i \in 1..Len(t), j \in 1..Len(t) : i < j /\ t[i] = a /\ t[j] = b
    BY <1>4, BeforePairs
  <2>2. /\ Len(s) + i \in 1..Len(u) /\ Len(s) + j \in 1..Len(u) /\ Len(s) + i < Len(s) + j
        /\ u[Len(s) + i] = a /\ u[Len(s) + j] = b
    BY <1>1, <2>1
  <2> QED
    BY <1>1, <2>2, BeforePairs
<1>5. ASSUME NEW a \in Range(s), NEW b \in Range(t) PROVE <<a, b>> \in Before(u)
  <2>1. PICK i \in 1..Len(s), j \in 1..Len(t) : s[i] = a /\ t[j] = b
    BY <1>1 DEF Range
  <2>2. /\ i \in 1..Len(u) /\ Len(s) + j \in 1..Len(u) /\ i < Len(s) + j
        /\ u[i] = a /\ u[Len(s) + j] = b
    BY <1>1, <2>1
  <2> QED
    BY <1>1, <2>2, BeforePairs
<1> QED
  BY <1>2, <1>3, <1>4, <1>5 DEF u

\* The empty sequence and a single element order nothing.
LEMMA BeforeSmall ==
    /\ Range(<<>>) = {} /\ Before(<<>>) = {}
    /\ \A e : Range(<<e>>) = {e} /\ Before(<<e>>) = {}
  BY DEF Before, Range

\* A sequence repeats an element when it comes before itself.
LEMMA NoRepetition ==
    ASSUME NEW S, NEW s \in Seq(S)
    PROVE  IsInjective(s) <=> \A x : <<x, x>> \notin Before(s)
<1>1. DOMAIN s = 1..Len(s) /\ Len(s) \in Nat
  OBVIOUS
<1>2. ASSUME IsInjective(s), NEW x, <<x, x>> \in Before(s) PROVE FALSE
  <2>1. PICK i \in 1..Len(s), j \in 1..Len(s) : i < j /\ s[i] = x /\ s[j] = x
    BY <1>2, BeforePairs
  <2> QED
    BY <1>1, <1>2, <2>1 DEF IsInjective
<1>3. ASSUME \A x : <<x, x>> \notin Before(s) PROVE IsInjective(s)
  <2> SUFFICES ASSUME NEW i \in 1..Len(s), NEW j \in 1..Len(s), s[i] = s[j], i < j PROVE FALSE
    BY <1>1 DEF IsInjective
  <2>1. <<s[i], s[i]>> \in Before(s)
    BY BeforePairs
  <2> QED
    BY <1>3, <2>1
<1> QED
  BY <1>2, <1>3

\* One element put anywhere into a sequence.
LEMMA InsertOne ==
    ASSUME NEW S, NEW a \in Seq(S), NEW b \in Seq(S), NEW e \in S
    PROVE  /\ Range((a \o <<e>>) \o b) = Range(a \o b) \cup {e}
           /\ \A x, y : x # e /\ y # e =>
                 (<<x, y>> \in Before((a \o <<e>>) \o b) <=> <<x, y>> \in Before(a \o b))
           /\ IsInjective(a \o b) /\ e \notin Range(a \o b) => IsInjective((a \o <<e>>) \o b)
<1> DEFINE one == <<e>>
           s == a \o b
           u == a \o one
           t == u \o b
<1>1. one \in Seq(S) /\ s \in Seq(S) /\ u \in Seq(S) /\ t \in Seq(S)
  OBVIOUS
<1>2. Range(one) = {e} /\ Before(one) = {}
  BY BeforeSmall
<1> HIDE DEF one
<1>3. Range(s) = Range(a) \cup Range(b)
  BY ConcatRange
<1>4. Range(u) = Range(a) \cup {e}
  BY <1>1, <1>2, ConcatRange
<1>5. \A x, y : <<x, y>> \in Before(s)
                <=> (<<x, y>> \in Before(a) \/ <<x, y>> \in Before(b) \/ (x \in Range(a) /\ y \in Range(b)))
  BY ConcatBefore
<1>6. \A x, y : <<x, y>> \in Before(u) <=> (<<x, y>> \in Before(a) \/ (x \in Range(a) /\ y = e))
  <2>1. \A x, y : <<x, y>> \in Before(u)
                  <=> (<<x, y>> \in Before(a) \/ <<x, y>> \in Before(one)
                       \/ (x \in Range(a) /\ y \in Range(one)))
    BY <1>1, ConcatBefore
  <2> QED
    BY <1>2, <2>1, ZenonT(60)
<1> HIDE DEF u, s
<1>7. Range(t) = Range(u) \cup Range(b)
  BY <1>1, ConcatRange
<1>8. \A x, y : <<x, y>> \in Before(t)
                <=> (<<x, y>> \in Before(u) \/ <<x, y>> \in Before(b) \/ (x \in Range(u) /\ y \in Range(b)))
  BY <1>1, ConcatBefore
<1> HIDE DEF t
<1>9. ASSUME IsInjective(s), e \notin Range(s) PROVE IsInjective(t)
  <2>1. \A x : <<x, x>> \notin Before(s)
    BY <1>1, <1>9, NoRepetition
  <2>2. ASSUME NEW x, <<x, x>> \in Before(t) PROVE FALSE
    <3>1. <<x, x>> \notin Before(a) /\ <<x, x>> \notin Before(b) /\ ~(x \in Range(a) /\ x \in Range(b))
      BY <1>5, <2>1
    <3>2. <<x, x>> \in Before(u) \/ (x \in Range(u) /\ x \in Range(b))
      BY <1>8, <2>2, <3>1
    <3>3. (x \in Range(a) /\ x = e) \/ (x \in Range(u) /\ x \in Range(b))
      BY <1>6, <3>1, <3>2
    <3> QED
      BY <1>3, <1>4, <1>9, <3>1, <3>3
  <2> QED
    BY <1>1, <2>2, NoRepetition
<1>10. Range(t) = Range(s) \cup {e}
  BY <1>3, <1>4, <1>7
<1>11. \A x, y : x # e /\ y # e => (<<x, y>> \in Before(t) <=> <<x, y>> \in Before(s))
  BY <1>3, <1>4, <1>5, <1>6, <1>8
<1> QED
  BY <1>9, <1>10, <1>11 DEF t, s, u, one

\* One element put at the end.
LEMMA AppendOne ==
    ASSUME NEW S, NEW a \in Seq(S), NEW e \in S
    PROVE  /\ Range(Append(a, e)) = Range(a) \cup {e}
           /\ \A x, y : <<x, y>> \in Before(Append(a, e))
                        <=> (<<x, y>> \in Before(a) \/ (x \in Range(a) /\ y = e))
           /\ IsInjective(a) /\ e \notin Range(a) => IsInjective(Append(a, e))
<1> DEFINE one == <<e>>
           t == a \o one
<1>1. Append(a, e) = t /\ one \in Seq(S) /\ t \in Seq(S)
  BY SeqAlgebra
<1>2. Range(one) = {e} /\ Before(one) = {}
  BY BeforeSmall
<1> HIDE DEF one
<1>3. Range(t) = Range(a) \cup {e}
  BY <1>1, <1>2, ConcatRange
<1>4. \A x, y : <<x, y>> \in Before(t) <=> (<<x, y>> \in Before(a) \/ (x \in Range(a) /\ y = e))
  <2>1. \A x, y : <<x, y>> \in Before(t)
                  <=> (<<x, y>> \in Before(a) \/ <<x, y>> \in Before(one)
                       \/ (x \in Range(a) /\ y \in Range(one)))
    BY <1>1, ConcatBefore
  <2>2. \A x, y : <<x, y>> \notin Before(one) /\ (y \in Range(one) <=> y = e)
    BY <1>2
  <2> QED
    BY <2>1, <2>2, Zenon
<1> HIDE DEF t
<1>5. ASSUME IsInjective(a), e \notin Range(a) PROVE IsInjective(t)
  <2>1. \A x : <<x, x>> \notin Before(a)
    BY <1>5, NoRepetition
  <2>2. \A x : <<x, x>> \notin Before(t)
    BY <1>4, <1>5, <2>1
  <2> QED
    BY <1>1, <2>2, NoRepetition
<1> QED
  BY <1>1, <1>3, <1>4, <1>5

\* A stretch dropped from a sequence.
LEMMA DropMiddle ==
    ASSUME NEW S, NEW a \in Seq(S), NEW b \in Seq(S), NEW c \in Seq(S)
    PROVE  /\ Range(a \o c) \subseteq Range((a \o b) \o c)
           /\ IsInjective((a \o b) \o c) => IsInjective(a \o c)
<1> DEFINE s == a \o c
           u == a \o b
           t == u \o c
<1>1. s \in Seq(S) /\ u \in Seq(S) /\ t \in Seq(S)
  OBVIOUS
<1>2. Range(s) = Range(a) \cup Range(c) /\ Range(u) = Range(a) \cup Range(b)
  BY ConcatRange
<1>3. \A x, y : <<x, y>> \in Before(s)
                <=> (<<x, y>> \in Before(a) \/ <<x, y>> \in Before(c) \/ (x \in Range(a) /\ y \in Range(c)))
  BY ConcatBefore
<1>4. \A x, y : <<x, y>> \in Before(a) => <<x, y>> \in Before(u)
  BY ConcatBefore
<1> HIDE DEF u, s
<1>5. Range(t) = Range(u) \cup Range(c)
  BY <1>1, ConcatRange
<1>6. \A x, y : <<x, y>> \in Before(t)
                <=> (<<x, y>> \in Before(u) \/ <<x, y>> \in Before(c) \/ (x \in Range(u) /\ y \in Range(c)))
  BY <1>1, ConcatBefore
<1> HIDE DEF t
<1>7. ASSUME IsInjective(t) PROVE IsInjective(s)
  <2>1. \A x : <<x, x>> \notin Before(t)
    BY <1>1, <1>7, NoRepetition
  <2>2. \A x : <<x, x>> \notin Before(s)
    BY <1>2, <1>3, <1>4, <1>6, <2>1
  <2> QED
    BY <1>1, <2>2, NoRepetition
<1>8. Range(s) \subseteq Range(t)
  BY <1>2, <1>5
<1> QED
  BY <1>7, <1>8 DEF t, s, u

\* The first element is taken.
LEMMA TailRange ==
    ASSUME NEW S, NEW s \in Seq(S), s # <<>>
    PROVE  /\ Head(s) \in Range(s)
           /\ Range(s) = Range(Tail(s)) \cup {Head(s)}
           /\ IsInjective(s) => IsInjective(Tail(s)) /\ Head(s) \notin Range(Tail(s))
<1> DEFINE t == Tail(s)
<1>1. /\ Len(s) \in Nat \ {0} /\ Len(t) = Len(s) - 1 /\ DOMAIN s = 1..Len(s) /\ DOMAIN t = 1..Len(t)
      /\ \A i \in 1..Len(t) : t[i] = s[i + 1]
      /\ Head(s) = s[1]
  OBVIOUS
<1> HIDE DEF t
<1>2. Head(s) \in Range(s) /\ \A i \in 1..Len(t) : t[i] \in Range(s)
  BY <1>1 DEF Range
<1>3. Range(s) \subseteq Range(t) \cup {Head(s)}
  <2> SUFFICES ASSUME NEW i \in 1..Len(s) PROVE s[i] \in Range(t) \cup {Head(s)}
    BY <1>1 DEF Range
  <2>1. CASE i = 1
    BY <1>1, <2>1
  <2>2. CASE i # 1
    <3>1. i - 1 \in 1..Len(t) /\ t[i - 1] = s[i]
      BY <1>1, <2>2
    <3> QED
      BY <1>1, <3>1 DEF Range
  <2> QED
    BY <2>1, <2>2
<1>4. ASSUME IsInjective(s) PROVE IsInjective(t) /\ Head(s) \notin Range(t)
  <2>1. \A i, j \in 1..Len(s) : s[i] = s[j] => i = j
    BY <1>1, <1>4 DEF IsInjective
  <2>2. \A i \in 1..Len(t) : i + 1 \in 1..Len(s) /\ i + 1 # 1 /\ 1 \in 1..Len(s)
    BY <1>1
  <2>3. Head(s) \notin Range(t)
    BY <1>1, <2>1, <2>2 DEF Range
  <2>4. \A i, j \in 1..Len(t) : t[i] = t[j] => i + 1 = j + 1
    BY <1>1, <2>1, <2>2
  <2>5. IsInjective(t)
    BY <1>1, <2>4 DEF IsInjective
  <2> QED
    BY <2>3, <2>5
<1> QED
  BY <1>1, <1>2, <1>3, <1>4 DEF Range, t

\* The empty sequence.
LEMMA EmptyRange == Range(<<>>) = {} /\ IsInjective(<<>>)
  BY DEF Range, IsInjective

-----------------------------------------------------------------------------
(* The requests counted are the requests there are.                        *)

\* The running request is the one the worker holds, and the queued ones are
\* those in the channel, each once.
CallsHeld ==
    /\ \A s \in Submits : call[s] = "running" => pc \in RunPoints /\ msg = s
    /\ pc \in RunPoints /\ msg \in Submits => call[msg] = "running"
    /\ \A s \in Submits : call[s] = "queued" <=> s \in Range(turns)
    /\ IsInjective(turns)

\* The requests Agent.pending counts.
Counted == {s \in Submits : \/ call[s] \in {"counted", "queued"}
                            \/ call[s] = "running" /\ pc # "reply"}

Requests == CallsHeld /\ PendingAccounts

\* Requests move from the caller to the channel, to the worker and to an answer.
LEMMA CallsHeldStep == Shape /\ CallsHeld /\ [Next]_vars => CallsHeld'
<1> SUFFICES ASSUME Shape, CallsHeld, [Next]_vars PROVE CallsHeld'
  OBVIOUS
<1> USE DEF CallsHeld, Shape, TypeOK, TypeQueues, TypeCallers, Control, MessageHeld, RunPoints,
    TurnPoints, inbox, control, context, turn, callers, log, history, worker, inTurn
<1>1. ASSUME ClaimWake PROVE CallsHeld'
  BY <1>1, SeqClosed, MessageAssumption DEF ClaimWake, WokenHoldsNotice
<1>2. ASSUME NoWake \/ WaitDone \/ WaitWake \/ Begin \/ Ended \/ Restore \/ Finish \/ Exit
      PROVE  CallsHeld'
  BY <1>2, MessageAssumption DEF NoWake, WaitDone, WaitWake, Begin, Ended, Restore, Finish, Exit
<1>3. ASSUME WaitTurn PROVE CallsHeld'
  BY <1>3, TailRange, SeqClosed DEF WaitTurn
<1>4. ASSUME Reply PROVE CallsHeld'
  BY <1>4 DEF Reply
<1>5. ASSUME Drain PROVE CallsHeld'
  <2>1. CASE turns = <<>>
    BY <1>5, <2>1 DEF Drain
  <2>2. CASE turns # <<>>
    <3>1. /\ call' = [call EXCEPT ![Head(turns)] = "answered"] /\ turns' = Tail(turns)
          /\ UNCHANGED <<pc, msg>>
      BY <1>5, <2>2 DEF Drain
    <3>2. /\ Head(turns) \in Submits /\ Head(turns) \in Range(turns)
          /\ Range(turns) = Range(Tail(turns)) \cup {Head(turns)}
          /\ IsInjective(Tail(turns)) /\ Head(turns) \notin Range(Tail(turns))
      BY <2>2, TailRange, SeqClosed
    <3> QED
      BY <1>5, <3>1, <3>2 DEF Drain
  <2> QED
    BY <2>1, <2>2
<1>6. ASSUME TurnStep PROVE CallsHeld'
  <2>1. UNCHANGED <<call, turns, msg>>
    BY <1>6 DEF TurnStep, Read, NotAdmitted, Open, Opening, StartBoundary, Take, Commit, Step,
    Model, Answered, Tooled, DrainSteers, Complete, Close
  <2>2. pc \in RunPoints /\ pc' \in RunPoints
    BY <1>6 DEF TurnStep, Read, NotAdmitted, Open, Opening, StartBoundary, Take, Commit, Step,
    Model, Answered, Tooled, DrainSteers, Complete, Close, CloseWith, TypeScalars
  <2> QED
    BY <2>1, <2>2
<1>7. ASSUME NEW s \in Submits, SubmitCount(s) PROVE CallsHeld'
  BY <1>7 DEF SubmitCount
<1>8. ASSUME NEW s \in Submits, SubmitSend(s) PROVE CallsHeld'
  BY <1>8, AppendOne DEF SubmitSend
<1>9. ASSUME NEW s \in Submits, SubmitCancel(s) PROVE CallsHeld'
  BY <1>9 DEF SubmitCancel
<1>10. ASSUME NEW s \in Submits, SubmitStopped(s) PROVE CallsHeld'
  BY <1>10 DEF SubmitStopped
<1>11. ASSUME NEW n \in Notices, Notify(n) \/ QueueCheck(n) \/ QueueCommit(n) \/
           QueueFail(n) \/ QueueEnqueue(n)
       PROVE  CallsHeld'
  BY <1>11 DEF Notify, QueueCheck, QueueCommit, QueueFail, QueueEnqueue, Refuse, Enqueue
<1>12. ASSUME NEW m \in Steers, SteerCheck(m) \/ SteerSend(m) \/ SteerGiveUp(m) PROVE CallsHeld'
  BY <1>12 DEF SteerCheck, SteerSend, SteerGiveUp
<1>13. ASSUME NEW w \in Waiters, WhenIdle(w) PROVE CallsHeld'
  BY <1>13 DEF WhenIdle
<1>14. ASSUME Interrupt \/ Stop PROVE CallsHeld'
  BY <1>14 DEF Interrupt, Stop
<1>15. ASSUME Crash PROVE CallsHeld'
  BY <1>15, EmptyRange DEF Crash
<1>16. ASSUME Resume PROVE CallsHeld'
  BY <1>16, EmptyRange DEF Resume
<1>17. CASE UNCHANGED vars
  BY <1>17 DEF vars, moves
<1> QED
  BY <1>1, <1>2, <1>3, <1>4, <1>5, <1>6, <1>7, <1>8, <1>9, <1>10, <1>11, <1>12, <1>13, <1>14,
  <1>15, <1>16, <1>17 DEF Next, WorkerStep, CallerStep, TurnStep

\* Counted requests are finitely many.
LEMMA CountedFinite == IsFiniteSet(Counted) /\ Cardinality(Counted) \in Nat
  BY FiniteAssumption, FS_Subset, FS_CardinalityType DEF Counted

\* A request enters or leaves the count together with its caller's state.
LEMMA PendingStep == Shape /\ Requests /\ [Next]_vars => PendingAccounts'
<1> SUFFICES ASSUME Shape, Requests, [Next]_vars, active' PROVE pending' = Cardinality(Counted')
  BY DEF PendingAccounts, Counted
<1>0. active => pending = Cardinality(Counted)
  BY DEF Requests, PendingAccounts, Counted
<1>a. ASSUME active, pending' = pending, Counted' = Counted PROVE pending' = Cardinality(Counted')
  BY <1>0, <1>a
<1> USE DEF Requests, CallsHeld, Shape, TypeOK, TypeQueues, TypeScalars, TypeCallers,
    Control, MessageHeld, ActiveRuns, RunPoints, TurnPoints, inbox, control, context, turn,
    callers, log, history, worker, inTurn
<1>1. ASSUME ClaimWake \/ NoWake \/ WaitDone \/ WaitWake \/ Begin \/ Ended \/ Restore
      PROVE  active /\ pending' = pending /\ Counted' = Counted
  BY <1>1 DEF Counted, ClaimWake, NoWake, WaitDone, WaitWake, Begin, Ended, Restore
<1>2. ASSUME WaitTurn PROVE active /\ pending' = pending /\ Counted' = Counted
  BY <1>2, TailRange, SeqClosed DEF Counted, WaitTurn
<1>3. ASSUME Finish PROVE pending' = Cardinality(Counted')
  <2>1. CASE msg \in Submits
    <3>1. Counted' = Counted \ {msg} /\ msg \in Counted
      BY <1>3, <2>1 DEF Counted, Finish
    <3>2. active /\ pending' = pending - 1
      BY <1>3, <2>1 DEF Counted, Finish
    <3> QED
      BY <1>0, <3>1, <3>2, CountedFinite, FS_RemoveElement
  <2>2. CASE msg \notin Submits
    BY <1>0, <1>3, <2>2 DEF Counted, Finish
  <2> QED
    BY <2>1, <2>2
<1>4. ASSUME Reply PROVE active /\ pending' = pending /\ Counted' = Counted
  BY <1>4 DEF Counted, Reply
<1>5. ASSUME TurnStep PROVE active /\ pending' = pending /\ Counted' = Counted
  BY <1>5 DEF Counted, TurnStep, Read, NotAdmitted, Open, Opening, StartBoundary, Take, Commit, Step,
  Model, Answered, Tooled, DrainSteers, Complete, Close, CloseWith
<1>6. ASSUME NEW s \in Submits, SubmitCount(s) PROVE pending' = Cardinality(Counted')
  <2>1. CASE SubmitRefused
    <3>1. active /\ pending' = pending /\ Counted' = Counted
      BY <1>6, <2>1 DEF Counted, SubmitCount
    <3> QED
      BY <1>0, <3>1
  <2>2. CASE ~SubmitRefused
    <3>1. Counted' = Counted \cup {s} /\ s \notin Counted
      BY <1>6, <2>2 DEF Counted, SubmitCount
    <3>2. active /\ pending' = pending + 1
      BY <1>6, <2>2 DEF Counted, SubmitCount
    <3>3. Cardinality(Counted \cup {s}) = Cardinality(Counted) + 1
      BY <3>1, CountedFinite, FS_AddElement
    <3> QED
      BY <1>0, <3>1, <3>2, <3>3
  <2> QED
    BY <2>1, <2>2
<1>7. ASSUME NEW s \in Submits, SubmitSend(s)
      PROVE  active /\ pending' = pending /\ Counted' = Counted
  BY <1>7 DEF Counted, SubmitSend
<1>8. ASSUME NEW s \in Submits, SubmitCancel(s) PROVE pending' = Cardinality(Counted')
  <2>1. Counted' = Counted \ {s} /\ s \in Counted
    BY <1>8 DEF Counted, SubmitCancel
  <2>2. active /\ pending' = pending - 1
    BY <1>8 DEF Counted, SubmitCancel
  <2> QED
    BY <1>0, <2>1, <2>2, CountedFinite, FS_RemoveElement
<1>9. ASSUME NEW n \in Notices, Notify(n) \/ QueueCheck(n) \/ QueueCommit(n) \/
          QueueFail(n) \/ QueueEnqueue(n)
      PROVE  active /\ pending' = pending /\ Counted' = Counted
  BY <1>9 DEF Counted, Notify, QueueCheck, QueueCommit, QueueFail, QueueEnqueue
<1>10. ASSUME NEW m \in Steers, SteerCheck(m) \/ SteerSend(m) \/ SteerGiveUp(m)
       PROVE  active /\ pending' = pending /\ Counted' = Counted
  BY <1>10 DEF Counted, SteerCheck, SteerSend, SteerGiveUp
<1>11. ASSUME NEW w \in Waiters, WhenIdle(w)
       PROVE  active /\ pending' = pending /\ Counted' = Counted
  BY <1>11 DEF Counted, WhenIdle
<1>12. ASSUME Interrupt \/ Stop PROVE active /\ pending' = pending /\ Counted' = Counted
  BY <1>12 DEF Counted, Interrupt, Stop
<1>13. ASSUME Resume PROVE pending' = Cardinality(Counted')
  <2>1. pending' = 0 /\ Counted' = {}
    BY <1>13 DEF Counted, Resume, CallStates
  <2> QED
    BY <2>1, FS_EmptySet
<1>14. \A s \in Submits : ~SubmitStopped(s)
  BY DEF SubmitStopped
<1>15. ~Exit /\ ~Drain /\ ~Crash
  BY DEF Exit, Drain, Crash
<1>16. CASE UNCHANGED vars
  BY <1>0, <1>16 DEF Counted, vars, moves
<1> QED
  BY <1>a, <1>1, <1>2, <1>3, <1>4, <1>5, <1>6, <1>7, <1>8, <1>9, <1>10, <1>11, <1>12, <1>13, <1>14,
  <1>15, <1>16 DEF Next, WorkerStep, CallerStep, TurnStep

\* A live agent counts no negative number of requests.
LEMMA PendingNatural == Requests => (active => pending \in Nat)
  BY CountedFinite DEF Requests, PendingAccounts, Counted

Settle == Shape /\ Requests

\* The shape and the requests hold of a fresh agent and are preserved.
LEMMA SettleInductive == (Init => Settle) /\ (Settle /\ [Next]_vars => Settle')
<1>1. Init => Requests
  <2> SUFFICES ASSUME Init PROVE Requests
    OBVIOUS
  <2>1. CallsHeld
    BY EmptyRange DEF Init, CallsHeld, RunPoints, TurnPoints
  <2>2. Counted = {} /\ pending = 0
    BY DEF Init, Counted
  <2> QED
    BY <2>1, <2>2, FS_EmptySet DEF Requests, PendingAccounts, Counted
<1> QED
  BY <1>1, ShapeInit, ShapeStep, CallsHeldStep, PendingStep DEF Settle, Requests

-----------------------------------------------------------------------------
(* Idle waiters.                                                           *)

\* After notifyIdleLocked nobody waits.
LEMMA NotifiedNobodyWaits ==
    ASSUME wait \in [Waiters -> WaitStates]
    PROVE  \A w \in Waiters : NotifyIdle(wait)[w] # "waiting"
  BY DEF NotifyIdle

\* Whatever step ends the work a waiter waits for notifies it.
LEMMA IdleWaiterStep == Settle /\ IdleWaiterNotMissed /\ [Next]_vars => IdleWaiterNotMissed'
<1> SUFFICES ASSUME Settle, IdleWaiterNotMissed, [Next]_vars PROVE IdleWaiterNotMissed'
  OBVIOUS
<1>0. Shape /\ (active => pending \in Nat)
  BY PendingNatural DEF Settle
<1> USE DEF IdleWaiterNotMissed, Shape, TypeOK, TypeFlags, TypeScalars, TypeCallers, Control,
    TurnIsBusy, ActiveRuns, TurnPoints, inbox, control, context, turn, callers, log, history,
    worker, inTurn
<1>1. ASSUME ClaimWake \/ NoWake \/ WaitDone \/ WaitWake \/ WaitTurn \/ Begin \/ Ended \/
             Restore \/ Reply \/ Drain
      PROVE  IdleWaiterNotMissed'
  BY <1>0, <1>1 DEF ClaimWake, NoWake, WaitDone, WaitWake, WaitTurn, Begin, Ended, Restore, Reply, Drain
<1>2. ASSUME Finish PROVE IdleWaiterNotMissed'
  BY <1>0, <1>2, NotifiedNobodyWaits DEF Finish
<1>3. ASSUME Exit PROVE IdleWaiterNotMissed'
  BY <1>0, <1>3, NotifiedNobodyWaits DEF Exit
<1>4. ASSUME TurnStep PROVE IdleWaiterNotMissed'
  BY <1>0, <1>4 DEF TurnStep, Read, NotAdmitted, Open, Opening, StartBoundary, Take, Commit, Step,
  Model, Answered, Tooled, DrainSteers, Complete, Close, CloseWith
<1>5. ASSUME NEW s \in Submits, SubmitCount(s) PROVE IdleWaiterNotMissed'
  BY <1>0, <1>5 DEF SubmitCount, SubmitRefused
<1>6. ASSUME NEW s \in Submits, SubmitCancel(s) PROVE IdleWaiterNotMissed'
  BY <1>0, <1>6, NotifiedNobodyWaits DEF SubmitCancel
<1>7. ASSUME NEW s \in Submits, SubmitSend(s) \/ SubmitStopped(s) PROVE IdleWaiterNotMissed'
  BY <1>0, <1>7 DEF SubmitSend, SubmitStopped
<1>8. ASSUME NEW n \in Notices, Notify(n) \/ QueueCheck(n) \/ QueueCommit(n) \/
          QueueFail(n) \/ QueueEnqueue(n)
      PROVE  IdleWaiterNotMissed'
  BY <1>0, <1>8 DEF Notify, QueueCheck, QueueCommit, QueueFail, QueueEnqueue, Refuse, Enqueue
<1>9. ASSUME NEW m \in Steers, SteerCheck(m) \/ SteerSend(m) \/ SteerGiveUp(m)
      PROVE  IdleWaiterNotMissed'
  BY <1>0, <1>9 DEF SteerCheck, SteerSend, SteerGiveUp
<1>10. ASSUME NEW w \in Waiters, WhenIdle(w) PROVE IdleWaiterNotMissed'
  BY <1>0, <1>10 DEF WhenIdle
<1>11. ASSUME Interrupt \/ Stop \/ Crash \/ Resume PROVE IdleWaiterNotMissed'
  BY <1>0, <1>11 DEF Interrupt, Stop, Crash, Resume
<1>12. CASE UNCHANGED vars
  BY <1>0, <1>12 DEF vars, moves
<1> QED
  BY <1>1, <1>2, <1>3, <1>4, <1>5, <1>6, <1>7, <1>8, <1>9, <1>10, <1>11, <1>12
  DEF Next, WorkerStep, CallerStep, TurnStep

\* No WhenIdle caller is forgotten: every step that leaves the agent idle, or
\* stops it, has closed the channels of the callers that wait.
THEOREM IdleWaiterNeverMissed == Spec => []IdleWaiterNotMissed
<1>1. Init => Settle /\ IdleWaiterNotMissed
  BY SettleInductive DEF Init, IdleWaiterNotMissed
<1>2. Settle /\ IdleWaiterNotMissed /\ [Next]_vars => (Settle /\ IdleWaiterNotMissed)'
  BY SettleInductive, IdleWaiterStep
<1> QED
  BY <1>1, <1>2, PTL DEF Spec

-----------------------------------------------------------------------------
(* Cancelled turns.                                                        *)

\* Adding to a queue of notices makes it longer.
LEMMA AddingGrows ==
    ASSUME NEW S
    PROVE  \A s \in Seq(S), e \in S : Len(Append(s, e)) >= Len(s) /\ Len(<<e>> \o s) >= Len(s)
  OBVIOUS

\* The step that takes notices does not take them once the turn is cancelled.
LEMMA CancelledTakesNothingStep ==
    Shape /\ [Next]_vars => (Aborted /\ pc \in TurnPoints /\ active' => Len(notices') >= Len(notices))
<1> SUFFICES ASSUME Shape, [Next]_vars, Aborted, pc \in TurnPoints, active'
             PROVE  Len(notices') >= Len(notices)
  OBVIOUS
<1>0. Len(notices) \in Nat
  BY DEF Shape, TypeOK, TypeQueues
<1>1. UNCHANGED notices => Len(notices') >= Len(notices)
  BY <1>0
<1> USE DEF TurnPoints, inbox, control, context, turn, callers, log, history, worker, inTurn
<1>2. ASSUME ClaimWake \/ NoWake \/ WaitDone \/ WaitWake \/ WaitTurn \/ Begin \/ Ended \/
             Restore \/ Finish \/ Reply \/ Exit \/ Drain
      PROVE  UNCHANGED notices
  BY <1>2 DEF ClaimWake, NoWake, WaitDone, WaitWake, WaitTurn, Begin, Ended, Restore, Finish,
  Reply, Exit, Drain
<1>3. ASSUME TurnStep PROVE UNCHANGED notices
  BY <1>3 DEF TurnStep, Read, NotAdmitted, Open, Opening, StartBoundary, Take, DrainNotices,
  Commit, Step, Model, Answered, Tooled, DrainSteers, Complete, Close
<1>4. ASSUME NEW s \in Submits, SubmitCount(s) \/ SubmitSend(s) \/ SubmitCancel(s) \/
          SubmitStopped(s)
      PROVE  UNCHANGED notices
  BY <1>4 DEF SubmitCount, SubmitSend, SubmitCancel, SubmitStopped
<1>5. ASSUME NEW n \in Notices, Notify(n) \/ QueueEnqueue(n) PROVE Len(notices') >= Len(notices)
  <2>1. UNCHANGED notices \/ notices' = Append(notices, n)
    BY <1>5 DEF Notify, QueueEnqueue, Refuse, Enqueue
  <2> QED
    BY <1>1, <2>1, AddingGrows DEF Shape, TypeOK, TypeQueues
<1>6. ASSUME NEW n \in Notices, QueueCheck(n) \/ QueueCommit(n) \/ QueueFail(n)
      PROVE  UNCHANGED notices
  BY <1>6 DEF QueueCheck, QueueCommit, QueueFail
<1>7. ASSUME NEW m \in Steers, SteerCheck(m) \/ SteerSend(m) \/ SteerGiveUp(m)
      PROVE  UNCHANGED notices
  BY <1>7 DEF SteerCheck, SteerSend, SteerGiveUp
<1>8. ASSUME NEW w \in Waiters, WhenIdle(w) PROVE UNCHANGED notices
  BY <1>8 DEF WhenIdle
<1>9. ASSUME Interrupt \/ Stop \/ Crash \/ Resume PROVE UNCHANGED notices
  <2>1. ~Crash /\ ~Resume
    BY DEF Crash, Resume
  <2> QED
    BY <1>9, <2>1 DEF Interrupt, Stop
<1>10. CASE UNCHANGED vars
  BY <1>1, <1>10 DEF vars, moves
<1> QED
  BY <1>1, <1>2, <1>3, <1>4, <1>5, <1>6, <1>7, <1>8, <1>9, <1>10
  DEF Next, WorkerStep, CallerStep, TurnStep

\* Once a turn's context is done, notices leave the queue only with the worker
\* or the process: drainNotices looks at the context under the agent's lock.
THEOREM CancelledTurnNeverTakes == Spec => CancelledTurnTakesNothing
<1>1. Init => Shape
  BY ShapeInit
<1>2. Shape /\ [Next]_vars => Shape'
  BY ShapeStep
<1>3. Shape /\ [Next]_vars
      => [Aborted /\ pc \in TurnPoints /\ active' => Len(notices') >= Len(notices)]_vars
  BY CancelledTakesNothingStep
<1> QED
  BY <1>1, <1>2, <1>3, PTL DEF Spec, CancelledTurnTakesNothing

-----------------------------------------------------------------------------
(* Stranded notices.                                                       *)

\* Without withdrawn requests, notices stay behind only when a turn parked them.
LEMMA NotStrandedStep ==
    ASSUME Cancellable = {}
    PROVE  Settle /\ NoticeNotStranded /\ [Next]_vars => NoticeNotStranded'
<1> SUFFICES ASSUME Settle, NoticeNotStranded, [Next]_vars PROVE NoticeNotStranded'
  OBVIOUS
<1>0. Shape /\ (active => pending \in Nat)
  BY PendingNatural DEF Settle
<1> USE DEF NoticeNotStranded, Shape, TypeOK, TypeFlags, TypeScalars, Control, TurnIsBusy,
    ActiveRuns, TurnPoints, inbox, control, context, turn, callers, log, history, worker, inTurn
<1>1. ASSUME ClaimWake \/ NoWake \/ WaitDone \/ WaitWake \/ WaitTurn \/ Begin \/ Ended \/
             Restore \/ Reply \/ Exit \/ Drain
      PROVE  NoticeNotStranded'
  BY <1>0, <1>1 DEF ClaimWake, NoWake, WaitDone, WaitWake, WaitTurn, Begin, Ended, Restore, Reply,
  Exit, Drain
<1>2. ASSUME Finish PROVE NoticeNotStranded'
  <2>1. /\ parked' = (parked \/ (notices # <<>> /\ ~woken' /\ (~Settled \/ mode = "one-shot")))
        /\ woken' = (notices # <<>> /\ pending' = 0 /\ (Settled \/ woken) /\ mode # "one-shot")
        /\ notices' = notices
    BY <1>2, Zenon DEF Finish, WakeAfter
  <2> QED
    BY <2>1, Zenon
<1>3. ASSUME TurnStep PROVE NoticeNotStranded'
  BY <1>0, <1>3 DEF TurnStep, Read, NotAdmitted, Open, Opening, StartBoundary, Take, Commit, Step,
  Model, Answered, Tooled, DrainSteers, Complete, Close, CloseWith
<1>4. ASSUME NEW s \in Submits, SubmitCount(s) PROVE NoticeNotStranded'
  BY <1>0, <1>4 DEF SubmitCount, SubmitRefused
<1>5. ASSUME NEW s \in Submits, SubmitSend(s) \/ SubmitStopped(s) PROVE NoticeNotStranded'
  BY <1>0, <1>5 DEF SubmitSend, SubmitStopped
<1>6. \A s \in Submits : ~SubmitCancel(s)
  BY DEF SubmitCancel
<1>7. ASSUME NEW n \in Notices, Notify(n) \/ QueueCheck(n) \/ QueueCommit(n) \/
          QueueFail(n) \/ QueueEnqueue(n)
      PROVE  NoticeNotStranded'
  BY <1>0, <1>7 DEF Notify, QueueCheck, QueueCommit, QueueFail, QueueEnqueue, Refuse, Enqueue,
  WakesIdle
<1>8. ASSUME NEW m \in Steers, SteerCheck(m) \/ SteerSend(m) \/ SteerGiveUp(m)
      PROVE  NoticeNotStranded'
  BY <1>8 DEF SteerCheck, SteerSend, SteerGiveUp
<1>9. ASSUME NEW w \in Waiters, WhenIdle(w) PROVE NoticeNotStranded'
  BY <1>9 DEF WhenIdle
<1>10. ASSUME Interrupt \/ Stop \/ Crash \/ Resume PROVE NoticeNotStranded'
  BY <1>10 DEF Interrupt, Stop, Crash, Resume
<1>11. CASE UNCHANGED vars
  BY <1>11 DEF vars, moves
<1> QED
  BY <1>1, <1>2, <1>3, <1>4, <1>5, <1>6, <1>7, <1>8, <1>9, <1>10, <1>11
  DEF Next, WorkerStep, CallerStep, TurnStep

\* While no Submit is withdrawn by its caller, an idle agent with nothing
\* pending holds no notice, except those a cancelled turn, a one-shot agent or a
\* resume left for the next turn: a withdrawal is the one way to strand one.
THEOREM NoticeNeverStranded ==
    ASSUME Cancellable = {}
    PROVE  Spec => []NoticeNotStranded
<1>1. Init => Settle /\ NoticeNotStranded
  BY SettleInductive DEF Init, NoticeNotStranded
<1>2. Settle /\ NoticeNotStranded /\ [Next]_vars => (Settle /\ NoticeNotStranded)'
  BY SettleInductive, NotStrandedStep
<1> QED
  BY <1>1, <1>2, PTL DEF Spec

-----------------------------------------------------------------------------
(* What a turn has done at each of its points.                             *)

\* The points of a turn between its turn/start and its turn/end.
OpenPoints == TurnPoints \ {"read", "open", "ended"}

\* Input is held only from the boundary that takes it to its commit, and holds
\* notices and steers.
HandHeld ==
    /\ hand # <<>> => pc \in {"steer", "take", "commit"}
    /\ hand \in Seq(Notices \cup Steers)

\* opened and numbered tell what the log holds of the turn.
TurnOpening ==
    /\ pc \in {"read", "open"} => ~opened /\ outcome = None
    /\ pc \in OpenPoints => opened
    /\ pc = "open" => numbered
    /\ pc \in RunPoints \ {"begin"} /\ opened => numbered /\ outcome # "not-admitted"

\* Without failed appends, a live agent's log has an open turn only inside one.
OpenInTurn == faults = 0 /\ turnOpen => pc \in OpenPoints \cup {"crashed"}

\* Without failed appends, a notice's turn that never opened was cancelled.
UnopenedIsCancelled ==
    faults = 0 /\ pc \in {"ended", "restore"} /\ ~opened /\ msg \in Notices => outcome = "canceled"

Points == HandHeld /\ TurnOpening /\ OpenInTurn /\ UnopenedIsCancelled

\* A fresh agent is at no point of a turn.
LEMMA PointsInit == Init => Points
  BY DEF Init, Points, HandHeld, TurnOpening, OpenInTurn, UnopenedIsCancelled, OpenPoints, RunPoints,
         TurnPoints

\* The hand is filled by the boundaries and emptied by the commits or a closeout.
LEMMA HandStep == Shape /\ HandHeld /\ [Next]_vars => HandHeld'
<1> SUFFICES ASSUME Shape, HandHeld, [Next]_vars PROVE HandHeld'
  OBVIOUS
<1> DEFINE H == Notices \cup Steers
<1>0. /\ hand \in Seq(H) /\ notices \in Seq(Notices) /\ steers \in Seq(Steers)
      /\ \A s \in Seq(Notices) : s \in Seq(H)
      /\ <<>> \in Seq(H)
  BY DEF HandHeld, Shape, TypeOK, TypeQueues
<1> USE DEF HandHeld, TurnPoints, inbox, control, context, turn, callers, log, history, worker,
    inTurn
<1>1. ASSUME ClaimWake \/ NoWake \/ WaitDone \/ WaitWake \/ WaitTurn \/ Begin \/ Ended \/
             Restore \/ Finish \/ Reply \/ Exit \/ Drain
      PROVE  HandHeld'
  BY <1>1 DEF ClaimWake, NoWake, WaitDone, WaitWake, WaitTurn, Begin, Ended, Restore, Finish,
  Reply, Exit, Drain
<1>2. ASSUME Read \/ NotAdmitted \/ Open \/ Opening \/ StartBoundary \/ Step \/ Model \/
             Answered \/ Tooled \/ Complete \/ Close
      PROVE  HandHeld'
  BY <1>0, <1>2 DEF Read, NotAdmitted, Open, Opening, StartBoundary, Step, Model, Answered,
  Tooled, Complete, Close, CloseWith
<1>3. ASSUME Take PROVE HandHeld'
  <2>1. hand \o notices \in Seq(H)
    BY <1>0, SeqClosed
  <2>2. hand' = hand \/ hand' = hand \o notices
    BY <1>3 DEF Take, DrainNotices
  <2>3. (pc' = "complete" /\ hand' = <<>>) \/ pc' = "commit"
    BY <1>3 DEF Take
  <2> QED
    BY <1>0, <2>1, <2>2, <2>3
<1>4. ASSUME Commit PROVE HandHeld'
  <2>1. CASE hand = <<>> /\ hand' = hand
    BY <2>1
  <2>2. CASE hand # <<>> /\ hand' = Tail(hand) /\ pc' = pc
    BY <1>0, <1>4, <2>2, SeqClosed DEF Commit
  <2>3. CASE hand' = <<>>
    BY <1>0, <2>3
  <2> QED
    BY <1>4, <2>1, <2>2, <2>3 DEF Commit, CloseWith
<1>5. ASSUME DrainSteers PROVE HandHeld'
  <2>1. CASE steers # <<>>
    <3>1. Head(steers) \in H
      BY <1>0, <2>1
    <3>2. Append(hand, Head(steers)) \in Seq(H)
      BY <1>0, <3>1, SeqClosed
    <3> QED
      BY <1>5, <2>1, <3>2 DEF DrainSteers
  <2>2. CASE steers = <<>>
    BY <1>5, <2>2 DEF DrainSteers
  <2> QED
    BY <2>1, <2>2
<1>6. ASSUME CallerStep \/ Interrupt \/ Stop PROVE HandHeld'
  BY <1>6 DEF CallerStep, SubmitCount, SubmitSend, SubmitCancel, SubmitStopped, Notify, QueueCheck,
  QueueCommit, QueueFail, QueueEnqueue, SteerCheck, SteerSend, SteerGiveUp, WhenIdle, Interrupt, Stop
<1>7. ASSUME Crash \/ Resume PROVE HandHeld'
  BY <1>0, <1>7 DEF Crash, Resume
<1>8. CASE UNCHANGED vars
  BY <1>8 DEF vars, moves
<1> QED
  BY <1>1, <1>2, <1>3, <1>4, <1>5, <1>6, <1>7, <1>8 DEF Next, WorkerStep, TurnStep

\* A turn is numbered before it is opened, and opened before it takes anything.
LEMMA TurnOpeningStep == Shape /\ TurnOpening /\ [Next]_vars => TurnOpening'
<1> SUFFICES ASSUME Shape, TurnOpening, [Next]_vars PROVE TurnOpening'
  OBVIOUS
<1> USE DEF Shape, TypeOK, TypeFlags, TurnOpening, OpenPoints, RunPoints, TurnPoints, inbox, control,
    context, turn, callers, log, history, worker, inTurn
<1>1. ASSUME ClaimWake \/ NoWake \/ WaitDone \/ WaitWake \/ WaitTurn \/ Begin \/ Ended \/
             Restore \/ Finish \/ Reply \/ Exit \/ Drain
      PROVE  TurnOpening'
  BY <1>1 DEF ClaimWake, NoWake, WaitDone, WaitWake, WaitTurn, Begin, Ended, Restore, Finish,
  Reply, Exit, Drain, None
<1>2. ASSUME Read \/ NotAdmitted \/ Open PROVE TurnOpening'
  <2>1. CASE Read
    BY <2>1 DEF Read
  <2>2. CASE NotAdmitted
    BY <2>2 DEF NotAdmitted
  <2>3. CASE Open
    <3>1. pc = "open" /\ ~opened /\ outcome = None /\ numbered /\ UNCHANGED numbered
      BY <2>3 DEF Open
    <3>2. CASE opened' = TRUE /\ pc' = "opening" /\ outcome' = outcome
      BY <3>1, <3>2 DEF None
    <3>3. CASE opened' = opened /\ pc' = "ended"
      BY <3>1, <3>3
    <3> QED
      BY <2>3, <3>2, <3>3 DEF Open
  <2> QED
    BY <1>2, <2>1, <2>2, <2>3
<1>3. ASSUME Opening \/ StartBoundary \/ Take \/ Commit \/ Step \/ Model \/ Answered \/ Tooled \/
             DrainSteers \/ Complete \/ Close
      PROVE  TurnOpening'
  <2>1. UNCHANGED <<opened, numbered>> /\ pc \in OpenPoints /\ pc' \in OpenPoints \cup {"ended"}
    BY <1>3 DEF Opening, StartBoundary, Take, Commit, Step, Model, Answered, Tooled, DrainSteers,
    Complete, Close, CloseWith, Shape, TypeOK, TypeScalars
  <2>2. outcome' \in {outcome, "canceled", "error", "max_tokens", "step_limit", "completed"}
    BY <1>3 DEF Opening, StartBoundary, Take, Commit, Step, Model, Answered, Tooled, DrainSteers,
    Complete, Close, CloseWith, OutcomeFor
  <2> QED
    BY <2>1, <2>2
<1>4. ASSUME CallerStep \/ Interrupt \/ Stop PROVE TurnOpening'
  BY <1>4 DEF CallerStep, SubmitCount, SubmitSend, SubmitCancel, SubmitStopped, Notify, QueueCheck,
  QueueCommit, QueueFail, QueueEnqueue, SteerCheck, SteerSend, SteerGiveUp, WhenIdle, Interrupt, Stop
<1>5. ASSUME Crash \/ Resume PROVE TurnOpening'
  BY <1>5 DEF Crash, Resume
<1>6. CASE UNCHANGED vars
  BY <1>6 DEF vars, moves
<1> QED
  BY <1>1, <1>2, <1>3, <1>4, <1>5, <1>6 DEF Next, WorkerStep, TurnStep

\* Only a failed append leaves a turn open, or ends it unopened without a cancellation.
LEMMA OpenEndStep ==
    Settle /\ Points /\ [Next]_vars => OpenInTurn' /\ UnopenedIsCancelled'
<1> SUFFICES ASSUME Settle, Points, [Next]_vars PROVE OpenInTurn' /\ UnopenedIsCancelled'
  OBVIOUS
<1> USE DEF Settle, Shape, TypeOK, TypeScalars, Control, MessageHeld, Points, TurnOpening, OpenInTurn,
    UnopenedIsCancelled, OpenPoints, RunPoints, TurnPoints, inbox, control, context, turn, callers,
    log, history, worker, inTurn
<1>1. ASSUME ClaimWake \/ NoWake \/ WaitDone \/ WaitWake \/ WaitTurn \/ Begin \/ Ended \/
             Restore \/ Finish \/ Reply \/ Exit \/ Drain
      PROVE  OpenInTurn' /\ UnopenedIsCancelled'
  BY <1>1 DEF ClaimWake, NoWake, WaitDone, WaitWake, WaitTurn, Begin, Ended, Restore, Finish,
  Reply, Exit, Drain
<1>2. ASSUME Read \/ NotAdmitted \/ Open PROVE OpenInTurn' /\ UnopenedIsCancelled'
  BY <1>2, MessageAssumption DEF Read, NotAdmitted, Open, OutcomeFor, Fault
<1>3. ASSUME Opening \/ StartBoundary \/ Take \/ Commit \/ Step \/ Model \/ Answered \/ Tooled \/
             DrainSteers
      PROVE  OpenInTurn' /\ UnopenedIsCancelled'
  <2>1. UNCHANGED <<opened>> /\ pc \in OpenPoints /\ pc' \in OpenPoints
    BY <1>3 DEF Opening, StartBoundary, Take, Commit, Step, Model, Answered, Tooled, DrainSteers,
    CloseWith
  <2> QED
    BY <2>1
<1>4. ASSUME Complete \/ Close PROVE OpenInTurn' /\ UnopenedIsCancelled'
  BY <1>4 DEF Complete, Close, CloseWith, Fault
<1>5. ASSUME CallerStep \/ Interrupt \/ Stop PROVE OpenInTurn' /\ UnopenedIsCancelled'
  BY <1>5 DEF CallerStep, SubmitCount, SubmitSend, SubmitCancel, SubmitStopped, Notify, QueueCheck,
  QueueCommit, QueueFail, QueueEnqueue, SteerCheck, SteerSend, SteerGiveUp, WhenIdle, Interrupt, Stop
<1>6. ASSUME Crash \/ Resume PROVE OpenInTurn' /\ UnopenedIsCancelled'
  BY <1>6 DEF Crash, Resume
<1>7. CASE UNCHANGED vars
  BY <1>7 DEF vars, moves
<1> QED
  BY <1>1, <1>2, <1>3, <1>4, <1>5, <1>6, <1>7 DEF Next, WorkerStep, TurnStep

LEMMA PointsStep == Settle /\ Points /\ [Next]_vars => Points'
  BY HandStep, TurnOpeningStep, OpenEndStep DEF Points, Settle

-----------------------------------------------------------------------------
(* One-shot agents.                                                        *)

\* In its first run a one-shot agent counts at most one request, runs nothing
\* after a turn that was numbered, and only then or in that turn has it
\* committed an opening message.
OneShotCourse ==
    mode = "one-shot" /\ runs = 1 /\ active =>
        /\ pending \in {0, 1}
        /\ ran => pending = 0
        /\ woken => busy
        /\ pc \in {"top", "wait", "reply"} => ~busy
        /\ pc \in RunPoints => msg \in Submits
        /\ \A s \in Submits : s \in Range(committed) =>
              ran \/ (pc \in (OpenPoints \ {"opening"}) \cup {"ended", "finish"} /\ msg = s /\ opened)

\* At most one opening message, said of any two.
OneShotAlike ==
    mode = "one-shot" /\ runs = 1 =>
        \A s, t \in Submits : s \in Range(committed) /\ t \in Range(committed) => s = t

\* The opening message being run is counted, so the agent cannot have run before.
LEMMA RunningIsCounted ==
    Settle /\ active /\ pc \in RunPoints \ {"reply"} /\ msg \in Submits => pending # 0
<1> SUFFICES ASSUME Settle, active, pc \in RunPoints \ {"reply"}, msg \in Submits PROVE pending # 0
  OBVIOUS
<1>1. msg \in Counted
  BY DEF Settle, Requests, CallsHeld, Counted
<1>2. pending = Cardinality(Counted)
  BY DEF Settle, Requests, PendingAccounts, Counted
<1>3. Counted # {}
  BY <1>1
<1> QED
  BY <1>2, <1>3, CountedFinite, FS_EmptySet

\* A commit of hand-held input commits no Submit.
LEMMA CommitRange ==
    Settle /\ Points /\ Commit => \A s \in Submits : s \in Range(committed') => s \in Range(committed)
<1> SUFFICES ASSUME Settle, Points, Commit, NEW s \in Submits, s \in Range(committed')
             PROVE  s \in Range(committed)
  OBVIOUS
<1>1. committed \in Seq(Messages)
  BY DEF Settle, Shape, TypeOK, TypeQueues
<1>2. CASE UNCHANGED committed
  BY <1>2
<1>3. CASE hand # <<>> /\ committed' = Append(committed, Head(hand))
  <2>1. Head(hand) \in Notices \cup Steers
    BY <1>3, SeqClosed DEF Points, HandHeld
  <2>2. Head(hand) \in Messages /\ Head(hand) # s
    BY <2>1, MessageAssumption DEF Messages
  <2> QED
    BY <1>1, <1>3, <2>2, AppendOne
<1> QED
  BY <1>2, <1>3 DEF Commit, AppendMessage

\* A turn's opening message is the only thing Opening commits.
LEMMA OpeningRange ==
    Settle /\ Opening => Range(committed') \subseteq Range(committed) \cup {msg}
<1> SUFFICES ASSUME Settle, Opening PROVE Range(committed') \subseteq Range(committed) \cup {msg}
  OBVIOUS
<1>1. committed \in Seq(Messages) /\ msg \in Messages
  BY DEF Settle, Shape, TypeOK, TypeQueues, Control, MessageHeld, RunPoints, TurnPoints, Opening,
  Messages
<1>2. CASE UNCHANGED committed
  BY <1>2
<1>3. CASE committed' = Append(committed, msg)
  BY <1>1, <1>3, AppendOne
<1> QED
  BY <1>2, <1>3 DEF Opening, AppendMessage

\* The course of a one-shot agent, action by action.
LEMMA OneShotCourseStep == Settle /\ Points /\ OneShotCourse /\ [Next]_vars => OneShotCourse'
<1> SUFFICES ASSUME Settle, Points, OneShotCourse, [Next]_vars,
                    mode = "one-shot", runs' = 1, active', mode' = mode
             PROVE  OneShotCourse'
  BY DEF OneShotCourse, Next, vars
<1>0. /\ runs \in 1..MaxRuns /\ pending \in Int
      /\ pc \in PcStates
      /\ TurnIsBusy /\ MessageHeld /\ WokenAfterAbort
      /\ active <=> pc \notin {"drain", "done", "crashed"}
      /\ TurnOpening
      /\ msg \in Submits \cup Notices \cup {None}
      /\ active \in BOOLEAN /\ busy \in BOOLEAN /\ woken \in BOOLEAN /\ ran \in BOOLEAN
      /\ opened \in BOOLEAN
  BY DEF Settle, Shape, TypeOK, TypeFlags, TypeScalars, TypeQueues, Control, ActiveRuns, Points
<1>r. active /\ pc \in RunPoints \ {"reply"} /\ msg \in Submits => pending # 0
  BY RunningIsCounted
<1> USE DEF OneShotCourse, TurnIsBusy, TurnOpening, OpenPoints, RunPoints, TurnPoints, PcStates,
    inbox, control, context, turn, callers, log, history, worker, inTurn
<1>1. ASSUME ClaimWake \/ NoWake \/ WaitDone \/ WaitWake \/ Begin \/ Ended \/ Restore \/ Reply \/
             Exit \/ Drain
      PROVE  OneShotCourse'
  <2>1. ~ClaimWake /\ ~Exit
    BY <1>0 DEF ClaimWake, Exit
  <2>2. CASE NoWake \/ WaitDone \/ WaitWake \/ Drain
    BY <1>0, <2>2 DEF NoWake, WaitDone, WaitWake, Drain
  <2>3. CASE Begin
    BY <1>0, <2>3 DEF Begin
  <2>4. CASE Ended \/ Restore
    BY <1>0, <2>4 DEF Ended, Restore
  <2>5. CASE Reply
    BY <1>0, <2>5 DEF Reply
  <2> QED
    BY <1>1, <2>1, <2>2, <2>3, <2>4, <2>5
<1>2. ASSUME WaitTurn PROVE OneShotCourse'
  <2>1. Head(turns) \in Submits
    BY <1>2, SeqClosed DEF WaitTurn, Settle, Shape, TypeOK, TypeQueues
  <2> QED
    BY <1>0, <1>2, <2>1 DEF WaitTurn
<1>3. ASSUME Finish PROVE OneShotCourse'
  BY <1>0, <1>r, <1>3 DEF Finish, WakeAfter
<1>4. ASSUME Read \/ NotAdmitted \/ Open \/ StartBoundary \/ Take \/ Step \/ Model \/
             Answered \/ Tooled \/ DrainSteers \/ Complete \/ Close
      PROVE  OneShotCourse'
  BY <1>0, <1>4, ZenonT(60) DEF Read, NotAdmitted, Open, StartBoundary, Take, Step, Model, Answered, Tooled,
  DrainSteers, Complete, Close, CloseWith
<1>5. ASSUME Opening PROVE OneShotCourse'
  <2>1. UNCHANGED <<pending, ran, woken, busy, msg, opened, active, runs>>
    BY <1>5 DEF Opening
  <2>2. pc = "opening" /\ pc' \in {"start", "close"}
    BY <1>5 DEF Opening, CloseWith
  <2> QED
    BY <1>0, <2>1, <2>2, OpeningRange, <1>5
<1>6. ASSUME Commit PROVE OneShotCourse'
  <2>1. UNCHANGED <<pending, ran, woken, busy, msg, opened, active, runs>>
    BY <1>6 DEF Commit
  <2>2. pc = "commit" /\ pc' \in {"commit", "step", "complete", "close"}
    BY <1>6 DEF Commit, CloseWith, Settle, Shape, TypeOK, TypeScalars
  <2> QED
    BY <1>0, <2>1, <2>2, CommitRange, <1>6
<1>7. ASSUME NEW s \in Submits, SubmitCount(s) \/ SubmitSend(s) \/ SubmitCancel(s) PROVE OneShotCourse'
  <2>1. SubmitCancel(s) => pending # 0
    <3> SUFFICES ASSUME SubmitCancel(s) PROVE pending # 0
      OBVIOUS
    <3>1. active
      BY DEF SubmitCancel
    <3>2. s \in Counted /\ pending = Cardinality(Counted)
      BY <3>1 DEF SubmitCancel, Counted, Settle, Requests, PendingAccounts
    <3> QED
      BY <3>2, CountedFinite, FS_EmptySet
  <2> QED
    <3>1. CASE SubmitCount(s)
      BY <1>0, <3>1 DEF SubmitCount, SubmitRefused
    <3>2. CASE SubmitSend(s)
      BY <1>0, <3>2 DEF SubmitSend
    <3>3. CASE SubmitCancel(s)
      <4>1. pending' = pending - 1 /\ pending # 0
        BY <2>1, <3>3 DEF SubmitCancel
      <4>2. UNCHANGED <<active, busy, woken, ran, pc, msg, opened, committed, runs>>
        BY <3>3 DEF SubmitCancel
      <4> QED
        BY <1>0, <4>1, <4>2
    <3> QED
      BY <1>7, <3>1, <3>2, <3>3
<1>8. \A s \in Submits : ~SubmitStopped(s)
  BY <1>0 DEF SubmitStopped
<1>9. ASSUME NEW n \in Notices, Notify(n) \/ QueueCheck(n) \/ QueueCommit(n) \/
          QueueFail(n) \/ QueueEnqueue(n)
      PROVE  OneShotCourse'
  BY <1>0, <1>9, ZenonT(60) DEF Notify, QueueCheck, QueueCommit, QueueFail, QueueEnqueue, Refuse, Enqueue,
  Refused, WakesIdle
<1>10. ASSUME NEW m \in Steers, SteerCheck(m) \/ SteerSend(m) \/ SteerGiveUp(m)
       PROVE  OneShotCourse'
  BY <1>0, <1>10, ZenonT(60) DEF SteerCheck, SteerSend, SteerGiveUp
<1>11. ASSUME NEW w \in Waiters, WhenIdle(w) PROVE OneShotCourse'
  BY <1>0, <1>11 DEF WhenIdle
<1>12. ASSUME Interrupt \/ Stop PROVE OneShotCourse'
  BY <1>0, <1>12 DEF Interrupt, Stop
<1>13. ~Crash /\ ~Resume
  BY <1>0 DEF Crash, Resume
<1>14. CASE UNCHANGED vars
  BY <1>14 DEF vars, moves
<1> QED
  BY <1>1, <1>2, <1>3, <1>4, <1>5, <1>6, <1>7, <1>8, <1>9, <1>10, <1>11, <1>12, <1>13, <1>14
  DEF Next, WorkerStep, CallerStep, TurnStep

\* Opening commits while nothing else was committed; no other step commits a Submit.
LEMMA OneShotAlikeStep ==
    Settle /\ Points /\ OneShotCourse /\ OneShotAlike /\ [Next]_vars => OneShotAlike'
<1> SUFFICES ASSUME Settle, Points, OneShotCourse, OneShotAlike, [Next]_vars,
                    mode = "one-shot", runs' = 1
             PROVE  \A s, t \in Submits : s \in Range(committed') /\ t \in Range(committed') => s = t
  BY DEF OneShotAlike, Next, vars
<1>0. runs \in 1..MaxRuns
  BY DEF Settle, Shape, TypeOK, TypeScalars
<1> USE DEF inbox, control, context, turn, callers, log, history, worker, inTurn
<1>1. ASSUME ClaimWake \/ NoWake \/ WaitDone \/ WaitWake \/ WaitTurn \/ Begin \/ Ended \/
             Restore \/ Finish \/ Reply \/ Exit \/ Drain
      PROVE  UNCHANGED <<committed, runs>>
  BY <1>1 DEF ClaimWake, NoWake, WaitDone, WaitWake, WaitTurn, Begin, Ended, Restore, Finish,
  Reply, Exit, Drain
<1>2. ASSUME Read \/ NotAdmitted \/ Open \/ StartBoundary \/ Take \/ Step \/ Model \/
             Answered \/ Tooled \/ DrainSteers \/ Complete \/ Close
      PROVE  UNCHANGED <<committed, runs>>
  BY <1>2 DEF Read, NotAdmitted, Open, StartBoundary, Take, Step, Model, Answered, Tooled,
  DrainSteers, Complete, Close
<1>3. ASSUME Opening PROVE \A s, t \in Submits : s \in Range(committed') /\ t \in Range(committed') => s = t
  <2>1. active /\ pc = "opening" /\ runs = 1
    BY <1>3 DEF Opening, Settle, Shape, Control, ActiveRuns
  <2>2. msg \in Submits /\ ~ran
    <3>1. msg \in Submits
      BY <2>1 DEF OneShotCourse, RunPoints, TurnPoints
    <3>2. pending # 0
      BY <2>1, <3>1, RunningIsCounted DEF RunPoints, TurnPoints
    <3> QED
      BY <2>1, <3>1, <3>2 DEF OneShotCourse
  <2>3. \A s \in Submits : s \notin Range(committed)
    BY <2>1, <2>2 DEF OneShotCourse, OpenPoints, TurnPoints
  <2> QED
    BY <1>3, <2>3, OpeningRange
<1>4. ASSUME Commit PROVE UNCHANGED runs
  BY <1>4 DEF Commit
<1>5. ASSUME CallerStep \/ Interrupt \/ Stop \/ Crash PROVE UNCHANGED <<committed, runs>>
  BY <1>5 DEF CallerStep, SubmitCount, SubmitSend, SubmitCancel, SubmitStopped, Notify, QueueCheck,
  QueueCommit, QueueFail, QueueEnqueue, SteerCheck, SteerSend, SteerGiveUp, WhenIdle, Interrupt,
  Stop, Crash
<1>6. ~Resume
  BY <1>0 DEF Resume
<1>7. CASE UNCHANGED vars
  BY <1>7 DEF vars, moves, OneShotAlike
<1>8. ASSUME UNCHANGED <<committed, runs>>
      PROVE  \A s, t \in Submits : s \in Range(committed') /\ t \in Range(committed') => s = t
  BY <1>8 DEF OneShotAlike
<1>9. ASSUME Commit PROVE \A s, t \in Submits : s \in Range(committed') /\ t \in Range(committed') => s = t
  BY <1>4, <1>9, CommitRange DEF OneShotAlike
<1> QED
  BY <1>1, <1>2, <1>3, <1>5, <1>6, <1>7, <1>8, <1>9 DEF Next, WorkerStep, TurnStep, vars, moves

\* A set whose members are all alike has at most one.
LEMMA AlikeIsOne ==
    ASSUME NEW S, \A s, t \in S : s = t
    PROVE  Cardinality(S) <= 1
<1>1. CASE S = {}
  BY <1>1, FS_EmptySet
<1>2. CASE S # {}
  <2>1. PICK s : s \in S
    BY <1>2
  <2>2. S = {s}
    BY <2>1
  <2> QED
    BY <2>2, FS_Singleton, SMTT(30)
<1> QED
  BY <1>1, <1>2

\* A one-shot agent commits at most one opening message per run, whatever
\* notices, cancellations and refused calls interleave with it.
THEOREM OneShotAlwaysOpensOnce == Spec => []OneShotOpensOnce
<1> DEFINE I == Settle /\ Points /\ OneShotCourse /\ OneShotAlike
<1>1. Init => I
  <2>1. Init => OneShotCourse /\ OneShotAlike
    BY EmptyRange DEF Init, OneShotCourse, OneShotAlike, RunPoints, TurnPoints
  <2> QED
    BY <2>1, SettleInductive, PointsInit
<1>2. I /\ [Next]_vars => I'
  BY SettleInductive, PointsStep, OneShotCourseStep, OneShotAlikeStep
<1>3. I => OneShotOpensOnce
  BY AlikeIsOne DEF OneShotAlike, OneShotOpensOnce
<1> QED
  BY <1>1, <1>2, <1>3, PTL DEF Spec

-----------------------------------------------------------------------------
(* The line of every message, from the log back to the queue.              *)

\* What a step does to the line: nothing, a notice joins at its end, a message
\* that is not a notice enters it, a stretch leaves it, or a resume rebuilds it.
Keeps == Line' = Line /\ accepted' = accepted
Joins(n) ==
    /\ Line' = Append(Line, n) /\ accepted' = Append(accepted, n) /\ n \notin Range(Line)
    /\ queue'[n] = "accepted" /\ (n \in Durable => queue[n] = "written")
Enters(e) ==
    /\ e \in Messages \ Notices /\ e \notin Range(Line)
    /\ \E a, b \in Seq(Messages) : Line = a \o b /\ Line' = (a \o <<e>>) \o b
    /\ accepted' = accepted
    /\ e \in Submits \/ (steers # <<>> /\ e = Head(steers) /\ steers' = Tail(steers))
Leaves ==
    /\ \E a, b, c \in Seq(Messages) : Line = (a \o b) \o c /\ Line' = a \o c
    /\ ~active' \/ faults' > 0
Rebuilt ==
    /\ Line' = committed \o owed /\ runs' > 1 /\ NoticeMuFree
    /\ UNCHANGED <<committed, owed, queue>>

LineMoves ==
    \/ Keeps
    \/ \E n \in Notices : Joins(n)
    \/ \E e \in Messages : Enters(e)
    \/ Leaves
    \/ Rebuilt

\* What the log owes: each notice once, durable ones only, none it holds; and
\* every durable notice of the line is in the log or owed by it.
Journal ==
    /\ IsInjective(owed) /\ Range(owed) \subseteq Durable
    /\ Range(owed) \cap Range(committed) = {}
    /\ Range(Line) \cap Durable \subseteq Range(committed) \cup Range(owed)

\* A notice not yet accepted is not in the line; the log owes it once written.
FreshNotices ==
    \A n \in Notices :
        /\ queue[n] \in {"new", "read"} => n \notin Range(Line) \cup Range(owed)
        /\ queue[n] = "written" => n \notin Range(Line) /\ n \in Range(owed)
        /\ queue[n] \in {"read", "written"} => n \in Durable

\* A request is committed only by the turn that runs it.
FreshSubmits ==
    \A s \in Submits : s \in Range(committed) =>
        \/ call[s] \in {"answered", "lost"}
        \/ call[s] = "running" /\ pc \notin {"begin", "read", "open", "opening"}

\* A steer enters the line from the channel, where it is once.
FreshSteers ==
    /\ IsInjective(steers) /\ Range(steers) \cap Range(Line) = {}
    /\ \A m \in Steers : m \in Range(Line) \cup Range(steers) => steer[m] = "sent"

Fresh == FreshNotices /\ FreshSubmits /\ FreshSteers

\* Every part of the line is a sequence of messages.
LEMMA LineTypes ==
    ASSUME Settle, Points
    PROVE  /\ committed \in Seq(Messages) /\ InFlight \in Seq(Messages) /\ hand \in Seq(Messages)
           /\ notices \in Seq(Messages) /\ Line \in Seq(Messages) /\ accepted \in Seq(Messages)
           /\ owed \in Seq(Messages)
           /\ committed \o InFlight \in Seq(Messages)
           /\ (committed \o InFlight) \o hand \in Seq(Messages)
<1>1. committed \in Seq(Messages) /\ hand \in Seq(Messages) /\ notices \in Seq(Messages)
      /\ accepted \in Seq(Messages) /\ owed \in Seq(Messages)
  BY SeqTypes DEF Settle, Shape, TypeOK, TypeQueues
<1>2. InFlight \in Seq(Messages)
  <2>1. <<>> \in Seq(Messages)
    OBVIOUS
  <2>2. msg \in Notices => <<msg>> \in Seq(Messages)
    BY DEF Messages
  <2> QED
    BY <2>1, <2>2 DEF InFlight
<1>3. committed \o InFlight \in Seq(Messages)
  BY <1>1, <1>2, SeqClosed
<1>4. (committed \o InFlight) \o hand \in Seq(Messages)
  BY <1>1, <1>3, SeqClosed
<1>5. Line \in Seq(Messages)
  BY <1>1, <1>4, SeqClosed DEF Line
<1> QED
  BY <1>1, <1>2, <1>3, <1>4, <1>5

\* What the line holds, part by part.
LEMMA LineRange ==
    ASSUME Settle, Points
    PROVE  Range(Line) = Range(committed) \cup Range(InFlight) \cup Range(hand) \cup Range(notices)
<1> DEFINE u == committed \o InFlight
           v == u \o hand
<1>1. /\ committed \in Seq(Messages) /\ InFlight \in Seq(Messages) /\ hand \in Seq(Messages)
      /\ notices \in Seq(Messages) /\ u \in Seq(Messages) /\ v \in Seq(Messages)
  BY LineTypes
<1>2. Range(u) = Range(committed) \cup Range(InFlight)
  BY <1>1, ConcatRange
<1> HIDE DEF u
<1>3. Range(v) = Range(u) \cup Range(hand)
  BY <1>1, ConcatRange
<1> HIDE DEF v
<1>4. Range(v \o notices) = Range(v) \cup Range(notices)
  BY <1>1, ConcatRange
<1>5. Line = v \o notices
  BY DEF Line, v, u
<1> QED
  BY <1>2, <1>3, <1>4, <1>5

\* A message in the line is in one part of it only.
LEMMA OnlyOnce ==
    ASSUME Settle, Points, IsInjective(Line)
    PROVE  /\ Range(committed) \cap Range(InFlight) = {}
           /\ Range(committed) \cap Range(hand) = {}
           /\ Range(committed) \cap Range(notices) = {}
           /\ IsInjective(committed)
<1> DEFINE u == committed \o InFlight
           v == u \o hand
           t == v \o notices
<1>1. /\ committed \in Seq(Messages) /\ InFlight \in Seq(Messages) /\ hand \in Seq(Messages)
      /\ notices \in Seq(Messages) /\ u \in Seq(Messages) /\ v \in Seq(Messages) /\ t \in Seq(Messages)
  BY LineTypes, SeqClosed
<1>2. Range(u) = Range(committed) \cup Range(InFlight)
  BY <1>1, ConcatRange
<1>3. \A x, y : <<x, y>> \in Before(u)
                <=> (<<x, y>> \in Before(committed) \/ <<x, y>> \in Before(InFlight)
                     \/ (x \in Range(committed) /\ y \in Range(InFlight)))
  BY <1>1, ConcatBefore
<1>i. IsInjective(t)
  BY DEF Line
<1> HIDE DEF u
<1>4. Range(v) = Range(u) \cup Range(hand)
  BY <1>1, ConcatRange
<1>5. \A x, y : <<x, y>> \in Before(v)
                <=> (<<x, y>> \in Before(u) \/ <<x, y>> \in Before(hand)
                     \/ (x \in Range(u) /\ y \in Range(hand)))
  BY <1>1, ConcatBefore
<1> HIDE DEF v
<1>6. \A x, y : <<x, y>> \in Before(t)
                <=> (<<x, y>> \in Before(v) \/ <<x, y>> \in Before(notices)
                     \/ (x \in Range(v) /\ y \in Range(notices)))
  BY <1>1, ConcatBefore
<1> HIDE DEF t
<1>7. \A x : <<x, x>> \notin Before(t)
  BY <1>1, <1>i, NoRepetition
<1>8. \A x : <<x, x>> \notin Before(committed)
  BY <1>3, <1>5, <1>6, <1>7
<1>9. IsInjective(committed)
  BY <1>1, <1>8, NoRepetition
<1> QED
  BY <1>2, <1>3, <1>4, <1>5, <1>6, <1>7, <1>9

\* A step that moves no message keeps the line.
LEMMA SameParts ==
    UNCHANGED <<committed, hand, notices, accepted>> /\ InFlight' = InFlight => Keeps
  BY DEF Keeps, Line

\* With nothing in hand and no turn opening, the line is the log and the queue.
LEMMA BareLine ==
    ASSUME Settle, Points, hand = <<>>, InFlight = <<>>
    PROVE  Line = committed \o notices
  BY LineTypes, SeqAlgebra DEF Line

\* The worker's own steps outside runTurn.
LEMMA WorkerLine ==
    ASSUME Settle, Points, [Next]_vars,
           \/ ClaimWake \/ NoWake \/ WaitDone \/ WaitWake \/ WaitTurn \/ Begin
           \/ Ended \/ Restore \/ Finish \/ Reply \/ Exit \/ Drain
    PROVE  Keeps \/ Leaves
<1> USE DEF inbox, control, context, turn, callers, log, history, worker, inTurn
<1>t. /\ committed \in Seq(Messages) /\ notices \in Seq(Messages) /\ Line \in Seq(Messages)
      /\ <<>> \in Seq(Messages)
  BY LineTypes
<1>h. pc \notin {"steer", "take", "commit"} => hand = <<>>
  BY DEF Points, HandHeld
<1>1. ASSUME ClaimWake PROVE Keeps
  <2>1. notices # <<>> /\ pc = "top" /\ pc' = "begin" /\ msg' = Head(notices) /\ notices' = Tail(notices)
        /\ UNCHANGED <<committed, hand, accepted>>
    BY <1>1 DEF ClaimWake, Settle, Shape, WokenHoldsNotice
  <2>2. msg' \in Notices /\ InFlight = <<>> /\ hand = <<>> /\ InFlight' = <<Head(notices)>>
    <3>1. Head(notices) \in Notices
      BY <2>1, SeqClosed DEF Settle, Shape, TypeOK, TypeQueues
    <3> QED
      BY <1>h, <2>1, <3>1 DEF InFlight
  <2>3. Line = committed \o notices
    BY <2>2, BareLine
  <2>4. /\ <<Head(notices)>> \o Tail(notices) = notices
        /\ <<Head(notices)>> \in Seq(Messages) /\ Tail(notices) \in Seq(Messages)
    <3>1. Head(notices) \in Messages /\ Tail(notices) \in Seq(Messages)
      BY <1>t, <2>1, SeqClosed
    <3> QED
      BY <1>t, <2>1, <3>1, SeqAlgebra
  <2> DEFINE one == <<Head(notices)>>
             rest == Tail(notices)
  <2>5. Line' = ((committed \o one) \o <<>>) \o rest
    BY <2>1, <2>2 DEF Line
  <2> HIDE DEF one, rest
  <2>6. committed \o one \in Seq(Messages) /\ (committed \o one) \o <<>> = committed \o one
    BY <1>t, <2>4, SeqClosed, SeqAlgebra DEF one
  <2>7. (committed \o one) \o rest = committed \o (one \o rest)
    BY <1>t, <2>4, SeqAlgebra, SMTT(30) DEF one, rest
  <2> QED
    BY <2>1, <2>3, <2>4, <2>5, <2>6, <2>7 DEF Keeps, one, rest
<1>2. ASSUME NoWake \/ WaitDone \/ WaitWake \/ Begin \/ Finish \/ Reply \/ Drain PROVE Keeps
  <2>1. UNCHANGED <<committed, hand, notices, accepted, msg>>
    BY <1>2 DEF NoWake, WaitDone, WaitWake, Begin, Finish, Reply, Drain
  <2>2. InFlight' = InFlight
    BY <1>2, <2>1 DEF NoWake, WaitDone, WaitWake, Begin, Finish, Reply, Drain, InFlight
  <2> QED
    BY <2>1, <2>2, SameParts
<1>3. ASSUME WaitTurn PROVE Keeps
  <2>1. UNCHANGED <<committed, hand, notices, accepted>> /\ pc = "wait" /\ turns # <<>> /\ msg' = Head(turns)
    BY <1>3 DEF WaitTurn
  <2>2. msg' \in Submits
    BY <2>1, SeqClosed DEF Settle, Shape, TypeOK, TypeQueues
  <2>3. InFlight' = <<>> /\ InFlight = <<>>
    BY <2>1, <2>2, MessageAssumption DEF InFlight
  <2> QED
    BY <2>1, <2>3, SameParts
<1>4. ASSUME Ended PROVE Keeps
  <2>1. UNCHANGED <<committed, hand, notices, accepted, msg, opened>> /\ pc = "ended"
        /\ pc' = (IF msg \in Submits THEN "finish" ELSE "restore")
    BY <1>4 DEF Ended
  <2>2. InFlight' = InFlight
    BY <2>1, MessageAssumption DEF InFlight
  <2> QED
    BY <2>1, <2>2, SameParts
<1>5. ASSUME Restore PROVE Keeps \/ Leaves
  <2>1. /\ UNCHANGED <<committed, hand, accepted, msg, opened, outcome, faults>> /\ pc = "restore"
        /\ pc' = "finish" /\ InFlight' = <<>> /\ hand = <<>> /\ msg \in Notices
        /\ notices' = IF Restorable THEN <<msg>> \o notices ELSE notices
    BY <1>h, <1>5 DEF Restore, InFlight, Settle, Shape, Control, MessageHeld
  <2>2. Line' = committed \o notices'
    <3>1. notices' \in Seq(Messages)
      BY <1>t, <2>1, SeqClosed DEF Messages
    <3> QED
      BY <1>t, <2>1, <3>1, SeqAlgebra DEF Line
  <2>3. CASE opened
    <3>1. InFlight = <<>> /\ notices' = notices
      BY <2>1, <2>3 DEF InFlight, Restorable
    <3> QED
      BY <2>1, <2>2, <3>1, BareLine DEF Keeps
  <2>4. CASE ~opened
    <3> DEFINE one == <<msg>>
    <3>1. InFlight = one /\ one \in Seq(Messages)
      BY <2>1, <2>4 DEF InFlight, Messages
    <3>2. Line = (committed \o one) \o notices
      BY <1>t, <2>1, <3>1, SeqAlgebra, SeqClosed DEF Line
    <3>3. CASE outcome = "canceled"
      <4>1. notices' = one \o notices
        BY <2>1, <2>4, <3>3 DEF Restorable
      <4> HIDE DEF one
      <4>2. (committed \o one) \o notices = committed \o (one \o notices)
        BY <1>t, <3>1, SeqAlgebra, SMTT(30)
      <4> QED
        BY <2>1, <2>2, <3>2, <4>1, <4>2 DEF Keeps
    <3>4. CASE outcome # "canceled"
      <4>1. faults > 0 /\ faults' = faults
        BY <2>1, <2>4, <3>4 DEF Points, UnopenedIsCancelled, Settle, Shape, TypeOK, TypeScalars
      <4>2. Line' = committed \o notices
        BY <2>1, <2>2, <3>4 DEF Restorable
      <4> HIDE DEF one
      <4> QED
        BY <1>t, <3>1, <3>2, <4>1, <4>2 DEF Leaves
    <3> QED
      BY <3>3, <3>4
  <2> QED
    BY <2>3, <2>4
<1>6. ASSUME Exit PROVE Leaves
  <2>1. /\ UNCHANGED <<committed, hand>> /\ pc = "exit" /\ pc' = "drain" /\ notices' = <<>>
        /\ active' = FALSE
    BY <1>6 DEF Exit
  <2>2. hand = <<>> /\ InFlight = <<>> /\ InFlight' = <<>>
    BY <1>h, <2>1 DEF InFlight
  <2>3. Line = committed \o notices /\ Line' = committed \o <<>>
    BY <1>t, <2>1, <2>2, BareLine, SeqAlgebra DEF Line
  <2>4. Line = (committed \o notices) \o <<>>
    BY <1>t, <2>3, SeqAlgebra
  <2> QED
    BY <1>t, <2>1, <2>3, <2>4 DEF Leaves
<1> QED
  BY <1>1, <1>2, <1>3, <1>4, <1>5, <1>6

\* The boundaries of a turn.
LEMMA TurnLine ==
    ASSUME Settle, Points, IsInjective(Line), Journal, Fresh, [Next]_vars, TurnStep
    PROVE  Keeps \/ Leaves \/ \E e \in Messages : Enters(e)
<1> USE DEF inbox, control, context, turn, callers, log, history, worker, inTurn
<1>t. /\ committed \in Seq(Messages) /\ notices \in Seq(Messages) /\ hand \in Seq(Messages)
      /\ Line \in Seq(Messages) /\ <<>> \in Seq(Messages)
  BY LineTypes
<1>h. pc \notin {"steer", "take", "commit"} => hand = <<>>
  BY DEF Points, HandHeld
<1>o. TurnOpening
  BY DEF Points
<1>f. faults \in Nat
  BY DEF Settle, Shape, TypeOK, TypeScalars
<1>d. \A m \in Range(InFlight) \cup Range(hand) : Deliverable(m)
  <2> SUFFICES ASSUME NEW m \in Range(InFlight) \cup Range(hand), m \in Durable PROVE m \in Range(owed)
    BY DEF Deliverable
  <2>1. m \in Range(Line) /\ m \notin Range(committed)
    BY LineRange, OnlyOnce
  <2> QED
    BY <2>1 DEF Journal
<1>1. ASSUME Read \/ NotAdmitted \/ Open PROVE Keeps
  <2>1. UNCHANGED <<committed, hand, notices, accepted, msg>>
    BY <1>1 DEF Read, NotAdmitted, Open
  <2>2. InFlight' = InFlight
    <3>1. CASE NotAdmitted
      <4>1. msg \notin Notices
        BY <3>1, MessageAssumption DEF NotAdmitted
      <4> QED
        BY <2>1, <4>1 DEF InFlight
    <3>2. CASE Read
      <4>1. pc = "read" /\ ~opened /\ opened' = opened /\ pc' \in {"open", "ended"}
        BY <1>o, <3>2 DEF Read, TurnOpening
      <4> QED
        BY <2>1, <4>1 DEF InFlight
    <3>3. CASE Open
      <4>1. pc = "open" /\ ~opened /\ (pc' = "opening" \/ (pc' = "ended" /\ opened' = opened))
        BY <1>o, <3>3 DEF Open, TurnOpening
      <4> QED
        BY <2>1, <4>1 DEF InFlight
    <3> QED
      BY <1>1, <3>1, <3>2, <3>3
  <2> QED
    BY <2>1, <2>2, SameParts
<1>2. ASSUME Opening PROVE Keeps \/ Leaves \/ \E e \in Messages : Enters(e)
  <2>1. /\ pc = "opening" /\ hand = <<>> /\ hand' = <<>> /\ UNCHANGED <<notices, accepted, msg>>
        /\ pc' \in {"start", "close"} /\ InFlight' = <<>>
        /\ msg \in Submits \cup Notices
    BY <1>2, <1>h DEF Opening, CloseWith, InFlight, Settle, Shape, Control, MessageHeld, RunPoints,
    TurnPoints
  <2>2. CASE msg \in Notices
    <3> DEFINE one == <<msg>>
    <3>1. InFlight = one /\ one \in Seq(Messages) /\ msg \in Range(InFlight) /\ msg \in Messages
      BY <2>1, <2>2, BeforeSmall DEF InFlight, Messages
    <3>2. Line = (committed \o one) \o notices
      BY <1>t, <2>1, <3>1, SeqAlgebra, SeqClosed DEF Line
    <3>3. CASE committed' = Append(committed, msg)
      <4>1. committed' = committed \o one
        BY <1>t, <3>1, <3>3, SeqAlgebra
      <4>2. committed \o one \in Seq(Messages)
        BY <1>t, <3>1, SeqClosed
      <4> HIDE DEF one
      <4>3. Line' = (committed \o one) \o notices
        BY <1>t, <2>1, <4>1, <4>2, SeqAlgebra DEF Line
      <4> QED
        BY <2>1, <3>2, <4>3 DEF Keeps
    <3>4. CASE AppendFails(msg) /\ UNCHANGED committed
      <4>1. faults' > 0
        BY <1>d, <1>f, <3>1, <3>4 DEF AppendFails, Fault
      <4> HIDE DEF one
      <4>2. Line' = committed \o notices
        BY <1>t, <2>1, <3>4, SeqAlgebra DEF Line
      <4> QED
        BY <1>t, <3>1, <3>2, <4>1, <4>2 DEF Leaves
    <3> QED
      BY <1>2, <3>3, <3>4 DEF Opening, AppendMessage
  <2>3. CASE msg \notin Notices
    <3>1. InFlight = <<>> /\ Line = committed \o notices
      BY <2>1, <2>3, BareLine DEF InFlight
    <3>2. CASE committed' = Append(committed, msg)
      <4>1. msg \in Messages \ Notices
        BY <2>1, <2>3 DEF Messages
      <4>2. msg \notin Range(Line)
        <5>1. msg \notin Range(committed)
          BY <2>1, <2>3 DEF Fresh, FreshSubmits, Settle, Requests, CallsHeld, RunPoints, TurnPoints
        <5>2. msg \notin Range(notices)
          BY <2>3 DEF Settle, Shape, TypeOK, TypeQueues, Range
        <5> QED
          BY <2>1, <3>1, <5>1, <5>2, LineRange, BeforeSmall
      <4>3. Line' = (committed \o <<msg>>) \o notices
        <5>1. <<msg>> \in Seq(Messages)
          BY <4>1
        <5>2. committed \o <<msg>> \in Seq(Messages)
          BY <1>t, <5>1, SeqClosed
        <5>3. committed' = committed \o <<msg>>
          BY <1>t, <3>2, <4>1, SeqAlgebra, SMTT(30)
        <5> DEFINE u == committed \o <<msg>>
        <5>4. Line' = ((u \o <<>>) \o <<>>) \o notices
          BY <2>1, <5>3 DEF Line
        <5> HIDE DEF u
        <5>5. (u \o <<>>) \o <<>> = u
          BY <5>2, SeqAlgebra DEF u
        <5> QED
          BY <5>4, <5>5 DEF u
      <4>4. msg \in Submits
        BY <2>1, <2>3
      <4> QED
        BY <1>t, <2>1, <3>1, <4>1, <4>2, <4>3, <4>4 DEF Enters
    <3>3. CASE UNCHANGED committed
      BY <2>1, <3>1, <3>3, SameParts
    <3> QED
      BY <1>2, <3>2, <3>3 DEF Opening, AppendMessage
  <2> QED
    BY <2>2, <2>3
<1>3. ASSUME StartBoundary \/ Step \/ Model \/ Answered \/ Tooled \/ Complete \/ Close PROVE Keeps
  <2>1. UNCHANGED <<committed, notices, accepted, msg, opened>> /\ pc \in OpenPoints \ {"opening"}
        /\ pc' \in (OpenPoints \ {"opening"}) \cup {"ended"}
    BY <1>3 DEF StartBoundary, Step, Model, Answered, Tooled, Complete, Close, CloseWith, OpenPoints,
    TurnPoints
  <2>2. hand = <<>> /\ hand' = <<>>
    BY <1>3, <1>h DEF StartBoundary, Step, Model, Answered, Tooled, Complete, Close, CloseWith
  <2>3. opened
    BY <1>o, <2>1 DEF TurnOpening
  <2>4. InFlight = <<>> /\ InFlight' = <<>>
    BY <2>1, <2>3 DEF InFlight, OpenPoints, TurnPoints
  <2> QED
    BY <2>1, <2>2, <2>4, SameParts
<1>4. ASSUME Take PROVE Keeps
  <2>1. /\ UNCHANGED <<committed, accepted>> /\ InFlight = <<>> /\ InFlight' = <<>>
        /\ \/ UNCHANGED <<hand, notices>>
           \/ hand' = hand \o notices /\ notices' = <<>>
    BY <1>4 DEF Take, DrainNotices, InFlight
  <2>2. CASE UNCHANGED <<hand, notices>>
    BY <2>1, <2>2, SameParts
  <2>3. CASE hand' = hand \o notices /\ notices' = <<>>
    <3>1. Line = (committed \o hand) \o notices
      BY <1>t, <2>1, SeqAlgebra DEF Line
    <3>2. hand \o notices \in Seq(Messages) /\ committed \o (hand \o notices) \in Seq(Messages)
      BY <1>t, SeqClosed
    <3>3. Line' = committed \o (hand \o notices)
      BY <1>t, <2>1, <2>3, <3>2, SeqAlgebra DEF Line
    <3>4. (committed \o hand) \o notices = committed \o (hand \o notices)
      BY <1>t, SeqAlgebra
    <3> QED
      BY <2>1, <3>1, <3>3, <3>4 DEF Keeps
  <2> QED
    BY <2>1, <2>2, <2>3
<1>5. ASSUME Commit PROVE Keeps \/ Leaves
  <2>1. /\ UNCHANGED <<notices, accepted, msg, opened>> /\ pc = "commit"
        /\ InFlight = <<>> /\ InFlight' = <<>>
    <3>1. UNCHANGED <<notices, accepted, msg, opened>> /\ pc = "commit"
          /\ pc' \in {"commit", "close", "step", "complete"}
      BY <1>5 DEF Commit, CloseWith, Settle, Shape, TypeOK, TypeScalars
    <3> QED
      BY <3>1 DEF InFlight
  <2>2. Line = (committed \o hand) \o notices
    BY <1>t, <2>1, SeqAlgebra DEF Line
  <2>3. CASE UNCHANGED <<hand, committed>>
    BY <2>1, <2>3, SameParts
  <2>4. CASE hand # <<>> /\ committed' = Append(committed, Head(hand)) /\ hand' = Tail(hand)
    <3> DEFINE one == <<Head(hand)>>
               rest == Tail(hand)
    <3>1. Head(hand) \in Messages /\ rest \in Seq(Messages)
      BY <1>t, <2>4, SeqClosed
    <3>2. one \in Seq(Messages) /\ one \o rest = hand /\ committed' = committed \o one
      BY <1>t, <2>4, <3>1, SeqAlgebra
    <3> HIDE DEF one, rest
    <3>3. committed \o one \in Seq(Messages) /\ hand' = rest
      BY <1>t, <2>4, <3>2, SeqClosed DEF rest
    <3>4. Line' = ((committed \o one) \o rest) \o notices
      BY <1>t, <2>1, <3>2, <3>3, SeqAlgebra DEF Line
    <3>5. (committed \o one) \o rest = committed \o (one \o rest)
      BY <1>t, <3>1, <3>2, SeqAlgebra, ZenonT(60)
    <3> QED
      BY <2>1, <2>2, <3>2, <3>4, <3>5 DEF Keeps
  <2>5. CASE hand # <<>> /\ AppendFails(Head(hand)) /\ hand' = <<>> /\ UNCHANGED committed
    <3>1. Head(hand) \in Range(hand)
      BY <1>t, <2>5, TailRange
    <3>2. faults' > 0
      BY <1>d, <1>f, <2>5, <3>1 DEF AppendFails, Fault
    <3>3. Line' = committed \o notices
      BY <1>t, <2>1, <2>5, SeqAlgebra DEF Line
    <3> QED
      BY <1>t, <2>2, <3>2, <3>3 DEF Leaves
  <2> QED
    BY <1>5, <2>3, <2>4, <2>5 DEF Commit, AppendMessage, CloseWith
<1>6. ASSUME DrainSteers PROVE Keeps \/ \E e \in Messages : Enters(e)
  <2>1. /\ UNCHANGED <<committed, notices, accepted, msg>> /\ InFlight = <<>> /\ InFlight' = <<>>
    BY <1>6 DEF DrainSteers, InFlight
  <2>2. CASE steers = <<>>
    BY <1>6, <2>1, <2>2, SameParts DEF DrainSteers
  <2>3. CASE steers # <<>>
    <3>1. hand' = Append(hand, Head(steers))
      BY <1>6, <2>3 DEF DrainSteers
    <3>2. Head(steers) \in Steers /\ Head(steers) \in Range(steers)
      BY <2>3, SeqClosed, TailRange DEF Settle, Shape, TypeOK, TypeQueues
    <3>3. Head(steers) \in Messages \ Notices /\ Head(steers) \notin Range(Line)
      BY <3>2, MessageAssumption DEF Messages, Fresh, FreshSteers
    <3> DEFINE one == <<Head(steers)>>
               u == committed \o hand
    <3>4. one \in Seq(Messages) /\ hand' = hand \o one /\ u \in Seq(Messages)
      <4>1. one \in Seq(Messages)
        BY <3>3
      <4>2. hand' = hand \o one
        BY <1>t, <3>1, <3>3, SeqAlgebra
      <4>3. u \in Seq(Messages)
        BY <1>t, SeqClosed
      <4> QED
        BY <4>1, <4>2, <4>3
    <3>5. Line = u \o notices
      BY <1>t, <2>1, SeqAlgebra DEF Line
    <3> HIDE DEF one
    <3>6. (committed \o hand) \o one = committed \o (hand \o one)
      BY <1>t, <3>4, SeqAlgebra, SMTT(30)
    <3>7. Line' = (committed \o (hand \o one)) \o notices
      BY <1>t, <2>1, <3>4, SeqAlgebra DEF Line
    <3>8. Line' = (u \o one) \o notices
      BY <3>6, <3>7
    <3> HIDE DEF u
    <3>s. steers' = Tail(steers)
      BY <1>6, <2>3 DEF DrainSteers
    <3>9. Enters(Head(steers))
      BY <1>t, <2>1, <2>3, <3>s, <3>3, <3>4, <3>5, <3>8 DEF Enters, one
    <3> QED
      BY <3>3, <3>9
  <2> QED
    BY <2>2, <2>3
<1> QED
  BY <1>1, <1>2, <1>3, <1>4, <1>5, <1>6 DEF TurnStep

\* An accepted notice joins the end of the line.
LEMMA EnqueueLine ==
    ASSUME Settle, Points, Fresh, NEW n \in Notices, Notify(n) \/ QueueEnqueue(n), Enqueue(n)
    PROVE  Joins(n)
<1> USE DEF inbox, control, context, turn, callers, log, history, worker
<1>t. notices \in Seq(Messages) /\ Line \in Seq(Messages) /\ (committed \o InFlight) \o hand \in Seq(Messages)
  BY LineTypes
<1>s. UNCHANGED <<committed, hand, msg, pc, opened>> /\ InFlight' = InFlight
  BY DEF Notify, QueueEnqueue, InFlight
<1>1. notices' = Append(notices, n) /\ accepted' = Append(accepted, n)
  BY DEF Enqueue
<1>2. n \notin Range(Line)
  BY DEF Notify, QueueEnqueue, Fresh, FreshNotices
<1>q. queue'[n] = "accepted" /\ (n \in Durable => queue[n] = "written")
  BY DEF Notify, QueueEnqueue, Enqueue, Settle, Shape, TypeOK, TypeCallers
<1> DEFINE u == (committed \o InFlight) \o hand
<1>3. u \in Seq(Messages) /\ Line = u \o notices /\ Line' = u \o notices'
  BY <1>t, <1>s DEF Line
<1> HIDE DEF u
<1>4. n \in Messages
  BY DEF Messages
<1> DEFINE one == <<n>>
<1>5. one \in Seq(Messages) /\ notices' = notices \o one /\ Append(Line, n) = Line \o one
  BY <1>t, <1>1, <1>4, SeqAlgebra, SMTT(30)
<1> HIDE DEF one
<1>6. (u \o notices) \o one = u \o (notices \o one)
  BY <1>t, <1>3, <1>5, SeqAlgebra, SMTT(30)
<1> QED
  BY <1>1, <1>2, <1>3, <1>5, <1>6, <1>q DEF Joins

\* A resume queues what the log owes behind what it holds.
LEMMA ResumeRebuilds ==
    ASSUME Settle, Points
    PROVE  Resume => Rebuilt
<1> SUFFICES ASSUME Resume PROVE Rebuilt
  OBVIOUS
<1>h. pc \notin {"steer", "take", "commit"} => hand = <<>>
  BY DEF Points, HandHeld
<1>1. /\ UNCHANGED <<committed, hand, owed>> /\ notices' = owed /\ hand = <<>> /\ InFlight' = <<>>
      /\ runs' > 1 /\ NoticeMuFree /\ UNCHANGED queue
  BY <1>h DEF Resume, PendingNotices, InFlight, Settle, Shape, TypeOK, TypeScalars, turn, history
<1>t. committed \in Seq(Messages) /\ owed \in Seq(Messages)
  BY LineTypes
<1> QED
  BY <1>t, <1>1, SeqAlgebra DEF Line, Rebuilt

\* The callers, shutdown, a crash and a resume.
LEMMA CallerLine ==
    ASSUME Settle, Points, Fresh, [Next]_vars,
           CallerStep \/ Interrupt \/ Stop \/ Crash \/ Resume \/ UNCHANGED vars
    PROVE  Keeps \/ (\E n \in Notices : Joins(n)) \/ Leaves \/ Rebuilt
<1> USE DEF inbox, control, context, turn, callers, log, history, worker, inTurn
<1>t. /\ committed \in Seq(Messages) /\ notices \in Seq(Messages) /\ hand \in Seq(Messages)
      /\ Line \in Seq(Messages) /\ owed \in Seq(Messages) /\ <<>> \in Seq(Messages)
      /\ (committed \o InFlight) \o hand \in Seq(Messages)
  BY LineTypes
<1>h. pc \notin {"steer", "take", "commit"} => hand = <<>>
  BY DEF Points, HandHeld
<1>1. ASSUME UNCHANGED <<committed, hand, notices, accepted, msg, pc, opened>> PROVE Keeps
  BY <1>1, SameParts DEF InFlight
<1>2. ASSUME NEW s \in Submits, SubmitCount(s) \/ SubmitSend(s) \/ SubmitCancel(s) \/
          SubmitStopped(s)
      PROVE  Keeps
  BY <1>1, <1>2 DEF SubmitCount, SubmitSend, SubmitCancel, SubmitStopped
<1>3. ASSUME NEW n \in Notices, QueueCheck(n) \/ QueueCommit(n) \/ QueueFail(n) PROVE Keeps
  BY <1>1, <1>3 DEF QueueCheck, QueueCommit, QueueFail
<1>4. ASSUME NEW n \in Notices, Notify(n) \/ QueueEnqueue(n) PROVE Keeps \/ Joins(n)
  <2>1. UNCHANGED <<committed, hand, msg, pc, opened>> /\ InFlight' = InFlight
    BY <1>4 DEF Notify, QueueEnqueue, InFlight
  <2>2. CASE Refuse(n)
    BY <2>1, <2>2, SameParts DEF Refuse
  <2>3. CASE Enqueue(n)
    BY <1>4, <2>3, EnqueueLine
  <2> QED
    BY <1>4, <2>2, <2>3 DEF Notify, QueueEnqueue
<1>5. ASSUME NEW m \in Steers, SteerCheck(m) \/ SteerSend(m) \/ SteerGiveUp(m) PROVE Keeps
  BY <1>1, <1>5 DEF SteerCheck, SteerSend, SteerGiveUp
<1>6. ASSUME NEW w \in Waiters, WhenIdle(w) PROVE Keeps
  BY <1>1, <1>6 DEF WhenIdle
<1>7. ASSUME Interrupt \/ Stop \/ UNCHANGED vars PROVE Keeps
  BY <1>1, <1>7 DEF Interrupt, Stop, vars, moves
<1>8. ASSUME Crash PROVE Leaves
  <2>1. UNCHANGED committed /\ hand' = <<>> /\ notices' = <<>> /\ InFlight' = <<>> /\ active' = FALSE
    BY <1>8 DEF Crash, InFlight
  <2>2. Line' = committed \o <<>>
    BY <1>t, <2>1, SeqAlgebra DEF Line
  <2> DEFINE b == (InFlight \o hand) \o notices
  <2>3. b \in Seq(Messages) /\ Line = committed \o b
    <3>1. InFlight \in Seq(Messages) /\ InFlight \o hand \in Seq(Messages)
      BY <1>t, LineTypes, SeqClosed
    <3>2. (committed \o InFlight) \o hand = committed \o (InFlight \o hand)
      BY <1>t, <3>1, SeqAlgebra, SMTT(30)
    <3>3. (committed \o (InFlight \o hand)) \o notices = committed \o ((InFlight \o hand) \o notices)
      BY <1>t, <3>1, SeqAlgebra, ZenonT(60)
    <3> QED
      BY <1>t, <3>1, <3>2, <3>3, SeqClosed DEF Line
  <2>4. Line = (committed \o b) \o <<>>
    BY <1>t, <2>3, SeqAlgebra
  <2> HIDE DEF b
  <2> QED
    BY <1>t, <2>1, <2>2, <2>3, <2>4 DEF Leaves
<1>9. Resume => Rebuilt
  BY ResumeRebuilds
<1> QED
  BY <1>2, <1>3, <1>4, <1>5, <1>6, <1>7, <1>8, <1>9 DEF CallerStep

\* Every step moves the line in one of these ways.
LEMMA LineStep ==
    Settle /\ Points /\ IsInjective(Line) /\ Journal /\ Fresh /\ [Next]_vars => LineMoves
<1> SUFFICES ASSUME Settle, Points, IsInjective(Line), Journal, Fresh, [Next]_vars PROVE LineMoves
  OBVIOUS
<1>1. CASE TurnStep
  BY <1>1, TurnLine DEF LineMoves
<1>2. CASE CallerStep \/ Interrupt \/ Stop \/ Crash \/ Resume \/ UNCHANGED vars
  BY <1>2, CallerLine DEF LineMoves
<1>3. CASE \/ ClaimWake \/ NoWake \/ WaitDone \/ WaitWake \/ WaitTurn \/ Begin
           \/ Ended \/ Restore \/ Finish \/ Reply \/ Exit \/ Drain
  BY <1>3, WorkerLine DEF LineMoves
<1> QED
  BY <1>1, <1>2, <1>3 DEF Next, WorkerStep

\* What becomes of the line's members and of its injectivity.
LEMMA LineMoved ==
    ASSUME Settle, Points, IsInjective(Line), Journal, LineMoves
    PROVE  /\ IsInjective(Line')
           /\ Range(Line') \subseteq Range(Line) \cup Range(owed) \cup Notices \cup Submits \cup Range(steers)
           /\ Range(Line) \subseteq Range(Line') \/ Leaves \/ Rebuilt
           /\ Keeps => Range(Line') = Range(Line)
           /\ \A n \in Notices : Joins(n) => Range(Line') = Range(Line) \cup {n}
           /\ \A e \in Messages : Enters(e) => Range(Line') = Range(Line) \cup {e}
           /\ Leaves => Range(Line') \subseteq Range(Line)
           /\ Rebuilt => Range(Line') = Range(committed) \cup Range(owed)
<1>t. Line \in Seq(Messages) /\ committed \in Seq(Messages) /\ owed \in Seq(Messages)
  BY LineTypes
<1>1. Keeps => Range(Line') = Range(Line) /\ IsInjective(Line')
  BY DEF Keeps
<1>2. ASSUME NEW n \in Notices, Joins(n) PROVE Range(Line') = Range(Line) \cup {n} /\ IsInjective(Line')
  BY <1>t, <1>2, AppendOne DEF Joins, Messages
<1>3. ASSUME NEW e \in Messages, Enters(e) PROVE Range(Line') = Range(Line) \cup {e} /\ IsInjective(Line')
  <2>1. PICK a \in Seq(Messages), b \in Seq(Messages) : Line = a \o b /\ Line' = (a \o <<e>>) \o b
    BY <1>3 DEF Enters
  <2>2. e \notin Range(a \o b) /\ IsInjective(a \o b)
    BY <1>3, <2>1 DEF Enters
  <2>3. Range((a \o <<e>>) \o b) = Range(a \o b) \cup {e} /\ IsInjective((a \o <<e>>) \o b)
    BY <2>2, InsertOne
  <2> QED
    BY <2>1, <2>3
<1>4. ASSUME Leaves PROVE Range(Line') \subseteq Range(Line) /\ IsInjective(Line')
  <2>1. PICK a \in Seq(Messages), b \in Seq(Messages), c \in Seq(Messages) :
             Line = (a \o b) \o c /\ Line' = a \o c
    BY <1>4 DEF Leaves
  <2>2. IsInjective((a \o b) \o c)
    BY <2>1
  <2>3. Range(a \o c) \subseteq Range((a \o b) \o c) /\ IsInjective(a \o c)
    BY <2>2, DropMiddle
  <2> QED
    BY <2>1, <2>3
<1>5. ASSUME Rebuilt PROVE Range(Line') = Range(committed) \cup Range(owed) /\ IsInjective(Line')
  <2>1. IsInjective(committed) /\ IsInjective(owed) /\ Range(committed) \cap Range(owed) = {}
    BY OnlyOnce DEF Journal
  <2> DEFINE u == committed \o owed
  <2>2. u \in Seq(Messages) /\ Line' = u
    BY <1>t, <1>5, SeqClosed DEF Rebuilt
  <2>3. Range(u) = Range(committed) \cup Range(owed)
    BY <1>t, ConcatRange
  <2>4. \A x, y : <<x, y>> \in Before(u)
                  <=> (<<x, y>> \in Before(committed) \/ <<x, y>> \in Before(owed)
                       \/ (x \in Range(committed) /\ y \in Range(owed)))
    BY <1>t, ConcatBefore
  <2> HIDE DEF u
  <2>5. \A x : <<x, x>> \notin Before(committed) /\ <<x, x>> \notin Before(owed)
    BY <1>t, <2>1, NoRepetition
  <2>6. \A x : <<x, x>> \notin Before(u)
    BY <2>1, <2>4, <2>5
  <2>7. IsInjective(u)
    BY <2>2, <2>6, NoRepetition
  <2> QED
    BY <2>2, <2>3, <2>7
<1>6. Range(committed) \subseteq Range(Line)
  BY LineRange
<1>7. \A e \in Messages : Enters(e) => e \in Submits \cup Range(steers)
  <2> SUFFICES ASSUME NEW e \in Messages, Enters(e), e \notin Submits PROVE e \in Range(steers)
    OBVIOUS
  <2>1. steers # <<>> /\ e = Head(steers) /\ steers \in Seq(Steers)
    BY DEF Enters, Settle, Shape, TypeOK, TypeQueues
  <2> QED
    BY <2>1, TailRange
<1> QED
  BY <1>1, <1>2, <1>3, <1>4, <1>5, <1>6, <1>7 DEF LineMoves

\* Delivering an owed message settles it and nothing else.
LEMMA DeliverRange ==
    ASSUME Settle, IsInjective(owed), NEW m
    PROVE  IsInjective(Deliver(m)) /\ Range(Deliver(m)) = Range(owed) \ {m}
<1>1. owed \in Seq(Notices) /\ DOMAIN owed = 1..Len(owed) /\ Len(owed) \in Nat
  BY DEF Settle, Shape, TypeOK, TypeQueues
<1>2. CASE m \notin Range(owed)
  BY <1>2 DEF Deliver
<1>3. CASE m \in Range(owed)
  <2> DEFINE k == CHOOSE i \in DOMAIN owed : owed[i] = m
             d == RemoveAt(owed, k)
  <2>1. k \in 1..Len(owed) /\ owed[k] = m
    <3>1. \E i \in DOMAIN owed : owed[i] = m
      BY <1>3 DEF Range
    <3> QED
      BY <1>1, <3>1
  <2>2. Deliver(m) = d
    BY <1>3 DEF Deliver
  <2> HIDE DEF k
  <2>3. /\ d \in Seq(Notices) /\ Len(d) = Len(owed) - 1
        /\ \A i \in 1..(Len(owed) - 1) : d[i] = IF i < k THEN owed[i] ELSE owed[i + 1]
    <3> DEFINE l == SubSeq(owed, 1, k - 1)
               r == SubSeq(owed, k + 1, Len(owed))
    <3>1. d = l \o r
      BY DEF RemoveAt
    <3>2. /\ l \in Seq(Notices) /\ Len(l) = k - 1
          /\ \A i \in 1..(k - 1) : l[i] = owed[i]
      BY <1>1, <2>1
    <3>3. /\ r \in Seq(Notices) /\ Len(r) = Len(owed) - k
          /\ \A i \in 1..(Len(owed) - k) : r[i] = owed[k + i]
      <4>1. /\ k + 1 \in Int /\ Len(owed) \in Int /\ \A i \in (k + 1)..Len(owed) : owed[i] \in Notices
        BY <1>1, <2>1
      <4>2. /\ r \in Seq(Notices) /\ Len(r) = IF k + 1 <= Len(owed) THEN Len(owed) - (k + 1) + 1 ELSE 0
            /\ \A i \in 1..(Len(owed) - (k + 1) + 1) : r[i] = owed[(k + 1) + i - 1]
        BY <4>1, SubSeqProperties
      <4>3. /\ Len(owed) - (k + 1) + 1 = Len(owed) - k
            /\ \A i \in 1..(Len(owed) - k) : (k + 1) + i - 1 = k + i
        BY <1>1, <2>1
      <4> HIDE DEF r
      <4>4. Len(r) = Len(owed) - k
        <5>1. CASE k + 1 <= Len(owed)
          BY <4>2, <4>3, <5>1
        <5>2. CASE ~(k + 1 <= Len(owed))
          <6>1. Len(owed) \in Int /\ k \in Int /\ k <= Len(owed)
            BY <1>1, <2>1
          <6>2. k = Len(owed)
            BY <5>2, <6>1
          <6> QED
            BY <4>2, <5>2, <6>1, <6>2
        <5> QED
          BY <5>1, <5>2
      <4>5. \A i \in 1..(Len(owed) - k) : r[i] = owed[(k + 1) + i - 1]
        BY <4>2, <4>3
      <4> QED
        BY <4>2, <4>3, <4>4, <4>5
    <3> HIDE DEF d, l, r
    <3>4. d \in Seq(Notices) /\ Len(d) = Len(owed) - 1
      <4>1. d \in Seq(Notices) /\ Len(d) = Len(l) + Len(r)
        BY <3>1, <3>2, <3>3, ConcatProperties
      <4> QED
        BY <1>1, <2>1, <3>2, <3>3, <4>1
    <3>5. ASSUME NEW i \in 1..(Len(owed) - 1) PROVE d[i] = IF i < k THEN owed[i] ELSE owed[i + 1]
      <4>1. CASE i < k
        <5>1. i \in 1..Len(l) /\ i \in 1..(k - 1)
          BY <1>1, <2>1, <3>2, <4>1
        <5> QED
          BY <3>1, <3>2, <3>3, <4>1, <5>1, ConcatPlaces
      <4>2. CASE ~(i < k)
        <5>1. /\ i - (k - 1) \in 1..(Len(owed) - k) /\ k + (i - (k - 1)) = i + 1
              /\ i = Len(l) + (i - (k - 1))
          BY <1>1, <2>1, <3>2, <4>2
        <5>2. d[Len(l) + (i - (k - 1))] = r[i - (k - 1)]
          BY <3>1, <3>2, <3>3, <5>1, ConcatPlaces
        <5> QED
          BY <3>3, <4>2, <5>1, <5>2
      <4> QED
        BY <4>1, <4>2
    <3> QED
      BY <3>4, <3>5
  <2> HIDE DEF d
  <2>4. DOMAIN d = 1..(Len(owed) - 1)
    BY <1>1, <2>3
  <2>5. \A i, j \in 1..Len(owed) : owed[i] = owed[j] => i = j
    BY <1>1 DEF IsInjective
  <2>6. IsInjective(d)
    <3> SUFFICES ASSUME NEW i \in 1..(Len(owed) - 1), NEW j \in 1..(Len(owed) - 1), d[i] = d[j] PROVE i = j
      BY <2>4 DEF IsInjective
    <3> DEFINE p(x) == IF x < k THEN x ELSE x + 1
    <3>1. p(i) \in 1..Len(owed) /\ p(j) \in 1..Len(owed) /\ d[i] = owed[p(i)] /\ d[j] = owed[p(j)]
      BY <1>1, <2>1, <2>3
    <3>2. p(i) = p(j)
      BY <2>5, <3>1
    <3> QED
      BY <1>1, <2>1, <3>2
  <2>7. Range(d) \subseteq Range(owed) \ {m}
    <3> SUFFICES ASSUME NEW i \in 1..(Len(owed) - 1) PROVE d[i] \in Range(owed) /\ d[i] # m
      BY <2>4 DEF Range
    <3>1. CASE i < k
      <4>1. d[i] = owed[i] /\ i \in 1..Len(owed) /\ i # k
        BY <1>1, <2>1, <2>3, <3>1
      <4> QED
        BY <1>1, <2>1, <2>5, <4>1 DEF Range
    <3>2. CASE ~(i < k)
      <4>1. d[i] = owed[i + 1] /\ i + 1 \in 1..Len(owed) /\ i + 1 # k
        BY <1>1, <2>1, <2>3, <3>2
      <4> QED
        BY <1>1, <2>1, <2>5, <4>1 DEF Range
    <3> QED
      BY <3>1, <3>2
  <2>8. Range(owed) \ {m} \subseteq Range(d)
    <3> SUFFICES ASSUME NEW j \in 1..Len(owed), owed[j] # m PROVE owed[j] \in Range(d)
      BY <1>1 DEF Range
    <3>1. CASE j < k
      <4>1. j \in 1..(Len(owed) - 1) /\ d[j] = owed[j]
        BY <1>1, <2>1, <2>3, <3>1
      <4> QED
        BY <2>4, <4>1 DEF Range
    <3>2. CASE ~(j < k)
      <4>1. j - 1 \in 1..(Len(owed) - 1) /\ d[j - 1] = owed[j]
        <5>1. j # k
          BY <2>1
        <5>2. j - 1 \in 1..(Len(owed) - 1) /\ ~(j - 1 < k) /\ (j - 1) + 1 = j
          BY <1>1, <2>1, <3>2, <5>1
        <5> QED
          BY <2>3, <5>2
      <4> QED
        BY <2>4, <4>1 DEF Range
    <3> QED
      BY <3>1, <3>2
  <2> QED
    BY <2>2, <2>6, <2>7, <2>8
<1> QED
  BY <1>2, <1>3

\* What a step does to the log's messages: nothing, it commits one of the line
\* or the request of the turn that opens, or it comes to owe a notice.
Delivers(m) ==
    /\ AppendMessage(m) /\ UNCHANGED queue
    /\ \/ m \in Range(InFlight) \cup Range(hand)
       \/ m \in Submits /\ m = msg /\ pc = "opening"
Owes(n) ==
    /\ queue[n] = "read" /\ queue' = [queue EXCEPT ![n] = "written"]
    /\ owed' = Append(owed, n) /\ UNCHANGED committed

LEMMA LogStep ==
    ASSUME Settle, Points, [Next]_vars
    PROVE  \/ UNCHANGED <<committed, owed>>
           \/ \E m \in Messages : Delivers(m)
           \/ \E n \in Notices : Owes(n)
<1> USE DEF inbox, control, context, turn, callers, log, history, worker, inTurn
<1>1. ASSUME ClaimWake \/ NoWake \/ WaitDone \/ WaitWake \/ WaitTurn \/ Begin \/ Ended \/
             Restore \/ Finish \/ Reply \/ Exit \/ Drain
      PROVE  UNCHANGED <<committed, owed>>
  BY <1>1 DEF ClaimWake, NoWake, WaitDone, WaitWake, WaitTurn, Begin, Ended, Restore, Finish,
  Reply, Exit, Drain
<1>2. ASSUME Read \/ NotAdmitted \/ Open \/ StartBoundary \/ Take \/ Step \/ Model \/
             Answered \/ Tooled \/ DrainSteers \/ Complete \/ Close
      PROVE  UNCHANGED <<committed, owed>>
  BY <1>2 DEF Read, NotAdmitted, Open, StartBoundary, Take, Step, Model, Answered, Tooled,
  DrainSteers, Complete, Close
<1>3. ASSUME Opening PROVE UNCHANGED <<committed, owed>> \/ \E m \in Messages : Delivers(m)
  <2>1. msg \in Submits \cup Notices /\ pc = "opening" /\ UNCHANGED queue
    BY <1>3 DEF Opening, Settle, Shape, Control, MessageHeld, RunPoints, TurnPoints
  <2>2. msg \in Notices => msg \in Range(InFlight)
    BY <2>1, BeforeSmall DEF InFlight
  <2> QED
    BY <1>3, <2>1, <2>2 DEF Opening, Delivers, Messages
<1>4. ASSUME Commit PROVE UNCHANGED <<committed, owed>> \/ \E m \in Messages : Delivers(m)
  <2>1. hand # <<>> => Head(hand) \in Range(hand) /\ Head(hand) \in Messages
    BY TailRange, SeqClosed DEF Settle, Shape, TypeOK, TypeQueues
  <2>2. UNCHANGED queue
    BY <1>4 DEF Commit
  <2> QED
    BY <1>4, <2>1, <2>2 DEF Commit, Delivers
<1>5. ASSUME NEW n \in Notices, Notify(n) \/ QueueCheck(n) \/ QueueFail(n) \/ QueueEnqueue(n)
      PROVE  UNCHANGED <<committed, owed>>
  BY <1>5 DEF Notify, QueueCheck, QueueFail, QueueEnqueue
<1>6. ASSUME NEW n \in Notices, QueueCommit(n) PROVE UNCHANGED <<committed, owed>> \/ Owes(n)
  BY <1>6 DEF QueueCommit, Owes
<1>7. ASSUME NEW s \in Submits, SubmitCount(s) \/ SubmitSend(s) \/ SubmitCancel(s) \/
          SubmitStopped(s)
      PROVE  UNCHANGED <<committed, owed>>
  BY <1>7 DEF SubmitCount, SubmitSend, SubmitCancel, SubmitStopped
<1>8. ASSUME NEW m \in Steers, SteerCheck(m) \/ SteerSend(m) \/ SteerGiveUp(m)
      PROVE  UNCHANGED <<committed, owed>>
  BY <1>8 DEF SteerCheck, SteerSend, SteerGiveUp
<1>9. ASSUME NEW w \in Waiters, WhenIdle(w) PROVE UNCHANGED <<committed, owed>>
  BY <1>9 DEF WhenIdle
<1>10. ASSUME Interrupt \/ Stop \/ Crash \/ Resume \/ UNCHANGED vars PROVE UNCHANGED <<committed, owed>>
  BY <1>10 DEF Interrupt, Stop, Crash, Resume, vars, moves
<1> QED
  BY <1>1, <1>2, <1>3, <1>4, <1>5, <1>6, <1>7, <1>8, <1>9, <1>10
  DEF Next, WorkerStep, CallerStep, TurnStep

\* What the log holds and owes after a step.
LEMMA LogMoved ==
    ASSUME Settle, Points, IsInjective(Line), Journal, Fresh, [Next]_vars
    PROVE  /\ IsInjective(owed') /\ Range(owed') \subseteq Durable
           /\ Range(owed') \cap Range(committed') = {}
           /\ Range(committed) \cup Range(owed) \subseteq Range(committed') \cup Range(owed')
           /\ \A n \in Range(owed') : n \in Range(owed) \/ (n \in Notices /\ Owes(n))
           /\ \A n \in Range(owed) : n \in Range(owed') \/ n \in Range(Line)
           /\ \A n \in Notices : Owes(n) => n \in Range(owed')
           /\ \A s \in Submits : s \in Range(committed') =>
                 s \in Range(committed) \/ (s = msg /\ pc = "opening")
<1>t. committed \in Seq(Messages) /\ owed \in Seq(Notices) /\ owed \in Seq(Messages)
  BY LineTypes DEF Settle, Shape, TypeOK, TypeQueues
<1>1. CASE UNCHANGED <<committed, owed>>
  <2>1. \A n \in Notices : ~Owes(n) \/ n \in Range(owed')
    <3> SUFFICES ASSUME NEW n \in Notices, Owes(n) PROVE n \in Range(owed')
      OBVIOUS
    <3> QED
      BY <1>t, AppendOne DEF Owes
  <2> QED
    BY <1>1, <2>1 DEF Journal
<1>2. ASSUME NEW m \in Messages, Delivers(m)
      PROVE  /\ IsInjective(owed') /\ Range(owed') = Range(owed) \ {m}
             /\ Range(committed') = Range(committed) \cup {m}
             /\ m \in Durable => m \in Range(owed)
             /\ \A n \in Notices : ~Owes(n)
             /\ m \in Range(Line) \/ (m \in Submits /\ m = msg /\ pc = "opening")
  <2>1. committed' = Append(committed, m) /\ owed' = Deliver(m) /\ (m \in Durable => m \in Range(owed))
    BY <1>2 DEF Delivers, AppendMessage, Deliverable
  <2>2. Range(committed') = Range(committed) \cup {m}
    BY <1>t, <2>1, AppendOne
  <2>3. IsInjective(owed') /\ Range(owed') = Range(owed) \ {m}
    BY <2>1, DeliverRange DEF Journal
  <2>4. \A n \in Notices : ~Owes(n)
    BY <1>2 DEF Delivers, Owes, Settle, Shape, TypeOK, TypeCallers
  <2>5. m \in Range(Line) \/ (m \in Submits /\ m = msg /\ pc = "opening")
    BY <1>2, LineRange DEF Delivers
  <2> QED
    BY <2>1, <2>2, <2>3, <2>4, <2>5
<1>3. CASE \E m \in Messages : Delivers(m)
  <2>1. PICK m \in Messages : Delivers(m)
    BY <1>3
  <2>2. \A s \in Submits : s \in Range(committed') =>
            s \in Range(committed) \/ (s = msg /\ pc = "opening")
    <3>1. m \in Submits => m \notin Range(InFlight) \cup Range(hand)
      <4>1. Range(InFlight) \subseteq Notices
        BY BeforeSmall DEF InFlight
      <4>2. Range(hand) \subseteq Notices \cup Steers
        BY DEF Points, HandHeld, Range
      <4> QED
        BY <4>1, <4>2, MessageAssumption
    <3>2. m \in Submits => m = msg /\ pc = "opening"
      BY <2>1, <3>1 DEF Delivers
    <3> QED
      BY <1>2, <2>1, <3>2
  <2>3. m \notin Range(owed) => m \notin Durable
    BY <1>2, <2>1
  <2>4. Range(owed) \subseteq Durable /\ Durable \subseteq Notices
    BY MessageAssumption DEF Journal
  <2>5. m \in Range(owed) => m \in Range(Line)
    BY <1>2, <2>1, <2>4, MessageAssumption
  <2> QED
    BY <1>2, <2>1, <2>2, <2>4, <2>5 DEF Journal
<1>4. CASE \E n \in Notices : Owes(n)
  <2>1. PICK n \in Notices : Owes(n)
    BY <1>4
  <2>2. n \in Durable /\ n \notin Range(Line) \cup Range(owed)
    BY <2>1 DEF Owes, Fresh, FreshNotices
  <2>3. Range(owed') = Range(owed) \cup {n} /\ IsInjective(owed')
    BY <1>t, <2>1, <2>2, AppendOne DEF Owes, Journal
  <2>4. committed' = committed /\ n \notin Range(committed)
    BY <2>1, <2>2, LineRange DEF Owes
  <2>5. \A p \in Notices : Owes(p) => p = n
    BY <2>1 DEF Owes, Settle, Shape, TypeOK, TypeCallers
  <2> QED
    BY <2>1, <2>2, <2>3, <2>4, <2>5 DEF Journal
<1> QED
  BY <1>1, <1>3, <1>4, LogStep

\* Faults and runs only grow, and only a resume makes an agent active again.
LEMMA Grows ==
    Settle /\ [Next]_vars => /\ faults \in Nat /\ faults' \in Nat /\ faults <= faults'
                             /\ runs \in Nat /\ runs <= runs'
                             /\ active' => active \/ Resume
                             /\ Range(steers') \subseteq Range(steers) \/ \E m \in Steers : SteerSend(m)
<1> SUFFICES ASSUME Settle, [Next]_vars
             PROVE  /\ faults \in Nat /\ faults' \in Nat /\ faults <= faults'
                    /\ runs \in Nat /\ runs <= runs'
                    /\ active' => active \/ Resume
                    /\ Range(steers') \subseteq Range(steers) \/ \E m \in Steers : SteerSend(m)
  OBVIOUS
<1>0. faults \in Nat /\ runs \in Nat /\ steers \in Seq(Steers)
  BY DEF Settle, Shape, TypeOK, TypeScalars, TypeQueues
<1> USE DEF inbox, control, context, turn, callers, log, history, worker, inTurn
<1>1. ASSUME ClaimWake \/ NoWake \/ WaitDone \/ WaitWake \/ WaitTurn \/ Begin \/ Ended \/
             Restore \/ Finish \/ Reply \/ Exit \/ Drain
      PROVE  UNCHANGED <<faults, runs, steers>> /\ (active' => active)
  BY <1>1 DEF ClaimWake, NoWake, WaitDone, WaitWake, WaitTurn, Begin, Ended, Restore, Finish,
  Reply, Exit, Drain
<1>2. ASSUME TurnStep
      PROVE  (faults' = faults \/ faults' = faults + 1) /\ UNCHANGED <<runs, active>>
  BY <1>2 DEF TurnStep, Read, NotAdmitted, Open, Opening, StartBoundary, Take, Commit, Step, Model,
  Answered, Tooled, DrainSteers, Complete, Close, CloseWith, Fault, AppendFails
<1>3. ASSUME TurnStep PROVE Range(steers') \subseteq Range(steers)
  <2>1. UNCHANGED steers \/ (steers # <<>> /\ steers' = Tail(steers))
    BY <1>3 DEF TurnStep, Read, NotAdmitted, Open, Opening, StartBoundary, Take, Commit, Step, Model,
    Answered, Tooled, DrainSteers, Complete, Close
  <2>2. steers # <<>> => Range(Tail(steers)) \subseteq Range(steers)
    BY <1>0, TailRange
  <2> QED
    BY <2>1, <2>2
<1>4. ASSUME CallerStep \/ Interrupt \/ Stop
      PROVE  /\ UNCHANGED <<faults, runs, active>>
             /\ UNCHANGED steers \/ \E m \in Steers : SteerSend(m)
  BY <1>4 DEF CallerStep, SubmitCount, SubmitSend, SubmitCancel, SubmitStopped, Notify, QueueCheck,
  QueueCommit, QueueFail, QueueEnqueue, SteerCheck, SteerGiveUp, SteerSend, WhenIdle, Interrupt, Stop
<1>5. ASSUME Crash PROVE UNCHANGED <<faults, runs>> /\ ~active' /\ steers' = <<>>
  BY <1>5 DEF Crash
<1>6. ASSUME Resume PROVE faults' = faults /\ runs' = runs + 1 /\ steers' = <<>>
  BY <1>6 DEF Resume
<1>7. CASE UNCHANGED vars
  BY <1>0, <1>7 DEF vars, moves
<1> QED
  BY <1>0, <1>1, <1>2, <1>3, <1>4, <1>5, <1>6, <1>7, EmptyRange DEF Next, WorkerStep

\* What becomes of a notice's caller.
LEMMA QueueMoved ==
    ASSUME Settle, Points, [Next]_vars, NEW n \in Notices
    PROVE  /\ queue'[n] = "new" => queue[n] = "new"
           /\ queue'[n] = "read" => queue[n] = "read" \/ (queue[n] = "new" /\ n \in Durable)
           /\ queue'[n] = "written" => queue[n] = "written" \/ Owes(n)
           /\ queue[n] = "written" =>
                 \/ queue'[n] = "written" \/ QueueEnqueue(n)
                 \/ ~active'
<1> USE DEF Settle, Shape, TypeOK, TypeCallers, inbox, control, context, turn, callers, log, history,
    worker, inTurn
<1>1. ASSUME UNCHANGED queue
      PROVE  /\ queue'[n] = "new" => queue[n] = "new"
             /\ queue'[n] = "read" => queue[n] = "read"
             /\ queue'[n] = "written" => queue[n] = "written"
             /\ queue[n] = "written" => queue'[n] = "written"
  BY <1>1, SMTT(30)
<1>2. ASSUME WorkerStep PROVE UNCHANGED queue
  BY <1>2 DEF WorkerStep, TurnStep, ClaimWake, NoWake, WaitDone, WaitWake, WaitTurn, Begin, Ended,
  Restore, Finish, Reply, Exit, Drain, Read, NotAdmitted, Open, Opening, StartBoundary, Take, Commit,
  Step, Model, Answered, Tooled, DrainSteers, Complete, Close
<1>3. ASSUME NEW s \in Submits, SubmitCount(s) \/ SubmitSend(s) \/ SubmitCancel(s) \/
          SubmitStopped(s)
      PROVE  UNCHANGED queue
  BY <1>3 DEF SubmitCount, SubmitSend, SubmitCancel, SubmitStopped
<1>4. ASSUME NEW m \in Steers, SteerCheck(m) \/ SteerSend(m) \/ SteerGiveUp(m) PROVE UNCHANGED queue
  BY <1>4 DEF SteerCheck, SteerSend, SteerGiveUp
<1>5. ASSUME NEW w \in Waiters, WhenIdle(w) PROVE UNCHANGED queue
  BY <1>5 DEF WhenIdle
<1>6. ASSUME Interrupt \/ Stop \/ Resume \/ UNCHANGED vars PROVE UNCHANGED queue
  BY <1>6 DEF Interrupt, Stop, Resume, vars, moves
<1>7. ASSUME Crash
      PROVE  ~active' /\ queue'[n] \in {queue[n], "refused"} /\ queue'[n] \notin {"written", "read"}
  BY <1>7 DEF Crash
<1>8. ASSUME NEW p \in Notices, Notify(p) \/ QueueCheck(p) \/ QueueFail(p) \/ QueueEnqueue(p)
      PROVE  /\ queue'[n] = "new" => queue[n] = "new"
             /\ queue'[n] = "read" => queue[n] = "read" \/ (queue[n] = "new" /\ n \in Durable)
             /\ queue'[n] = "written" => queue[n] = "written"
             /\ queue[n] = "written" => queue'[n] = "written" \/ QueueEnqueue(n)
  BY <1>8 DEF Notify, QueueCheck, QueueFail, QueueEnqueue, Refuse, Enqueue
<1>9. ASSUME NEW p \in Notices, QueueCommit(p)
      PROVE  /\ queue'[n] = "new" => queue[n] = "new"
             /\ queue'[n] = "read" => queue[n] = "read"
             /\ queue'[n] = "written" => queue[n] = "written" \/ Owes(n)
             /\ queue[n] = "written" => queue'[n] = "written"
  BY <1>9 DEF QueueCommit, Owes
<1> QED
  BY <1>1, <1>2, <1>3, <1>4, <1>5, <1>6, <1>7, <1>8, <1>9 DEF Next, CallerStep

\* A written notice is queued, unless the agent stopped or is one-shot.
LEMMA WrittenIsQueued ==
    ASSUME Settle, Points, Fresh, [Next]_vars, NEW n \in Notices, QueueEnqueue(n), active'
    PROVE  mode = "one-shot" \/ Joins(n)
<1> USE DEF inbox, control, context, turn, callers, log, history, worker, inTurn
<1>1. active /\ queue[n] = "written" /\ n \in Durable
  BY DEF QueueEnqueue, Fresh, FreshNotices
<1>2. n \notin Range(Line)
  BY <1>1 DEF Fresh, FreshNotices
<1>3. CASE Refused
  BY <1>1, <1>3 DEF Refused
<1>4. CASE ~Refused
  BY <1>4, EnqueueLine DEF QueueEnqueue
<1> QED
  BY <1>3, <1>4

-----------------------------------------------------------------------------
(* The inbox is kept.                                                      *)

\* A durable notice the log owes is in the line, or its caller is about to put it there.
OwedInLine ==
    active /\ faults = 0 =>
        \A n \in Range(owed) : n \in Range(Line) \/ queue[n] = "written" \/ mode = "one-shot"

Inbox == IsInjective(Line) /\ Journal /\ Fresh /\ NoticesConserved /\ OwedInLine

\* The log's account of its notices stays right.
LEMMA JournalStep == Settle /\ Points /\ Inbox /\ [Next]_vars => Journal'
<1> SUFFICES ASSUME Settle, Points, Inbox, [Next]_vars PROVE Journal'
  OBVIOUS
<1>0. LineMoves
  BY LineStep DEF Inbox
<1>1. /\ IsInjective(owed') /\ Range(owed') \subseteq Durable
      /\ Range(owed') \cap Range(committed') = {}
      /\ Range(committed) \cup Range(owed) \subseteq Range(committed') \cup Range(owed')
  BY LogMoved DEF Inbox
<1>2. Range(Line) \cap Durable \subseteq Range(committed) \cup Range(owed)
  BY DEF Inbox, Journal
<1>3. Range(Line') \cap Durable \subseteq Range(committed) \cup Range(owed)
  <2>1. CASE Keeps \/ Leaves \/ Rebuilt
    BY <1>0, <1>2, <2>1, LineMoved DEF Inbox
  <2>2. CASE \E n \in Notices : Joins(n)
    <3>1. PICK n \in Notices : Joins(n)
      BY <2>2
    <3>2. Range(Line') = Range(Line) \cup {n}
      BY <1>0, <3>1, LineMoved DEF Inbox
    <3>3. n \in Durable => n \in Range(owed)
      BY <3>1 DEF Joins, Inbox, Fresh, FreshNotices
    <3> QED
      BY <1>2, <3>2, <3>3
  <2>3. CASE \E e \in Messages : Enters(e)
    <3>1. PICK e \in Messages : Enters(e)
      BY <2>3
    <3>2. Range(Line') = Range(Line) \cup {e}
      BY <1>0, <3>1, LineMoved DEF Inbox
    <3>3. e \notin Durable
      BY <3>1, MessageAssumption DEF Enters
    <3> QED
      BY <1>2, <3>2, <3>3
  <2> QED
    BY <1>0, <2>1, <2>2, <2>3 DEF LineMoves
<1> QED
  BY <1>1, <1>3 DEF Journal

\* Notices not yet accepted stay out of the line and, until written, of the log.
LEMMA FreshNoticesStep == Settle /\ Points /\ Inbox /\ [Next]_vars => FreshNotices'
<1> SUFFICES ASSUME Settle, Points, Inbox, [Next]_vars, NEW n \in Notices
             PROVE  /\ queue'[n] \in {"new", "read"} => n \notin Range(Line') \cup Range(owed')
                    /\ queue'[n] = "written" => n \notin Range(Line') /\ n \in Range(owed')
                    /\ queue'[n] \in {"read", "written"} => n \in Durable
  BY DEF FreshNotices
<1>0. LineMoves
  BY LineStep DEF Inbox
<1>q. /\ queue'[n] = "new" => queue[n] = "new"
      /\ queue'[n] = "read" => queue[n] = "read" \/ (queue[n] = "new" /\ n \in Durable)
      /\ queue'[n] = "written" => queue[n] = "written" \/ Owes(n)
  BY QueueMoved
<1>f. /\ queue[n] \in {"new", "read"} => n \notin Range(Line) \cup Range(owed)
      /\ queue[n] = "written" => n \notin Range(Line) /\ n \in Range(owed)
      /\ queue[n] \in {"read", "written"} => n \in Durable
  BY DEF Inbox, Fresh, FreshNotices
<1>m. n \in Messages /\ n \notin Submits
  BY MessageAssumption DEF Messages
<1>w. queue'[n] = "written" => queue[n] \in {"read", "written"}
  BY <1>q DEF Owes
<1>1. ASSUME queue'[n] \in {"new", "read", "written"}, n \in Range(Line') PROVE FALSE
  <2>1. n \notin Range(Line) /\ (n \in Range(owed) => queue[n] = "written")
    BY <1>1, <1>f, <1>q, <1>w
  <2>2. CASE Keeps \/ Leaves
    BY <1>0, <1>1, <2>1, <2>2, LineMoved DEF Inbox
  <2>3. CASE \E p \in Notices : Joins(p)
    <3>1. PICK p \in Notices : Joins(p)
      BY <2>3
    <3>2. Range(Line') = Range(Line) \cup {p}
      BY <1>0, <3>1, LineMoved DEF Inbox
    <3>3. n = p
      BY <1>1, <2>1, <3>2
    <3> QED
      BY <1>1, <3>1, <3>3 DEF Joins
  <2>4. CASE \E e \in Messages : Enters(e)
    <3>1. PICK e \in Messages : Enters(e)
      BY <2>4
    <3>2. Range(Line') = Range(Line) \cup {e}
      BY <1>0, <3>1, LineMoved DEF Inbox
    <3> QED
      BY <1>1, <2>1, <3>1, <3>2 DEF Enters
  <2>5. CASE Rebuilt
    <3>1. Range(Line') = Range(committed) \cup Range(owed) /\ queue[n] # "written"
      BY <1>0, <2>5, LineMoved DEF Inbox, Rebuilt, NoticeMuFree
    <3>2. Range(committed) \subseteq Range(Line)
      BY LineRange
    <3> QED
      BY <1>1, <2>1, <3>1, <3>2
  <2> QED
    BY <1>0, <2>2, <2>3, <2>4, <2>5 DEF LineMoves
<1>2. ASSUME queue'[n] \in {"new", "read"} PROVE n \notin Range(owed')
  <2>1. n \notin Range(owed) /\ queue'[n] # "written"
    BY <1>2, <1>f, <1>q
  <2>2. ~Owes(n)
    BY <2>1 DEF Owes, Settle, Shape, TypeOK, TypeCallers
  <2> QED
    BY <2>1, <2>2, LogMoved DEF Inbox
<1>3. ASSUME queue'[n] = "written" PROVE n \in Range(owed')
  <2>1. CASE Owes(n)
    BY <2>1, LogMoved DEF Inbox
  <2>2. CASE queue[n] = "written"
    <3>1. n \in Range(owed) /\ n \notin Range(Line)
      BY <1>f, <2>2
    <3> QED
      BY <3>1, LogMoved DEF Inbox
  <2> QED
    BY <1>3, <1>q, <2>1, <2>2
<1> QED
  BY <1>1, <1>2, <1>3, <1>f, <1>q, <1>w

\* A request is committed by the turn that runs it, once.
LEMMA FreshSubmitsStep == Settle /\ Points /\ Inbox /\ [Next]_vars => FreshSubmits'
<1> SUFFICES ASSUME Settle, Points, Inbox, [Next]_vars, NEW s \in Submits, s \in Range(committed')
             PROVE  \/ call'[s] \in {"answered", "lost"}
                    \/ call'[s] = "running" /\ pc' \notin {"begin", "read", "open", "opening"}
  BY DEF FreshSubmits
<1> DEFINE Early == {"begin", "read", "open", "opening"}
<1>c. /\ call[s] = "running" => pc \in RunPoints /\ msg = s
      /\ \A t \in Submits : call[t] = "queued" <=> t \in Range(turns)
      /\ pc \in RunPoints /\ msg \in Submits => call[msg] = "running"
  BY DEF Settle, Requests, CallsHeld
<1>y. /\ call \in [Submits -> CallStates] /\ turns \in Seq(Submits) /\ pc \in PcStates
      /\ after \in {"step", "complete"}
  BY DEF Settle, Shape, TypeOK, TypeScalars, TypeQueues, TypeCallers
<1> USE DEF inbox, control, context, turn, callers, log, history, worker, inTurn
<1>1. CASE s \notin Range(committed)
  <2>1. s = msg /\ pc = "opening"
    BY <1>1, LogMoved, SMTT(30) DEF Inbox
  <2>2. Opening
    <3>1. committed' # committed
      BY <1>1
    <3> QED
      BY <2>1, <3>1 DEF Next, WorkerStep, TurnStep, CallerStep, ClaimWake, NoWake, WaitDone, WaitWake,
      WaitTurn, Begin, Ended, Restore, Finish, Reply, Exit, Drain, Read, NotAdmitted, Open,
      StartBoundary, Take, Commit, Step, Model, Answered, Tooled, DrainSteers, Complete, Close,
      SubmitCount, SubmitSend, SubmitCancel, SubmitStopped, Notify, QueueCheck, QueueCommit, QueueFail,
      QueueEnqueue, SteerCheck, SteerSend, SteerGiveUp, WhenIdle, Interrupt, Stop, Crash, Resume, vars,
      moves
  <2>3. pc' \in {"start", "close"} /\ call' = call
    BY <2>2 DEF Opening, CloseWith
  <2> QED
    BY <1>c, <2>1, <2>3 DEF RunPoints, TurnPoints
<1>2. CASE s \in Range(committed)
  <2>0. call[s] \in {"answered", "lost"} \/ (call[s] = "running" /\ pc \notin Early)
    BY <1>2 DEF Inbox, Fresh, FreshSubmits
  <2>r. call[s] = "running" => pc \in RunPoints \ Early
    BY <1>c, <2>0
  <2> USE DEF RunPoints, TurnPoints
  <2>1. ASSUME ClaimWake \/ NoWake \/ WaitDone \/ WaitWake \/ Begin \/ Ended \/ Restore \/ Finish \/
               Reply \/ Exit
        PROVE  /\ call'[s] \in {"answered", "lost"} \/ (call'[s] = "running" /\ pc' \notin Early)
    BY <1>c, <1>y, <2>0, <2>r, <2>1 DEF ClaimWake, NoWake, WaitDone, WaitWake, Begin, Ended, Restore,
    Finish, Reply, Exit
  <2>2. ASSUME WaitTurn \/ Drain
        PROVE  /\ call'[s] \in {"answered", "lost"} \/ (call'[s] = "running" /\ pc' \notin Early)
    <3>1. turns # <<>> => Head(turns) \in Range(turns) /\ Head(turns) \in Submits
      BY <1>y, TailRange, SeqClosed
    <3>2. turns # <<>> => call[Head(turns)] = "queued"
      BY <1>c, <3>1
    <3>3. turns # <<>> => s # Head(turns)
      BY <2>0, <3>2
    <3> QED
      BY <1>c, <1>y, <2>0, <2>r, <2>2, <3>1, <3>3 DEF WaitTurn, Drain
  <2>3. ASSUME TurnStep
        PROVE  call'[s] \in {"answered", "lost"} \/ (call'[s] = "running" /\ pc' \notin Early)
    <3>1. call' = call
      BY <2>3 DEF TurnStep, Read, NotAdmitted, Open, Opening, StartBoundary, Take, Commit, Step, Model,
      Answered, Tooled, DrainSteers, Complete, Close
    <3>2. pc \notin Early => pc' \notin Early
      BY <1>y, <2>3 DEF TurnStep, Read, NotAdmitted, Open, Opening, StartBoundary, Take, Commit, Step,
      Model, Answered, Tooled, DrainSteers, Complete, Close, CloseWith
    <3> QED
      BY <2>0, <3>1, <3>2
  <2>4. ASSUME CallerStep \/ Interrupt \/ Stop \/ UNCHANGED vars
        PROVE  call'[s] = call[s] /\ pc' = pc
    BY <1>y, <2>0, <2>4 DEF CallerStep, SubmitCount, SubmitSend, SubmitCancel, SubmitStopped, Notify,
    QueueCheck, QueueCommit, QueueFail, QueueEnqueue, SteerCheck, SteerSend, SteerGiveUp, WhenIdle,
    Interrupt, Stop, vars, moves
  <2>5. ASSUME Crash \/ Resume
        PROVE  call'[s] \in {"answered", "lost"}
    BY <1>y, <2>0, <2>r, <2>5 DEF Crash, Resume
  <2> QED
    BY <2>0, <2>1, <2>2, <2>3, <2>4, <2>5 DEF Next, WorkerStep
<1> QED
  BY <1>1, <1>2

\* A steer is in the channel or in the line, and only once it was sent.
LEMMA FreshSteersStep == Settle /\ Points /\ Inbox /\ [Next]_vars => FreshSteers'
<1> SUFFICES ASSUME Settle, Points, Inbox, [Next]_vars PROVE FreshSteers'
  OBVIOUS
<1>0. LineMoves
  BY LineStep DEF Inbox
<1>y. steers \in Seq(Steers) /\ steer \in [Steers -> SteerStates]
  BY DEF Settle, Shape, TypeOK, TypeQueues, TypeCallers
<1>f. /\ IsInjective(steers) /\ Range(steers) \cap Range(Line) = {}
      /\ \A m \in Steers : m \in Range(Line) \cup Range(steers) => steer[m] = "sent"
  BY DEF Inbox, Fresh, FreshSteers
<1>o. Range(committed) \subseteq Range(Line) /\ Range(owed) \subseteq Notices
  BY LineRange, MessageAssumption, SMTT(30) DEF Inbox, Journal
<1>s. \A m \in Steers : steer[m] = "sent" => steer'[m] = "sent"
  BY <1>y DEF Next, WorkerStep, TurnStep, CallerStep, ClaimWake, NoWake, WaitDone, WaitWake,
  WaitTurn, Begin, Ended, Restore, Finish, Reply, Exit, Drain, Read, NotAdmitted, Open, Opening,
  StartBoundary, Take, Commit, Step, Model, Answered, Tooled, DrainSteers, Complete, Close,
  SubmitCount, SubmitSend, SubmitCancel, SubmitStopped, Notify, QueueCheck, QueueCommit, QueueFail,
  QueueEnqueue, SteerCheck, SteerSend, SteerGiveUp, WhenIdle, Interrupt, Stop, Crash, Resume, vars,
  moves, inbox, control, context, turn, callers, log, history, worker, inTurn
<1>1. \A m \in Range(Line') : m \in Range(Line) \/ m \in Submits \cup Notices \/
          (steers # <<>> /\ m = Head(steers) /\ steers' = Tail(steers))
  <2>1. CASE Keeps \/ Leaves \/ Rebuilt
    BY <1>0, <1>o, <2>1, LineMoved DEF Inbox
  <2>2. ASSUME NEW n \in Notices, Joins(n) PROVE Range(Line') = Range(Line) \cup {n}
    BY <1>0, <2>2, LineMoved DEF Inbox
  <2>3. ASSUME NEW e \in Messages, Enters(e) PROVE Range(Line') = Range(Line) \cup {e}
    BY <1>0, <2>3, LineMoved DEF Inbox
  <2> QED
    BY <1>0, <2>1, <2>2, <2>3 DEF LineMoves, Enters
<1>2. CASE \E m \in Steers : SteerSend(m)
  <2>1. PICK m \in Steers : SteerSend(m)
    BY <1>2
  <2>2. /\ steer[m] = "checked" /\ steers' = Append(steers, m) /\ steer'[m] = "sent"
    BY <1>y, <2>1 DEF SteerSend
  <2>3. m \notin Range(Line) \cup Range(steers)
    BY <1>f, <2>2
  <2>4. IsInjective(steers') /\ Range(steers') = Range(steers) \cup {m}
    BY <1>f, <1>y, <2>2, <2>3, AppendOne
  <2>5. Line' = Line
    <3>1. UNCHANGED <<committed, hand, notices, accepted>> /\ InFlight' = InFlight
      BY <2>1 DEF SteerSend, InFlight, inbox, control, context, turn, callers, log, history, worker
    <3> QED
      BY <3>1, SameParts DEF Keeps
  <2> QED
    BY <1>f, <1>s, <2>2, <2>3, <2>4, <2>5 DEF FreshSteers
<1>3. CASE ~(\E m \in Steers : SteerSend(m)) /\ steers' \in {steers, <<>>}
  <2>1. IsInjective(steers') /\ Range(steers') \subseteq Range(steers)
    BY <1>3, <1>f, EmptyRange
  <2>2. Range(steers) \subseteq Steers
    BY <1>y DEF Range
  <2>3. steers # <<>> /\ steers' = Tail(steers) => steers' = <<>>
    BY <1>3, <1>y
  <2>4. steers # <<>> => Head(steers) \in Range(steers)
    BY <1>y, TailRange
  <2>5. \A m \in Range(steers') : m \in Steers /\ m \in Range(steers) /\ m \notin Range(Line') 
    BY <1>1, <1>f, <2>1, <2>2, <2>3, EmptyRange, MessageAssumption
  <2>6. \A m \in Steers : m \in Range(Line') \cup Range(steers') => steer'[m] = "sent"
    BY <1>1, <1>f, <1>s, <2>1, <2>4, MessageAssumption
  <2> QED
    BY <2>1, <2>5, <2>6 DEF FreshSteers
<1>4. CASE steers # <<>> /\ steers' = Tail(steers)
  <2>1. /\ Head(steers) \in Range(steers) /\ Range(steers) = Range(steers') \cup {Head(steers)}
        /\ IsInjective(steers') /\ Head(steers) \notin Range(steers')
    BY <1>4, <1>f, <1>y, TailRange
  <2>2. Range(steers) \subseteq Steers
    BY <1>y DEF Range
  <2>3. \A m \in Range(steers') : m \notin Range(Line')
    BY <1>1, <1>f, <2>1, <2>2, MessageAssumption
  <2>4. \A m \in Steers : m \in Range(Line') \cup Range(steers') => steer'[m] = "sent"
    BY <1>1, <1>f, <1>s, <2>1, MessageAssumption, SMTT(30)
  <2> QED
    BY <2>1, <2>3, <2>4 DEF FreshSteers
<1>5. \/ \E m \in Steers : SteerSend(m)
      \/ steers' \in {steers, <<>>}
      \/ steers # <<>> /\ steers' = Tail(steers)
  BY DEF Next, WorkerStep, TurnStep, CallerStep, ClaimWake, NoWake, WaitDone, WaitWake,
  WaitTurn, Begin, Ended, Restore, Finish, Reply, Exit, Drain, Read, NotAdmitted, Open, Opening,
  StartBoundary, Take, Commit, Step, Model, Answered, Tooled, DrainSteers, Complete, Close,
  SubmitCount, SubmitSend, SubmitCancel, SubmitStopped, Notify, QueueCheck, QueueCommit, QueueFail,
  QueueEnqueue, SteerCheck, SteerGiveUp, WhenIdle, Interrupt, Stop, Crash, Resume, vars,
  moves, inbox, control, context, turn, callers, log, history, worker, inTurn
<1> QED
  BY <1>2, <1>3, <1>4, <1>5

\* The notices of the line stay the accepted ones, in acceptance order.
LEMMA ConservedStep == Settle /\ Points /\ Inbox /\ [Next]_vars => NoticesConserved'
<1> SUFFICES ASSUME Settle, Points, Inbox, [Next]_vars, active', faults' = 0, runs' = 1
             PROVE  /\ Range(Line') \cap Notices = Range(accepted')
                    /\ Before(Line') \cap (Notices \X Notices) = Before(accepted')
  BY DEF NoticesConserved
<1>0. LineMoves
  BY LineStep DEF Inbox
<1>1. active /\ faults = 0 /\ runs = 1
  <2>1. runs \in 1..MaxRuns /\ (Resume => runs' = runs + 1)
    BY DEF Resume, Settle, Shape, TypeOK, TypeScalars
  <2> QED
    BY <2>1, Grows
<1>2. /\ Range(Line) \cap Notices = Range(accepted)
      /\ Before(Line) \cap (Notices \X Notices) = Before(accepted)
  BY <1>1 DEF Inbox, NoticesConserved
<1>t. Line \in Seq(Messages) /\ accepted \in Seq(Messages) /\ accepted \in Seq(Notices)
  BY LineTypes DEF Settle, Shape, TypeOK, TypeQueues
<1>3. CASE Keeps
  BY <1>2, <1>3 DEF Keeps
<1>4. CASE \E n \in Notices : Joins(n)
  <2>1. PICK n \in Notices : Joins(n)
    BY <1>4
  <2>2. n \in Messages /\ Line' = Append(Line, n) /\ accepted' = Append(accepted, n)
    BY <2>1 DEF Joins, Messages
  <2>3. /\ Range(Line') = Range(Line) \cup {n}
        /\ \A x, y : <<x, y>> \in Before(Line')
                     <=> (<<x, y>> \in Before(Line) \/ (x \in Range(Line) /\ y = n))
    BY <1>t, <2>2, AppendOne
  <2>4. /\ Range(accepted') = Range(accepted) \cup {n}
        /\ \A x, y : <<x, y>> \in Before(accepted')
                     <=> (<<x, y>> \in Before(accepted) \/ (x \in Range(accepted) /\ y = n))
    BY <1>t, <2>2, AppendOne
  <2>5. Range(Line') \cap Notices = Range(accepted')
    BY <1>2, <2>3, <2>4
  <2>6. \A x, y \in Notices : <<x, y>> \in Before(Line) <=> <<x, y>> \in Before(accepted)
    BY <1>2
  <2>7. \A x, y \in Notices : <<x, y>> \in Before(Line') <=> <<x, y>> \in Before(accepted')
    <3> SUFFICES ASSUME NEW x \in Notices, NEW y \in Notices
                 PROVE  <<x, y>> \in Before(Line') <=> <<x, y>> \in Before(accepted')
      OBVIOUS
    <3>1. x \in Range(Line) <=> x \in Range(accepted)
      BY <1>2
    <3>2. <<x, y>> \in Before(Line') <=> (<<x, y>> \in Before(Line) \/ (x \in Range(Line) /\ y = n))
      BY <2>3
    <3>3. <<x, y>> \in Before(accepted')
          <=> (<<x, y>> \in Before(accepted) \/ (x \in Range(accepted) /\ y = n))
      BY <2>4
    <3> QED
      BY <2>6, <3>1, <3>2, <3>3
  <2>8. Before(accepted') \subseteq Notices \X Notices
    BY <1>2, <2>4 DEF Before
  <2> QED
    BY <2>5, <2>7, <2>8
<1>5. CASE \E e \in Messages : Enters(e)
  <2>1. PICK e \in Messages : Enters(e)
    BY <1>5
  <2>2. PICK a \in Seq(Messages), b \in Seq(Messages) : Line = a \o b /\ Line' = (a \o <<e>>) \o b
    BY <2>1 DEF Enters
  <2>3. \A x, y : x # e /\ y # e =>
            (<<x, y>> \in Before((a \o <<e>>) \o b) <=> <<x, y>> \in Before(a \o b))
    BY InsertOne
  <2>4. \A x, y : x # e /\ y # e => (<<x, y>> \in Before(Line') <=> <<x, y>> \in Before(Line))
    BY <2>2, <2>3
  <2>5. Range(Line') = Range(Line) \cup {e} /\ e \notin Notices /\ accepted' = accepted
    BY <1>0, <2>1, LineMoved DEF Inbox, Enters
  <2>6. \A x, y \in Notices : <<x, y>> \in Before(Line') <=> <<x, y>> \in Before(Line)
    BY <2>4, <2>5
  <2> QED
    BY <1>2, <2>5, <2>6
<1>6. ~Leaves /\ ~Rebuilt
  BY DEF Leaves, Rebuilt
<1> QED
  BY <1>0, <1>3, <1>4, <1>5, <1>6 DEF LineMoves

\* What the log owes stays in the line.
LEMMA OwedStep == Settle /\ Points /\ Inbox /\ [Next]_vars => OwedInLine'
<1> SUFFICES ASSUME Settle, Points, Inbox, [Next]_vars, active', faults' = 0,
                    NEW n \in Range(owed'), mode # "one-shot", queue'[n] # "written"
             PROVE  n \in Range(Line')
  BY DEF OwedInLine, Next, vars
<1>0. LineMoves
  BY LineStep DEF Inbox
<1>1. ~Leaves
  BY DEF Leaves
<1>2. CASE Rebuilt
  <2>1. n \in Range(owed) /\ Range(Line') = Range(committed) \cup Range(owed)
    BY <1>0, <1>2, LineMoved DEF Inbox, Rebuilt
  <2> QED
    BY <2>1
<1>3. CASE ~Rebuilt
  <2>1. Range(Line) \subseteq Range(Line')
    BY <1>0, <1>1, <1>3, LineMoved DEF Inbox
  <2>2. n \in Range(owed) /\ n \in Notices
    <3>1. n \in Range(owed) \/ (n \in Notices /\ Owes(n))
      BY LogMoved DEF Inbox
    <3>2. n \in Notices => ~Owes(n)
      BY DEF Owes, Settle, Shape, TypeOK, TypeCallers
    <3> QED
      BY <3>1, <3>2, MessageAssumption DEF Inbox, Journal
  <2>3. active /\ faults = 0
    <3>1. ~Resume
      BY <1>3, ResumeRebuilds
    <3> QED
      BY <3>1, Grows
  <2>4. n \in Range(Line) \/ queue[n] = "written"
    BY <2>2, <2>3 DEF Inbox, OwedInLine
  <2>5. CASE queue[n] = "written"
    <3>1. QueueEnqueue(n)
      BY <2>2, <2>5, QueueMoved
    <3>2. Joins(n)
      BY <2>2, <3>1, WrittenIsQueued DEF Inbox
    <3> QED
      BY <1>0, <2>2, <3>2, LineMoved DEF Inbox
  <2> QED
    BY <2>1, <2>4, <2>5
<1> QED
  BY <1>2, <1>3

\* An owed notice of the line is in the queue, in hand or in flight.
LEMMA OwedIsAhead ==
    Settle /\ Points /\ Inbox => OwedIsHeld
  BY LineRange DEF Inbox, OwedInLine, OwedIsHeld, Journal

\* The inbox is kept whole through cancelled turns, failed appends, shutdown,
\* crashes and resumes: no notice is lost or reordered, none is committed twice,
\* none the log owes is forgotten, and the requests counted are those there are.
THEOREM InboxAlwaysKept == Spec => []InboxKept
<1> DEFINE I == Settle /\ Points /\ Inbox
<1>1. Init => I
  <2> SUFFICES ASSUME Init PROVE I
    OBVIOUS
  <2>1. Settle /\ Points
    BY SettleInductive, PointsInit
  <2>2. /\ committed = <<>> /\ notices = <<>> /\ hand = <<>> /\ owed = <<>> /\ accepted = <<>>
        /\ InFlight = <<>> /\ steers = <<>> /\ \A n \in Notices : queue[n] = "new"
    BY DEF Init, InFlight
  <2>3. Line = <<>>
    BY <2>1, <2>2, LineTypes, SeqAlgebra DEF Line
  <2>4. IsInjective(Line) /\ Journal /\ Fresh
    BY <2>2, <2>3, EmptyRange DEF Journal, Fresh, FreshNotices, FreshSubmits, FreshSteers
  <2>5. NoticesConserved /\ OwedInLine
    BY <2>2, <2>3, BeforeSmall DEF NoticesConserved, OwedInLine
  <2> QED
    BY <2>1, <2>4, <2>5 DEF Inbox
<1>2. I /\ [Next]_vars => I'
  <2> SUFFICES ASSUME I, [Next]_vars PROVE I'
    OBVIOUS
  <2>1. Settle' /\ Points'
    BY SettleInductive, PointsStep
  <2>2. IsInjective(Line')
    BY LineStep, LineMoved DEF Inbox
  <2>3. Journal' /\ Fresh' /\ NoticesConserved' /\ OwedInLine'
    BY JournalStep, FreshNoticesStep, FreshSubmitsStep, FreshSteersStep, ConservedStep, OwedStep
    DEF Fresh
  <2> QED
    BY <2>1, <2>2, <2>3 DEF Inbox
<1>3. I => InboxKept
  BY OwedIsAhead DEF Inbox, InboxKept, DeliveredOnce, Settle, Requests
<1> QED
  BY <1>1, <1>2, <1>3, PTL DEF Spec
=============================================================================
