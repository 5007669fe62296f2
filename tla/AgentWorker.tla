----------------------------- MODULE AgentWorker -----------------------------
(***************************************************************************)
(* One live agent of nano-harness: the sequential turn worker of           *)
(* internal/app/agent/agent.go, the callers of its control methods, and    *)
(* the boundaries of Engine.runTurn (engine.go) at which a turn takes      *)
(* queued input, observes cancellation or stops.                           *)
(*                                                                         *)
(* The worker goroutine (pc) and every caller goroutine interleave; one    *)
(* action is one critical section of Agent.mu, one channel operation, or   *)
(* one append of the journal.  The journal is kept as the projection the   *)
(* inbox depends on: the user/message records (committed), how many        *)
(* notice/queued records there are (queued), which of them no user/message *)
(* has delivered (owed), and whether a turn is open (turnOpen); these      *)
(* survive a crash.                                                        *)
(***************************************************************************)
EXTENDS Integers, Sequences, FiniteSets, SequencesExt

CONSTANTS
    Submits,      \* messages for Submit or Followup; also the calls' identities
    Notices,      \* messages for Notify and QueueNotice
    Steers,       \* messages for Steer
    Waiters,      \* callers of WhenIdle
    Durable,      \* the notices delivered with QueueNotice, the rest use Notify
    Cancellable,  \* the Submit calls whose context may be cancelled
    Goals,        \* the Submit messages whose source kind has an Admission
    Modes,        \* the modes an agent may be opened in (Agent.mode)
    QueueCap,     \* capacity of Agent.turns  (32 in the code)
    SteerCap,     \* capacity of Agent.steers (32 in the code)
    MaxSteps,     \* Engine.maxSteps
    Disturbances, \* which disturbances the environment may cause
    MaxFaults,    \* bound: failed journal appends
    MaxRuns       \* bound: times the session is opened

ASSUME ModesAssumption == Modes \subseteq {"continuable", "one-shot"}
ASSUME BoundsAssumption ==
    /\ QueueCap \in Nat \ {0} /\ SteerCap \in Nat \ {0}
    /\ MaxSteps \in Nat \ {0} /\ MaxFaults \in Nat /\ MaxRuns \in Nat \ {0}
ASSUME MessageAssumption ==
    /\ Submits \cap Notices = {} /\ Submits \cap Steers = {} /\ Notices \cap Steers = {}
    /\ Durable \subseteq Notices /\ Cancellable \subseteq Submits /\ Goals \subseteq Submits
ASSUME FiniteAssumption == IsFiniteSet(Submits)
ASSUME DisturbancesAssumption == Disturbances \subseteq {"interrupt", "close", "crash"}

VARIABLES
    mode,                      \* Agent.mode, chosen when the agent is opened
    active, busy, pending,     \* Agent.active, Agent.busy, Agent.pending
    notices, woken, wake,      \* Agent.notices, Agent.woken, the token in Agent.wake
    turns, steers,             \* the buffered channels Agent.turns, Agent.steers
    turnCtx, cancelled,        \* currentCancel # nil; the turn's own context is cancelled
    stopped,                   \* the worker's context is done (close, shutdown)
    ran,                       \* last.Turn > 0
    pc, msg, hand, after,      \* the worker: where it is, its opening message, the input
                               \* it took and has not yet committed, where it goes next
    step, numbered, opened,    \* runTurn: current step, result.Turn > 0, result.opened
    outcome, interrupted,      \* result.Outcome, result.interrupted
    call, queue, noticeId, steer, wait,  \* callers of Submit, QueueNotice/Notify, Steer, WhenIdle
    committed, queued, owed, turnOpen,   \* the durable log
    faults, runs,
    accepted, parked           \* history: notices in acceptance order; see Finish and Resume

inbox   == <<notices, woken>>
control == <<active, busy, pending>>
context == <<turnCtx, cancelled, stopped>>
turn    == <<step, numbered, opened, outcome, interrupted>>
callers == <<call, queue, noticeId, steer, wait>>
log     == <<committed, queued, owed, turnOpen>>
history == <<accepted, parked>>
moves   == <<control, inbox, wake, turns, steers, context, ran, pc, msg, hand, after,
             turn, callers, log, faults, runs, history>>
vars    == <<mode, moves>>

Messages == Submits \cup Notices \cup Steers
None     == "none"

CallStates  == {"new", "counted", "queued", "running", "answered", "withdrawn", "refused", "lost"}
QueueStates == {"new", "read", "written", "accepted", "refused"}
SteerStates == {"new", "checked", "sent", "refused"}
WaitStates  == {"new", "waiting", "returned", "refused"}
Outcomes    == {None, "not-admitted", "completed", "canceled", "error", "max_tokens", "step_limit"}
\* Control points inside runTurn, in the order a turn passes them.
TurnPoints  == {"read", "open", "opening", "start", "step", "model", "answered", "tooled",
                "steer", "take", "commit", "complete", "close", "ended"}
PcStates    == {"top", "wait", "begin", "restore", "finish", "reply", "exit", "drain",
                "done", "crashed"} \cup TurnPoints

Init ==
    /\ mode \in Modes
    /\ active = TRUE /\ busy = FALSE /\ pending = 0
    /\ notices = <<>> /\ woken = FALSE /\ wake = FALSE
    /\ turns = <<>> /\ steers = <<>>
    /\ turnCtx = FALSE /\ cancelled = FALSE /\ stopped = FALSE
    /\ ran = FALSE
    /\ pc = "top" /\ msg = None /\ hand = <<>> /\ after = "step"
    /\ step = 0 /\ numbered = FALSE /\ opened = FALSE
    /\ outcome = None /\ interrupted = FALSE
    /\ call = [s \in Submits |-> "new"]
    /\ queue = [n \in Notices |-> "new"]
    /\ noticeId = [n \in Notices |-> 0]
    /\ steer = [m \in Steers |-> "new"]
    /\ wait = [w \in Waiters |-> "new"]
    /\ committed = <<>> /\ queued = 0 /\ owed = <<>> /\ turnOpen = FALSE
    /\ faults = 0 /\ runs = 1
    /\ accepted = <<>> /\ parked = FALSE

-----------------------------------------------------------------------------
(* Helpers.                                                                *)

\* The turn's context is done: Interrupt cancelled it, or its parent, the
\* worker's context, is done.
Aborted == turnCtx /\ (cancelled \/ stopped)

\* Mutant: the waiters are dropped without being closed.
NotifyIdleDropped(w) == w

\* notifyIdleLocked: close every waiter's channel.
NotifyIdle(w) == [x \in Waiters |-> IF w[x] = "waiting" THEN "returned" ELSE w[x]]

\* refusalLocked: why the agent cannot take a notice now.
Refused == ~active \/ (mode = "one-shot" /\ ~busy)

\* Mutants: a delivered notice stays owed; a restart forgets the owed notices.
DeliverNothing(m) == owed
PendingNoticesNone == <<>>

\* What the log owes once it holds a user/message that carries m.
Deliver(m) == IF m \in Range(owed) THEN RemoveAt(owed, CHOOSE i \in DOMAIN owed : owed[i] = m)
              ELSE owed

\* PendingNotices: queued and not delivered, in queue order.
PendingNotices == owed

\* The log accepts a notice's delivery only while it owes it.
Deliverable(m) == m \in Durable => m \in Range(owed)

\* journal.Append of a user/message.
AppendMessage(m) ==
    /\ Deliverable(m)
    /\ committed' = Append(committed, m) /\ owed' = Deliver(m)

\* A failing append of the journal; the bound keeps runs finite.
Fault == faults < MaxFaults /\ faults' = faults + 1

\* An append of a user/message that fails or that the log rejects.
AppendFails(m) == Fault \/ (~Deliverable(m) /\ UNCHANGED faults)

\* outcomeFor: the turn's own cancellation wins over the failure it raced.
OutcomeFor == IF Aborted THEN "canceled" ELSE "error"

\* A dependency that is stopping at shutdown may cancel the turn from below.
DependencyStopped == "close" \in Disturbances

\* Leave runTurn's body for its deferred closeout with an outcome.
CloseWith(o) == outcome' = o /\ pc' = "close" /\ hand' = <<>>

-----------------------------------------------------------------------------
(* The worker loop: Agent.run.                                             *)

\* claimWake: a woken worker opens a turn with the oldest notice.
ClaimWake ==
    /\ pc = "top" /\ woken
    /\ woken' = FALSE
    /\ msg' = Head(notices) /\ notices' = Tail(notices)
    /\ busy' = TRUE /\ pc' = "begin"
    /\ UNCHANGED <<active, pending, wake, turns, steers, context, ran, hand, after, turn,
                   callers, log, faults, runs, history>>

NoWake ==
    /\ pc = "top" /\ ~woken
    /\ pc' = "wait"
    /\ UNCHANGED <<control, inbox, wake, turns, steers, context, ran, msg, hand, after, turn,
                   callers, log, faults, runs, history>>

\* The worker's select: any ready case may be chosen.
WaitDone ==
    /\ pc = "wait" /\ stopped
    /\ pc' = "exit"
    /\ UNCHANGED <<control, inbox, wake, turns, steers, context, ran, msg, hand, after, turn,
                   callers, log, faults, runs, history>>

WaitWake ==
    /\ pc = "wait" /\ wake
    /\ wake' = FALSE /\ pc' = "top"
    /\ UNCHANGED <<control, inbox, turns, steers, context, ran, msg, hand, after, turn,
                   callers, log, faults, runs, history>>

WaitTurn ==
    /\ pc = "wait" /\ turns # <<>>
    /\ msg' = Head(turns) /\ turns' = Tail(turns)
    /\ call' = [call EXCEPT ![Head(turns)] = "running"]
    /\ pc' = "begin"
    /\ UNCHANGED <<control, inbox, wake, steers, context, ran, hand, after, turn,
                   queue, noticeId, steer, wait, log, faults, runs, history>>

\* Agent.turn up to the call of runTurn: a wake requested earlier is spent.
Begin ==
    /\ pc = "begin"
    /\ busy' = TRUE /\ turnCtx' = TRUE /\ cancelled' = FALSE /\ woken' = FALSE
    /\ step' = 0 /\ numbered' = FALSE /\ opened' = FALSE
    /\ outcome' = None /\ interrupted' = FALSE
    /\ pc' = "read"
    /\ UNCHANGED <<active, pending, notices, wake, turns, steers, stopped, ran, msg, hand, after,
                   callers, log, faults, runs, history>>

\* Agent.turn after runTurn: record a late interrupt, then release the context.
Ended ==
    /\ pc = "ended"
    /\ interrupted' = Aborted /\ cancelled' = TRUE
    /\ pc' = IF msg \in Submits THEN "finish" ELSE "restore"
    /\ UNCHANGED <<control, inbox, wake, turns, steers, turnCtx, stopped, ran, msg, hand, after,
                   step, numbered, opened, outcome, callers, log, faults, runs, history>>

\* Mutant: any cancelled turn gives its opening notice back.
RestorableCancelled == outcome = "canceled"

\* A turn cancelled before it opened took nothing.
Restorable == ~opened /\ outcome = "canceled"

\* restoreNotice: its notice goes back to the head of the queue.
Restore ==
    /\ pc = "restore"
    /\ notices' = IF Restorable THEN <<msg>> \o notices ELSE notices
    /\ pc' = "finish"
    /\ UNCHANGED <<control, woken, wake, turns, steers, context, ran, msg, hand, after, turn,
                   callers, log, faults, runs, history>>

\* The turn neither ended cancelled nor was interrupted while it closed.
Settled == outcome # "canceled" /\ ~interrupted

\* Mutants: finishTurn wakes without looking at the queue; it wakes only after
\* a completed turn.
WakeAfterBlind(left) == left = 0 /\ (Settled \/ woken) /\ mode # "one-shot"
WakeAfterCompleted(left) ==
    notices # <<>> /\ left = 0 /\ outcome = "completed" /\ mode # "one-shot"

\* finishTurn: another turn opens for notices that came too late, unless a
\* queued turn will deliver them first.
WakeAfter(left) == notices # <<>> /\ left = 0 /\ (Settled \/ woken) /\ mode # "one-shot"

\* finishTurn.  parked records that the notices left behind wait for the next
\* turn by design: the turn was cancelled or interrupted, or the agent is one-shot.
Finish ==
    /\ pc = "finish"
    /\ turnCtx' = FALSE /\ busy' = FALSE
    /\ pending' = IF msg \in Submits THEN pending - 1 ELSE pending
    /\ ran' = IF outcome = "not-admitted" THEN ran ELSE numbered
    /\ woken' = WakeAfter(pending')
    /\ parked' = (parked \/ (notices # <<>> /\ ~woken' /\ (~Settled \/ mode = "one-shot")))
    /\ wait' = IF pending' = 0 /\ ~woken' THEN NotifyIdle(wait) ELSE wait
    /\ pc' = IF msg \in Submits THEN "reply" ELSE "top"
    /\ UNCHANGED <<active, notices, wake, turns, steers, cancelled, stopped, msg, hand, after, turn,
                   call, queue, noticeId, steer, log, faults, runs, accepted>>

\* Mutant: a turn its admission dropped sends no result.
ReplyAdmitted ==
    /\ pc = "reply"
    /\ call' = IF outcome = "not-admitted" THEN call ELSE [call EXCEPT ![msg] = "answered"]
    /\ pc' = "top"
    /\ UNCHANGED <<control, inbox, wake, turns, steers, context, ran, msg, hand, after, turn,
                   queue, noticeId, steer, wait, log, faults, runs, history>>

\* request.result <- result
Reply ==
    /\ pc = "reply"
    /\ call' = [call EXCEPT ![msg] = "answered"]
    /\ pc' = "top"
    /\ UNCHANGED <<control, inbox, wake, turns, steers, context, ran, msg, hand, after, turn,
                   queue, noticeId, steer, wait, log, faults, runs, history>>

\* The deferred reset of run, under the lock.
Exit ==
    /\ pc = "exit"
    /\ active' = FALSE /\ busy' = FALSE /\ pending' = 0
    /\ notices' = <<>> /\ woken' = FALSE
    /\ wait' = NotifyIdle(wait)
    /\ pc' = "drain"
    /\ UNCHANGED <<wake, turns, steers, context, ran, msg, hand, after, turn,
                   call, queue, noticeId, steer, log, faults, runs, history>>

\* The deferred drain answers the queued requests; the default case closes done.
Drain ==
    /\ pc = "drain"
    /\ IF turns = <<>>
       THEN pc' = "done" /\ UNCHANGED <<turns, call>>
       ELSE /\ call' = [call EXCEPT ![Head(turns)] = "answered"]
            /\ turns' = Tail(turns) /\ UNCHANGED pc
    /\ UNCHANGED <<control, inbox, wake, steers, context, ran, msg, hand, after, turn,
                   queue, noticeId, steer, wait, log, faults, runs, history>>

-----------------------------------------------------------------------------
(* One turn: Engine.runTurn at the boundaries that touch the inbox.        *)

inTurn == <<control, woken, wake, turns, context, ran, msg, step, numbered, opened, interrupted,
            callers, queued, runs, history>>

\* journal.Events: a done context or a read failure ends the turn unnumbered.
Read ==
    /\ pc = "read"
    /\ \/ ~Aborted /\ numbered' = TRUE /\ pc' = "open" /\ UNCHANGED <<outcome, faults>>
       \/ /\ \/ Aborted /\ UNCHANGED faults
             \/ Fault
          /\ numbered' = FALSE /\ outcome' = OutcomeFor /\ pc' = "ended"
    /\ UNCHANGED <<control, inbox, wake, turns, steers, context, ran, msg, hand, after,
                   step, opened, interrupted, callers, log, runs, history>>

\* openTurn with an Admission that found the message stale: nothing commits.
NotAdmitted ==
    /\ pc = "open" /\ msg \in Goals
    /\ numbered' = FALSE /\ outcome' = "not-admitted" /\ pc' = "ended"
    /\ UNCHANGED <<control, inbox, wake, turns, steers, context, ran, msg, hand, after,
                   step, opened, interrupted, callers, log, faults, runs, history>>

\* openTurn: decided once.  A cancellation before turn/start commits nothing;
\* the log rejects turn/start while an earlier turn is still open.
Open ==
    /\ pc = "open"
    /\ \/ /\ ~Aborted /\ ~turnOpen
          /\ turnOpen' = TRUE /\ opened' = TRUE /\ pc' = "opening"
          /\ UNCHANGED <<outcome, faults>>
       \/ /\ \/ (Aborted \/ turnOpen) /\ UNCHANGED faults
             \/ Fault
          /\ outcome' = OutcomeFor /\ pc' = "ended"
          /\ UNCHANGED <<turnOpen, opened>>
    /\ UNCHANGED <<control, inbox, wake, turns, steers, context, ran, msg, hand, after,
                   step, numbered, interrupted, callers, committed, queued, owed, runs, history>>

\* The opening user/message, committed regardless of cancellation.
Opening ==
    /\ pc = "opening"
    /\ \/ AppendMessage(msg) /\ pc' = "start" /\ UNCHANGED <<outcome, hand, faults>>
       \/ AppendFails(msg) /\ CloseWith(OutcomeFor) /\ UNCHANGED <<committed, owed>>
    /\ UNCHANGED <<inTurn, notices, steers, after, turnOpen>>

\* The first boundary checks cancellation before it takes notices.
StartBoundary ==
    /\ pc = "start"
    /\ \/ Aborted /\ CloseWith("canceled") /\ UNCHANGED after
       \/ ~Aborted /\ pc' = "take" /\ after' = "step" /\ UNCHANGED <<outcome, hand>>
    /\ UNCHANGED <<inTurn, notices, steers, log, faults>>

\* Mutant: drainNotices does not look at the context.
DrainNoticesBlind == hand' = hand \o notices /\ notices' = <<>>

\* drainNotices, under the lock: a cancelled turn takes none.
DrainNotices == IF Aborted THEN UNCHANGED <<hand, notices>>
                           ELSE hand' = hand \o notices /\ notices' = <<>>

\* The notices() of a boundary: an answer that no notice extends completes the turn.
Take ==
    /\ pc = "take"
    /\ DrainNotices
    /\ parked' = (parked /\ Aborted)
    /\ pc' = IF after = "complete" /\ hand' = <<>> THEN "complete" ELSE "commit"
    /\ after' = "step"
    /\ UNCHANGED <<control, woken, wake, turns, steers, context, ran, msg, turn,
                   callers, log, faults, runs, accepted>>

\* appendUserMessages: one append per message taken, regardless of cancellation;
\* a failing append ends the turn and drops the rest.
Commit ==
    /\ pc = "commit"
    /\ \/ /\ hand = <<>> /\ pc' = after
          /\ UNCHANGED <<outcome, hand, committed, owed, faults>>
       \/ /\ hand # <<>>
          /\ AppendMessage(Head(hand)) /\ hand' = Tail(hand)
          /\ UNCHANGED <<outcome, pc, faults>>
       \/ /\ hand # <<>>
          /\ AppendFails(Head(hand)) /\ CloseWith("error") /\ UNCHANGED <<committed, owed>>
    /\ UNCHANGED <<inTurn, notices, steers, after, turnOpen>>

\* for step := 1; step <= maxSteps; step++
StepsLeft == step < MaxSteps

\* The loop head: the step limit, cancellation, or a failure before the
\* model is called (compaction, plan boundary, step context, settings, tools,
\* prompt, an append) end the turn; otherwise the next step opens.
Step ==
    /\ pc = "step"
    /\ \/ ~StepsLeft /\ CloseWith("step_limit") /\ UNCHANGED step
       \/ StepsLeft /\ Aborted /\ CloseWith("canceled") /\ UNCHANGED step
       \/ StepsLeft /\ CloseWith("error") /\ UNCHANGED step
       \/ StepsLeft /\ DependencyStopped /\ CloseWith("canceled") /\ UNCHANGED step
       \/ /\ StepsLeft /\ ~Aborted
          /\ step' = step + 1 /\ pc' = "model" /\ UNCHANGED <<outcome, hand>>
    /\ UNCHANGED <<control, inbox, wake, turns, steers, context, ran, msg, after,
                   numbered, opened, interrupted, callers, log, faults, runs, history>>

\* The model call and the step it closes: a failure, an output limit (a
\* cancellation that raced it wins), a context overflow whose forced compaction
\* lets the loop continue, an answer, or calls whose batch has returned.
Model ==
    /\ pc = "model"
    /\ \/ CloseWith("error")
       \/ DependencyStopped /\ CloseWith("canceled")
       \/ CloseWith(IF Aborted THEN "canceled" ELSE "max_tokens")
       \/ pc' \in {"step", "answered", "tooled"} /\ UNCHANGED <<outcome, hand>>
    /\ UNCHANGED <<inTurn, notices, steers, after, log, faults>>

\* After an answer: cancellation first; the last allowed step takes no notices.
Answered ==
    /\ pc = "answered"
    /\ \/ Aborted /\ CloseWith("canceled") /\ UNCHANGED after
       \/ /\ ~Aborted /\ UNCHANGED <<outcome, hand>>
          /\ IF step < MaxSteps
             THEN pc' = "take" /\ after' = "complete"
             ELSE pc' = "complete" /\ UNCHANGED after
    /\ UNCHANGED <<inTurn, notices, steers, log, faults>>

\* After a batch: cancellation first, then steers are drained.
Tooled ==
    /\ pc = "tooled"
    /\ \/ Aborted /\ CloseWith("canceled") /\ UNCHANGED after
       \/ ~Aborted /\ pc' = "steer" /\ after' = "step" /\ UNCHANGED <<outcome, hand>>
    /\ UNCHANGED <<inTurn, notices, steers, log, faults>>

\* drainSteers receives until the channel is empty; notices follow unless this
\* was the last allowed step.
DrainSteers ==
    /\ pc = "steer"
    /\ IF steers # <<>>
       THEN hand' = Append(hand, Head(steers)) /\ steers' = Tail(steers) /\ UNCHANGED pc
       ELSE /\ pc' = IF step < MaxSteps THEN "take" ELSE "commit"
            /\ UNCHANGED <<hand, steers>>
    /\ UNCHANGED <<inTurn, notices, after, outcome, log, faults>>

\* turn/end completed.
Complete ==
    /\ pc = "complete"
    /\ \/ turnOpen' = FALSE /\ outcome' = "completed" /\ pc' = "ended" /\ UNCHANGED <<hand, faults>>
       \/ Fault /\ CloseWith("error") /\ UNCHANGED turnOpen
    /\ UNCHANGED <<inTurn, notices, steers, after, committed, owed>>

\* The deferred closeout: an error is settled once, then turn/end is appended.
Close ==
    /\ pc = "close"
    /\ outcome' = IF outcome = "error" THEN OutcomeFor ELSE outcome
    /\ \/ turnOpen' = FALSE /\ UNCHANGED faults
       \/ Fault /\ UNCHANGED turnOpen
    /\ pc' = "ended"
    /\ UNCHANGED <<inTurn, notices, steers, hand, after, committed, owed>>
-----------------------------------------------------------------------------
(* The callers.                                                            *)

worker == <<pc, msg, hand, after, turn>>

\* Mutant: a one-shot agent that already ran takes another message.
SubmitRefusedPending == ~active \/ (mode = "one-shot" /\ pending > 0)

SubmitRefused == ~active \/ (mode = "one-shot" /\ (pending > 0 \/ ran))

\* Submit, first critical section: refuse, or count the request as pending.
SubmitCount(s) ==
    /\ call[s] = "new"
    /\ IF SubmitRefused
       THEN call' = [call EXCEPT ![s] = "refused"] /\ UNCHANGED pending
       ELSE call' = [call EXCEPT ![s] = "counted"] /\ pending' = pending + 1
    /\ UNCHANGED <<active, busy, inbox, wake, turns, steers, context, ran, worker,
                   queue, noticeId, steer, wait, log, faults, runs, history>>

\* Submit, the select: the request enters the buffered channel, ...
SubmitSend(s) ==
    /\ call[s] = "counted" /\ Len(turns) < QueueCap
    /\ call' = [call EXCEPT ![s] = "queued"]
    /\ turns' = Append(turns, s)
    /\ UNCHANGED <<control, inbox, wake, steers, context, ran, worker,
                   queue, noticeId, steer, wait, log, faults, runs, history>>

\* Mutant: a withdrawn request stays counted.
SubmitCancelCounted(s) ==
    /\ call[s] = "counted" /\ s \in Cancellable
    /\ call' = [call EXCEPT ![s] = "withdrawn"]
    /\ UNCHANGED <<control, inbox, wake, turns, steers, context, ran, worker,
                   queue, noticeId, steer, wait, log, faults, runs, history>>

\* ... or the caller's context is done first, ...
SubmitCancel(s) ==
    /\ call[s] = "counted" /\ s \in Cancellable
    /\ call' = [call EXCEPT ![s] = "withdrawn"]
    /\ pending' = pending - 1
    /\ wait' = IF pending' = 0 /\ ~busy /\ ~woken THEN NotifyIdle(wait) ELSE wait
    /\ UNCHANGED <<active, busy, inbox, wake, turns, steers, context, ran, worker,
                   queue, noticeId, steer, log, faults, runs, history>>

\* ... or the worker has exited.
SubmitStopped(s) ==
    /\ call[s] = "counted" /\ pc = "done"
    /\ call' = [call EXCEPT ![s] = "refused"]
    /\ pending' = pending - 1
    /\ UNCHANGED <<active, busy, inbox, wake, turns, steers, context, ran, worker,
                   queue, noticeId, steer, wait, log, faults, runs, history>>

\* Mutant: only the first wake of a worker's life is signalled.
WakesIdleOnce == ~busy /\ pending = 0 /\ ~woken /\ ~ran

\* An idle agent with no queued turn is woken.
WakesIdle == ~busy /\ pending = 0 /\ ~woken

\* enqueueLocked for an accepted notice; one accepted after the turn was
\* cancelled keeps a wake request for the next turn.
Enqueue(n) ==
    /\ notices' = Append(notices, n)
    /\ woken' = (woken \/ (busy /\ Aborted) \/ WakesIdle)
    /\ wake' = (wake \/ WakesIdle)
    /\ accepted' = Append(accepted, n)
    /\ queue' = [queue EXCEPT ![n] = "accepted"]

Refuse(n) ==
    /\ queue' = [queue EXCEPT ![n] = "refused"]
    /\ UNCHANGED <<inbox, wake, accepted>>

\* Notify and NotifyContext: an in-memory notice.
Notify(n) ==
    /\ n \notin Durable /\ queue[n] = "new"
    /\ IF Refused THEN Refuse(n) ELSE Enqueue(n)
    /\ UNCHANGED <<control, turns, steers, context, ran, worker,
                   call, noticeId, steer, wait, log, faults, runs, parked>>

\* noticeMu is held from QueueCheck to the return of QueueNotice.
NoticeMuFree == \A n \in Notices : queue[n] \notin {"read", "written"}

\* QueueNotice: check under the lock, then number the notice after the log.
QueueCheck(n) ==
    /\ n \in Durable /\ queue[n] = "new" /\ NoticeMuFree
    /\ IF Refused
       THEN queue' = [queue EXCEPT ![n] = "refused"] /\ UNCHANGED noticeId
       ELSE /\ queue' = [queue EXCEPT ![n] = "read"]
            /\ noticeId' = [noticeId EXCEPT ![n] = queued + 1]
    /\ UNCHANGED <<control, inbox, wake, turns, steers, context, ran, worker,
                   call, steer, wait, log, faults, runs, history>>

\* The notice/queued append.  The log rejects a number it already holds.
QueueCommit(n) ==
    /\ queue[n] = "read" /\ pc \notin {"done", "crashed"}
    /\ IF noticeId[n] > queued
       THEN /\ queued' = queued + 1 /\ owed' = Append(owed, n)
            /\ queue' = [queue EXCEPT ![n] = "written"]
       ELSE queue' = [queue EXCEPT ![n] = "refused"] /\ UNCHANGED <<queued, owed>>
    /\ UNCHANGED <<control, inbox, wake, turns, steers, context, ran, worker,
                   call, noticeId, steer, wait, committed, turnOpen, faults, runs, history>>

\* The append fails, the caller's context is done, or the journal is closed:
\* nothing is committed.
QueueFail(n) ==
    /\ queue[n] = "read"
    /\ queue' = [queue EXCEPT ![n] = "refused"]
    /\ UNCHANGED <<control, inbox, wake, turns, steers, context, ran, worker,
                   call, noticeId, steer, wait, log, faults, runs, history>>

\* The second critical section of QueueNotice re-checks and queues.
QueueEnqueue(n) ==
    /\ queue[n] = "written"
    /\ IF Refused THEN Refuse(n) ELSE Enqueue(n)
    /\ UNCHANGED <<control, turns, steers, context, ran, worker,
                   call, noticeId, steer, wait, log, faults, runs, parked>>

\* Steer: check that a turn is active, then send, give up or find it stopped.
SteerCheck(m) ==
    /\ steer[m] = "new"
    /\ steer' = [steer EXCEPT ![m] = IF active /\ busy THEN "checked" ELSE "refused"]
    /\ UNCHANGED <<control, inbox, wake, turns, steers, context, ran, worker,
                   call, queue, noticeId, wait, log, faults, runs, history>>

SteerSend(m) ==
    /\ steer[m] = "checked" /\ Len(steers) < SteerCap
    /\ steer' = [steer EXCEPT ![m] = "sent"]
    /\ steers' = Append(steers, m)
    /\ UNCHANGED <<control, inbox, wake, turns, context, ran, worker,
                   call, queue, noticeId, wait, log, faults, runs, history>>

SteerGiveUp(m) ==
    /\ steer[m] = "checked"
    /\ steer' = [steer EXCEPT ![m] = "refused"]
    /\ UNCHANGED <<control, inbox, wake, turns, steers, context, ran, worker,
                   call, queue, noticeId, wait, log, faults, runs, history>>

\* WhenIdle: return at once, be refused, or register a waiter.
WhenIdle(w) ==
    /\ wait[w] = "new"
    /\ wait' = [wait EXCEPT ![w] = IF ~active THEN "refused"
                                   ELSE IF pending = 0 /\ ~busy /\ ~woken THEN "returned"
                                   ELSE "waiting"]
    /\ UNCHANGED <<control, inbox, wake, turns, steers, context, ran, worker,
                   call, queue, noticeId, steer, log, faults, runs, history>>

\* Interrupt: cancel only the active turn.
Interrupt ==
    /\ "interrupt" \in Disturbances /\ turnCtx /\ ~cancelled
    /\ cancelled' = TRUE
    /\ UNCHANGED <<control, inbox, wake, turns, steers, turnCtx, stopped, ran, worker,
                   callers, log, faults, runs, history>>

\* close, or a shutdown of the registry: the worker's context is cancelled.
Stop ==
    /\ "close" \in Disturbances /\ ~stopped
    /\ stopped' = TRUE
    /\ UNCHANGED <<control, inbox, wake, turns, steers, turnCtx, cancelled, ran, worker,
                   callers, log, faults, runs, history>>

\* The process dies: callers and memory are lost, the log stays.
Crash ==
    /\ "crash" \in Disturbances /\ pc # "crashed"
    /\ active' = FALSE /\ busy' = FALSE /\ pending' = 0
    /\ notices' = <<>> /\ woken' = FALSE /\ wake' = FALSE
    /\ turns' = <<>> /\ steers' = <<>> /\ hand' = <<>>
    /\ turnCtx' = FALSE
    /\ pc' = "crashed"
    /\ call' = [s \in Submits |-> IF call[s] \in {"counted", "queued", "running"}
                                  THEN "lost" ELSE call[s]]
    /\ queue' = [n \in Notices |-> IF queue[n] \in {"read", "written"} THEN "refused" ELSE queue[n]]
    /\ steer' = [m \in Steers |-> IF steer[m] = "checked" THEN "refused" ELSE steer[m]]
    /\ wait' = [w \in Waiters |-> IF wait[w] = "waiting" THEN "refused" ELSE wait[w]]
    /\ UNCHANGED <<cancelled, stopped, ran, msg, after, turn, noticeId, log, faults, runs, history>>

\* Registry.Create of an existing session, once the last calls on the old
\* handle have returned: the log repairs its open turn, and the notices it
\* still owes are queued without opening a turn.
Resume ==
    /\ pc \in {"done", "crashed"} /\ runs < MaxRuns
    /\ \A s \in Submits : call[s] # "counted"
    /\ NoticeMuFree
    /\ \A m \in Steers : steer[m] # "checked"
    /\ runs' = runs + 1
    /\ active' = TRUE /\ busy' = FALSE /\ pending' = 0
    /\ notices' = PendingNotices /\ woken' = FALSE /\ wake' = FALSE
    /\ turns' = <<>> /\ steers' = <<>>
    /\ turnCtx' = FALSE /\ cancelled' = FALSE /\ stopped' = FALSE
    /\ ran' = FALSE /\ pc' = "top" /\ turnOpen' = FALSE
    /\ call' = [s \in Submits |-> IF call[s] = "queued" THEN "lost" ELSE call[s]]
    /\ parked' = TRUE
    /\ UNCHANGED <<msg, hand, after, turn, queue, noticeId, steer, wait,
                   committed, queued, owed, faults, accepted>>

-----------------------------------------------------------------------------
TurnStep == \/ Read \/ NotAdmitted \/ Open \/ Opening \/ StartBoundary \/ Take \/ Commit \/ Step
            \/ Model \/ Answered \/ Tooled \/ DrainSteers \/ Complete \/ Close

WorkerStep == \/ ClaimWake \/ NoWake \/ WaitDone \/ WaitWake \/ WaitTurn \/ Begin
              \/ TurnStep \/ Ended \/ Restore \/ Finish \/ Reply \/ Exit \/ Drain

CallerStep == \/ \E s \in Submits : \/ SubmitCount(s) \/ SubmitSend(s)
                                    \/ SubmitCancel(s) \/ SubmitStopped(s)
              \/ \E n \in Notices : \/ Notify(n) \/ QueueCheck(n) \/ QueueCommit(n)
                                    \/ QueueFail(n) \/ QueueEnqueue(n)
              \/ \E m \in Steers : SteerCheck(m) \/ SteerSend(m) \/ SteerGiveUp(m)
              \/ \E w \in Waiters : WhenIdle(w)

Next == /\ WorkerStep \/ CallerStep \/ Interrupt \/ Stop \/ Crash \/ Resume
        /\ UNCHANGED mode

Spec == Init /\ [][Next]_vars

\* The worker goroutine runs, a model call and its batch return, and a select
\* with a ready case proceeds.  Nothing is assumed of who calls the agent, of
\* interrupts, shutdown, crashes or resumes.
Fairness ==
    /\ WF_moves(WorkerStep)
    /\ \A s \in Submits : WF_moves(SubmitSend(s) \/ SubmitStopped(s))
    /\ \A n \in Notices : WF_moves(QueueCommit(n) \/ QueueEnqueue(n))

FairSpec == Spec /\ Fairness

-----------------------------------------------------------------------------
(* Properties.                                                             *)

\* Every variable keeps its type; in parts, as the proofs use them.
TypeFlags ==
    /\ active \in BOOLEAN /\ busy \in BOOLEAN /\ woken \in BOOLEAN /\ wake \in BOOLEAN
    /\ turnCtx \in BOOLEAN /\ cancelled \in BOOLEAN /\ stopped \in BOOLEAN /\ ran \in BOOLEAN
    /\ numbered \in BOOLEAN /\ opened \in BOOLEAN /\ interrupted \in BOOLEAN
    /\ turnOpen \in BOOLEAN /\ parked \in BOOLEAN
TypeScalars ==
    /\ pc \in PcStates /\ after \in {"step", "complete"} /\ outcome \in Outcomes
    /\ pending \in Int /\ queued \in Nat
    /\ step \in 0..MaxSteps /\ faults \in 0..MaxFaults /\ runs \in 1..MaxRuns
TypeQueues ==
    /\ notices \in Seq(Notices) /\ turns \in Seq(Submits) /\ steers \in Seq(Steers)
    /\ msg \in Submits \cup Notices \cup {None} /\ hand \in Seq(Messages)
    /\ committed \in Seq(Messages) /\ owed \in Seq(Notices) /\ accepted \in Seq(Notices)
TypeCallers ==
    /\ call \in [Submits -> CallStates] /\ queue \in [Notices -> QueueStates]
    /\ noticeId \in [Notices -> Nat]
    /\ steer \in [Steers -> SteerStates] /\ wait \in [Waiters -> WaitStates]
TypeOK == mode \in Modes /\ TypeFlags /\ TypeScalars /\ TypeQueues /\ TypeCallers

\* claimWake reads notices[0] without a length check: a woken agent always
\* holds at least one notice, whatever Notify, Interrupt and the turn did.
WokenHoldsNotice == woken => notices # <<>>

\* The notice a turn opened with, until it is committed or given back.
InFlight ==
    IF msg \in Notices /\ pc \in {"begin", "read", "open", "opening"} THEN <<msg>>
    ELSE IF msg \in Notices /\ pc \in {"ended", "restore"} /\ ~opened THEN <<msg>>
    ELSE <<>>

\* Every message from its commit back to the queue: the log, the notice a woken
\* turn is about to commit, the input in hand, the queue.
Line == committed \o InFlight \o hand \o notices

\* The pairs <<a, b>> with a at an earlier place of s than b.
Before(s) ==
    {p \in Range(s) \X Range(s) : \E i, j \in DOMAIN s : i < j /\ p = <<s[i], s[j]>>}

\* No accepted notice is lost or reordered: the notices of the line are the
\* accepted ones, in acceptance order.  Append failures drop what was in hand
\* and a restart drops in-memory notices, so the statement is about runs
\* without them.
NoticesConserved ==
    active /\ faults = 0 /\ runs = 1 =>
        /\ Range(Line) \cap Notices = Range(accepted)
        /\ Before(Line) \cap (Notices \X Notices) = Before(accepted)

\* No message is committed to the log twice, nor on its way to it twice or
\* again, across interrupts, restored notices, crashes and resumes.
DeliveredOnce == IsInjective(Line)

\* A durable notice the log owes is never forgotten by a live agent: it is
\* queued, in a turn's hands, or about to be queued by its caller.
OwedIsHeld ==
    active /\ faults = 0 =>
        \A n \in Range(owed) :
            \/ n \in Range(notices) \cup Range(hand) \cup Range(InFlight)
            \/ queue[n] = "written" \/ mode = "one-shot"

\* A request counted as pending is a Submit that is about to send, waits in
\* the channel or is being run; finishTurn, not the reply, uncounts it.
PendingAccounts ==
    active => pending = Cardinality({s \in Submits :
                            \/ call[s] \in {"counted", "queued"}
                            \/ call[s] = "running" /\ pc # "reply"})

\* The inbox is kept whole through cancelled turns, failed appends, shutdown,
\* crashes and resumes (enqueueLocked, restore, finishTurn, Open): no notice is
\* lost or reordered, none is committed twice, none the log owes is forgotten,
\* and the requests counted are the requests there are.
InboxKept == NoticesConserved /\ DeliveredOnce /\ OwedIsHeld /\ PendingAccounts

\* No registered WhenIdle caller is forgotten: while one waits, work is
\* pending, a turn is active or a wake is due, so a later step notifies it.
IdleWaiterNotMissed ==
    (\E w \in Waiters : wait[w] = "waiting") => active /\ (pending # 0 \/ busy \/ woken)

\* An idle agent with nothing pending holds no notice it will not open a turn
\* for, except the ones left by a cancelled turn or a resume.
NoticeNotStranded ==
    active /\ ~busy /\ pending = 0 /\ ~woken /\ notices # <<>> => parked

\* A one-shot agent commits at most one opening message per run.
OneShotOpensOnce ==
    mode = "one-shot" /\ runs = 1 => Cardinality({s \in Submits : s \in Range(committed)}) <= 1

\* A cancelled turn takes no queued input: once its context is done, notices
\* only leave the queue with the worker or the process.
CancelledTurnTakesNothing ==
    [][Aborted /\ pc \in TurnPoints /\ active' => Len(notices') >= Len(notices)]_vars

\* Every accepted Submit gets its terminal result.
EverySubmitAnswered == \A s \in Submits : call[s] = "queued" ~> call[s] = "answered"

\* An accepted notice is committed to a turn, unless the agent stops or the
\* notice was parked by a cancelled turn.
EveryNoticeDelivered ==
    \A n \in Notices : n \in Range(notices) ~> n \in Range(committed) \/ parked \/ ~active \/ faults > 0
=============================================================================
