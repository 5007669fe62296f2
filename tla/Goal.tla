-------------------------------- MODULE Goal --------------------------------
(***************************************************************************)
(* Long-running goals of the root agent: the goal service, its admission   *)
(* of goal rounds, the round driver, and the people and model turns that   *)
(* change the goal meanwhile.                                              *)
(*                                                                         *)
(*   state, log, armed   the folded goal facts, the reduced session log,   *)
(*                       and the revision continuation is bound to         *)
(*   queue, turn, reply  the agent worker as the driver sees it: requests, *)
(*                       the turn it runs, the result of the last round    *)
(*   dangling            a turn/end was not committed: no turn opens again *)
(*   tool                a model's goal tool call between its check of     *)
(*                       authority and its mutation                        *)
(*   told, wake          notifications on their way, the driver's channel  *)
(*   dpc, seen, plan,    the driver goroutine and its local variables      *)
(*   view, refused                                                         *)
(*   stopping            how far scope cleanup has come                    *)
(*                                                                         *)
(* Every section under service.mu is one action.  Locals are reset when    *)
(* the code no longer reads them.                                          *)
(***************************************************************************)
EXTENDS GoalState, FiniteSets

CONSTANTS
    CancelReplies,  \* results of a cancelled turn: "err" is Engine.runTurn's, "ok" has no error
    BlockedAfter,   \* goal.BlockedAfterRounds
    MaxOps,         \* bound: actions of people and of the model
    MaxFaults,      \* bound: failed appends and failed Followups
    MaxCrashes      \* bound: process crashes

ASSUME BoundsAssumption ==
    CancelReplies \subseteq {"err", "ok"} /\ {BlockedAfter, MaxOps, MaxFaults, MaxCrashes} \subseteq Nat

VARIABLES
    state, log, armed,
    queue, turn, reply, dangling, tool,
    told, wake,
    dpc, seen, plan, view, refused,
    stopping, spent

goalVars == <<state, log, armed>>
agentVars == <<queue, turn, reply, dangling, tool>>
noteVars == <<told, wake>>
driverVars == <<dpc, seen, plan, view, refused>>
vars == <<goalVars, agentVars, noteVars, driverVars, stopping, spent>>

\* A request's source: a person, or a round of one goal revision.
Source(ref, round) == [ref |-> ref, round |-> round]
Human == Source(NoRef, 0)
NoTurn == [stage |-> None, from |-> Human, human |-> FALSE, cancelled |-> FALSE]
NoTool == [op |-> None, ref |-> NoRef]
NoPlan == [pause |-> NoRef, disarm |-> {}, last |-> 0]
NoView == [from |-> Human, code |-> None]

Running == stopping # "down"
Cancelled == stopping \in {"cancelled", "down"}
Watched == stopping = "run"

Spends(what, bound) == spent[what] < bound /\ spent' = [spent EXCEPT ![what] = @ + 1]
Acts == Spends("ops", MaxOps)
Fails == Spends("faults", MaxFaults)

\* Driver.Start: continuation starts disarmed, what the log holds is settled.
Init ==
    /\ state = NoGoal /\ log = <<>> /\ armed = NoRef
    /\ queue = <<>> /\ turn = NoTurn /\ reply = None /\ dangling = FALSE /\ tool = NoTool
    /\ told = [a \in {"host", "model"} |-> None] /\ wake = FALSE
    /\ dpc = "idle" /\ seen = 0 /\ plan = NoPlan /\ view = NoView /\ refused = Human
    /\ stopping = "run" /\ spent = [ops |-> 0, faults |-> 0, crashes |-> 0]

-----------------------------------------------------------------------------
(* Service.mutate.                                                         *)

\* expectCurrent; create takes no reference.
Expects(op, ref) == op = "create" \/ ref = Ref(state)

\* The changes an operation can commit from the current state.
Mutations(op, ref, code) ==
    IF ~Running \/ ~Expects(op, ref) THEN {}
    ELSE {c \in UNION {Builds(state, op, armed # NoRef, code, now) : now \in Clock} :
             AcceptsChange(state, c)}

\* Mutant: an operation that does not arm leaves the activation alone.
CommitArmed(c) ==
    LET current == IF c.op = "clear" THEN NoRef ELSE Ref(c) IN
    /\ state' = ApplyChange(state, c)
    /\ log' = Append(log, ChangeEvent(c.op, current))
    /\ armed' = IF Arms(c.op, armed # NoRef) THEN current ELSE armed

\* One committed change: append, fold, activation.
Commit(c) ==
    LET current == IF c.op = "clear" THEN NoRef ELSE Ref(c) IN
    /\ state' = ApplyChange(state, c)
    /\ log' = Append(log, ChangeEvent(c.op, current))
    /\ armed' = IF Arms(c.op, armed # NoRef) THEN current ELSE NoRef

Mutate(op, ref, code) == \E c \in Mutations(op, ref, code) : Commit(c)

\* DisarmRevision.
Disarmed(ref) == IF armed = ref THEN NoRef ELSE armed

-----------------------------------------------------------------------------
(* People.                                                                 *)

\* A goal command of the frontend; its watchers are notified after unlock.
Command(op) ==
    /\ Acts /\ told["host"] = None
    /\ Mutate(op, Ref(state), None)
    /\ told' = [told EXCEPT !["host"] = IF op = "pause" THEN "interrupt" ELSE "wake"]
    /\ UNCHANGED <<agentVars, wake, driverVars, stopping>>

Submit ==
    /\ Acts /\ queue' = Append(queue, Human)
    /\ UNCHANGED <<goalVars, turn, reply, dangling, tool, noteVars, driverVars, stopping>>

\* A message steered into the running turn proves that a person spoke.
Steer ==
    /\ Acts /\ turn.stage = "open" /\ ~turn.cancelled /\ ~turn.human
    /\ turn' = [turn EXCEPT !.human = TRUE]
    /\ UNCHANGED <<goalVars, queue, reply, dangling, tool, noteVars, driverVars, stopping>>

\* The running turn after Agent.Interrupt.
Interrupted(t) == [t EXCEPT !.cancelled = @ \/ t.stage # None]

Interrupt ==
    /\ Acts /\ turn.stage # None /\ turn' = Interrupted(turn)
    /\ UNCHANGED <<goalVars, queue, reply, dangling, tool, noteVars, driverVars, stopping>>

\* The driver's watcher runs on the mutating goroutine, unless withdrawn.
Notified(a) ==
    /\ told[a] # None /\ told' = [told EXCEPT ![a] = None]
    /\ wake' = (wake \/ Watched)
    /\ turn' = IF Watched /\ told[a] = "interrupt" THEN Interrupted(turn) ELSE turn
    /\ UNCHANGED <<goalVars, queue, reply, dangling, tool, driverVars, stopping, spent>>

-----------------------------------------------------------------------------
(* The agent worker.                                                       *)

Begin ==
    /\ turn = NoTurn /\ queue # <<>>
    /\ turn' = [stage |-> "begun", from |-> Head(queue), human |-> Head(queue) = Human,
                cancelled |-> FALSE]
    /\ queue' = Tail(queue)
    /\ UNCHANGED <<goalVars, reply, dangling, tool, noteVars, driverVars, stopping, spent>>

\* Mutant: a stop since the last resume does not withhold the round.
AdmitsStopped(m) ==
    Running /\ armed = Ref(state) /\ armed # NoRef /\ AcceptsRound(state, m.ref, m.round)

\* Service.Admit: the next round of the active, armed revision, not revoked.
Admits(m) ==
    /\ Running /\ armed = Ref(state) /\ armed # NoRef /\ AcceptsRound(state, m.ref, m.round)
    /\ ~Revoked(Settlement(log, 0), m.ref)

\* The turn ends and its result reaches the driver if it was a round.
Finish(result) ==
    /\ turn' = NoTurn
    /\ reply' = IF turn.from = Human THEN reply ELSE result
    /\ UNCHANGED <<queue, tool, noteVars, driverVars, stopping>>

Refuse ==
    /\ turn.stage = "begun" /\ turn.from # Human /\ ~Admits(turn.from)
    /\ Finish("refused")
    /\ UNCHANGED <<goalVars, dangling, spent>>

Admitted == turn.stage = "begun" /\ (turn.from = Human \/ Admits(turn.from))

\* turn/start and the opening user/message commit under the service lock.
Open ==
    /\ Admitted /\ ~turn.cancelled /\ ~dangling
    /\ log' = Append(log, OpenEvent(turn.from.ref))
    /\ state' = IF turn.from = Human THEN state ELSE [state EXCEPT !.rounds = @ + 1]
    /\ turn' = [turn EXCEPT !.stage = "open"]
    /\ UNCHANGED <<armed, queue, reply, dangling, tool, noteVars, driverVars, stopping, spent>>

\* A turn cancelled before it opens, or whose turn/start is rejected, leaves
\* no record.
OpenNothing ==
    /\ turn.stage = "begun"
    /\ \/ (turn.cancelled \/ (Admitted /\ dangling)) /\ UNCHANGED spent
       \/ Admitted /\ Fails
    /\ Finish("err") /\ UNCHANGED <<goalVars, dangling>>

\* turn/start commits and the opening message does not: the turn is closed
\* with the failure, or with the cancellation that arrived meanwhile.
OpenHalf ==
    /\ Admitted /\ ~turn.cancelled /\ ~dangling /\ Fails
    /\ \E outcome \in {"error", "canceled"} : log' = log \o <<OpenEvent(NoRef), EndEvent(outcome)>>
    /\ Finish("err") /\ UNCHANGED <<state, armed, dangling>>

\* A turn's outcome.  A failure counts as a cancellation when the turn was
\* cancelled or a dependency stopped under it.
EndTurn(outcome) ==
    /\ turn.stage = "open" /\ tool = NoTool /\ told["model"] = None
    /\ outcome = "canceled" => turn.cancelled \/ ~Watched
    /\ log' = Append(log, EndEvent(outcome))
    /\ \E r \in {"err", "ok"} :
           /\ outcome = "error" => r = "err"
           /\ outcome = "canceled" => r \in CancelReplies
           /\ outcome \notin {"error", "canceled"} => r = "ok"
           /\ Finish(r)
    /\ UNCHANGED <<state, armed, dangling, spent>>

\* turn/end cannot be committed.
EndLost ==
    /\ turn.stage = "open" /\ tool = NoTool /\ told["model"] = None /\ Fails
    /\ dangling' = TRUE /\ Finish("err")
    /\ UNCHANGED goalVars

-----------------------------------------------------------------------------
(* The goal tools.                                                         *)

\* The turn is the exact current round of the current goal.
RoundAuthority == turn.from # Human /\ turn.from = Source(Ref(state), state.rounds)

\* requireHuman, and the authority of finish.
Authorized(op) ==
    \/ turn.human /\ op # "clear"
    \/ RoundAuthority /\ (op = "complete" \/ (op = "block" /\ state.rounds >= BlockedAfter))

\* A call checks its authority; a resume also reads the goal and leaves a paused
\* one to a person.
Call(op) ==
    /\ Acts /\ Running /\ turn.stage = "open" /\ ~turn.cancelled
    /\ tool = NoTool /\ told["model"] = None
    /\ Authorized(op) /\ ~(op = "resume" /\ state.phase = "paused")
    /\ tool' = [op |-> op, ref |-> Ref(state)]
    /\ UNCHANGED <<goalVars, queue, turn, reply, dangling, noteVars, driverVars, stopping>>

\* The code a tool's blocker carries.
ToolCode == IF tool.op = "block" THEN "model-reported" ELSE None

\* The mutation of the call; a mutation of the model never interrupts.
ToolMutates ==
    /\ tool # NoTool /\ ~turn.cancelled
    /\ Mutate(tool.op, tool.ref, ToolCode)
    /\ tool' = NoTool /\ told' = [told EXCEPT !["model"] = "wake"]
    /\ UNCHANGED <<queue, turn, reply, dangling, wake, driverVars, stopping, spent>>

\* The mutation is rejected, or its context is done.
ToolRejected ==
    /\ tool # NoTool
    /\ turn.cancelled \/ Mutations(tool.op, tool.ref, ToolCode) = {}
    /\ tool' = NoTool
    /\ UNCHANGED <<goalVars, queue, turn, reply, dangling, noteVars, driverVars, stopping, spent>>

-----------------------------------------------------------------------------
(* The round driver.                                                       *)

Goes(pc) == dpc' = pc

\* WhenIdle; a done context ends the loop.
WhenIdle ==
    /\ dpc = "idle"
    /\ \/ queue = <<>> /\ turn = NoTurn /\ Goes("settle")
       \/ Cancelled /\ Goes("stopped")
    /\ UNCHANGED <<goalVars, agentVars, noteVars, seen, plan, view, refused, stopping, spent>>

\* The last sequence Settle examined.
Last == Len(log)

\* Settle reads the log and decides under the lock; with a done context it
\* fails, as the Get after it does.
Settle ==
    /\ dpc = "settle"
    /\ IF Cancelled
       THEN Goes("wait") /\ UNCHANGED plan
       ELSE /\ LET f == Settlement(log, seen) IN
                  plan' = [pause |-> IF f.pause = Ref(state) /\ state.phase = "active" THEN f.pause
                                     ELSE NoRef,
                           disarm |-> f.disarm, last |-> Last]
            /\ Goes("pause")
    /\ UNCHANGED <<goalVars, agentVars, noteVars, seen, view, refused, stopping, spent>>

\* isArmed, in a section of its own.
IsArmed ==
    /\ dpc = "pause"
    /\ Goes(IF plan.pause # NoRef /\ armed # NoRef THEN "pausing" ELSE "disarm")
    /\ UNCHANGED <<goalVars, agentVars, noteVars, seen, plan, view, refused, stopping, spent>>

SettlePauses ==
    /\ dpc = "pausing" /\ ~Cancelled
    /\ Mutate("pause", plan.pause, None)
    /\ wake' = (wake \/ Watched) /\ Goes("disarm")
    /\ UNCHANGED <<agentVars, told, seen, plan, view, refused, stopping, spent>>

\* The pause is stale, or fails: the revision is disarmed and nothing counts as
\* settled.
SettlePauseFails ==
    /\ dpc = "pausing"
    /\ \/ (Cancelled \/ Mutations("pause", plan.pause, None) = {}) /\ UNCHANGED spent
       \/ Fails
    /\ Goes("abandon")
    /\ UNCHANGED <<goalVars, agentVars, noteVars, seen, plan, view, refused, stopping>>

SettleAbandons ==
    /\ dpc = "abandon"
    /\ armed' = Disarmed(plan.pause) /\ plan' = NoPlan /\ Goes("get")
    /\ UNCHANGED <<state, log, agentVars, noteVars, seen, view, refused, stopping, spent>>

\* Mutant: the stopped revisions keep their activation.
SettleKeeps ==
    /\ dpc = "disarm"
    /\ seen' = plan.last /\ plan' = NoPlan /\ Goes("get")
    /\ UNCHANGED <<goalVars, agentVars, noteVars, view, refused, stopping, spent>>

\* DisarmRevision for one stopped revision after the other, then Settle returns.
SettleDisarms ==
    /\ dpc = "disarm"
    /\ \/ /\ plan.disarm = {} /\ seen' = plan.last /\ plan' = NoPlan /\ Goes("get")
          /\ UNCHANGED armed
       \/ \E ref \in plan.disarm :
             /\ armed' = Disarmed(ref) /\ plan' = [plan EXCEPT !.disarm = @ \ {ref}]
             /\ UNCHANGED <<dpc, seen>>
    /\ UNCHANGED <<state, log, agentVars, noteVars, view, refused, stopping, spent>>

\* Get, and what the loop and round decide on its answer: wait, block, or queue
\* the next round.
Get ==
    /\ dpc = "get"
    /\ IF ~Cancelled /\ state.phase = "active" /\ armed = Ref(state)
       THEN LET next == Source(Ref(state), state.rounds + 1)
                code == IF refused = next THEN "prompt-rejected"
                        ELSE IF state.rounds >= state.cap THEN "round-limit" ELSE None
            IN  /\ view' = [from |-> next, code |-> code]
                /\ Goes(IF code = None THEN "queue" ELSE "block")
                /\ UNCHANGED refused
       ELSE refused' = Human /\ Goes("wait") /\ UNCHANGED view
    /\ UNCHANGED <<goalVars, agentVars, noteVars, seen, plan, stopping, spent>>

\* Block commits, or fails and is forgotten; the loop goes on.
Block ==
    /\ dpc = "block"
    /\ \/ /\ ~Cancelled /\ Mutate("block", view.from.ref, view.code)
          /\ wake' = (wake \/ Watched) /\ UNCHANGED spent
       \/ /\ \/ (Cancelled \/ Mutations("block", view.from.ref, view.code) = {}) /\ UNCHANGED spent
             \/ Fails
          /\ UNCHANGED <<goalVars, wake>>
    /\ refused' = Human /\ view' = NoView /\ Goes("idle")
    /\ UNCHANGED <<agentVars, told, seen, plan, stopping>>

\* Followup queues the round.
Followup ==
    /\ dpc = "queue"
    /\ queue' = Append(queue, view.from) /\ Goes("await")
    /\ UNCHANGED <<goalVars, turn, reply, dangling, tool, noteVars, seen, plan, view, refused, stopping, spent>>

\* Followup fails: the driver stops when its context is done, and else blocks
\* the goal.
FollowupFails ==
    /\ dpc = "queue"
    /\ IF Cancelled THEN Goes("stopped") /\ view' = NoView /\ UNCHANGED spent
       ELSE Fails /\ view' = [from |-> view.from, code |-> "queue-failed"] /\ Goes("block")
    /\ UNCHANGED <<goalVars, agentVars, noteVars, seen, plan, refused, stopping>>

\* Mutant: a failed round is left to Settle.
RoundEndsQuietly ==
    /\ dpc = "await" /\ reply # None
    /\ refused' = (IF reply = "refused" THEN view.from ELSE Human)
    /\ reply' = None /\ view' = NoView /\ Goes("idle")
    /\ UNCHANGED <<goalVars, queue, turn, dangling, tool, noteVars, seen, plan, stopping, spent>>

\* The round's result.
RoundEnds ==
    /\ dpc = "await" /\ reply # None
    /\ refused' = (IF reply = "refused" THEN view.from ELSE Human)
    /\ reply' = None
    /\ IF reply = "err" THEN Goes("fail") /\ UNCHANGED view ELSE Goes("idle") /\ view' = NoView
    /\ UNCHANGED <<goalVars, queue, turn, dangling, tool, noteVars, seen, plan, stopping, spent>>

\* A round that failed disarms its revision.
RoundFails ==
    /\ dpc = "fail"
    /\ armed' = Disarmed(view.from.ref) /\ view' = NoView /\ Goes("idle")
    /\ UNCHANGED <<state, log, agentVars, noteVars, seen, plan, refused, stopping, spent>>

\* The context is done while the round is awaited: the running turn is
\* interrupted and the result still awaited.
RoundInterrupted ==
    /\ dpc = "await" /\ Cancelled
    /\ turn' = Interrupted(turn) /\ Goes("drain")
    /\ UNCHANGED <<goalVars, queue, reply, dangling, tool, noteVars, seen, plan, view, refused, stopping, spent>>

\* Mutant: the interrupted round is not awaited.
RoundDrainsAtOnce ==
    /\ dpc = "drain" /\ Goes("stopped")
    /\ UNCHANGED <<goalVars, agentVars, noteVars, seen, plan, view, refused, stopping, spent>>

RoundDrains ==
    /\ dpc = "drain" /\ reply # None /\ Goes("stopped")
    /\ reply' = None /\ view' = NoView
    /\ UNCHANGED <<goalVars, queue, turn, dangling, tool, noteVars, seen, plan, refused, stopping, spent>>

\* Mutant: the wait does not watch the context.
WaitDeaf ==
    /\ dpc = "wait" /\ wake /\ wake' = FALSE /\ Goes("idle")
    /\ UNCHANGED <<goalVars, agentVars, told, seen, plan, view, refused, stopping, spent>>

\* The driver has nothing to do until it is told of a change.
Wait ==
    /\ dpc = "wait"
    /\ \/ wake /\ wake' = FALSE /\ Goes("idle")
       \/ Cancelled /\ Goes("stopped") /\ UNCHANGED wake
    /\ UNCHANGED <<goalVars, agentVars, told, seen, plan, view, refused, stopping, spent>>

-----------------------------------------------------------------------------
(* Shutdown and crash.                                                     *)

\* Scope cleanup of the driver in reverse order of registration, one step
\* after the other, then of the goal service once the driver is done.
Stop ==
    /\ \/ stopping = "run" /\ Acts /\ stopping' = "unwatched" /\ UNCHANGED armed
       \/ stopping = "unwatched" /\ stopping' = "disarmed" /\ armed' = NoRef /\ UNCHANGED spent
       \/ stopping = "disarmed" /\ stopping' = "cancelled" /\ UNCHANGED <<armed, spent>>
       \/ /\ stopping = "cancelled" /\ dpc = "stopped"
          /\ stopping' = "down" /\ armed' = NoRef /\ UNCHANGED spent
    /\ UNCHANGED <<state, log, agentVars, noteVars, driverVars>>

\* The process dies and the session is opened again: an interrupted turn is
\* closed, everything that is not in the log is lost.
Restart ==
    /\ Spends("crashes", MaxCrashes)
    /\ log' = IF turn.stage = "open" \/ dangling THEN Append(log, EndEvent("interrupted")) ELSE log
    /\ armed' = NoRef /\ queue' = <<>> /\ turn' = NoTurn /\ reply' = None
    /\ dangling' = FALSE /\ tool' = NoTool
    /\ told' = [a \in {"host", "model"} |-> None] /\ wake' = FALSE
    /\ dpc' = "idle" /\ seen' = Len(log') /\ plan' = NoPlan /\ view' = NoView /\ refused' = Human
    /\ stopping' = "run"
    /\ UNCHANGED state

-----------------------------------------------------------------------------
Driver ==
    \/ WhenIdle \/ Settle \/ IsArmed \/ SettlePauses \/ SettlePauseFails \/ SettleAbandons
    \/ SettleDisarms \/ Get \/ Block \/ Followup \/ FollowupFails \/ RoundEnds \/ RoundFails
    \/ RoundInterrupted \/ RoundDrains \/ Wait

Ends == \E outcome \in {"completed", "canceled", "error", "max_tokens"} : EndTurn(outcome)

Worker == Begin \/ Refuse \/ Open \/ OpenNothing \/ OpenHalf \/ Ends \/ EndLost

Next ==
    \/ \E op \in Operations \ {"complete", "block"} : Command(op)
    \/ Submit \/ Steer \/ Interrupt
    \/ \E a \in {"host", "model"} : Notified(a)
    \/ Worker
    \/ \E op \in Operations : Call(op)
    \/ ToolMutates \/ ToolRejected
    \/ Driver
    \/ Stop \/ Restart

\* Goroutines run, turns end, and a shutdown that began goes on.
Fairness ==
    /\ WF_vars(Driver) /\ WF_vars(Worker) /\ WF_vars(ToolMutates \/ ToolRejected)
    /\ \A a \in {"host", "model"} : WF_vars(Notified(a))
    /\ WF_vars(stopping # "run" /\ Stop)

Spec == Init /\ [][Next]_vars

FairSpec == Spec /\ Fairness

-----------------------------------------------------------------------------
(* Properties.                                                             *)

Sources == [ref : Refs, round : Nat]
DriverStates ==
    {"idle", "settle", "pause", "pausing", "abandon", "disarm", "get", "block", "queue", "await",
     "fail", "drain", "wait", "stopped"}

TypeOK ==
    /\ state \in GoalStates /\ armed \in Refs /\ seen \in 0..Len(log)
    /\ \A i \in 1..Len(queue) : queue[i] \in Sources
    /\ turn \in [stage : {None, "begun", "open"}, from : Sources, human : BOOLEAN, cancelled : BOOLEAN]
    /\ reply \in {None, "ok", "err", "refused"} /\ dangling \in BOOLEAN
    /\ tool \in [op : Operations \cup {None}, ref : Refs]
    /\ told \in [{"host", "model"} -> {None, "wake", "interrupt"}] /\ wake \in BOOLEAN
    /\ dpc \in DriverStates /\ plan \in [pause : Refs, disarm : SUBSET Refs, last : 0..Len(log)]
    /\ view \in [from : Sources, code : Codes \cup {None}] /\ refused \in Sources
    /\ stopping \in {"run", "unwatched", "disarmed", "cancelled", "down"}

\* Continuation is never bound to anything but the current revision of an
\* active goal, whichever mutation, settlement, failed round or shutdown came
\* in between: the view's "armed" and the boolean the operations are given
\* (service.armed[id].ID != "") agree.
ArmedIsCurrent == armed # NoRef => armed = Ref(state) /\ state.phase = "active"

\* Only block takes a reason code.
BlockCodes(op) == IF op = "block" THEN Codes ELSE {"model-reported"}

\* Every change the service builds is one the session log accepts, from every
\* reachable goal and with any reading of the clock, one that stepped back to
\* zero too: no operation that passed its own checks is lost to the replay
\* rules.
BuildsAccepted ==
    \A op \in Operations, now \in Clock \cup {0} : \A code \in BlockCodes(op) :
        \A c \in Builds(state, op, armed # NoRef, code, now) : AcceptsChange(state, c)

\* The rounds a goal counts are the rounds opened for it since it was created,
\* through pauses, edits, resumes and crashes.
RoundsCounted ==
    state.id # None =>
        state.rounds = Cardinality({i \in DOMAIN log : log[i].event = "open" /\ log[i].ref.id = state.id})

\* No round of a revision opens after a turn that stopped it (a round of it or
\* another turn that was cancelled, failed or hit its output limit while it was
\* current), even if the round was already queued or the driver has not looked
\* at the stop.
NoRoundAfterStop ==
    \A i, j \in DOMAIN log :
        /\ i < j /\ log[j].event = "open" /\ log[j].ref # NoRef
        /\ log[i].event = "end" /\ log[i].outcome \in Stops
        => Stopped(Scan(log, 0)[i - 1]) # log[j].ref

\* The rounds of a goal are counted exactly and stop when their revision does
\* (Admit, Apply of turn records, Settle).
RoundsKept == RoundsCounted /\ NoRoundAfterStop

\* Whatever makes admission refuse a round is gone or disarms the goal before
\* the driver tries the same round again: a goal is never blocked with
\* "prompt-rejected" by a race.
RefusalExplained == view.code # "prompt-rejected"

\* Once the driver has stopped no goal round is queued or runs.
StoppedIsQuiet ==
    dpc = "stopped" => turn.from = Human /\ \A i \in DOMAIN queue : queue[i] = Human

LatestEvent(kind) ==
    LET at == {i \in DOMAIN log : log[i].event = kind}
    IN  log[CHOOSE i \in at : \A j \in at : j <= i]

\* A cancelled round pauses its goal: when the driver rests with everything
\* settled and no append has failed, a goal whose round was the last turn to
\* end, and was cancelled, is not active.
CancelledRoundPauses ==
    (/\ dpc = "wait" /\ Watched /\ seen = Len(log) /\ spent["faults"] = 0
     /\ \E i \in DOMAIN log : log[i].event = "end"
     /\ LatestEvent("end").outcome = "canceled"
     /\ state.id # None /\ LatestEvent("open").ref = Ref(state)) => state.phase # "active"

\* An armed goal does not hang: the driver carries it through its rounds until
\* it is completed, blocked at its cap, stopped, or disarmed.
ArmedSettles == (armed # NoRef /\ Watched) ~> (armed = NoRef \/ ~Watched)

\* A shutdown that began comes to its end: the driver leaves its loop whatever
\* round it was awaiting.
StopCompletes == (stopping = "unwatched") ~> (stopping \in {"down", "run"})
=============================================================================
