----------------------------- MODULE EngineTurn -----------------------------
(***************************************************************************)
(* The records one agent's turns write to its live session log:            *)
(* Engine.runTurn with its deferred closeout (app/agent/engine.go), the    *)
(* tool batch (app/tool/runtime.go), the approval questions asked inside   *)
(* it (app/approval/service.go), the compaction a turn runs               *)
(* (app/compaction/service.go), and the manual compaction Agent.Compact    *)
(* starts beside it.  Every append meets the order rules of SessionOrder   *)
(* and may fail; one action is one append or one cancellation check.       *)
(***************************************************************************)
EXTENDS SessionOrder, Sequences, SequencesExt

CONSTANTS
    Batches,        \* the call lists a completion may carry, <<>> for an answer
    Concurrent,     \* calls whose tool may run beside adjacent concurrent calls
    Gated,          \* calls whose tool gives a reason for approval
    Invalid,        \* calls prepare refuses, besides the omitted ones
    MaxConcurrent,  \* maxConcurrentCalls (10 in the code)
    Overlap,        \* a turn may begin while a manual compaction runs
    MaxFaults       \* bound: failing appends

\* A provider gives the calls of one completion distinct identities.
ASSUME TurnAssumption ==
    /\ \A b \in Batches : b \in Seq(Calls) /\ IsInjective(b)
    /\ MaxConcurrent \in Nat \ {0} /\ MaxFaults \in Nat /\ Overlap \in BOOLEAN

VARIABLES
    order,                  \* the live log, folded
    pc, then,               \* the engine, and where it goes after a step or a compaction
    turn, step,             \* runTurn's turn and loop variable
    turnOpen, stepOpen,     \* what the deferred closeout knows
    outcome, cancelled,     \* result.Outcome; the turn's context is done
    batch, status, answers, \* the completion's calls, each call's progress, results appended
    asks, calls,            \* what the closeout found unresolved and has not tried yet
    manual,                 \* the manual compaction
    faults,
    rejected, lost,         \* history: an order error; a closing append that failed
    allowed, ran            \* history: calls with a durable approval; calls executed

engine  == <<pc, then, turn, step, turnOpen, stepOpen, outcome>>
tools   == <<batch, status, answers, allowed, ran>>
closing == <<asks, calls>>
vars    == <<order, engine, cancelled, tools, closing, manual, faults, rejected, lost>>

PcStates == {"idle", "open", "opening", "boundary", "head", "compact", "summary", "compactEnd",
             "compacted", "context", "start", "header", "model", "calls", "batch", "results",
             "stepEnd", "answered", "turnEnd", "close", "closeAsks", "closeCalls", "closeStep",
             "closeTurn"}
Statuses == {"none", "new", "check", "asked", "ready", "running", "done"}

Init ==
    /\ order = Empty /\ pc = "idle" /\ then = "head"
    /\ turn = 0 /\ step = 0 /\ turnOpen = FALSE /\ stepOpen = FALSE
    /\ outcome = None /\ cancelled = FALSE
    /\ batch = <<>> /\ status = [c \in Calls |-> "none"] /\ answers = 0
    /\ asks = {} /\ calls = {} /\ manual = "new" /\ faults = 0
    /\ rejected = FALSE /\ lost = FALSE /\ allowed = {} /\ ran = {}

-----------------------------------------------------------------------------
(* Appends.                                                                *)

\* journal.Append succeeds.
Logs(r) == /\ Accepts(order, r) /\ order' = Apply(order, r)
           /\ UNCHANGED <<faults, rejected>>

\* It returns an order error, or the write fails.
Misses(r) == /\ UNCHANGED order
             /\ \/ ~Accepts(order, r) /\ rejected' = TRUE /\ UNCHANGED faults
                \/ faults < MaxFaults /\ faults' = faults + 1 /\ UNCHANGED rejected

\* An append whose context is the turn's: it is refused once that is done.
LogsLive(r) == ~cancelled /\ Logs(r)
MissesLive(r) == Misses(r) \/ (cancelled /\ UNCHANGED <<order, faults, rejected>>)

Here(type) == Rec(type, turn, step)
InTurnRec(type) == Rec(type, turn, 0)

Goes(to) == pc' = to /\ UNCHANGED <<then, turn, step, turnOpen, stepOpen, outcome>>

\* return from runTurn's body with a failure or a stop; the closeout follows.
Returns(o) == pc' = "close" /\ outcome' = o /\ UNCHANGED <<then, turn, step, turnOpen, stepOpen>>

idleTools == <<tools, closing, manual, lost>>

-----------------------------------------------------------------------------
(* runTurn.                                                                *)

\* The worker starts the next turn: its number follows the log it reads.
Begin ==
    /\ pc = "idle" /\ order.lastTurn < MaxTurn
    /\ Overlap \/ manual \notin {"checked", "started", "ending"}
    /\ turn' = order.lastTurn + 1 /\ step' = 0 /\ pc' = "open"
    /\ cancelled' = FALSE /\ outcome' = None /\ turnOpen' = FALSE /\ stepOpen' = FALSE
    /\ batch' = <<>> /\ status' = [c \in Calls |-> "none"] /\ answers' = 0
    /\ allowed' = {} /\ ran' = {}
    /\ UNCHANGED <<order, then, closing, manual, faults, rejected, lost>>

\* Interrupt.
Cancel ==
    /\ pc # "idle" /\ ~cancelled /\ cancelled' = TRUE
    /\ UNCHANGED <<order, engine, tools, closing, manual, faults, rejected, lost>>

\* turn/start, decided once; a turn that did not open leaves nothing behind.
Open ==
    /\ pc = "open"
    /\ \/ /\ LogsLive(InTurnRec("turn/start"))
          /\ turnOpen' = TRUE /\ pc' = "opening" /\ UNCHANGED outcome
       \/ /\ MissesLive(InTurnRec("turn/start"))
          /\ pc' = "idle" /\ outcome' = "error" /\ UNCHANGED turnOpen
    /\ UNCHANGED <<then, turn, step, stepOpen, cancelled, idleTools>>

\* The opening message and, at a boundary, the input that arrived: one
\* user/message each, appended regardless of cancellation.
Opening ==
    /\ pc = "opening"
    /\ \/ Logs(InTurnRec("user/message")) /\ Goes("boundary")
       \/ Misses(InTurnRec("user/message")) /\ Returns("error")
    /\ UNCHANGED <<cancelled, idleTools>>

Boundary ==
    /\ pc = "boundary"
    /\ \/ cancelled /\ Returns("canceled") /\ UNCHANGED <<order, faults, rejected>>
       \/ ~cancelled /\ Goes("head") /\ UNCHANGED <<order, faults, rejected>>
       \/ ~cancelled /\ Logs(InTurnRec("user/message")) /\ Goes("head")
       \/ ~cancelled /\ Misses(InTurnRec("user/message")) /\ Returns("error")
    /\ UNCHANGED <<cancelled, idleTools>>

\* for step := 1; step <= maxSteps; step++
StepsLeft == step < MaxStep

\* The loop head: the step limit, cancellation, then compaction.Maybe.
LoopHead ==
    /\ pc = "head"
    /\ \/ ~StepsLeft /\ Returns("step_limit")
       \/ StepsLeft /\ cancelled /\ Returns("canceled")
       \/ /\ StepsLeft /\ ~cancelled /\ pc' = "compact" /\ then' = "compacted"
          /\ UNCHANGED <<turn, step, turnOpen, stepOpen, outcome>>
    /\ UNCHANGED <<order, faults, rejected, cancelled, idleTools>>

\* compaction.Maybe: it fails, finds nothing more to do, prunes a result, or starts
\* a transaction.
Compact ==
    /\ pc = "compact"
    /\ \/ (Returns("error") \/ Goes(then)) /\ UNCHANGED <<order, faults, rejected>>
       \/ LogsLive(InTurnRec("compaction/prune")) /\ UNCHANGED engine
       \/ MissesLive(InTurnRec("compaction/prune")) /\ Returns("error")
       \/ \E k \in Compactions : LET r == RecOf("compaction/start", turn, 0, k) IN
             \/ LogsLive(r) /\ Goes("summary")
             \/ MissesLive(r) /\ Returns("error")
    /\ UNCHANGED <<cancelled, idleTools>>

\* The model's summary is committed, or it fails in some way.
Summary ==
    /\ pc = "summary"
    /\ LET r == RecOf("compaction/summary", turn, 0, order.compaction) IN
          \/ LogsLive(r) /\ Goes("compactEnd")
          \/ /\ MissesLive(r) \/ UNCHANGED <<order, faults, rejected>>
             /\ pc' = "compactEnd" /\ outcome' = "error"
             /\ UNCHANGED <<then, turn, step, turnOpen, stepOpen>>
    /\ UNCHANGED <<cancelled, idleTools>>

\* Mutant: the end of a failed compaction is appended with the turn's context.
CompactEndLive ==
    /\ pc = "compactEnd"
    /\ LET r == RecOf("compaction/end", turn, 0, order.compaction) IN
          \/ LogsLive(r) /\ (IF outcome = "error" THEN Returns("error") ELSE Goes(then))
                     /\ UNCHANGED lost
          \/ MissesLive(r) /\ Returns("error") /\ lost' = (lost \/ faults' # faults)
    /\ UNCHANGED <<cancelled, tools, closing, manual>>

\* compaction/end, or finishError's.
CompactEnd ==
    /\ pc = "compactEnd"
    /\ LET r == RecOf("compaction/end", turn, 0, order.compaction) IN
          \/ Logs(r) /\ (IF outcome = "error" THEN Returns("error") ELSE Goes(then))
                     /\ UNCHANGED lost
          \/ Misses(r) /\ Returns("error") /\ lost' = (lost \/ faults' # faults)
    /\ UNCHANGED <<cancelled, tools, closing, manual>>

\* plan.Step: a pending mode selection is committed before the step opens.
PlanBoundary ==
    /\ pc = "compacted"
    /\ \/ Goes("context") /\ UNCHANGED <<order, faults, rejected>>
       \/ \E y \in {"plan/on", "plan/off"} :
             /\ y = "plan/on" <=> ~order.plan
             /\ \/ LogsLive(InTurnRec(y)) /\ Goes("context")
                \/ MissesLive(InTurnRec(y)) /\ Returns("error")
    /\ UNCHANGED <<cancelled, idleTools>>

\* stepContext commits its messages regardless of cancellation.
StepContext ==
    /\ pc = "context"
    /\ \/ Goes("start") /\ UNCHANGED <<order, faults, rejected>>
       \/ Logs(InTurnRec("user/message")) /\ Goes("start")
       \/ Misses(InTurnRec("user/message")) /\ Returns("error")
    /\ UNCHANGED <<cancelled, idleTools>>

\* A late cancellation, then step/start.
StepStart ==
    /\ pc = "start"
    /\ LET r == Rec("step/start", turn, step + 1) IN
          \/ cancelled /\ Returns("canceled") /\ UNCHANGED <<order, faults, rejected>>
          \/ /\ LogsLive(r) /\ step' = step + 1 /\ stepOpen' = TRUE /\ pc' = "header"
             /\ UNCHANGED <<then, turn, turnOpen, outcome>>
          \/ /\ MissesLive(r) /\ pc' = "close" /\ outcome' = "error" /\ step' = step + 1
             /\ UNCHANGED <<then, turn, turnOpen, stepOpen>>
    /\ UNCHANGED <<cancelled, idleTools>>

\* Settings, tools and prompt may fail; then request/header.
Header ==
    /\ pc = "header"
    /\ \/ Returns("error") /\ UNCHANGED <<order, faults, rejected>>
       \/ LogsLive(Here("step/fact")) /\ Goes("model")
       \/ MissesLive(Here("step/fact")) /\ Returns("error")
    /\ UNCHANGED <<cancelled, idleTools>>

\* retry.Do streams: it appends retry facts and chunks, fails, overflows the
\* context window, or returns a completion whose message is appended.
Model ==
    /\ pc = "model"
    /\ \/ /\ UNCHANGED <<order, faults, rejected, batch>>
          /\ \/ Returns("error")
             \/ pc' = "stepEnd" /\ then' = "overflow"
                /\ UNCHANGED <<turn, step, turnOpen, stepOpen, outcome>>
       \/ \E y \in {"llm/retry", "step/fact"} :
             \/ LogsLive(Here(y)) /\ Goes("model") /\ UNCHANGED batch
             \/ MissesLive(Here(y)) /\ Returns("error") /\ UNCHANGED batch
       \/ /\ LogsLive(Here("assistant/message"))
          /\ \/ /\ pc' = "stepEnd" /\ then' = "max_tokens" /\ UNCHANGED batch
             \/ batch' \in Batches \ {<<>>} /\ pc' = "calls" /\ UNCHANGED then
             \/ <<>> \in Batches /\ batch' = <<>> /\ pc' = "stepEnd" /\ then' = "answered"
          /\ UNCHANGED <<turn, step, turnOpen, stepOpen, outcome>>
       \/ MissesLive(Here("assistant/message")) /\ Returns("error") /\ UNCHANGED batch
    /\ status' = [c \in Calls |-> "none"]
    /\ answers' = 0 /\ allowed' = {} /\ ran' = {}
    /\ UNCHANGED <<cancelled, closing, manual, lost>>

\* Every call of the completion is recorded, regardless of cancellation,
\* before the batch runs.
RecordCall ==
    /\ pc = "calls"
    /\ LET left == {i \in DOMAIN batch : status[batch[i]] = "none"}
           i == CHOOSE x \in left : \A y \in left : x <= y
           r == RecOf("tool/call", turn, step, batch[i]) IN
          \/ left = {} /\ Goes("batch") /\ UNCHANGED <<order, faults, rejected, status>>
          \/ left # {} /\ Logs(r) /\ status' = [status EXCEPT ![batch[i]] = "new"]
                       /\ UNCHANGED engine
          \/ left # {} /\ Misses(r) /\ Returns("error") /\ UNCHANGED status
    /\ UNCHANGED <<cancelled, batch, answers, allowed, ran, closing, manual, lost>>

\* The batch returned: its results are appended in call order.
Results ==
    /\ pc = "results"
    /\ LET c == batch[answers + 1]
           kinds == IF c \in ran THEN {"tool/result", "tool/success"} ELSE {"tool/result"} IN
          \/ /\ answers = Len(batch) /\ pc' = "stepEnd" /\ then' = "boundary"
             /\ UNCHANGED <<order, faults, rejected, answers, turn, step, turnOpen, stepOpen, outcome>>
          \/ /\ answers < Len(batch)
             /\ \E y \in kinds : Logs(RecOf(y, turn, step, c))
             /\ answers' = answers + 1
             /\ UNCHANGED engine
          \/ /\ answers < Len(batch)
             /\ \E y \in kinds : Misses(RecOf(y, turn, step, c))
             /\ Returns("error")
             /\ UNCHANGED answers
    /\ UNCHANGED <<cancelled, batch, status, allowed, ran, closing, manual, lost>>

\* step/end, regardless of cancellation; then the boundary, the end of an
\* answer, a truncated answer, or the forced compaction of an overflow, which
\* continues the loop only if something was compacted.
StepEnd ==
    /\ pc = "stepEnd"
    /\ \/ /\ Logs(Here("step/end")) /\ stepOpen' = FALSE
          /\ \/ then \in {"boundary", "answered"} /\ pc' = then /\ UNCHANGED <<then, outcome>>
             \/ /\ then = "max_tokens" /\ pc' = "close" /\ UNCHANGED then
                /\ outcome' = IF cancelled THEN "canceled" ELSE "max_tokens"
             \/ then = "overflow" /\ pc' = "close" /\ outcome' = "error" /\ UNCHANGED then
             \/ then = "overflow" /\ ~cancelled /\ pc' = "compact" /\ then' = "head"
                /\ UNCHANGED outcome
          /\ UNCHANGED <<turn, step, turnOpen>>
       \/ Misses(Here("step/end")) /\ Returns("error")
    /\ UNCHANGED <<cancelled, idleTools>>

\* An answer ends the turn unless a notice extends it and a step is left.
Answered ==
    /\ pc = "answered"
    /\ \/ cancelled /\ Returns("canceled") /\ UNCHANGED <<order, faults, rejected>>
       \/ ~cancelled /\ Goes("turnEnd") /\ UNCHANGED <<order, faults, rejected>>
       \/ ~cancelled /\ step < MaxStep /\ Logs(InTurnRec("user/message")) /\ Goes("head")
       \/ ~cancelled /\ step < MaxStep /\ Misses(InTurnRec("user/message")) /\ Returns("error")
    /\ UNCHANGED <<cancelled, idleTools>>

TurnEnd ==
    /\ pc = "turnEnd"
    /\ LET r == RecOf("turn/end", turn, 0, "other") IN
          \/ /\ Logs(r) /\ turnOpen' = FALSE /\ outcome' = "completed" /\ pc' = "idle"
             /\ UNCHANGED <<then, turn, step, stepOpen>>
          \/ Misses(r) /\ Returns("error")
    /\ UNCHANGED <<cancelled, idleTools>>

-----------------------------------------------------------------------------
(* The deferred closeout.                                                  *)

\* Mutant: only the calls are looked up.
UnresolvedCallsOnly == asks' = {} /\ calls' = order.calls

\* unresolved: the questions without a decision and the calls without a result.
Unresolved == asks' = {q[1] : q \in order.asked} /\ calls' = order.calls

\* With a step open, the log is read for what it leaves unresolved.
Closeout ==
    /\ pc = "close"
    /\ IF ~stepOpen THEN Goes("closeTurn") /\ UNCHANGED closing
                    ELSE Goes("closeAsks") /\ Unresolved
    /\ UNCHANGED <<order, cancelled, tools, manual, faults, rejected, lost>>

\* Each append is tried once; its failure is joined to the result.
Tries(r) ==
    \/ Logs(r) /\ UNCHANGED lost
    \/ Misses(r) /\ lost' = (lost \/ faults' # faults)

CloseAsks ==
    /\ pc = "closeAsks"
    /\ \/ /\ asks = {} /\ Goes("closeCalls") /\ UNCHANGED <<order, faults, rejected, lost, closing>>
       \/ \E a \in asks : /\ Tries(RecOf("approval/decided", turn, step, a)) /\ asks' = asks \ {a}
                          /\ UNCHANGED <<engine, calls>>
    /\ UNCHANGED <<cancelled, tools, manual>>

CloseCalls ==
    /\ pc = "closeCalls"
    /\ \/ /\ calls = {} /\ Goes("closeStep") /\ UNCHANGED <<order, faults, rejected, lost, closing>>
       \/ \E c \in calls : /\ Tries(RecOf("tool/result", turn, step, c)) /\ calls' = calls \ {c}
                           /\ UNCHANGED <<engine, asks>>
    /\ UNCHANGED <<cancelled, tools, manual>>

CloseStep ==
    /\ pc = "closeStep"
    /\ Tries(Here("step/end")) /\ Goes("closeTurn")
    /\ UNCHANGED <<cancelled, tools, closing, manual>>

\* An error is settled once, then turn/end is appended.
CloseTurn ==
    /\ pc = "closeTurn"
    /\ LET o == IF outcome = "error" /\ cancelled THEN "canceled" ELSE outcome IN
          /\ outcome' = o
          /\ IF turnOpen
             THEN Tries(RecOf("turn/end", turn, 0, IF o = "max_tokens" THEN o ELSE "other"))
             ELSE UNCHANGED <<order, faults, rejected, lost>>
    /\ pc' = "idle" /\ UNCHANGED <<then, turn, step, turnOpen, stepOpen>>
    /\ UNCHANGED <<cancelled, tools, closing, manual>>

-----------------------------------------------------------------------------
(* The tool batch.                                                         *)

Position(c) == CHOOSE i \in DOMAIN batch : batch[i] = c
Refused(c) == c \in Invalid \cup Omitted
Classified(c) == c \in Concurrent /\ ~Refused(c)
Active(c) == status[c] \in {"check", "asked", "ready", "running"}

\* Mutant: a call only waits for the calls before it that are concurrent too.
MayStartUnfenced(c) ==
    \A j \in 1..(Position(c) - 1) : Classified(batch[j]) \/ status[batch[j]] = "done"

\* Mutant: a call that returned keeps its slot.
MayStartLeaky(c) ==
    /\ \A j \in 1..(Position(c) - 1) :
          \/ status[batch[j]] = "done"
          \/ status[batch[j]] # "new" /\ \A k \in j..Position(c) : Classified(batch[k])
    /\ Cardinality({x \in Range(batch) : status[x] # "new"}) < MaxConcurrent

\* ExecuteBatch starts calls in order: one waits for every call before it,
\* except that adjacent concurrent calls share a group of limited size.
MayStart(c) ==
    /\ \A j \in 1..(Position(c) - 1) :
          \/ status[batch[j]] = "done"
          \/ status[batch[j]] # "new" /\ \A k \in j..Position(c) : Classified(batch[k])
    /\ Cardinality({x \in Range(batch) : Active(x)}) < MaxConcurrent

Finishes(c) == status' = [status EXCEPT ![c] = "done"]
inBatch == <<engine, cancelled, batch, answers, closing, manual, lost>>

\* execute up to the approval: a refused call, a cancellation or a failing Check
\* is a terminal result.
Dispatch(c) ==
    /\ pc = "batch" /\ status[c] = "new" /\ MayStart(c)
    /\ \/ Finishes(c)
       \/ /\ ~Refused(c) /\ ~cancelled
          /\ status' = [status EXCEPT ![c] = IF c \in Gated THEN "check" ELSE "ready"]
    /\ UNCHANGED <<inBatch, order, faults, rejected, allowed, ran>>

\* Decide records the question; one it cannot record denies the call.
Ask(c) ==
    /\ pc = "batch" /\ status[c] = "check"
    /\ \E a \in Asks \ order.seen :
          \/ LogsLive(AskOf(turn, step, a, c)) /\ status' = [status EXCEPT ![c] = "asked"]
          \/ MissesLive(AskOf(turn, step, a, c)) /\ Finishes(c)
    /\ UNCHANGED <<inBatch, allowed, ran>>

\* Mutant: the outcome counts although its record failed.
DecideUnrecorded(c) ==
    /\ pc = "batch" /\ status[c] = "asked"
    /\ \E q \in {x \in order.asked : x[2] = c} : LET r == RecOf("approval/decided", turn, step, q[1]) IN
          \/ Logs(r) /\ status' = [status EXCEPT ![c] = "ready"] /\ allowed' = allowed \cup {c}
          \/ Logs(r) /\ Finishes(c) /\ UNCHANGED allowed
          \/ Misses(r) /\ status' = [status EXCEPT ![c] = "ready"] /\ UNCHANGED allowed
    /\ UNCHANGED <<inBatch, ran>>

\* The outcome is committed regardless of cancellation; the call is allowed
\* only by a recorded allowed outcome.
Decide(c) ==
    /\ pc = "batch" /\ status[c] = "asked"
    /\ \E q \in {x \in order.asked : x[2] = c} : LET r == RecOf("approval/decided", turn, step, q[1]) IN
          \/ Logs(r) /\ status' = [status EXCEPT ![c] = "ready"] /\ allowed' = allowed \cup {c}
          \/ Logs(r) /\ Finishes(c) /\ UNCHANGED allowed
          \/ Misses(r) /\ Finishes(c) /\ UNCHANGED allowed
    /\ UNCHANGED <<inBatch, ran>>

\* Cancellation is checked once more, then the body runs.
Execute(c) ==
    /\ pc = "batch" /\ status[c] = "ready"
    /\ \/ cancelled /\ Finishes(c) /\ UNCHANGED ran
       \/ ~cancelled /\ status' = [status EXCEPT ![c] = "running"] /\ ran' = ran \cup {c}
    /\ UNCHANGED <<inBatch, order, faults, rejected, allowed>>

\* The body returns, after its own todo/write if it is a todo_write call.
Finish(c) ==
    /\ pc = "batch" /\ status[c] = "running"
    /\ \/ UNCHANGED <<order, faults, rejected>>
       \/ c \in TodoCalls /\ LogsLive(RecOf("todo/write", turn, step, c))
       \/ c \in TodoCalls /\ MissesLive(RecOf("todo/write", turn, step, c))
    /\ Finishes(c)
    /\ UNCHANGED <<inBatch, allowed, ran>>

BatchDone ==
    /\ pc = "batch" /\ \A c \in Range(batch) : status[c] = "done"
    /\ Goes("results")
    /\ UNCHANGED <<order, cancelled, tools, closing, manual, faults, rejected, lost>>

-----------------------------------------------------------------------------
(* Agent.Compact: the idle check, then compaction.Maybe with turn 0.       *)

ManualCheck ==
    /\ manual = "new" /\ pc = "idle" /\ manual' = "checked"
    /\ UNCHANGED <<order, engine, cancelled, tools, closing, faults, rejected, lost>>

ManualStart ==
    /\ manual = "checked"
    /\ \E k \in Compactions : LET r == RecOf("compaction/start", 0, 0, k) IN
          \/ Logs(r) /\ manual' = "started"
          \/ Misses(r) /\ manual' = "done"
    /\ UNCHANGED <<engine, cancelled, tools, closing, lost>>

ManualSummary ==
    /\ manual = "started"
    /\ LET r == RecOf("compaction/summary", 0, 0, order.compaction) IN
          Logs(r) \/ Misses(r) \/ UNCHANGED <<order, faults, rejected>>
    /\ manual' = "ending"
    /\ UNCHANGED <<engine, cancelled, tools, closing, lost>>

ManualEnd ==
    /\ manual = "ending" /\ manual' = "done"
    /\ Tries(RecOf("compaction/end", 0, 0, order.compaction))
    /\ UNCHANGED <<engine, cancelled, tools, closing>>

-----------------------------------------------------------------------------
EngineStep == \/ Open \/ Opening \/ Boundary \/ LoopHead \/ Compact \/ Summary \/ CompactEnd
              \/ PlanBoundary \/ StepContext \/ StepStart \/ Header \/ Model \/ RecordCall
              \/ Results \/ StepEnd \/ Answered \/ TurnEnd \/ Closeout \/ CloseAsks
              \/ CloseCalls \/ CloseStep \/ CloseTurn
              \/ \E c \in Calls : Dispatch(c) \/ Ask(c) \/ Decide(c) \/ Execute(c) \/ Finish(c)
              \/ BatchDone

ManualStep == ManualCheck \/ ManualStart \/ ManualSummary \/ ManualEnd

Next == Begin \/ Cancel \/ EngineStep \/ ManualStep

Spec == Init /\ [][Next]_vars

\* The engine goroutine runs; model calls, tool bodies and the operator's
\* decisions return.  Nothing is assumed of who starts or cancels turns.
FairSpec == Spec /\ WF_vars(EngineStep)

-----------------------------------------------------------------------------
(* Properties.                                                             *)

TypeOK ==
    /\ order \in Orders /\ pc \in PcStates
    /\ turn \in 0..MaxTurn /\ step \in 0..MaxStep
    /\ turnOpen \in BOOLEAN /\ stepOpen \in BOOLEAN /\ cancelled \in BOOLEAN
    /\ batch \in Batches \cup {<<>>} /\ status \in [Calls -> Statuses]
    /\ answers \in 0..Len(batch) /\ asks \subseteq Asks /\ calls \subseteq Calls
    /\ faults \in 0..MaxFaults /\ allowed \subseteq Calls /\ ran \subseteq Calls

\* The engine, its tools and the compactions only append what the log's order
\* rules accept: without a failed write nobody meets an order error.
NeverRejected == faults = 0 => ~rejected

\* Between turns the log is closed and the next turn can open without repair,
\* after a cancellation and after any one failed append, unless a closing record
\* itself could not be written.
ClosedBetweenTurns == pc = "idle" /\ manual \notin {"started", "ending"} /\ ~lost => Closed(order)

\* A turn whose turn/start is committed ends closed whatever happens beside it:
\* without a failed append no turn is left open in the log.
TurnAlwaysEnds == pc = "idle" /\ faults = 0 => order.turn = 0

\* A gated tool body runs only after an allowed outcome is durable in the log.
RunsOnlyAllowed == \A c \in ran : c \in Gated => c \in allowed

\* A call that is not concurrent never runs beside another call of its batch,
\* and a group never exceeds its limit.
BarrierExclusive ==
    pc = "batch" =>
        /\ Cardinality({c \in Range(batch) : Active(c)}) <= MaxConcurrent
        /\ \A c, d \in Range(batch) : c # d /\ Active(c) /\ Active(d) => Classified(c) /\ Classified(d)

\* What a batch may run and when (ExecuteBatch, Decide), however approvals,
\* cancellations and finished calls interleave.
CallsControlled == RunsOnlyAllowed /\ BarrierExclusive

\* A turn that began returns to the worker: the batch never waits for a slot
\* nobody gives back, and no closeout loops.
TurnReturns == pc = "open" ~> pc = "idle"
=============================================================================
