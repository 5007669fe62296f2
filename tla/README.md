# TLA+ models of nano-harness

This directory holds TLA+ models of the concurrent and durable parts of
nano-harness, the configurations that check them with TLC, and proofs checked
with TLAPS. Paths below are relative to the repository; `agent.go` and the
like mean the file of that name in the package under discussion.

## 1. The system

nano-harness is an agent harness written in Go. `cmd/nano-harness` composes
plugins; `internal/app` holds the services, `internal/adapter` what touches
files, providers and the terminal, `internal/core` the domain types. Plugins
start in a fixed order (settings, credentials, attachments, LLM runtime and
providers, approval, questions, tools, spill store, prompt, plan mode, retry,
compaction, web, sessions, engine, subagents, goals, tool packages, jobs,
agent registry, root bootstrap, goal driver, TUI) and stop in reverse.

| Part | State it keeps | Operations | What is hard about it | Module |
|---|---|---|---|---|
| Agent worker (`app/agent/agent.go`, `registry.go`) | `active`, `busy`, `pending`, notices, `woken`, two channels, idle waiters, the turn's cancel function | Submit, Steer, Notify, QueueNotice, Interrupt, WhenIdle, Compact, close; the worker loop | callers and the worker interleave at every lock section and channel operation; notices are durable and outlive a crash | `AgentWorker` |
| Engine (`engine.go`, `admission.go`, `journal.go`), tool runtime, approval, compaction | one turn's locals and what it has committed | runTurn, ExecuteBatch, Decide, Maybe, closeout | every append may fail or be cancelled; whatever happens the log must be left ready for the next turn | `EngineTurn` |
| Session log (`adapter/session/jsonl`) | the file, its lock file, events and order state in memory | Create, Open with repair, Append, Close | crashes and failed writes between write, sync and acknowledgement; an interrupted repair; two processes | `SessionOrder`, `SessionLog` |
| Goals (`app/goal`, `core/session/goal.go`) | the goal folded from the log, an armed revision in memory | Create, Edit, Pause, Resume, Block, Complete, Clear, Settle, Admit; the driver loop | in-memory arming beside a durable goal; rounds that go stale in a queue; shutdown while a round is awaited | `GoalState`, `Goal` |
| Jobs (`app/job`) | job records, output rings, waiters | Launch, Read, Wait, Kill, Release, Remove, settle | settlement against every collector; bounded output | `JobRing`, `Jobs` |
| Subagents (`app/subagent`) | children, pools with reservations, settlement watchers | create, message, resume, interrupt, release, stop | teardown against delivery; a decision taken on a log read outside the lock; the agent registry stops first | `Subagent` |
| Plan mode, questions (`app/plan`, `app/question`, `adapter/tool/plan`) | mode, pending switch, broker | Select, Step, Exit, Register, Ask | a person, a turn, a boundary and a stop race | `Consent` |
| Plugin runtime (`core/plugin`) | mounted scopes, admitted calls | Start, Shutdown, Defer, Begin | failure and shutdown in the middle of start | `Lifecycle` |
| Settings (`app/settings`, `adapter/settings/file`, provider catalogs) | document, revision, watchers, file, lock | Mount, Update, Watch, poll | publication outside the lock, outside edits | `Settings` |
| Accounts (`adapter/credential/file`, `app/llm`, provider OAuth) | credential file, lock file, rotated grants | Resolve, Modify, Delete, PrepareCall, Login, Logout | several processes; a token is spent before its successor is stored | `AccountRecords`, `Accounts` |
| Spill store (`adapter/spill`) | directory tree, open artifacts | Create, Write, Commit, Discard, sweep, stop | pruning beside creation | `Spill` |
| Attachments (`adapter/attachment`) | content-addressed objects, observer | SaveImage, PrepareFile, Commit, ReadImage | durability of what another process linked | `Attachments` |
| Retry (`app/retry`) | decisions in flight | Do | policies that change between attempts; cleanup between decision and record | `Retry` |
| Web search (`app/web`) | the call in flight | Search | concurrent queries recorded in order | `WebSearch` |
| Shell commands (`platform/process`, `adapter/tool/shell`) | process group, observer, tail, spill | Run, cleanup | exit, deadline, grace and a held pipe in any order | `Command` |
| File tools (`adapter/tool/file`) | observations, path locks | read, write, edit | files that change between check and rename | `FileGuard` |
| Providers' streams, fetch, search and todo tools, prompts, skills, TUI | streams, screens | | data conversion and I/O | none |

The parts meet at a few places. The registry opens a journal and gives it to an
agent; the worker runs the engine, which appends to the journal, runs tool
batches and calls compaction; approval, plan mode, retry and web search append
to the same journal; the goal driver submits rounds to the root agent, and the
goal service admits or refuses each as its turn opens. Jobs and subagents send
notices to agents. Everything else meets only through the file system.

What makes each part correct, in short: the worker loses, repeats and strands
no input and answers every caller; the engine never writes a record the log
refuses and always closes its turn; the log keeps what it acknowledged and its
repair is always acceptable; gated calls run only with a durable approval; goal
rounds run only for the armed, current, active revision; every
background job's end is reported and its output read once, in order; every
message delivered to a subagent is accounted for until it settles, and a closed
child leaves nothing, whichever service stops first; the stores keep what they returned, across processes and
crashes; a cleanup that returned leaves nothing running. `PROJECT.json` lists
the hazards of each part at their lines, with the properties that watch them.

## 2. Modules

| Module | Models | Used by |
|---|---|---|
| `AgentWorker` | one agent: worker loop and callers | `MCAgentWorker`, `AgentWorkerProofs` |
| `SessionOrder` | the order state of a log, the records it accepts (`order.go`), the records the repair appends | `SessionLog`, `EngineTurn` |
| `SessionLog` | processes that open, append to, crash on and repair one session file | `Services`, `SessionLogProofs` |
| `EngineTurn` | turns of the engine over an ordered log, with the tool batch, approvals, compaction and the deferred closeout | `MCEngineTurn`, `EngineTurnProofs` |
| `GoalState` | the goal fold, its transitions, what the service builds and settles | `Goal` |
| `Goal` | goal service, driver and root agent as the driver sees it | `MCGoal`, `GoalProofs` |
| `JobRing`, `Jobs` | a job's bounded output; the job service with its tools, producers and teardown | `Services` |
| `Subagent` | the delegation service with its calls, watchers, releases and stop, and the registry's stop before it | `MCSubagent`, `SubagentProofs`, `SubagentSettleProofs` |
| `Consent`, `Lifecycle`, `Settings`, `Accounts`, `Spill`, `Attachments`, `Retry`, `WebSearch`, `Command`, `FileGuard` | the services of the table above | `Services` |
| `AccountRecords` | what the credential store promises | `Accounts` |
| `Services` | the session log and the services, one instance of each | `MCServices`, `StoreProofs`, `CallProofs` |

`SessionOrder`, `GoalState` and `JobRing` have no variables: they are the pure
parts. `SessionLog` and `EngineTurn` share `SessionOrder`, so the engine is
checked against exactly the rules the repair is checked against. `Services`
composes the log and the services; they share no state, so a behaviour runs one
of them (`focus`), and what is checked and proved is about the sum of the
instances, not a product. `MCServices` gives the constants values.

### AgentWorker

One action is one critical section of `Agent.mu`, one channel operation or one
append. `pc` is the worker goroutine; `call`, `queue`, `steer` and `wait` are
the goroutines inside Submit, QueueNotice/Notify, Steer and WhenIdle. The log
is kept as what the inbox needs of it: committed user messages, the number of
queued notices, the notices still owed and whether a turn is open. `mode` is
fixed when the agent is opened. The turn passes the boundaries of `runTurn` at
which it takes input or sees cancellation; what happens between them is in
`EngineTurn`. `accepted` and `parked` are history variables: the order in which
notices were accepted, and whether a notice was left by a cancelled turn or a
resume, which the code documents as waiting for the next turn. `Line` puts every
message on its one way, from the queue over the hands of the worker into the
log; conservation and order are statements about the line and its pairs
(`Before`), and nothing being committed twice is its injectivity.

Bounds: `QueueCap` and `SteerCap` are 32 in the code and 1 here, so that a full
channel is reached by two senders; `MaxSteps` 2 separates the last allowed step
(which takes no notices) from an earlier one; `MaxRuns` 2 is one crash or close
and one resume; `MaxFaults` 1 is one failed append at any place.

### SessionOrder, SessionLog

The order state is the record `validateOrder` folds: open turn and step with
their numbers, pending calls, open approvals, open compaction, the todo and
subagent obligations. `Accepts` is one definition per family of records.
`SessionLog` gives every process its own memory of one shared file, whose
`tail` says whether the last record is complete and acknowledged. Append is
split at the write, the sync and the rollback, and Open at the lock, the load,
the repair and the return; a crash may fall between any two. Lock files survive
a crash, as they do in the code, until someone removes them by hand.

Bounds: two processes, one turn with one step, two calls (one a todo call, one
whose arguments were omitted), one approval, one compaction, one child, one
fault and at most ten records in the file: enough for every kind of open tail to
arise and for a repair to be interrupted once.

### EngineTurn

`pc` walks `runTurn`: opening, step, request, the commit of all calls, the
batch, results, step end, the deferred closeout. Each call of a batch has its
own status and all of them interleave under the slot rule. The approver may be
stopped, the turn cancelled and one append refused or failed at any point.
`Overlap` lets a manual Compact pass its idle test before a turn starts. It is
`FALSE` in the passing run and `TRUE` in the run that exhibits finding 3.

Bounds: two turns of two steps; batches with no call, with an exclusive call
before a concurrent one, with more concurrent calls than the two slots, and with
a refused call (`prepare`) before a concurrent and an exclusive one.

### GoalState, Goal

`GoalState` is `core/session/goal.go` (fold and validation) and the pure parts
of `goal.go` (`successor`, `timestamp`, the builders, and `settle`, a scan of
the events since a checkpoint). `Goal` has the service's sections, the driver's
loop and a root agent reduced to a queue of turns that open, run and end.
Choices worth knowing:

- `CancelReplies` is what the result of a cancelled turn may look like. `err` is
  what `Engine.runTurn` returns. `ok`, a result without an error, is what the
  controller of `driver_test.go` returns and the interface allows. The driver is
  checked against both together (`goal_driver`) and against the engine alone
  (`goal_liveness`, `goal_cancel`).
- A goal tool call uses the reference that was current when its authority was
  checked, as the tool does.
- Turns opened by notices are not told apart from turns opened by people.
- Locals of the driver are reset when dead, to keep states few.
- `MaxOps` bounds the actions of people and of the model, `MaxFaults` failed
  appends and failed Followups, `MaxCrashes` restarts; `BlockedAfter` is
  the number of rounds after which a model may declare its goal blocked.

Bounds: in `goal_driver` two goals of at most two rounds, a fault and a crash; in
`goal_liveness` one goal of one round and a fault, with a clock that reads zero,
which is before the stamp of every goal. `GoalProofs` covers all readings of the
clock and all caps.

### JobRing, Jobs

Every section under `service.mu` is one action, so that a settlement may fall
between any two steps of a call: between Wait's count and its select, between a
wait that timed out and the Read that hands a command over, between Kill and
Remove. The tools of jobs are not `Concurrent`, so a session runs one at a time.
The job id of a call is any id ever issued, the other session's too. The three
terminal statuses are one. `told`, `finished`, `noticed` and `dropped` are
history: through which channel the model learnt of an end, or that the call that
collected it was cut short. The ring keeps offsets instead of bytes: where it
begins, where its chunks and its characters begin, and its total.

`JobsReported` excepts `dropped`. A `job_output` that waits, or a `job_kill`,
whose turn is cancelled just as the job settles has suppressed the notice, and
`tool.Runtime.execute` then drops its result: the end goes unannounced (it still
shows in `job_list` and in a later `job_output`). The property shows that this
is the only way.

Bounds: two sessions, of which one is a subagent's, makes three calls and may be
released, and the other makes one call; one job, which both address; a limit of
one live job; up to three writes, each of one or two two-byte characters, over a
live retention of three bytes and a settled one of one (so that a chunk is
dropped, is cut where a character would be split, and is left unread at
settlement); and one disturbance: a cancelled turn, a release, the end of the
runtime context or shutdown.

### Subagent

One action is one critical section of `Service.mu`, or one call of the
registry, a journal or a child's agent. The agent of a child is reduced to the
inbox facts the service reads; its worker is `AgentWorker`. A message of the
service is `held` in the inbox, in the `hand` of a turn that has taken it and not
yet appended it, in the log (`done`), or `lost`: `claimWake` and `drainNotices`
take a message out of the inbox, `runTurn` appends it later, and an append that
fails or an opening that is not admitted drops it. Only a turn cancelled before
it opened puts its opening message back. `job` is the one durable notice of a
background job of the child, and `ahead` says how many messages were queued
before it, since the inbox is first in, first out.

`res` counts the child objects a session has had, so that a stale object is told
from its successor, as the pointers of the code are. `call` are the tool calls
and background runs; `rel` is the release of a child, run by whoever marked it
closing; `watcher` is the settlement watcher, which reads the log and the inbox
outside the lock before it decides under it.

The plugins stop in reverse order (`application.go:229-244`), so the agent
registry stops before the delegation service. `RegistryStop` forgets every agent
at once; `AgentCut`, `RootCut` and `AgentExits` are the agents' closing, in any
order, and `RegistryStopped` its return, which waits for every worker. Until the
service itself stops it is active, with handles whose agents are gone: a creation
or a resumption fails, a message for such a child closes its handle
(`DeliverDown`, `service.go:836`), its watcher releases it or returns, and a
release finds no agent to close. `Stop` may also come with no registry stop before
it, as a test or a failed start has it. A shutdown is assumed not to be cut off by
its own context. Background runs end when their context is cancelled
(`CancelCall`), which is what a kill, a release of their session or the stop of
the job service does; the job service's own stop is in `Jobs`.

What a watcher can and cannot know follows from this, and `SettlesOnlyWhenDone`
says no more: when it decides to release, the inbox holds no message and there is
no continuable child, but a turn that a job's notice opened meanwhile may have a
message in its hands; the release then waits for the worker, and when it has
exited every message is in the log or lost with a failed append.

Bounds: three child sessions on two levels below the person's session (a depth
cap of two), two calls at once, and six plans (`Plans`): three calls on a pool of
two over three sessions, or on a pool of one over two; two calls over two
sessions with the stops of registry and service and an interrupt, or a fault; two
calls with an interrupt and a fault and no stop; and three calls for one child
with a job of its own, an interrupt, a fault and a stop. Three calls let a child be
created, settled and resumed, or two creations compete for the last slot while a
third call addresses one of them. The run has 1,897,537 states.

### The services

- `Consent`. One session. A call of the plan service is admitted in one step and
  runs under the session's lock in another, so that a stop falls between. `wanted`
  and `shown` are history: the last choice accepted and the mode the log last
  told the model.
- `Lifecycle`. Start, Shutdown by two callers, scopes with up to two cleanups
  each and the calls a plugin admits, cancels and joins. Cleanups that fail are
  like cleanups that succeed: the code collects their errors and goes on.
- `Settings`. A document is the pair of the last outside edit and the last
  update it contains, which is what tells whose change a later writer dropped.
  Callbacks of a commit run outside the lock, one watcher at a time; a commit that
  nobody watches is over at once. An update expects a revision or none (zero),
  and looks the provider up after it has mutated the document and before it takes
  the lock file, so that an unmount falls between the three.
- `Accounts`. Two processes, two routes and two operations, which may be two
  refreshes of one record: the file may hold nothing, API keys or the grant of an
  earlier login at the start. Tokens are numbers; `spent` are the
  refresh tokens the provider replaced. `Accounts` implements `AccountRecords`:
  `Seen` maps an operation between its read under the lock and its rename to the
  record it decides on; every step that replaces the file is a `Commit` of a
  client whose record nobody changed, or a stutter.
- `Spill`. One session directory in one workspace partition, so that a prune and
  a creation meet. `rmdir` fails on a directory that is not empty. `Others` are
  sweeps of other processes, which do not take this process's `layout` lock. A
  create makes two attempts (three in the code); it repeats one whose directory
  vanished or whose random name was taken, and gives up on any other error.
- `Attachments`. A power loss keeps what was synced; an entry that was not may be
  gone. Peers are SaveImage calls of another process, which may die before its
  sync.
- `Retry`. The policy may change between any two decisions; the delay is
  computed with the code's doubling, cap, server hint and jitter.
- `WebSearch`. The arguments go through `ParseQueries`; each query's goroutine
  waits for its turn, records its intent and is sent; the first failure cancels
  the others, which a query already recorded need not notice before it is sent; `mergeResults` is checked against a definition by best ranks.
- `Command`. One byte is one unit of output, marked when it begins a character.
  The command is external: it writes, forks, ignores TERM and exits as it likes.
  Wait returns at the end of the pipe, or when the delay that starts at the
  command's exit has passed and somebody still holds the pipe open.
- `FileGuard`. One target whose content stands for its digest. `Large` are the
  contents the code does not hash before the approval.

Their constants are declared in `Services.tla`, with what is assumed of them,
and get their values in `MCServices.tla` and its configuration. Each instance has the fewest members
that let its case happen: two actors on one object, one fault or cancellation at
any step, a crash or a power loss where the code handles one, a stop at any
time.

## 3. Runs

| Run | Shows |
|---|---|
| `agent_inbox` | two durable notices, a goal round that may be withdrawn or refused, a waiter, interrupts, a failed append, shutdown, crash and resume. `InboxKept`: notices are conserved, ordered, delivered once, nothing owed is forgotten and the pending count is exact. `WokenHoldsNotice`, `IdleWaiterNotMissed`, `CancelledTurnTakesNothing` |
| `agent_liveness` | in both modes, without shutdown: every request is answered (`EverySubmitAnswered`), every notice delivered (`EveryNoticeDelivered`), none stranded (`NoticeNotStranded`), one opening message for a one-shot agent (`OneShotOpensOnce`) |
| `agent_stranded` | finding 1 |
| `agent_lost_request` | finding 2 |
| `turn_closeout` | no record is refused (`NeverRejected`), turns are closed (`ClosedBetweenTurns`), gated calls run only when durably allowed and exclusive ones alone, within the slots (`CallsControlled`), every turn returns (`TurnReturns`) |
| `turn_overlap` | finding 3 |
| `goal_driver` | `ArmedIsCurrent`; the rounds counted are the rounds opened, and none opens for a revision that was stopped (`RoundsKept`); `RefusalExplained`; a stopped driver leaves nothing (`StoppedIsQuiet`); with a crash and a fault |
| `goal_liveness` | an armed goal is carried on to an end (`ArmedSettles`); a stopping driver leaves its loop (`StopCompletes`); what the service builds is accepted, also when the clock has stepped back (`BuildsAccepted`) |
| `goal_cancel` | finding 4 |
| `subagents` | pools are not overrun, every live child has an owner, and until the registry stops every child not closing has a live agent and a watcher (`ChildrenKept`); the count of deliveries is exact (`DeliveredAccounted`); a watcher releases only a child that is done (`SettlesOnlyWhenDone`); nothing waits for ever (`NothingWaits`) and nothing is owed once the calls are over, by a stop least of all (`NothingOwed`), together `NothingLeft`; with the registry stopping before the service, at any time |
| `subagent_parked` | finding 5 |
| `services` | the session log and eleven services, below |

The properties of `services`:

| Property | Says |
|---|---|
| `LogCoherent`, `AckedIsDurable`, `RepairAccepted`, `OpenedIsClosed` | accepted logs nest; acknowledged records stay; every repair record is accepted; an opened session has nothing open |
| `JobsReported`, `JobOutputKept` | every settlement is reported, by a foreground call never twice, and a released session keeps no job; output is lost only when more is unread than is kept, cut at characters, and read consecutively |
| `ConsentKept` | the last accepted choice is the mode or the pending switch; a request that shows another mode than the last comes after a notice |
| `EffectsUndone` | every registered cleanup ran once, in reverse, before the runtime says stopped, with no call in flight |
| `SettingsKept` | a withdrawn provider installs nothing; a failed update leaves nothing; when all is quiet document and catalogs are those of the file |
| `AccountsImplement`, `GrantKept` | the refinement above; no rotated refresh token is lost or replayed but through a fault |
| `SpillKept` | a locator names a file; a create fails only through another process's prune; a clean stop leaves no half-written file |
| `ReferencesDurable` | a returned reference names durable bytes |
| `RetryKept` | decisions and repetitions alternate, within the retries and delays of the policy each was made under; none after cleanup |
| `SearchKept` | intents are recorded in order before their requests; sources are merged by best rank |
| `CommandKept` | when a run returned its group, observer and pipe reader are gone, and the text, truncation, spill and timeout flags say what happened |
| `FileKept` | a publication replaces only what its session saw, and leaves no staging file |

Each passing property has at least one mutant in `PROJECT.json`: a plausible
slip in the modelled code that makes TLC find the property violated.

CHECK_DEADLOCK is off throughout: all runs end in states where the bounded
environment has nothing more to do, as the program may when nobody calls it.
That nothing is left hanging is stated by the liveness properties, by
`NothingWaits` (with ENABLED of the program's own steps) and by the stop clauses
of the services instead.

Symmetry is used for goal identities (`goal_driver`, `goal_cancel`), for notices
of one kind (`agent_inbox`), for the calls of `Subagent`, and in `services` for
the processes of the log and of the credential file, the front ends, the sweeps,
the savers of one image and the routes. No definition tells the members of these
sets apart, and no run with a liveness property uses symmetry.

### Fairness

- `AgentWorker`: weak fairness of the worker goroutine (the scheduler runs it,
  a model call and its tools return) and of a Submit or QueueNotice that is past
  its first section. Nothing is assumed of callers, interrupts or shutdown.
- `EngineTurn`: weak fairness of the steps of the engine and of its calls. Each
  model request and tool is assumed to return, which the code arranges with
  timeouts and cancellation.
- `Goal`: weak fairness of the driver goroutine, of the root agent's worker, of
  a tool call or watcher callback already under way, and of a shutdown once
  begun. People and models owe nothing.

The other modules state safety only.

## 4. Findings

Each is a run that TLC refutes, with the code's own words beside it in
`PROJECT.json`.

1. `agent_stranded`: Submit raises `pending` before it has sent. A notice that
   arrives in that window does not wake the worker; if the caller then gives
   up, nobody does. An idle agent holds a notice it was to open a turn for.
2. `agent_lost_request`: after the stopping worker drained its channel, the
   select in Submit may still choose the send. The result never comes.
3. `turn_overlap`: Compact tests idleness, unlocks, and compacts. A turn that
   starts in between cannot end: the log refuses `turn/end` while a compaction
   is open.
4. `goal_cancel`: an interrupted goal round ends with an error, so the driver
   disarms the revision before Settle could pause it. The goal stays active and
   disarmed instead of paused.
5. `subagent_parked`: an interrupt leaves a delivered message in a child's
   inbox and its watcher parks. A background job's notice then opens the turn
   that commits the message, and nobody wakes the watcher: the idle child keeps
   its slot and its parent is not told that it settled.

Met while modelling, and written into the properties as the exceptions they
need instead of a run of their own:

- `SettingsKept` excepts publications that overlap (`overlap`). A poll that read
  before an update may commit after it, callbacks of two commits may run in
  either order, and a commit between a provider's Snapshot and its Watch passes
  it by. `docs/architecture.md:372` says that `/model` uses an optimistic
  revision update so as not to overwrite concurrent changes; the revision is
  compared with the last committed one before the file is written, so an outside
  edit the poll has not published yet is not seen by the comparison.
- `RetryKept` bounds a delay by the cap raised by the jitter, not by the cap: the
  jitter is applied after the cap.
- `SpillKept` allows a create to fail when another process prunes between its
  mkdir and its check of the directory; the comment in `sweep.go` speaks of a
  retry, which covers only the open.
- `GrantKept` counts a cancellation while the refresh request is in flight among
  the faults: the exchange uses the caller's context, so a grant rotated by the
  provider may be dropped before it reaches the store.

## 5. Proofs

Checked by TLAPS for every value of the constants that satisfies the named
assumptions of the modules.

Eight modules hold the theorems; `PROJECT.json` lists those a reader should know
of. None assumes anything of the constants but the named assumptions, and three
say which constant they fix: `NoticeNeverStranded`, `EngineNeverRejected` and
`AlwaysClosedBetweenTurns`.

**AgentWorkerProofs**: `TypeCorrect`, `WokenAlwaysHoldsNotice`,
`IdleWaiterNeverMissed`, `CancelledTurnNeverTakes`, `NoticeNeverStranded`,
`OneShotAlwaysOpensOnce`, `InboxAlwaysKept`. The inductive invariant `Shape` adds
to the types the control facts the wake argument needs: a turn in progress is
busy and has a context, the worker holds an opening message from the moment it
takes one, the agent is active until its worker resets it, and `woken` is set
during a turn only after that turn's cancellation. The last one is why
`claimWake` may index without a length test: a notice accepted then stays queued,
because a cancelled turn drains nothing.

`Shape` then grows in three steps, each inductive with those before it.
`Requests` says who holds each request that `pending` counts: a caller that has
not sent, the channel, or the worker. Without it a waiter could not be shown to
be woken, because nothing would keep `pending` from falling below what is held.
`Points` says what a turn has done at each of its points. `Inbox` says that the
line of messages is injective and holds the accepted notices in order, what the
log owes and that it is in the line (`OwedInLine`), and that what has not entered
the line is new (`Fresh`). `NoticeNeverStranded` assumes that no caller of Submit
gives up (`Cancellable = {}`); finding 1 is the run in which one does.

**SessionLogProofs**: `TypeCorrect`, `OneWriter`, `AlwaysCoherent`,
`RepairAlwaysAccepted`, `AckedAlwaysDurable`, `OpenedAlwaysClosed`. The
invariant joins types, lock ownership (a process past the lock is its owner),
agreement (the owner's memory is the acknowledged log), and what a write in
progress may have put in the file. Coherence of the order state is preserved by
every accepted record, and from a coherent state each record the repair chooses
is acceptable; both are lemmas about `SessionOrder` alone.

**EngineTurnProofs**: `CallsAlwaysControlled`, `EngineNeverRejected`,
`AlwaysClosedBetweenTurns`. `BatchInv` is about the batch's own variables and
needs nothing of the log. `LogInv` says what each control point implies of the
engine's flags and, as long as no closing record was lost, of the order state of
the log (`LogHeld`); each append is then one the order accepts. The last two
assume `Overlap = FALSE`: with a Compact that overlaps a turn they are false,
which is finding 3. `CallsAlwaysControlled` assumes nothing of it.

**GoalProofs**: `ArmedAlwaysCurrent`, `BuildsAlwaysAccepted`,
`StoppedAlwaysQuiet`, `RoundsAlwaysKept`, `RefusalAlwaysExplained`. `Inv` says the
folded goal is well formed and the armed reference, if any, is that of the
current active goal; every builder of the service, applied to such a state,
yields a change the fold accepts, whatever the clock says and whichever cap is
chosen. While the driver awaits a result exactly one round is queued or running,
and otherwise none; from this a stopped driver is quiet.

`LogKept` ties the goal to its log: opened rounds name known goals, they are
counted, every stop is remembered by the fold as long as its revision is current,
and none was opened after it. The fold over the log is a recursive function; that
it exists, that it is a function of a prefix, and what one more event adds
(`ScanExists`, `ScanIs`, `ScanAppend`, `ScanCheckpoint`) are proved from the least
position at which they would fail, since the library's induction theorems cannot
be instantiated. Every step is either calm, in that it leaves goal and log alone,
or commits one event (`Moves`). `DriverKept` follows a refused round to the
driver: when admission refused it, its revision is no longer the armed one, and
nothing arms that revision again before the driver looks.

**SubagentProofs, SubagentSettleProofs**: `ChildrenAlwaysKept`,
`DeliveriesAlwaysAccounted`, `SettlesAlwaysWhenDone`, `NothingEverOwed`. The
inductive invariant is `SettleInv`, the conjunction of two.

- `SubInv` joins the types; what every call holds and that no two calls hold the
  same thing (`CallsKept`); who owns each agent, handle, placeholder and release,
  and that a release or a stop lists every child it still has to close (`Tree`,
  `StopListed`); the exact count of deliveries (`Settling`); and that reservations
  are those of the creations under way (`ReservedExact`), without which a pool
  could not be shown to stay within its limit (`PoolBounded`). What the registry's
  stop makes false, that a resident child has a live agent, is stated for an open
  registry only.
- `DecideInv` says what a watcher may conclude from a reading that was made
  outside the lock. Since it saw the agent idle, and unless it was woken, whatever
  runs was opened by a job's notice queued behind every message that is held
  (`Steady`): the first-in, first-out order of the inbox is what keeps such a turn
  from taking a message to its opening. Once the inbox was seen empty, none is
  held or can come back (`Clear`); and that lasts until the release has taken the
  agent from the registry (`Leaves`), although the turn may still have a message
  in its hands.

`SubagentProofs` proves that a step keeps `SubInv` provided no worker between two
turns has a notice in its hands, and `SubagentSettleProofs` that a step keeps
`DecideInv`, of which that proviso is a part. A step is either quiet, in that it
creates, closes and resumes nobody, or one call's step at one child: two lemmas
(`CallsElsewhere`, `TreeElsewhere`) carry everything that is not about that call
or child.

**StoreProofs**: `AccountsAlwaysImplement`, `GrantAlwaysKept`,
`ReferencesAlwaysDurable`, `FileAlwaysKept`, `SpillAlwaysKept`,
`SettingsAlwaysKept`. **CallProofs**: `EffectsAlwaysUndone`, `ConsentAlwaysKept`,
`RetryAlwaysKept`, `CommandAlwaysKept`, `IntentsAlwaysRecorded`,
`JobsAlwaysReported`, `JobOutputAlwaysKept`. They are about `ServicesSpec`: one
section per service, each with an inductive invariant of the part and the lemma
that a step of the composition is a step of the part in focus. The assumptions
keep the names that stand for nobody apart from the actors, and make the calls of
a store finitely many.

- *Accounts*. Whoever is past the lock is its owner, and the document in its hand
  is the file until it renames. A refresh token the provider still accepts is in
  one place: in one record, or in the hand of the one refresh that replaced it
  and whose route still holds the spent one. The refinement follows: a step is a
  `Begin`, a `Commit` of a client whose base nobody changed, an `Abort`, or a
  stutter.
- *Attachments*. The invariant says what each stage of an operation has reached
  (`Durable`, `Present`), counts the observer's callbacks and says that a stopped
  store that was not late has none running.
- *FileGuard*. The path lock is its owner's, a session's operation is its own, and
  what is about to be replaced was seen by the session unless somebody outside the
  harness raced it.
- *Spill*. A call between its first mkdir and its open holds the layout lock, and
  the directories it made are there unless another process pruned them (`raced`);
  the open artifacts are exactly the admitted calls.
- *Settings*. An update past its mutation holds the write mutex, one past the lock
  the lock file; the number of callbacks a provider counts is the number of
  publications that name it; and as long as no two publications overlapped, what
  is remembered of the file, the document and the catalogs differ only by the one
  publication under way.
- *Lifecycle*. The scopes still to close descend from the one being closed; what
  ran is exactly the closed scopes' cleanups less those still to do, in reverse
  order; calls are admitted only while the session's plugin is up.
- *Consent*. While the service runs, the mode the session is in or about to be in
  is the last choice accepted, and a switch a person made was announced or is still
  to be; a selection and the boundaries of a turn exclude each other.
- *Retry*. The records of a step are a ladder of decisions and repetitions, each
  within the policy it was made under; the decision in flight is at its next rung.
- *Command*. The tail, what the reader took and what the spill wrote are parts of
  one output; the group, the observer and the reader are those of the run's
  control point.
- *WebSearch*. The queries past the gate are a prefix, in order, and their
  intents are the log.
- *Jobs*. While nothing stops a session's jobs, an end nobody reported yet has a
  producer or a call that will report it (`JobAccount`), and the waiters counted
  are the calls that wait. Retained chunks begin at characters, and the reader is at
  a chunk's begin or at the end, unless more than the retention of a live job was
  written since (`RingKept`).

Only model-checked: the liveness properties, `NothingWaits` and with it
`NothingLeft` as a whole (fairness and ENABLED are out of the prover's reach), and
the merge, the parsing and the cap of web search in `SearchKept`.

## 6. Plan

In order; a tick marks what is done.

1. ✔ `AgentWorker`, with its types and every safety property proved.
2. ✔ `SessionOrder`, `SessionLog` and `EngineTurn`, their safety proved.
3. ✔ `GoalState`, `Goal`, their safety proved.
4. ✔ `JobRing` and `Jobs`, their safety proved.
5. ✔ `Subagent` over the agents of its children, with the stop of the registry, its
   safety proved.
6. ✔ `Lifecycle` (scopes, admitted calls) and `Consent` (plan mode, brokers),
   proved.
7. ✔ `Settings`, `Accounts` with the refinement to `AccountRecords`, `Spill`,
   `Attachments`, proved.
8. ✔ `Retry`, `WebSearch`, `Command`, `FileGuard`, proved but for the merge of
   search results.
9. Models, next: the prefix selection and surface fold of compaction, and the
   redirect loop of fetch, as operators checked against a reference.

## 7. Not modelled

Wire formats and streams of providers, HTML conversion, rendering, prompts,
skills and other text; the catalogue of tools and their argument schemas; the
payload checks of `core/session/validate.go` beyond what the order rules use;
session listing and file naming; image decoding; UTF-8 decoding across writes of
a job; path policy and sandbox arguments; search and todo tools, which are single
sequential calls; the terminal interface, which reaches the modelled services
through the same operations as any other caller; composition and the repository
gates under `internal/tools`. These are conversions, presentation or wiring
whose correctness is not a matter of states and orders. `PROJECT.json` says for
each component which of its operations are left out.
