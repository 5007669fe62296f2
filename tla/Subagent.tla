------------------------------ MODULE Subagent ------------------------------
(***************************************************************************)
(* The delegation service (internal/app/subagent): parents create children, *)
(* send them messages, interrupt them and are told when they settle; a      *)
(* settled child is cold-resumed by the next message; stop closes all.      *)
(*                                                                          *)
(* One step is one critical section of Service.mu, or one call of the       *)
(* registry, the journal or a child's agent.  The agent of a child (its     *)
(* worker is module AgentWorker) appears here as the inbox facts the        *)
(* service reads: a turn runs, was cancelled, a wake is due, and where each *)
(* of the service's messages is: in the inbox, in the hands of a turn, in   *)
(* the log, or lost with a failed append.  The registry of agents may stop  *)
(* before the service does, as the application's shutdown has it.           *)
(***************************************************************************)
EXTENDS Naturals, Sequences, FiniteSets

CONSTANTS
  None,          \* no child object, no pool, no parent
  Root,          \* the session of the person; its agent outlives the service
  Ids,           \* session ids a created child may get, in order of creation
  Threads,       \* tool calls (and background one-shot jobs) under way at once
  MaxDepth,      \* maxDelegationDepth
  Budgets        \* maxActiveChildren, and how many sessions, stops, calls, job notices, interrupts and faults

Kids == {Ids[i] : i \in 1..Len(Ids)}
Modes == {"continuable", "one-shot"}

\* The handle of a resident child; a placeholder of a resumption has ph.
Child == [parent : Kids \cup {Root}, mode : Modes, pool : Kids \cup {Root, None}, depth : Nat, ph : BOOLEAN,
          closing : BOOLEAN, announced : BOOLEAN, delivered : Nat, watched : BOOLEAN]

ASSUME SubagentAssumption ==
  /\ Ids \in Seq(Kids) /\ Root \notin Kids /\ None \notin Kids \cup {Root} \cup Modes \cup Child
  /\ IsFiniteSet(Threads)
  /\ MaxDepth \in Nat
  /\ Budgets \subseteq [active : Nat, sessions : Nat, stops : Nat, calls : Nat, jobs : Nat, interrupts : Nat, faults : Nat]

VARIABLES
  svc,       \* "active", "stopping" (stop began), "stopped"
  registry,  \* Registry.stop: "open", "closing" (its agents are told to end), "closed"
  handle,    \* Service.children: None, or the child object of a session
  res,       \* how many child objects the session has had: object identity
  reserved,  \* Service.reserved: slots of creations in flight, per pool
  agent,     \* the agent of each session, as the service sees it
  catalog,   \* the children a session's own log names, with their mode
  watcher,   \* the settlement watcher of a child
  rel,       \* the release of a child, run by whoever marked it closing
  call,      \* the calls under way
  stopTodo,  \* the objects stop still has to close
  budget     \* the pool limit, and what remains of the bounds

vars == <<svc, registry, handle, res, reserved, agent, catalog, watcher, rel, call, stopTodo, budget>>

Idle == [pc |-> "idle"]
Gone == [live |-> FALSE, busy |-> FALSE, stage |-> "over", cut |-> FALSE, woken |-> FALSE, task |-> FALSE,
         ended |-> FALSE, held |-> 0, hand |-> 0, lost |-> 0, done |-> 0, job |-> "none", ahead |-> 0,
         mode |-> None, parent |-> None, depth |-> 0]

Init ==
  /\ svc = "active" /\ registry = "open"
  /\ handle = [k \in Kids |-> None]
  /\ res = [k \in Kids |-> 0]
  /\ reserved = [p \in Kids \cup {Root} |-> 0]
  /\ agent = [k \in Kids |-> Gone]
  /\ catalog = [p \in Kids \cup {Root} |-> {}]
  /\ watcher = [k \in Kids |-> Idle]
  /\ rel = [k \in Kids |-> Idle]
  /\ call = [t \in Threads |-> Idle]
  /\ stopTodo = [todo |-> {}, cur |-> <<>>, depth |-> [k \in Kids |-> 0]]
  /\ budget \in Budgets

Spend(b) == budget[b] > 0 /\ budget' = [budget EXCEPT ![b] = @ - 1]

Resident(k) == handle[k] # None
Object(k) == <<k, res[k]>>
Present(o) == Resident(o[1]) /\ res[o[1]] = o[2]      \* o.done is still open
Depth(s) == IF s = Root THEN 0 ELSE agent[s].depth
IsClosing(s) == s # Root /\ Resident(s) /\ handle[s].closing

-----------------------------------------------------------------------------
(* The agent's inbox, as the service uses it (internal/app/agent).          *)

\* Agent.enqueueLocked of one of the service's messages: a cancelled turn and
\* an idle agent are woken for it.
Enqueued(a) ==
  [a EXCEPT !.held = @ + 1, !.woken = @ \/ (a.busy /\ a.cut) \/ (~a.busy /\ ~a.task)]

\* Registry.Find, then Agent.refusalLocked: a one-shot agent takes notices
\* only during its turn.
Takes(s) == registry = "open" /\ (s \in Kids => agent[s].live /\ (agent[s].mode = "continuable" \/ agent[s].busy))

Interrupted(a) == IF a.busy THEN [a EXCEPT !.cut = TRUE] ELSE a

\* The worker has put down what its turn took out of the inbox.
Empty(a) == a.hand = 0 /\ a.job # "hand"

\* The worker exits: notices in memory are dropped, a job's stays owed in the log.
Ended(a) == [Gone EXCEPT !.job = IF a.job = "none" THEN "none" ELSE "owed"]

\* Agent.WhenIdle: no turn is active, queued or woken.
IsIdle(k) == ~agent[k].busy /\ ~agent[k].task /\ ~agent[k].woken

\* The calls a session's current turn waits for; a background run is a job,
\* and its caller waits only until its creation is over.
InTurn(s) == {t \in Threads : call[t].pc # "idle" /\ call[t].caller = s /\ ~(call[t].bg /\ call[t].started)}
JobsOf(s) == {t \in Threads : call[t].pc # "idle" /\ call[t].caller = s /\ call[t].bg}

\* Cancelling a turn cancels the context of the calls it waits for.
Cancel(ts) == [t \in Threads |-> IF t \in ts /\ call[t].pc # "idle" THEN [call[t] EXCEPT !.cancelled = TRUE] ELSE call[t]]
CutTurn(k) == Cancel({t \in InTurn(k) : agent[k].busy /\ ~call[t].bg})

\* The worker takes up a submitted task, or Agent.claimWake pops the oldest
\* notice: `ahead` of the service's messages are before the job's.
TurnBegin(k) ==
  /\ agent[k].live /\ ~agent[k].busy
  /\ LET a == [agent[k] EXCEPT !.busy = TRUE, !.stage = "begun", !.cut = FALSE, !.woken = FALSE] IN
     \/ a.task /\ agent' = [agent EXCEPT ![k] = [a EXCEPT !.task = FALSE]]
     \/ /\ agent[k].woken /\ a.job = "queued" /\ a.ahead = 0
        /\ agent' = [agent EXCEPT ![k] = [a EXCEPT !.job = "hand"]]
     \/ /\ agent[k].woken /\ a.held > 0 /\ (a.job = "queued" => a.ahead > 0)
        /\ agent' = [agent EXCEPT ![k] = [a EXCEPT !.held = @ - 1, !.hand = 1, !.ahead = IF a.job = "queued" THEN @ - 1 ELSE @]]
  /\ UNCHANGED <<svc, registry, handle, res, reserved, catalog, watcher, rel, call, stopTodo, budget>>

\* What the turn has in its hands reaches the log, whatever cancels the turn
\* meanwhile; an append that fails, or an opening that is not admitted, ends
\* the turn and loses what is not in the log yet.
Commits(k, next) ==
  \/ /\ agent' = [agent EXCEPT ![k].done = @ + agent[k].hand, ![k].hand = 0, ![k].stage = next,
                   ![k].job = IF @ = "hand" THEN "none" ELSE @]
     /\ UNCHANGED budget
  \/ /\ Spend("faults")
     /\ \E n \in 0..agent[k].hand :
          agent' = [agent EXCEPT ![k].done = @ + n, ![k].lost = @ + (agent[k].hand - n), ![k].hand = 0, ![k].stage = "over",
                      ![k].job = IF @ = "hand" THEN "owed" ELSE @]

\* The turn opens: its opening message is committed.  An interrupt since the
\* decision to open changes nothing.
TurnOpens(k) ==
  /\ agent[k].busy /\ agent[k].stage = "begun" /\ Commits(k, "opened")
  /\ UNCHANGED <<svc, registry, handle, res, reserved, catalog, watcher, rel, call, stopTodo>>

\* Agent.drainNotices at the boundary after the opening and at those between
\* steps: every notice leaves the inbox; a cancelled turn takes none.
TurnTakes(k) ==
  /\ agent[k].busy /\ ~agent[k].cut /\ Empty(agent[k]) /\ InTurn(k) = {}
  /\ \/ agent[k].stage = "opened"
     \/ agent[k].stage = "drained" /\ (agent[k].held > 0 \/ agent[k].job = "queued")
  /\ agent' = [agent EXCEPT ![k].hand = agent[k].held, ![k].held = 0, ![k].stage = "drained",
                             ![k].job = IF @ = "queued" THEN "hand" ELSE @, ![k].ahead = 0]
  /\ UNCHANGED <<svc, registry, handle, res, reserved, catalog, watcher, rel, call, stopTodo, budget>>

\* appendUserMessages of what the boundary took.
TurnCommits(k) ==
  /\ agent[k].busy /\ agent[k].stage = "drained" /\ ~Empty(agent[k]) /\ Commits(k, "drained")
  /\ UNCHANGED <<svc, registry, handle, res, reserved, catalog, watcher, rel, call, stopTodo>>

\* Agent.finishTurn: notices that came too late wake another turn, unless the
\* turn was cancelled and nothing arrived since; a turn cancelled before it
\* opened puts its opening notice back at the head of the inbox.
TurnEnd(k) ==
  /\ agent[k].busy /\ InTurn(k) = {}
  /\ agent[k].stage = "begun" \/ Empty(agent[k])
  /\ agent[k].stage \in {"begun", "opened"} => agent[k].cut
  /\ LET a == [agent[k] EXCEPT !.held = @ + agent[k].hand, !.hand = 0, !.ahead = IF agent[k].job = "queued" THEN @ + agent[k].hand ELSE 0,
                  !.job = IF @ = "hand" THEN "queued" ELSE @]
         left == a.held > 0 \/ a.job = "queued" IN
     agent' = [agent EXCEPT ![k] = [a EXCEPT !.busy = FALSE, !.stage = "over", !.ended = TRUE,
                 !.woken = left /\ (~a.cut \/ @) /\ a.mode = "continuable"]]
  /\ UNCHANGED <<svc, registry, handle, res, reserved, catalog, watcher, rel, call, stopTodo, budget>>

\* A background command of the child ended: Agent.QueueNotice, in the log and
\* then behind what the inbox holds.
JobNotice(k) ==
  /\ agent[k].live /\ registry = "open" /\ agent[k].mode = "continuable" /\ agent[k].job = "none"
  /\ (agent[k].busy /\ agent[k].stage = "drained") \/ agent[k].ended      \* some turn of this residency started it
  /\ Spend("jobs")
  /\ agent' = [agent EXCEPT ![k] = [Enqueued(@) EXCEPT !.held = agent[k].held, !.job = "queued", !.ahead = agent[k].held]]
  /\ UNCHANGED <<svc, registry, handle, res, reserved, catalog, watcher, rel, call, stopTodo>>

-----------------------------------------------------------------------------
(* Pieces shared by the operations.                                         *)

\* poolLocked and admitLocked.
PoolOf(s) == IF s # Root /\ Resident(s) /\ handle[s].mode = "continuable" THEN handle[s].pool ELSE s
\* Mutant: reservations of creations in flight are not counted.
UsedResident(p) == Cardinality({k \in Kids : Resident(k) /\ handle[k].pool = p})
Used(p) == reserved[p] + Cardinality({k \in Kids : Resident(k) /\ handle[k].pool = p})
Admitted(s) == Used(PoolOf(s)) < budget.active

\* Mutant: the watcher is not woken.
WakeNot(w, k) == w
\* wakeLocked: the watcher's captured generation is no longer the child's.
Wake(w, k) == IF w[k].pc = "idle" THEN w ELSE [w EXCEPT ![k].stale = TRUE]

\* acceptedLocked: the watcher starts with the first accepted delivery.
Accept(k) ==
  /\ handle' = [handle EXCEPT ![k].announced = TRUE, ![k].watched = @ \/ svc = "active"]
  /\ watcher' = IF ~handle[k].watched /\ svc = "active"
                THEN [watcher EXCEPT ![k] = [pc |-> "top", stale |-> FALSE, seen |-> 0, held |-> FALSE]]
                ELSE watcher

\* Mutant: the delivery is not counted.
DeliveredNot(h) == h
\* deliveredLocked: one more message of this service that the agent accepted.
Delivered(h) == [h EXCEPT !.delivered = @ + 1]

\* close of an object not yet closing: mark it, wake its watcher, release it.
Begun(notice) == [pc |-> "interrupt", notice |-> notice, todo |-> {}, cur |-> <<>>, failed |-> FALSE]
MarkClosing(k, notice) ==
  /\ ~handle[k].closing
  /\ handle' = [handle EXCEPT ![k].closing = TRUE]
  /\ rel' = [rel EXCEPT ![k] = Begun(notice)]

HasContinuable(s) == \E k \in Kids : Resident(k) /\ handle[k].parent = s /\ handle[k].mode = "continuable"

\* A call of the log or the registry fails: its context is cancelled, or the disk fails.
FailsAt(t) == IF call[t].cancelled THEN UNCHANGED budget ELSE Spend("faults")

Return(t) == call' = [call EXCEPT ![t] = Idle]
Go(t, pc) == call' = [call EXCEPT ![t].pc = pc]

\* A call of a tool runs inside a step of a turn of its session, whose agent the registry has.
MayCall(s) ==
  registry = "open" /\ (s \in Kids => agent[s].live /\ agent[s].busy /\ agent[s].stage = "drained" /\ ~agent[s].cut /\ Empty(agent[s]))

NewChild(caller, mode, pool, depth, ph) ==
  [parent |-> caller, mode |-> mode, pool |-> pool, depth |-> depth, ph |-> ph, closing |-> ph,
   announced |-> FALSE, delivered |-> 0, watched |-> FALSE]

-----------------------------------------------------------------------------
(* Creation: StartContinuable, Run and StartBackground.                     *)

\* create up to reserve: refused when the service stopped, the depth cap is
\* reached or the pool is full; otherwise a slot of the pool is held.
Start(t, s, mode, bg) ==
  /\ call[t].pc = "idle" /\ MayCall(s) /\ Spend("calls")
  /\ svc = "active" /\ Depth(s) + 1 <= MaxDepth
  /\ LET creating == Cardinality({u \in Threads : call[u].pc = "create"}) IN
     /\ Cardinality({k \in Kids : res[k] = 0}) > creating
     /\ Cardinality({k \in Kids : res[k] > 0}) + creating < budget.sessions
  /\ bg => mode = "one-shot"
  /\ mode = "continuable" => Admitted(s)
  /\ LET pool == IF mode = "continuable" THEN PoolOf(s) ELSE None IN
     /\ reserved' = IF mode = "continuable" THEN [reserved EXCEPT ![pool] = @ + 1] ELSE reserved
     /\ call' = [call EXCEPT ![t] = [pc |-> "create", caller |-> s, mode |-> mode, bg |-> bg, started |-> FALSE,
                                     pool |-> pool, obj |-> <<>>, target |-> None, cancelled |-> FALSE]]
  /\ UNCHANGED <<svc, registry, handle, res, agent, catalog, watcher, rel, stopTodo>>

\* Mutant: a slot is never given back.
UnreservedNever(t) == reserved
Unreserved(t) == IF call[t].pool = None THEN reserved ELSE [reserved EXCEPT ![call[t].pool] = @ - 1]

\* A call of the log or the registry fails: as below, or the registry has stopped.
CreateFails(t) == IF registry = "open" THEN FailsAt(t) ELSE UNCHANGED budget

\* registry.Create of a fresh session; a failure gives the slot back.
CreateAgent(t) ==
  /\ call[t].pc = "create"
  /\ \/ registry = "open" /\ \E i \in 1..Len(Ids) :
          /\ res[Ids[i]] = 0 /\ \A j \in 1..(i - 1) : res[Ids[j]] > 0
          /\ res' = [res EXCEPT ![Ids[i]] = 1]
          /\ agent' = [agent EXCEPT ![Ids[i]] = [Gone EXCEPT !.live = TRUE, !.mode = call[t].mode,
                                                             !.parent = call[t].caller, !.depth = Depth(call[t].caller) + 1]]
          /\ call' = [call EXCEPT ![t].pc = "publish", ![t].obj = <<Ids[i], 1>>]
          /\ UNCHANGED <<reserved, budget>>
     \/ /\ CreateFails(t) /\ Return(t) /\ reserved' = Unreserved(t) /\ UNCHANGED <<agent, res>>
  /\ UNCHANGED <<svc, registry, handle, catalog, watcher, rel, stopTodo>>

\* publish: refused once the service stopped or the parent began closing; the
\* reservation turns into the resident handle in the same critical section.
Publish(t) ==
  /\ call[t].pc = "publish"
  /\ reserved' = Unreserved(t)
  /\ IF svc = "active" /\ ~IsClosing(call[t].caller)
     THEN /\ handle' = [handle EXCEPT ![call[t].obj[1]] =
                          NewChild(call[t].caller, call[t].mode, call[t].pool, Depth(call[t].caller) + 1, FALSE)]
          /\ Go(t, "catalog")
     ELSE Go(t, "teardown") /\ UNCHANGED handle
  /\ UNCHANGED <<svc, registry, res, agent, catalog, watcher, rel, stopTodo, budget>>

\* The catalog record lands in the caller's step; if it cannot, the child is closed.
Catalog(t) ==
  /\ call[t].pc = "catalog"
  /\ \/ /\ ~call[t].cancelled
        /\ catalog' = [catalog EXCEPT ![call[t].caller] = @ \cup {<<call[t].obj[1], call[t].mode>>}]
        /\ call' = [call EXCEPT ![t].pc = "submit", ![t].started = TRUE]
        /\ UNCHANGED budget
     \/ FailsAt(t) /\ Go(t, "close") /\ UNCHANGED catalog
  /\ UNCHANGED <<svc, registry, handle, res, reserved, agent, watcher, rel, stopTodo>>

\* Submit of the task: a stopped agent or a cancelled call closes the child.
Submit(t) ==
  /\ call[t].pc = "submit"
  /\ LET k == call[t].obj[1] IN
     IF agent[k].live /\ ~call[t].cancelled
     THEN /\ agent' = [agent EXCEPT ![k].task = TRUE]
          /\ Go(t, IF call[t].mode = "continuable" THEN "accept" ELSE "result")
     ELSE Go(t, "close") /\ UNCHANGED agent
  /\ UNCHANGED <<svc, registry, handle, res, reserved, catalog, watcher, rel, stopTodo, budget>>

\* StartContinuable returns once the delivery is recorded.
Accepted(t) ==
  /\ call[t].pc = "accept" /\ Return(t)
  /\ IF Present(call[t].obj) THEN Accept(call[t].obj[1]) ELSE UNCHANGED <<handle, watcher>>
  /\ UNCHANGED <<svc, registry, res, reserved, agent, catalog, rel, stopTodo, budget>>

\* finish: the one-shot child's turn ended, or the call was cancelled.
Result(t) ==
  /\ call[t].pc = "result"
  /\ LET a == agent[call[t].obj[1]] IN a.ended \/ (~a.live /\ ~a.busy) \/ call[t].cancelled
  /\ Go(t, "close")
  /\ UNCHANGED <<svc, registry, handle, res, reserved, agent, catalog, watcher, rel, stopTodo, budget>>

\* close by the call: it releases the child, or waits for who is doing so.
CloseChild(t) ==
  /\ call[t].pc \in {"close", "drop"}
  /\ IF Present(call[t].obj)
     THEN /\ MarkClosing(call[t].obj[1], FALSE)
          /\ watcher' = Wake(watcher, call[t].obj[1]) /\ UNCHANGED call
     ELSE Return(t) /\ UNCHANGED <<handle, rel, watcher>>
  /\ UNCHANGED <<svc, registry, res, reserved, agent, catalog, stopTodo, budget>>

\* closeAgent of a child that was never published; a registry that stopped ends it itself.
Teardown(t) ==
  /\ call[t].pc = "teardown"
  /\ agent' = IF registry = "open" THEN [agent EXCEPT ![call[t].obj[1]] = Ended(@)] ELSE agent
  /\ Return(t)
  /\ UNCHANGED <<svc, registry, handle, res, reserved, catalog, watcher, rel, stopTodo, budget>>

\* The caller's context is cancelled, or the job of a background run is killed.
CancelCall(t) ==
  /\ call[t].pc # "idle" /\ ~call[t].cancelled /\ (call[t].caller = Root \/ call[t].bg) /\ Spend("interrupts")
  /\ call' = Cancel({t})
  /\ UNCHANGED <<svc, registry, handle, res, reserved, agent, catalog, watcher, rel, stopTodo>>

-----------------------------------------------------------------------------
(* Messages: SendMessage, deliver, resume.                                  *)

\* SendMessage, to the person's session or to a child some log names, once the
\* call that created it is over: ids are random, so no sender has another.
Send(t, s, target) ==
  /\ call[t].pc = "idle" /\ MayCall(s) /\ Spend("calls") /\ s # target
  /\ target = Root \/ \E p \in Kids \cup {Root} : \E entry \in catalog[p] : entry[1] = target
  /\ \A u \in Threads : call[u].pc # "idle" /\ call[u].mode # None => call[u].obj # <<target, 1>>
  /\ call' = [call EXCEPT ![t] = [pc |-> "deliver", caller |-> s, mode |-> None, bg |-> FALSE, started |-> TRUE,
                                  pool |-> None, obj |-> <<>>, target |-> target, cancelled |-> FALSE]]
  /\ UNCHANGED <<svc, registry, handle, res, reserved, agent, catalog, watcher, rel, stopTodo>>

\* A resident continuable child writes to its direct parent.
ToParent(s, target) == s # Root /\ Resident(s) /\ handle[s].parent = target /\ handle[s].mode = "continuable" /\ ~handle[s].closing

\* authorizeChild: the sender's own continuable child.
Authorized(s, k) == handle[k].parent = s /\ handle[k].mode = "continuable"

\* deliver to the parent; a parent that is not live ends the call.
DeliverUp(t) ==
  /\ call[t].pc = "deliver" /\ ~call[t].cancelled /\ svc = "active" /\ ToParent(call[t].caller, call[t].target)
  /\ LET p == call[t].target IN
     IF p # Root /\ Takes(p)
     THEN /\ agent' = [agent EXCEPT ![p] = Enqueued(@)]
          /\ handle' = IF Resident(p) THEN [handle EXCEPT ![p] = Delivered(@)] ELSE handle
          /\ watcher' = Wake(watcher, p)
     ELSE UNCHANGED <<agent, handle, watcher>>
  /\ Return(t)
  /\ UNCHANGED <<svc, registry, res, reserved, catalog, rel, stopTodo, budget>>

\* deliver to the sender's resident child, which is not closing: the message,
\* the watcher and the count change in one critical section.  An agent that
\* stopped outside the service refuses it, and its handle is closed.
DeliverDown(t) ==
  /\ call[t].pc = "deliver" /\ ~call[t].cancelled /\ svc = "active" /\ ~ToParent(call[t].caller, call[t].target)
  /\ LET k == call[t].target IN
     /\ k # Root /\ Resident(k) /\ ~handle[k].closing
     /\ \/ /\ Authorized(call[t].caller, k) /\ agent[k].live
           /\ agent' = [agent EXCEPT ![k] = Enqueued(@)]
           /\ handle' = [handle EXCEPT ![k] = Delivered([@ EXCEPT !.announced = TRUE, !.watched = TRUE])]
           /\ watcher' = IF ~handle[k].watched
                         THEN [watcher EXCEPT ![k] = [pc |-> "top", stale |-> FALSE, seen |-> 0, held |-> FALSE]]
                         ELSE Wake(watcher, k)
           /\ Return(t)
        \/ /\ Authorized(call[t].caller, k) /\ ~agent[k].live
           /\ call' = [call EXCEPT ![t].pc = "drop", ![t].obj = Object(k)] /\ UNCHANGED <<agent, handle, watcher>>
        \/ ~Authorized(call[t].caller, k) /\ Return(t) /\ UNCHANGED <<agent, handle, watcher>>
  /\ UNCHANGED <<svc, registry, res, reserved, catalog, rel, stopTodo, budget>>

\* The other ends of one attempt: cancelled, stopped, not permitted, or the
\* target is closing (the attempt waits for it) or not resident (resume).
DeliverElse(t) ==
  /\ call[t].pc = "deliver"
  /\ LET s == call[t].caller  k == call[t].target
         ended == call[t].cancelled \/ svc # "active"
         upward == s # Root /\ agent[s].parent = k IN
     \/ (ended \/ (upward /\ ~ToParent(s, k))) /\ Return(t)
     \/ /\ ~ended /\ ~upward /\ k # Root /\ Resident(k) /\ handle[k].closing
        /\ call' = [call EXCEPT ![t].pc = "wait", ![t].obj = Object(k)]
     \/ ~ended /\ ~upward /\ (k \in Kids => ~Resident(k)) /\ Go(t, "resume")
  /\ UNCHANGED <<svc, registry, handle, res, reserved, agent, catalog, watcher, rel, stopTodo, budget>>

\* waitFor the closing object, then another attempt.
WaitRelease(t) ==
  /\ call[t].pc = "wait"
  /\ \/ ~Present(call[t].obj) /\ Go(t, "deliver")
     \/ call[t].cancelled /\ Return(t)
  /\ UNCHANGED <<svc, registry, handle, res, reserved, agent, catalog, watcher, rel, stopTodo, budget>>

\* The sender's log names the continuable child.
InCatalog(s, k) == <<k, "continuable">> \in catalog[s]

\* resume up to the placeholder: the sender's catalog names the child, nobody
\* made it resident meanwhile, and its pool has a free slot.
Resume(t) ==
  /\ call[t].pc = "resume"
  /\ LET s == call[t].caller  k == call[t].target IN
     \/ ~InCatalog(s, k) /\ Return(t) /\ UNCHANGED <<handle, res>>
     \/ /\ InCatalog(s, k) /\ (svc # "active" \/ Resident(k))
        /\ Go(t, "deliver") /\ UNCHANGED <<handle, res>>
     \/ /\ InCatalog(s, k) /\ svc = "active" /\ ~Resident(k)
        /\ IF Admitted(s)
           THEN /\ handle' = [handle EXCEPT ![k] = NewChild(s, "continuable", PoolOf(s), 0, TRUE)]
                /\ res' = [res EXCEPT ![k] = @ + 1]
                /\ call' = [call EXCEPT ![t].pc = "reopen", ![t].pool = PoolOf(s), ![t].obj = <<k, res[k] + 1>>]
           ELSE Return(t) /\ UNCHANGED <<handle, res>>
  /\ UNCHANGED <<svc, registry, reserved, agent, catalog, watcher, rel, stopTodo, budget>>

\* registry.Create of the existing session: its log is free only when its
\* last agent is gone.  The job's notice it still owes waits in the inbox and
\* opens no turn.  A failure drops the placeholder.
Reopen(t) ==
  /\ call[t].pc = "reopen"
  /\ LET k == call[t].target IN
     \/ /\ registry = "open" /\ ~agent[k].live /\ ~call[t].cancelled
        /\ agent' = [agent EXCEPT ![k] = [Gone EXCEPT !.live = TRUE, !.mode = "continuable",
                                                      !.job = IF agent[k].job = "none" THEN "none" ELSE "queued",
                                                      !.parent = call[t].caller, !.depth = Depth(call[t].caller) + 1]]
        /\ Go(t, "replace") /\ UNCHANGED <<handle, budget>>
     \/ /\ IF agent[k].live THEN UNCHANGED budget ELSE CreateFails(t)
        /\ handle' = [handle EXCEPT ![k] = None]
        /\ Return(t) /\ UNCHANGED agent
  /\ UNCHANGED <<svc, registry, res, reserved, catalog, watcher, rel, stopTodo>>

\* replace: refused when the service stopped or the parent began closing; the
\* log of the resumed child is read first, which fails once its agent stopped.
Replace(t) ==
  /\ call[t].pc = "replace"
  /\ LET k == call[t].target
         fits == agent[k].live /\ svc = "active" /\ ~IsClosing(call[t].caller) IN
     \/ /\ fits /\ UNCHANGED budget
        /\ handle' = [handle EXCEPT ![k] = NewChild(call[t].caller, "continuable", call[t].pool, Depth(call[t].caller) + 1, FALSE)]
        /\ res' = [res EXCEPT ![k] = @ + 1]
        /\ Go(t, "deliver")
     \/ /\ IF fits THEN FailsAt(t) ELSE UNCHANGED budget
        /\ handle' = [handle EXCEPT ![k] = None] /\ Go(t, "teardown") /\ UNCHANGED res
  /\ UNCHANGED <<svc, registry, reserved, agent, catalog, watcher, rel, stopTodo>>

\* The chain of parents Interrupt walks through the resident handles.
Ancestors(k) ==
  LET up[n \in 0..MaxDepth] ==
        IF n = 0 THEN {handle[k].parent}
        ELSE up[n - 1] \cup {handle[m].parent : m \in {m \in up[n - 1] \cap Kids : Resident(m)}}
  IN up[MaxDepth]

\* Interrupt of a live descendant of the caller, without waiting.
Interrupt(s, k) ==
  /\ MayCall(s) /\ s # k /\ svc = "active" /\ Resident(k) /\ ~handle[k].closing /\ Spend("interrupts")
  /\ s \in Ancestors(k)
  /\ agent' = [agent EXCEPT ![k] = Interrupted(@)]
  /\ call' = CutTurn(k)
  /\ UNCHANGED <<svc, registry, handle, res, reserved, catalog, watcher, rel, stopTodo>>

-----------------------------------------------------------------------------
(* Settlement: watch.                                                       *)

WatchTop(k) ==
  /\ watcher[k].pc = "top"
  /\ watcher' = [watcher EXCEPT ![k] = IF handle[k].closing THEN Idle ELSE [@ EXCEPT !.pc = "idle wait", !.stale = FALSE]]
  /\ UNCHANGED <<svc, registry, handle, res, reserved, agent, catalog, rel, call, stopTodo, budget>>

\* WhenIdle returns: the agent is idle, or its worker has exited and woke who
\* waited; with an error when the service stopped, or the agent had before.
WatchIdle(k) ==
  /\ watcher[k].pc = "idle wait"
  /\ \/ (IsIdle(k) \/ ~agent[k].live) /\ watcher' = [watcher EXCEPT ![k].pc = "events"]
     \/ (svc # "active" \/ ~agent[k].live) /\ watcher' = [watcher EXCEPT ![k] = Idle]
  /\ UNCHANGED <<svc, registry, handle, res, reserved, agent, catalog, rel, call, stopTodo, budget>>

\* The log is read first, then whether the agent still holds notices.
WatchEvents(k) ==
  /\ watcher[k].pc = "events"
  /\ watcher' = [watcher EXCEPT ![k].pc = "status", ![k].seen = agent[k].done]
  /\ UNCHANGED <<svc, registry, handle, res, reserved, agent, catalog, rel, call, stopTodo, budget>>

WatchStatus(k) ==
  /\ watcher[k].pc = "status"
  /\ watcher' = [watcher EXCEPT ![k].pc = "decide", ![k].held = agent[k].held > 0 \/ agent[k].job = "queued"]
  /\ UNCHANGED <<svc, registry, handle, res, reserved, agent, catalog, rel, call, stopTodo, budget>>

Queued(k) == watcher[k].seen < handle[k].delivered /\ watcher[k].held

WatchDecide(k) ==
  /\ watcher[k].pc = "decide"
  /\ IF watcher[k].stale
     THEN watcher' = [watcher EXCEPT ![k].pc = "top"] /\ UNCHANGED <<handle, rel>>
     ELSE IF HasContinuable(k) \/ Queued(k)
     THEN watcher' = [watcher EXCEPT ![k].pc = "parked"] /\ UNCHANGED <<handle, rel>>
     ELSE MarkClosing(k, handle[k].announced) /\ watcher' = [watcher EXCEPT ![k].pc = "releasing"]
  /\ UNCHANGED <<svc, registry, res, reserved, agent, catalog, call, stopTodo, budget>>

WatchParked(k) ==
  /\ watcher[k].pc = "parked"
  /\ \/ watcher[k].stale /\ watcher' = [watcher EXCEPT ![k].pc = "top"]
     \/ svc # "active" /\ watcher' = [watcher EXCEPT ![k] = Idle]
  /\ UNCHANGED <<svc, registry, handle, res, reserved, agent, catalog, rel, call, stopTodo, budget>>

-----------------------------------------------------------------------------
(* release: the steps of whoever marked the child closing.                  *)

ReleaseInterrupt(k) ==
  /\ rel[k].pc = "interrupt"
  /\ agent' = [agent EXCEPT ![k] = Interrupted(@)]
  /\ call' = CutTurn(k)
  /\ rel' = [rel EXCEPT ![k].pc = "list"]
  /\ UNCHANGED <<svc, registry, handle, res, reserved, catalog, watcher, stopTodo, budget>>

ReleaseList(k) ==
  /\ rel[k].pc = "list"
  /\ rel' = [rel EXCEPT ![k].pc = "children", ![k].todo = {Object(d) : d \in {d \in Kids : Resident(d) /\ handle[d].parent = k}}]
  /\ UNCHANGED <<svc, registry, handle, res, reserved, agent, catalog, watcher, call, stopTodo, budget>>

\* close of one object by release or stop: it is marked unless another path
\* is closing it already; either way the caller then waits for it.
CloseNext(o) ==
  IF Present(o) /\ ~handle[o[1]].closing
  THEN /\ handle' = [handle EXCEPT ![o[1]].closing = TRUE]
       /\ watcher' = Wake(watcher, o[1])
  ELSE UNCHANGED <<handle, watcher>>
Releasing(r, o) ==
  IF Present(o) /\ ~handle[o[1]].closing THEN [r EXCEPT ![o[1]] = Begun(FALSE)] ELSE r

\* The descendants are closed one after another.
ReleaseChild(k) ==
  /\ rel[k].pc = "children"
  /\ \/ /\ rel[k].cur = <<>>
        /\ \E o \in rel[k].todo : CloseNext(o) /\ rel' = Releasing([rel EXCEPT ![k].cur = o], o)
     \/ /\ rel[k].cur # <<>> /\ ~Present(rel[k].cur)
        /\ rel' = [rel EXCEPT ![k].todo = @ \ {rel[k].cur}, ![k].cur = <<>>] /\ UNCHANGED <<handle, watcher>>
     \/ rel[k].todo = {} /\ rel' = [rel EXCEPT ![k].pc = "unmount"] /\ UNCHANGED <<handle, watcher>>
  /\ UNCHANGED <<svc, registry, res, reserved, agent, catalog, call, stopTodo, budget>>

\* registry.Close forgets the agent, then waits for its worker, whose turn
\* waits for its calls; a registry that stopped knows no agent any more, and
\* nobody waits here.
ReleaseUnmount(k) ==
  /\ rel[k].pc = "unmount"
  /\ IF registry = "open"
     THEN /\ agent' = [agent EXCEPT ![k] = [Interrupted(@) EXCEPT !.live = FALSE]]
          /\ call' = CutTurn(k) /\ rel' = [rel EXCEPT ![k].pc = "agent"]
     ELSE call' = Cancel(JobsOf(k)) /\ rel' = [rel EXCEPT ![k].pc = "jobs"] /\ UNCHANGED agent
  /\ UNCHANGED <<svc, registry, handle, res, reserved, catalog, watcher, stopTodo, budget>>

ReleaseAgent(k) ==
  /\ rel[k].pc = "agent" /\ InTurn(k) = {} /\ Empty(agent[k])
  /\ agent' = [agent EXCEPT ![k] = Ended(@)]
  /\ call' = Cancel(JobsOf(k))
  /\ \/ rel' = [rel EXCEPT ![k].pc = "jobs"] /\ UNCHANGED budget
     \/ rel' = [rel EXCEPT ![k].pc = "jobs", ![k].failed = TRUE] /\ Spend("faults")
  /\ UNCHANGED <<svc, registry, handle, res, reserved, catalog, watcher, stopTodo>>

\* jobs.Release returned: the handle goes, and in the same critical section
\* the parent is notified and woken.
ReleaseFinish(k) ==
  /\ rel[k].pc = "jobs" /\ JobsOf(k) = {}
  /\ LET p == handle[k].parent
         told == rel[k].notice /\ svc = "active" /\ ~IsClosing(p) /\ Takes(p) IN
     /\ agent' = IF told /\ p # Root THEN [agent EXCEPT ![p] = Enqueued(@)] ELSE agent
     /\ handle' = [j \in Kids |-> IF j = k THEN None
                                  ELSE IF j = p /\ Resident(p) /\ told THEN Delivered(handle[j])
                                  ELSE handle[j]]
     /\ watcher' = LET w == [watcher EXCEPT ![k] = Idle] IN   \* it can only return now
                   IF p # Root /\ Resident(p) THEN Wake(w, p) ELSE w
  /\ rel' = [rel EXCEPT ![k] = Idle]
  /\ UNCHANGED <<svc, registry, res, reserved, catalog, call, stopTodo, budget>>

-----------------------------------------------------------------------------
(* stop.                                                                    *)

\* Registry.stop: no session has an agent any more.
RegistryStop ==
  /\ registry = "open" /\ svc = "active" /\ Spend("stops")
  /\ registry' = "closing"
  /\ UNCHANGED <<svc, handle, res, reserved, agent, catalog, watcher, rel, call, stopTodo>>

\* It closes all agents at once: each turn is cancelled when its turn comes,
\* that of the person's session too.
AgentCut(k) ==
  /\ registry = "closing" /\ agent[k].live /\ agent[k].busy /\ ~agent[k].cut
  /\ agent' = [agent EXCEPT ![k] = Interrupted(@)]
  /\ call' = CutTurn(k)
  /\ UNCHANGED <<svc, registry, handle, res, reserved, catalog, watcher, rel, stopTodo, budget>>
RootCut ==
  /\ registry = "closing" /\ \E t \in InTurn(Root) : ~call[t].bg /\ ~call[t].cancelled
  /\ call' = Cancel({t \in InTurn(Root) : ~call[t].bg})
  /\ UNCHANGED <<svc, registry, handle, res, reserved, agent, catalog, watcher, rel, stopTodo, budget>>

\* The worker of a closed agent exits, after its turn.
AgentExits(k) ==
  /\ registry = "closing" /\ agent[k].live /\ (agent[k].busy => agent[k].cut) /\ InTurn(k) = {} /\ Empty(agent[k])
  /\ agent' = [agent EXCEPT ![k] = Ended(@)]
  /\ UNCHANGED <<svc, registry, handle, res, reserved, catalog, watcher, rel, call, stopTodo, budget>>

\* Registry.stop returns: every worker, the person's too, has ended its turn.
RegistryStopped ==
  /\ registry = "closing" /\ InTurn(Root) = {} /\ \A k \in Kids : ~agent[k].live
  /\ registry' = "closed"
  /\ UNCHANGED <<svc, handle, res, reserved, agent, catalog, watcher, rel, call, stopTodo, budget>>

\* The plugins stop one after another.
Stop ==
  /\ svc = "active" /\ registry # "closing" /\ Spend("stops")
  /\ svc' = "stopping"
  /\ stopTodo' = [todo |-> {Object(k) : k \in {k \in Kids : Resident(k)}}, cur |-> <<>>,
                  depth |-> [k \in Kids |-> IF Resident(k) THEN handle[k].depth ELSE 0]]
  /\ UNCHANGED <<registry, handle, res, reserved, agent, catalog, watcher, rel, call>>

\* watchers.Wait, then every child of the snapshot, deepest first.
StopChild ==
  /\ svc = "stopping" /\ \A k \in Kids : watcher[k].pc = "idle"
  /\ \/ /\ stopTodo.cur = <<>>
        /\ \E o \in stopTodo.todo :
             /\ \A p \in stopTodo.todo : stopTodo.depth[p[1]] <= stopTodo.depth[o[1]]
             /\ CloseNext(o) /\ rel' = Releasing(rel, o)
             /\ stopTodo' = [stopTodo EXCEPT !.cur = o] /\ UNCHANGED svc
     \/ /\ stopTodo.cur # <<>> /\ ~Present(stopTodo.cur)
        /\ stopTodo' = [stopTodo EXCEPT !.todo = @ \ {stopTodo.cur}, !.cur = <<>>]
        /\ UNCHANGED <<handle, watcher, rel, svc>>
     \/ stopTodo.todo = {} /\ svc' = "stopped" /\ UNCHANGED <<handle, watcher, rel, stopTodo>>
  /\ UNCHANGED <<registry, res, reserved, agent, catalog, call, budget>>

-----------------------------------------------------------------------------
\* What the program does by itself, and what people, models and disks do to it.
CallStep == \E t \in Threads :
  \/ CreateAgent(t) \/ Publish(t) \/ Catalog(t) \/ Submit(t) \/ Accepted(t) \/ Result(t) \/ CloseChild(t) \/ Teardown(t)
  \/ DeliverUp(t) \/ DeliverDown(t) \/ DeliverElse(t) \/ WaitRelease(t) \/ Resume(t) \/ Reopen(t) \/ Replace(t)
ChildStep == \E k \in Kids :
  \/ TurnBegin(k) \/ TurnOpens(k) \/ TurnTakes(k) \/ TurnCommits(k) \/ TurnEnd(k) \/ AgentCut(k) \/ AgentExits(k)
  \/ WatchTop(k) \/ WatchIdle(k) \/ WatchEvents(k) \/ WatchStatus(k) \/ WatchDecide(k) \/ WatchParked(k)
  \/ ReleaseInterrupt(k) \/ ReleaseList(k) \/ ReleaseChild(k) \/ ReleaseUnmount(k) \/ ReleaseAgent(k) \/ ReleaseFinish(k)
Work == CallStep \/ ChildStep \/ RootCut \/ RegistryStopped \/ StopChild
Request ==
  \/ \E t \in Threads, s \in Kids \cup {Root} :
       \/ \E mode \in Modes, bg \in BOOLEAN : Start(t, s, mode, bg)
       \/ \E target \in Kids \cup {Root} : Send(t, s, target)
  \/ \E s \in Kids \cup {Root}, k \in Kids : Interrupt(s, k)
  \/ \E t \in Threads : CancelCall(t)
  \/ \E k \in Kids : JobNotice(k)
  \/ RegistryStop \/ Stop
Next == Work \/ Request
Spec == Init /\ [][Next]_vars

-----------------------------------------------------------------------------
\* A pool never holds more than its limit, counting the creations that have a
\* slot reserved and the placeholders of children being resumed (reserve,
\* publish, resume, replace).
PoolBounded == \A p \in Kids \cup {Root} : Used(p) <= budget.active

\* No agent is left without an owner: a live child has its handle, or the call
\* that created or resumed it is still going to publish or tear it down, or the
\* registry's stop waits for it; as long as the registry has not stopped, a
\* handle that is not closing has a live agent, and while the service is active
\* a child that took a delivery has a watcher that will settle it.
ChildOwned == \A k \in Kids :
  /\ agent[k].live => \/ Resident(k) /\ ~handle[k].ph
                      \/ \E t \in Threads : call[t].pc \in {"publish", "replace", "teardown"} /\ call[t].obj[1] = k
                      \/ registry = "closing"
  /\ registry = "open" /\ Resident(k) /\ ~handle[k].closing =>
       agent[k].live /\ (handle[k].announced /\ svc = "active" => watcher[k].pc # "idle")

\* Both at once, in every order of creations, resumptions, releases, the stop of
\* the registry and that of the service (publish, replace, acceptedLocked,
\* reserve): within the limit and owned.
ChildrenKept == PoolBounded /\ ChildOwned

\* Where a message of the service can be once the agent accepted it.
Received(a) == a.held + a.hand + a.done + a.lost

\* The count the watcher compares with the log is exact: what the service
\* delivered to a resident child is in its inbox, in the hands of its turn, in
\* its log, or was lost with an append of its turn that failed, and each in one
\* place only (deliveredLocked, claimWake, drainNotices, appendUserMessages).
DeliveredAccounted == \A k \in Kids :
  Resident(k) /\ ~handle[k].closing /\ agent[k].live => handle[k].delivered = Received(agent[k])

\* A watcher decides to release only a child that has no message of the service
\* left in its inbox and no continuable child, whatever was delivered while it
\* looked.  A turn that a job's notice opened meanwhile may still have one in
\* its hands; when the worker has exited, every message is in the log unless an
\* append failed: none is dropped with the inbox (watch, claimWake, restoreNotice).
SettlesOnlyWhenDone ==
  [][\A k \in Kids :
       /\ watcher[k].pc = "decide" /\ watcher'[k].pc = "releasing" => agent[k].held = 0 /\ ~HasContinuable(k)
       /\ watcher[k].pc = "releasing" /\ rel[k].pc = "agent" /\ rel'[k].pc = "jobs" =>
            handle[k].delivered = agent[k].done + agent[k].lost]_vars

\* When the program has no step left, no call, release or stop is under way.
NothingWaits ==
  ~ENABLED Work => /\ \A t \in Threads : call[t].pc = "idle"
                   /\ \A k \in Kids : rel[k].pc = "idle"
                   /\ registry # "closing" /\ svc # "stopping"

\* Once the calls are over no slot is reserved, and once stop has returned too,
\* no child agent and no handle is left.
NothingOwed ==
  (\A t \in Threads : call[t].pc = "idle") =>
    /\ \A p \in Kids \cup {Root} : reserved[p] = 0
    /\ svc = "stopped" => \A k \in Kids : ~agent[k].live /\ ~Resident(k)

\* Nothing waits for ever and nothing is left behind, whatever order calls,
\* releases and the stops of the registry and of the service come in (close,
\* release, stop, the deferred unreserve).
NothingLeft == NothingWaits /\ NothingOwed

\* "once it is idle, no delivery arrived during the idle wait, its log holds
\* every message delivered to it, and it has no continuable children, the
\* watcher releases it" (watch): a parked watcher nobody woke has a reason.
ParkedHasReason == \A k \in Kids :
  watcher[k].pc = "parked" /\ ~watcher[k].stale /\ Resident(k) =>
    HasContinuable(k) \/ ~IsIdle(k) \/ agent[k].done < handle[k].delivered \/ handle[k].closing \/ svc # "active" \/ registry # "open"
=============================================================================
