--------------------------- MODULE SubagentProofs ---------------------------
(***************************************************************************)
(* What every step of Subagent keeps, for every set of sessions, every     *)
(* depth and every bound.  SubInv joins the types, what each call under    *)
(* way carries and holds (CallsKept), the tree of resident children with   *)
(* their owners, watchers and releases (Tree), the exact count of          *)
(* deliveries (Settling), the reservations and the limit of the pools, and *)
(* what stop still has to close.  Every clause that a stop of the agent    *)
(* registry breaks, since it ends agents whose children stay resident, is  *)
(* stated for an open registry only.                                       *)
(*                                                                         *)
(* StepKept: a step keeps SubInv, provided no worker between turns has a   *)
(* notice in its hands.  That, what a watcher may conclude, and the        *)
(* theorems about the specification are in SubagentSettleProofs.           *)
(***************************************************************************)
EXTENDS Subagent, FiniteSetTheorems, TLAPS

-----------------------------------------------------------------------------
(* Types.                                                                  *)

Pools == Kids \cup {Root}
Objects == Kids \X Nat

Agents ==
  [live : BOOLEAN, busy : BOOLEAN, stage : {"begun", "opened", "drained", "over"}, cut : BOOLEAN, woken : BOOLEAN,
   task : BOOLEAN, ended : BOOLEAN, held : Nat, hand : Nat, lost : Nat, done : Nat,
   job : {"none", "queued", "hand", "owed"}, ahead : Nat, mode : Modes \cup {None}, parent : Pools \cup {None}, depth : Nat]

Watchers ==
  [pc : {"top", "idle wait", "events", "status", "decide", "parked", "releasing"},
   stale : BOOLEAN, seen : Nat, held : BOOLEAN]

Releases ==
  [pc : {"interrupt", "list", "children", "unmount", "agent", "jobs"}, notice : BOOLEAN,
   todo : SUBSET Objects, cur : Objects \cup {<<>>}, failed : BOOLEAN]

Creating == {"publish", "catalog", "submit", "accept", "result", "close"}
Delivering == {"deliver", "wait", "resume", "drop"}
Writing == Delivering \cup {"reopen", "replace"}

Calls ==
  [pc : {"create", "teardown"} \cup Creating \cup Writing, caller : Pools, mode : Modes \cup {None},
   bg : BOOLEAN, started : BOOLEAN, pool : Pools \cup {None}, obj : Objects \cup {<<>>},
   target : Pools \cup {None}, cancelled : BOOLEAN]

Bounds == [active : Nat, sessions : Nat, stops : Nat, calls : Nat, jobs : Nat, interrupts : Nat, faults : Nat]

TypedChildren ==
  /\ handle \in [Kids -> Child \cup {None}]
  /\ res \in [Kids -> Nat]
  /\ agent \in [Kids -> Agents]
  /\ watcher \in [Kids -> Watchers \cup {Idle}]
  /\ rel \in [Kids -> Releases \cup {Idle}]
  /\ call \in [Threads -> Calls \cup {Idle}]
  /\ catalog \in [Pools -> SUBSET (Kids \X Modes)]

TypedRest ==
  /\ svc \in {"active", "stopping", "stopped"} /\ registry \in {"open", "closing", "closed"}
  /\ reserved \in [Pools -> Nat]
  /\ stopTodo \in [todo : SUBSET Objects, cur : Objects \cup {<<>>}, depth : [Kids -> Nat]]
  /\ budget \in Bounds

-----------------------------------------------------------------------------
(* The calls under way.                                                    *)

\* A call that creates a child, past its first step; a call that sends a message.
Creates(c) == c.pc \in Creating \/ (c.pc = "teardown" /\ c.mode # None)
Writes(c) == c.pc \in Writing \/ (c.pc = "teardown" /\ c.mode = None)
Reopens(c) == c.pc \in {"reopen", "replace"}
Holds(c) == c.pc \in {"publish", "replace", "teardown"}

Named(k, cat) == \E p \in Pools, m \in Modes : <<k, m>> \in cat[p]

\* What a call carries at each of its steps; n are the residencies so far.
CallShape(c, n) ==
  /\ c.pc = "create" \/ c.pc \in Creating => c.mode # None
  /\ (c.pc = "create" \/ c.pc \in Creating) /\ c.mode = "continuable" => c.pool # None
  /\ Reopens(c) => c.pool # None
  /\ c.pc \in Writing => c.mode = None /\ c.target # None
  /\ Creates(c) => c.obj \in Objects /\ c.obj[2] = 1 /\ n[c.obj[1]] > 0
  /\ Writes(c) /\ c.target \in Kids => n[c.target] > 0
  /\ Reopens(c) \/ (c.pc = "teardown" /\ c.mode = None) => c.obj \in Objects /\ c.target = c.obj[1]
  /\ c.pc = "drop" => c.obj \in Objects

\* No two calls create, or bring back, the same child; nobody writes to a child
\* whose creation is not over.
Apart(c, d) ==
  /\ Creates(c) /\ Creates(d) => c.obj[1] # d.obj[1]
  /\ Creates(c) /\ Writes(d) => d.target # c.obj[1]
  /\ Creates(d) /\ Writes(c) => c.target # d.obj[1]
  /\ Reopens(c) /\ Reopens(d) => c.target # d.target
  /\ Holds(c) /\ Holds(d) => c.obj[1] # d.obj[1]

\* The agent a call holds before it is published has done nothing yet, and the
\* registry g has it unless it stopped.
Fresh(a, g) ==
  /\ g = "open" => a.live
  /\ ~a.busy /\ ~a.task /\ ~a.woken /\ ~a.ended /\ a.held = 0 /\ a.hand = 0 /\ a.done = 0 /\ a.lost = 0

\* The child of a call: an agent nobody else has, or the placeholder of its resumption.
CallHolds(c, h, a, cat, g) ==
  /\ Holds(c) => Fresh(a[c.obj[1]], g)
  /\ c.pc = "publish" => h[c.obj[1]] = None /\ ~Named(c.obj[1], cat)
  /\ c.pc = "teardown" /\ h[c.obj[1]] # None => h[c.obj[1]].ph
  /\ Reopens(c) => /\ h[c.target] # None /\ h[c.target].ph
                   /\ h[c.target].pool = c.pool /\ h[c.target].parent = c.caller

\* A child is resident as long as one of its calls is under way and the registry
\* is there to wait for its worker.
CallerThere(c, h, r, g) ==
  g = "open" /\ c.pc # "idle" /\ c.caller \in Kids =>
    h[c.caller] # None /\ ~h[c.caller].ph /\ (r[c.caller].pc = "jobs" => c.bg)

Shaped == \A t \in Threads : CallShape(call[t], res)
AllApart == \A t, u \in Threads : t # u => Apart(call[t], call[u])
Holding == \A t \in Threads : CallHolds(call[t], handle, agent, catalog, registry)
CallersThere == \A t \in Threads : CallerThere(call[t], handle, rel, registry)

CallsKept == Shaped /\ AllApart /\ Holding /\ CallersThere

-----------------------------------------------------------------------------
(* The children.                                                           *)

\* A child that is resident for good, not a placeholder.
Housed(h) == h # None /\ ~h.ph
Vacant(h) == h # None /\ h.ph

\* A placeholder belongs to the call that resumes the child.
ReopenedBy(k, c) == \E t \in Threads : Reopens(c[t]) /\ c[t].target = k
Placeholder(k, h, n, c) == Vacant(h) => h.closing /\ n > 1 /\ ReopenedBy(k, c)
Placeholders == \A k \in Kids : Placeholder(k, handle[k], res[k], call)

Numbered == \A k \in Kids : handle[k] # None \/ Named(k, catalog) => res[k] > 0

\* A continuable child has a pool.
HasPool(h) == h # None /\ h.mode = "continuable" => h.pool # None
Pooled == \A k \in Kids : HasPool(handle[k])

\* The watcher and the release of a child run while it is resident.
AttendedBy(h, w, r, a, g) ==
  /\ w.pc # "idle" => Housed(h)
  /\ r.pc # "idle" => Housed(h) /\ h.closing
  /\ r.pc = "agent" => ~a.live
  /\ g = "open" /\ r.pc = "jobs" => ~a.live /\ ~a.busy
Attended == \A k \in Kids : AttendedBy(handle[k], watcher[k], rel[k], agent[k], registry)

Parented == \A k \in Kids :
  registry = "open" /\ handle[k] # None /\ handle[k].parent \in Kids => Housed(handle[handle[k].parent])

\* The release r of the child k knows every child d, of residency n, it has to close first.
ListedIn(k, r, d, h, n, g) ==
  g = "open" /\ Housed(h) /\ h.parent = k =>
    /\ r.pc \notin {"unmount", "agent", "jobs"}
    /\ r.pc = "children" => <<d, n>> \in r.todo
Listed == \A k, d \in Kids : ListedIn(k, rel[k], d, handle[d], res[d], registry)

HeldBy(k, c) == \E t \in Threads : Holds(c[t]) /\ c[t].obj[1] = k
OwnedBy(k, h, a, c, g) == a.live => g # "closed" /\ (Housed(h) \/ HeldBy(k, c) \/ g = "closing")
Owned == \A k \in Kids : OwnedBy(k, handle[k], agent[k], call, registry)

Tree == Placeholders /\ Numbered /\ Pooled /\ Attended /\ Parented /\ Listed /\ Owned

-----------------------------------------------------------------------------
(* Settlement, the pools and stop.                                         *)

\* What holds of a child that is resident and not closing: as long as the
\* registry has not stopped its agent lives and a watcher runs once it took a
\* delivery; the count of deliveries is exact.
Settled(s, g, h, a, w) ==
  h # None /\ ~h.closing =>
    /\ g = "open" => a.live
    /\ g = "open" /\ s = "active" => (h.announced => h.watched) /\ (h.watched => w.pc # "idle")
    /\ a.live => h.delivered = Received(a)
Settling == \A k \in Kids : Settled(svc, registry, handle[k], agent[k], watcher[k])

\* Every reservation is that of a creation under way.
Reserves(c, p) == c.pc \in {"create", "publish"} /\ c.pool = p
ReservedExact == \A p \in Pools : reserved[p] = Cardinality({t \in Threads : Reserves(call[t], p)})

\* Stop knows every child it has to close.
StopKnows(s, todo, d, h, n) ==
  Housed(h) => s # "stopped" /\ (s = "stopping" => <<d, n>> \in todo)
StopListed == \A d \in Kids : StopKnows(svc, stopTodo.todo, d, handle[d], res[d])

\* The service stops before the registry begins to, or after it has.
StopsInTurn == svc # "active" => registry # "closing"

\* Between turns the worker has nothing in its hands.
Hands(a) == ~a.busy => Empty(a)

Typed == TypedChildren /\ TypedRest
SubInv == Typed /\ CallsKept /\ Tree /\ Settling /\ ReservedExact /\ PoolBounded /\ StopListed

-----------------------------------------------------------------------------
(* The constants, and what the types give.                                 *)

LEMMA Ground ==
  /\ Root \notin Kids /\ None \notin Pools /\ None \notin Modes /\ None \notin Child
  /\ Kids \subseteq Pools /\ IsFiniteSet(Kids) /\ IsFiniteSet(Threads) /\ MaxDepth \in Nat
<1>1. Len(Ids) \in Nat /\ IsFiniteSet(1..Len(Ids))
  BY SubagentAssumption, FS_Interval
<1>2. IsFiniteSet(Kids)
  <2> DEFINE F == [i \in 1..Len(Ids) |-> Ids[i]]
  <2>1. F \in Surjection(1..Len(Ids), Kids)
    BY DEF Kids, Surjection
  <2> QED  BY <1>1, <2>1, FS_Surjection
<1> QED  BY <1>2, SubagentAssumption DEF Pools

\* A handle is a record or nothing, a call a record or idle.
LEMMA HandleIs == ASSUME NEW h \in Child \cup {None}, h # None PROVE h \in Child
OBVIOUS

LEMMA CallIs == ASSUME NEW c \in Calls \cup {Idle}, c.pc # "idle" PROVE c \in Calls
BY DEF Idle

LEMMA CallNotIdle == ASSUME NEW c \in Calls PROVE c.pc # "idle"
BY DEF Calls, Creating, Writing, Delivering

LEMMA PlaceholderIs ==
  ASSUME NEW s \in Pools, NEW p \in Pools
  PROVE  /\ NewChild(s, "continuable", p, 0, TRUE) \in Child /\ NewChild(s, "continuable", p, 0, TRUE) # None
         /\ NewChild(s, "continuable", p, 0, TRUE).ph /\ NewChild(s, "continuable", p, 0, TRUE).closing
         /\ NewChild(s, "continuable", p, 0, TRUE).parent = s /\ NewChild(s, "continuable", p, 0, TRUE).pool = p
<1>1. NewChild(s, "continuable", p, 0, TRUE) \in Child
  BY DEF NewChild, Child, Pools, Modes
<1> QED  BY <1>1, Ground DEF NewChild

-----------------------------------------------------------------------------
(* Steps that create no child, give none up and change no residency.       *)

Follows(c, d) ==
  \/ d = Idle
  \/ /\ d.pc = "drop" => d.obj \in Objects \/ (c.pc = "drop" /\ d.obj = c.obj)
     /\ d.caller = c.caller /\ d.mode = c.mode /\ d.target = c.target /\ d.bg = c.bg /\ d.pool = c.pool
     /\ \/ {c.pc, d.pc} \subseteq Delivering
        \/ /\ d.obj = c.obj
           /\ \/ d.pc = c.pc
              \/ {c.pc, d.pc} \subseteq Creating /\ d.pc # "publish"
              \/ Holds(c) /\ d.pc = "teardown"

\* A call that holds a reservation, an agent or a placeholder stays where it is.
Pinned(c) == c.pc \in {"create", "publish", "reopen", "replace", "teardown"}
Quietly(c, d) == Follows(c, d) /\ (Pinned(c) => d.pc = c.pc)

Stays(h, g) ==
  /\ g = None <=> h = None
  /\ h # None => /\ g.ph = h.ph /\ g.parent = h.parent /\ g.mode = h.mode /\ g.pool = h.pool
                 /\ h.closing => g.closing

LEMMA PlaceholderStays ==
  ASSUME NEW h, NEW g, Stays(h, g), h # None, h.ph
  PROVE  g # None /\ g.ph /\ g.pool = h.pool /\ g.parent = h.parent
BY DEF Stays

AgentStays(a, b, held) ==
  /\ b.live => a.live
  /\ held /\ Fresh(a, registry) => Fresh(b, registry')
  /\ ~a.live /\ ~a.busy => ~b.busy

\* The release of a closing child goes on only when what it has to wait for is over.
ReleaseMoves(k) ==
  /\ Housed(handle'[k]) /\ handle'[k].closing
  /\ registry' = "open" /\ rel'[k].pc = "children" =>
       \A d \in Kids : Housed(handle[d]) /\ handle[d].parent = k => <<d, res[d]>> \in rel'[k].todo
  /\ registry' = "open" /\ rel'[k].pc \in {"unmount", "agent", "jobs"} =>
       \A d \in Kids : Housed(handle[d]) => handle[d].parent # k
  /\ rel'[k].pc = "agent" => ~agent'[k].live
  /\ registry' = "open" /\ rel'[k].pc = "jobs" =>
                            /\ ~agent'[k].live /\ ~agent'[k].busy
                            /\ \A t \in Threads : call[t].pc # "idle" /\ call[t].caller = k => call[t].bg
ReleaseStays(k) == rel'[k] = rel[k] \/ ReleaseMoves(k)
WatcherStays(w, v, g) == v.pc = "idle" \/ w.pc # "idle" \/ Housed(g)

CallsQuiet == \A t \in Threads : Quietly(call[t], call'[t])
HandlesStay == \A k \in Kids : Stays(handle[k], handle'[k])
AgentsStay == \A k \in Kids : AgentStays(agent[k], agent'[k], HeldBy(k, call))

Quiet ==
  /\ CallsQuiet /\ HandlesStay /\ AgentsStay
  /\ \A k \in Kids : ReleaseStays(k)
  /\ \A k \in Kids : WatcherStays(watcher[k], watcher'[k], handle'[k])
  /\ res' = res /\ catalog' = catalog /\ reserved' = reserved /\ budget'.active = budget.active
  /\ \/ registry' = registry
     \/ registry = "open" /\ registry' = "closing"
     \/ registry = "closing" /\ registry' = "closed" /\ \A k \in Kids : ~agent'[k].live

LEMMA ShapeFollows ==
  ASSUME NEW n, NEW m, NEW c \in Calls \cup {Idle}, NEW d \in Calls \cup {Idle},
         CallShape(c, n), Follows(c, d), \A k \in Kids : n[k] \in Nat /\ m[k] \in Nat /\ m[k] >= n[k]
  PROVE  CallShape(d, m)
<1>1. CASE d = Idle
  BY <1>1 DEF CallShape, Idle, Creates, Writes, Reopens, Creating, Writing, Delivering
<1>2. CASE d # Idle
  <2>1. /\ d.mode = c.mode /\ d.target = c.target /\ d.pool = c.pool
        /\ \/ {c.pc, d.pc} \subseteq Delivering
           \/ d.obj = c.obj /\ (d.pc = c.pc \/ {c.pc, d.pc} \subseteq Creating \/ (Holds(c) /\ d.pc = "teardown"))
    BY <1>2 DEF Follows
  <2>2. d.pc = "create" \/ d.pc \in Creating => d.mode # None
    BY <2>1 DEF CallShape, Creating, Delivering
  <2>3. d.pc \in Writing => d.mode = None /\ d.target # None
    BY <2>1 DEF CallShape, Creating, Writing, Delivering
  <2>4. Creates(d) => Creates(c) /\ d.obj = c.obj
    BY <2>1 DEF CallShape, Creates, Creating, Writing, Delivering, Holds
  <2>5. Creates(d) => d.obj \in Objects /\ d.obj[2] = 1 /\ m[d.obj[1]] > 0
    <3> SUFFICES ASSUME Creates(d) PROVE d.obj \in Objects /\ d.obj[2] = 1 /\ m[d.obj[1]] > 0  OBVIOUS
    <3>1. d.obj \in Objects /\ d.obj[2] = 1 /\ n[d.obj[1]] > 0
      BY <2>4 DEF CallShape
    <3>2. d.obj[1] \in Kids
      BY <3>1 DEF Objects
    <3> QED  BY <3>1, <3>2
  <2>6. Writes(d) => Writes(c)
    BY <2>1 DEF CallShape, Writes, Creating, Writing, Delivering, Holds
  <2>7. Writes(d) /\ d.target \in Kids => m[d.target] > 0
    BY <2>1, <2>6 DEF CallShape
  <2>8. Reopens(d) \/ (d.pc = "teardown" /\ d.mode = None) => d.obj \in Objects /\ d.target = d.obj[1]
    BY <2>1 DEF CallShape, Reopens, Creating, Delivering, Holds
  <2>9. (d.pc = "create" \/ d.pc \in Creating) /\ d.mode = "continuable" => d.pool # None
    BY <2>1 DEF CallShape, Creating, Delivering
  <2>10. Reopens(d) => d.pool # None
    <3>1. Reopens(d) => Reopens(c) /\ d.pool = c.pool
      BY <2>1 DEF Reopens, Creating, Delivering
    <3> QED  BY <3>1 DEF CallShape
  <2>11. d.pc = "drop" => d.obj \in Objects
    BY <1>2 DEF Follows, CallShape
  <2> QED  BY <2>2, <2>3, <2>5, <2>7, <2>8, <2>9, <2>10, <2>11 DEF CallShape
<1> QED  BY <1>1, <1>2

\* What the shape of a call says of a call that follows it.
LEMMA KindFollows ==
  ASSUME NEW n, NEW c \in Calls \cup {Idle}, NEW d \in Calls \cup {Idle}, CallShape(c, n), Follows(c, d)
  PROVE  /\ Creates(d) => Creates(c) /\ d.obj = c.obj
         /\ Writes(d) => Writes(c) /\ d.target = c.target
         /\ Reopens(d) => Reopens(c) /\ d.target = c.target
         /\ Holds(d) => Holds(c) /\ d.obj = c.obj
<1>1. CASE d = Idle
  BY <1>1 DEF Idle, Creates, Writes, Reopens, Holds, Creating, Writing, Delivering
<1>2. CASE d # Idle
  BY <1>2 DEF Follows, CallShape, Creates, Writes, Reopens, Holds, Creating, Writing, Delivering
<1> QED  BY <1>1, <1>2

LEMMA ApartFollows ==
  ASSUME NEW n, NEW c1, NEW d1, NEW c2, NEW d2,
         c1 \in Calls \cup {Idle}, d1 \in Calls \cup {Idle}, CallShape(c1, n), Follows(c1, d1),
         c2 \in Calls \cup {Idle}, d2 \in Calls \cup {Idle}, CallShape(c2, n), Follows(c2, d2), Apart(c1, c2)
  PROVE  Apart(d1, d2)
<1>1. /\ Creates(d1) => Creates(c1) /\ d1.obj = c1.obj
      /\ Writes(d1) => Writes(c1) /\ d1.target = c1.target
      /\ Reopens(d1) => Reopens(c1) /\ d1.target = c1.target
      /\ Holds(d1) => Holds(c1) /\ d1.obj = c1.obj
  BY KindFollows
<1>2. /\ Creates(d2) => Creates(c2) /\ d2.obj = c2.obj
      /\ Writes(d2) => Writes(c2) /\ d2.target = c2.target
      /\ Reopens(d2) => Reopens(c2) /\ d2.target = c2.target
      /\ Holds(d2) => Holds(c2) /\ d2.obj = c2.obj
  BY KindFollows
<1> QED  BY <1>1, <1>2 DEF Apart
LEMMA QuietCalls ==
  ASSUME TypedChildren, TypedChildren', CallsKept, Quiet
  PROVE  CallsKept'
<1>1. \A t \in Threads : call[t] \in Calls \cup {Idle} /\ call'[t] \in Calls \cup {Idle}
  BY DEF TypedChildren
<1>2. \A k \in Kids : res[k] \in Nat /\ res'[k] \in Nat /\ res'[k] >= res[k]
  BY DEF TypedChildren, Quiet
<1>3. \A t \in Threads : CallShape(call[t], res) /\ Follows(call[t], call'[t])
  BY DEF CallsKept, Shaped, Quiet, CallsQuiet, Quietly
<1>4. Shaped'
  BY <1>1, <1>2, <1>3, ShapeFollows DEF Shaped
<1>5. AllApart'
  <2> SUFFICES ASSUME NEW t \in Threads, NEW u \in Threads, t # u PROVE Apart(call'[t], call'[u])
    BY DEF AllApart
  <2>1. Apart(call[t], call[u])
    BY DEF CallsKept, AllApart
  <2> QED  BY <1>1, <1>3, <2>1, ApartFollows
<1>6. Holding'
  <2> SUFFICES ASSUME NEW t \in Threads PROVE CallHolds(call'[t], handle', agent', catalog', registry')
    BY DEF Holding
  <2> DEFINE c == call[t]
             d == call'[t]
  <2>1. c \in Calls \cup {Idle} /\ d \in Calls \cup {Idle} /\ CallShape(c, res) /\ Quietly(c, d)
    BY <1>1, <1>3 DEF Quiet, CallsQuiet
  <2>2. CallHolds(c, handle, agent, catalog, registry)
    BY DEF CallsKept, Holding
  <2>3. \A k \in Kids : Stays(handle[k], handle'[k]) /\ AgentStays(agent[k], agent'[k], HeldBy(k, call))
    BY DEF Quiet, HandlesStay, AgentsStay
  <2>4. catalog' = catalog
    BY DEF Quiet
  <2> HIDE DEF c, d
  <2>5. CASE Holds(d)
    <3>1. Holds(c) /\ d.pc = c.pc /\ d.obj = c.obj
      BY <2>1, <2>5, KindFollows DEF Quietly, Pinned, Holds
    <3>2. c.obj \in Objects /\ c.obj[1] \in Kids /\ (Reopens(c) => c.target = c.obj[1])
      BY <2>1, <3>1, Ground DEF CallShape, Holds, Creates, Creating, Writing, Reopens, Objects
    <3> DEFINE k == c.obj[1]
    <3>3. Fresh(agent[k], registry) /\ HeldBy(k, call)
      BY <2>2, <3>1, <3>2 DEF CallHolds, HeldBy, c
    <3>4. Fresh(agent'[k], registry')
      BY <2>3, <3>2, <3>3 DEF AgentStays
    <3>5. Stays(handle[k], handle'[k])
      BY <2>3, <3>2
    <3>6. d.pc = "publish" => handle'[k] = None /\ ~Named(k, catalog')
      BY <2>2, <2>4, <3>1, <3>5 DEF CallHolds, Stays
    <3>7. d.pc = "teardown" /\ handle'[k] # None => handle'[k].ph
      BY <2>2, <3>1, <3>5 DEF CallHolds, Stays
    <3>8. Reopens(d) => Reopens(c) /\ d.target = k /\ d.pool = c.pool /\ d.caller = c.caller
      BY <2>1, <3>1, <3>2 DEF Quietly, Follows, Reopens, Idle
    <3>9. Reopens(d) => handle'[k] # None /\ handle'[k].ph /\ handle'[k].pool = d.pool /\ handle'[k].parent = d.caller
      BY <2>2, <3>2, <3>5, <3>8 DEF CallHolds, Stays
    <3> QED  BY <3>1, <3>4, <3>6, <3>7, <3>8, <3>9 DEF CallHolds, d
  <2>6. CASE ~Holds(d) /\ Reopens(d)
    <3>1. Reopens(c) /\ d.pc = c.pc /\ d.target = c.target /\ d.pool = c.pool /\ d.caller = c.caller
      BY <2>1, <2>6, KindFollows DEF Quietly, Pinned, Reopens, Follows, Idle
    <3>2. c.target \in Kids
      BY <2>1, <3>1 DEF CallShape, Objects
    <3>3. Stays(handle[c.target], handle'[c.target])
      BY <2>3, <3>2
    <3> QED  BY <2>2, <2>6, <3>1, <3>3 DEF CallHolds, Stays, Holds, Reopens, d
  <2>7. CASE ~Holds(d) /\ ~Reopens(d)
    BY <2>7 DEF CallHolds, Holds, Reopens, d
  <2> QED  BY <2>5, <2>6, <2>7 DEF d
<1>7. CallersThere'
  <2> SUFFICES ASSUME NEW t \in Threads, registry' = "open", call'[t].pc # "idle", call'[t].caller \in Kids
               PROVE  /\ handle'[call'[t].caller] # None /\ ~handle'[call'[t].caller].ph
                      /\ rel'[call'[t].caller].pc = "jobs" => call'[t].bg
    BY DEF CallersThere, CallerThere
  <2>1. call'[t].caller = call[t].caller /\ call'[t].bg = call[t].bg /\ call[t].pc # "idle"
    BY <1>3 DEF Follows, Idle, Delivering, Creating, Holds
  <2> DEFINE k == call[t].caller
  <2>0. registry = "open"
    BY DEF Quiet
  <2>2. handle[k] # None /\ ~handle[k].ph /\ (rel[k].pc = "jobs" => call[t].bg)
    BY <2>0, <2>1 DEF CallsKept, CallersThere, CallerThere
  <2>3. Stays(handle[k], handle'[k]) /\ ReleaseStays(k)
    BY <2>1 DEF Quiet, HandlesStay
  <2>4. rel'[k].pc = "jobs" => rel[k].pc = "jobs" \/ call[t].bg
    BY <2>1, <2>3 DEF ReleaseStays, ReleaseMoves
  <2> QED  BY <2>1, <2>2, <2>3, <2>4 DEF Stays
<1> QED  BY <1>4, <1>5, <1>6, <1>7 DEF CallsKept

LEMMA QuietTree ==
  ASSUME TypedChildren, TypedChildren', CallsKept, Tree, Quiet
  PROVE  Tree'
<1>1. \A k \in Kids : Stays(handle[k], handle'[k]) /\ AgentStays(agent[k], agent'[k], HeldBy(k, call))
  BY DEF Quiet, HandlesStay, AgentsStay
<1>2. \A k \in Kids : ReleaseStays(k) /\ WatcherStays(watcher[k], watcher'[k], handle'[k])
  BY DEF Quiet
<1>3. \A t \in Threads : /\ Reopens(call[t]) => Reopens(call'[t]) /\ call'[t].target = call[t].target
                         /\ Holds(call[t]) => Holds(call'[t]) /\ call'[t].obj = call[t].obj
  BY DEF Quiet, CallsQuiet, Quietly, Pinned, Reopens, Holds, Follows, Idle, Delivering
<1>4. Placeholders'
  <2> SUFFICES ASSUME NEW k \in Kids, handle'[k] # None, handle'[k].ph
               PROVE  handle'[k].closing /\ res'[k] > 1 /\ ReopenedBy(k, call')
    BY DEF Placeholders, Placeholder, Vacant
  <2>1. handle[k] # None /\ handle[k].ph /\ (handle[k].closing => handle'[k].closing)
    BY <1>1 DEF Stays
  <2>2. handle[k].closing /\ res[k] > 1 /\ ReopenedBy(k, call)
    BY <2>1 DEF Tree, Placeholders, Placeholder, Vacant
  <2>3. ReopenedBy(k, call')
    BY <2>2, <1>3 DEF ReopenedBy
  <2> QED  BY <2>1, <2>2, <2>3 DEF Quiet
<1>5. Numbered'
  BY <1>1 DEF Tree, Numbered, Quiet, Stays
<1>6. Attended'
  <2> SUFFICES ASSUME NEW k \in Kids PROVE AttendedBy(handle'[k], watcher'[k], rel'[k], agent'[k], registry')
    BY DEF Attended
  <2>1. AttendedBy(handle[k], watcher[k], rel[k], agent[k], registry)
    BY DEF Tree, Attended
  <2>2. Housed(handle[k]) => Housed(handle'[k]) /\ (handle[k].closing => handle'[k].closing)
    BY <1>1 DEF Stays, Housed
  <2>3. AgentStays(agent[k], agent'[k], HeldBy(k, call))
    BY <1>1
  <2>4. ReleaseStays(k) /\ WatcherStays(watcher[k], watcher'[k], handle'[k])
    BY <1>2
  <2>5. watcher'[k].pc # "idle" => Housed(handle'[k])
    BY <2>1, <2>2, <2>4 DEF AttendedBy, WatcherStays
  <2>6. rel'[k].pc # "idle" => Housed(handle'[k]) /\ handle'[k].closing
    BY <2>1, <2>2, <2>4 DEF AttendedBy, ReleaseStays, ReleaseMoves
  <2>7. agent[k] \in Agents /\ agent'[k] \in Agents
    BY DEF TypedChildren
  <2>8. rel'[k].pc = "agent" => ~agent'[k].live
    BY <2>1, <2>3, <2>4, <2>7 DEF AttendedBy, AgentStays, ReleaseStays, ReleaseMoves
  <2>9. registry' = "open" /\ rel'[k].pc = "jobs" => ~agent'[k].live /\ ~agent'[k].busy
    <3>1. registry' = "open" => registry = "open"
      BY DEF Quiet
    <3> QED  BY <3>1, <2>1, <2>3, <2>4, <2>7 DEF AttendedBy, AgentStays, ReleaseStays, ReleaseMoves
  <2> QED  BY <2>5, <2>6, <2>8, <2>9 DEF AttendedBy
<1>7. Parented'
  <2> SUFFICES ASSUME NEW k \in Kids, registry' = "open", handle'[k] # None, handle'[k].parent \in Kids
               PROVE  Housed(handle'[handle'[k].parent])
    BY DEF Parented
  <2>0. registry = "open"
    BY DEF Quiet
  <2>1. handle[k] # None /\ handle'[k].parent = handle[k].parent
    BY <1>1 DEF Stays
  <2>2. Housed(handle[handle[k].parent])
    BY <2>0, <2>1 DEF Tree, Parented
  <2> QED  BY <1>1, <2>1, <2>2 DEF Housed, Stays
<1>8. Listed'
  <2> SUFFICES ASSUME NEW k \in Kids, NEW d \in Kids, registry' = "open", Housed(handle'[d]), handle'[d].parent = k
               PROVE  /\ rel'[k].pc \notin {"unmount", "agent", "jobs"}
                      /\ rel'[k].pc = "children" => <<d, res'[d]>> \in rel'[k].todo
    BY DEF Listed, ListedIn
  <2>0. registry = "open"
    BY DEF Quiet
  <2>1. Housed(handle[d]) /\ handle[d].parent = k
    BY <1>1 DEF Stays, Housed
  <2>2. ListedIn(k, rel[k], d, handle[d], res[d], registry)
    BY DEF Tree, Listed
  <2>3. ReleaseStays(k) /\ res'[d] = res[d]
    BY <1>2 DEF Quiet
  <2> QED  BY <2>0, <2>1, <2>2, <2>3 DEF ListedIn, ReleaseStays, ReleaseMoves
<1>9. Owned'
  <2> SUFFICES ASSUME NEW k \in Kids, agent'[k].live
               PROVE  registry' # "closed" /\ (Housed(handle'[k]) \/ HeldBy(k, call') \/ registry' = "closing")
    BY DEF Owned, OwnedBy
  <2>1. agent[k].live
    BY <1>1 DEF AgentStays
  <2>2. registry # "closed" /\ (Housed(handle[k]) \/ HeldBy(k, call) \/ registry = "closing")
    BY <2>1 DEF Tree, Owned, OwnedBy
  <2>3. registry' = registry \/ registry' = "closing"
    BY DEF Quiet
  <2>4. Housed(handle[k]) => Housed(handle'[k])
    BY <1>1 DEF Housed, Stays
  <2>5. HeldBy(k, call) => HeldBy(k, call')
    BY <1>3 DEF HeldBy
  <2> QED  BY <2>2, <2>3, <2>4, <2>5
<1>10. Pooled'
  BY <1>1 DEF Tree, Pooled, HasPool, Stays
<1> QED  BY <1>4, <1>5, <1>6, <1>7, <1>8, <1>9, <1>10 DEF Tree

\* The pools see which handles there are and which creations hold a slot.
LEMMA PoolsStay ==
  ASSUME ReservedExact, PoolBounded, reserved' = reserved, budget'.active = budget.active,
         \A t \in Threads, p \in Pools : Reserves(call'[t], p) <=> Reserves(call[t], p),
         \A k \in Kids, p \in Pools : handle'[k] # None /\ handle'[k].pool = p => handle[k] # None /\ handle[k].pool = p,
         reserved \in [Pools -> Nat], budget.active \in Nat
  PROVE  ReservedExact' /\ PoolBounded'
<1>1. ReservedExact'
  <2> SUFFICES ASSUME NEW p \in Pools PROVE reserved'[p] = Cardinality({t \in Threads : Reserves(call'[t], p)})
    BY DEF ReservedExact
  <2>1. {t \in Threads : Reserves(call'[t], p)} = {t \in Threads : Reserves(call[t], p)}
    OBVIOUS
  <2> QED  BY <2>1 DEF ReservedExact
<1>2. PoolBounded'
  <2> SUFFICES ASSUME NEW p \in Pools
               PROVE  reserved'[p] + Cardinality({k \in Kids : handle'[k] # None /\ handle'[k].pool = p}) <= budget'.active
    BY DEF PoolBounded, Used, Resident, Pools
  <2> DEFINE A == {k \in Kids : handle[k] # None /\ handle[k].pool = p}
             B == {k \in Kids : handle'[k] # None /\ handle'[k].pool = p}
  <2>1. IsFiniteSet(A) /\ B \subseteq A
    BY Ground, FS_Subset
  <2>2. Cardinality(A) \in Nat /\ Cardinality(B) \in Nat /\ Cardinality(B) <= Cardinality(A)
    BY <2>1, FS_Subset, FS_CardinalityType
  <2>3. reserved[p] + Cardinality(A) <= budget.active
    BY DEF PoolBounded, Used, Resident, Pools
  <2>4. reserved[p] \in Nat
    OBVIOUS
  <2> HIDE DEF A, B
  <2>5. reserved'[p] + Cardinality(B) <= budget'.active
    BY <2>2, <2>3, <2>4
  <2> QED  BY <2>5 DEF B
<1> QED  BY <1>1, <1>2

LEMMA QuietPools ==
  ASSUME TypedChildren, TypedRest, CallsKept, ReservedExact, PoolBounded, Quiet
  PROVE  ReservedExact' /\ PoolBounded'
<1>1. \A t \in Threads, p \in Pools : Reserves(call'[t], p) <=> Reserves(call[t], p)
  BY DEF Quiet, CallsQuiet, Quietly, Pinned, Reserves, Follows, Idle, Delivering, Creating, Holds
<1>2. \A k \in Kids, p \in Pools : handle'[k] # None /\ handle'[k].pool = p => handle[k] # None /\ handle[k].pool = p
  BY DEF Quiet, HandlesStay, Stays
<1>3. reserved \in [Pools -> Nat] /\ budget.active \in Nat
  BY DEF TypedRest, Bounds
<1>4. reserved' = reserved /\ budget'.active = budget.active
  BY DEF Quiet
<1> QED  BY <1>1, <1>2, <1>3, <1>4, PoolsStay

\* Stop loses sight of no child while the same children are resident.
LEMMA StopStays ==
  ASSUME StopListed, HandlesStay, res' = res, stopTodo' = stopTodo, svc' = svc
  PROVE  StopListed'
BY DEF StopListed, StopKnows, HandlesStay, Stays, Housed

\* A child is as settled as before when what its settlement turns on stays.
SettledSame(k) ==
  handle'[k] # None /\ ~handle'[k].closing =>
    /\ handle[k] # None /\ ~handle[k].closing
    /\ handle'[k].announced = handle[k].announced /\ handle'[k].watched = handle[k].watched
    /\ handle'[k].delivered = handle[k].delivered
    /\ agent'[k].live => agent[k].live /\ Received(agent'[k]) = Received(agent[k])
    /\ registry' = "open" => agent'[k].live = agent[k].live
    /\ watcher'[k].pc = "idle" => watcher[k].pc = "idle"

LEMMA SettlingStays ==
  ASSUME Settling, svc' = "active" => svc = "active", registry' = "open" => registry = "open", NEW X \in SUBSET Kids,
         \A k \in Kids \ X : SettledSame(k),
         \A k \in X : Settled(svc', registry', handle'[k], agent'[k], watcher'[k])
  PROVE  Settling'
<1> SUFFICES ASSUME NEW k \in Kids PROVE Settled(svc', registry', handle'[k], agent'[k], watcher'[k])
  BY DEF Settling
<1>1. CASE k \in X
  BY <1>1
<1>2. CASE k \notin X
  <2>1. SettledSame(k) /\ Settled(svc, registry, handle[k], agent[k], watcher[k])
    BY <1>2 DEF Settling
  <2> QED  BY <2>1 DEF SettledSame, Settled
<1> QED  BY <1>1, <1>2

LEMMA QuietKept ==
  ASSUME SubInv, Typed', Quiet, Settling', StopListed'
  PROVE  SubInv'
BY QuietCalls, QuietTree, QuietPools DEF SubInv, Typed
\* A step of one child's agent or watcher that changes no handle.
LEMMA ChildOnly ==
  ASSUME SubInv, Typed', NEW k \in Kids,
         \A j \in Kids \ {k} : agent'[j] = agent[j] /\ watcher'[j] = watcher[j],
         AgentStays(agent[k], agent'[k], HeldBy(k, call)), WatcherStays(watcher[k], watcher'[k], handle[k]),
         Settled(svc, registry, handle[k], agent'[k], watcher'[k]), CallsQuiet,
         UNCHANGED <<svc, registry, handle, res, reserved, catalog, rel, stopTodo>>, budget'.active = budget.active
  PROVE  SubInv'
<1>1. HandlesStay
  BY DEF HandlesStay, Stays
<1>2. AgentsStay
  BY DEF AgentsStay, AgentStays
<1>3. Quiet
  BY <1>1, <1>2 DEF Quiet, ReleaseStays, WatcherStays
<1>4. Settling'
  <2>1. \A j \in Kids \ {k} : SettledSame(j)
    BY DEF SettledSame
  <2>2. Settling /\ {k} \in SUBSET Kids /\ svc' = svc /\ registry' = registry /\ handle' = handle
    BY DEF SubInv
  <2>3. \A j \in {k} : Settled(svc', registry', handle'[j], agent'[j], watcher'[j])
    BY <2>2
  <2> QED  BY <2>1, <2>2, <2>3, SettlingStays
<1>5. StopListed'
  BY <1>1, StopStays DEF SubInv
<1> QED  BY <1>3, <1>4, <1>5, QuietKept

\* A step of the calls alone.
LEMMA CallsOnly ==
  ASSUME SubInv, Typed', CallsQuiet, UNCHANGED <<svc, registry, handle, res, reserved, agent, catalog, watcher, rel, stopTodo>>,
         budget'.active = budget.active
  PROVE  SubInv'
<1>1. HandlesStay /\ AgentsStay
  BY DEF HandlesStay, Stays, AgentsStay, AgentStays
<1>2. Quiet
  BY <1>1 DEF Quiet, ReleaseStays, WatcherStays
<1>3. Settling'
  BY DEF SubInv, Settling
<1>4. StopListed'
  BY <1>1, StopStays DEF SubInv
<1> QED  BY <1>2, <1>3, <1>4, QuietKept

LEMMA SpendIs ==
  ASSUME budget \in Bounds, NEW b \in {"stops", "calls", "jobs", "interrupts", "faults"}, Spend(b)
  PROVE  budget' \in Bounds /\ budget'.active = budget.active
BY DEF Spend, Bounds

LEMMA FailsIs ==
  ASSUME budget \in Bounds, NEW t \in Threads, FailsAt(t)
  PROVE  budget' \in Bounds /\ budget'.active = budget.active
BY SpendIs DEF FailsAt

LEMMA SameCallQuiet == ASSUME NEW c PROVE Quietly(c, c)
BY DEF Quietly, Follows

LEMMA CallsSame == ASSUME call' = call PROVE CallsQuiet
BY SameCallQuiet DEF CallsQuiet

\* Cancelling calls moves none of them.
LEMMA CancelIs ==
  ASSUME TypedChildren, NEW ts, call' = Cancel(ts)
  PROVE  call' \in [Threads -> Calls \cup {Idle}] /\ CallsQuiet
<1>1. \A t \in Threads : call'[t] = call[t] \/ (call[t] \in Calls /\ call'[t] = [call[t] EXCEPT !.cancelled = TRUE])
  BY CallIs DEF Cancel, TypedChildren
<1>2. \A t \in Threads : call'[t] \in Calls \cup {Idle} /\ Quietly(call[t], call'[t])
  <2> SUFFICES ASSUME NEW t \in Threads PROVE call'[t] \in Calls \cup {Idle} /\ Quietly(call[t], call'[t])
    OBVIOUS
  <2>1. CASE call'[t] = call[t]
    BY <2>1, SameCallQuiet DEF TypedChildren
  <2>2. CASE call[t] \in Calls /\ call'[t] = [call[t] EXCEPT !.cancelled = TRUE]
    <3>1. call'[t] \in Calls
      BY <2>2 DEF Calls
    <3>2. /\ call'[t].pc = call[t].pc /\ call'[t].caller = call[t].caller /\ call'[t].mode = call[t].mode
          /\ call'[t].target = call[t].target /\ call'[t].bg = call[t].bg /\ call'[t].pool = call[t].pool
          /\ call'[t].obj = call[t].obj
      BY <2>2 DEF Calls
    <3> QED  BY <3>1, <3>2 DEF Quietly, Follows
  <2> QED  BY <1>1, <2>1, <2>2
<1> QED  BY <1>2 DEF Cancel, CallsQuiet

LEMMA CutIs ==
  ASSUME TypedChildren, NEW k \in Kids, call' = CutTurn(k)
  PROVE  call' \in [Threads -> Calls \cup {Idle}] /\ CallsQuiet
BY CancelIs DEF CutTurn

\* One call moves, or returns.
LEMMA GoIs ==
  ASSUME TypedChildren, NEW t \in Threads, NEW pc \in {"create", "teardown"} \cup Creating \cup Writing,
         call[t].pc # "idle", call' = [call EXCEPT ![t].pc = pc]
  PROVE  /\ call' \in [Threads -> Calls \cup {Idle}]
         /\ \A u \in Threads \ {t} : call'[u] = call[u]
         /\ call'[t] \in Calls /\ call'[t] = [call[t] EXCEPT !.pc = pc] /\ call'[t].pc = pc
         /\ call'[t].caller = call[t].caller /\ call'[t].mode = call[t].mode /\ call'[t].target = call[t].target
         /\ call'[t].bg = call[t].bg /\ call'[t].pool = call[t].pool /\ call'[t].obj = call[t].obj
         /\ call'[t].cancelled = call[t].cancelled
<1>1. call[t] \in Calls /\ call \in [Threads -> Calls \cup {Idle}]
  BY CallIs DEF TypedChildren
<1>2. call' = [call EXCEPT ![t] = [call[t] EXCEPT !.pc = pc]]
  OBVIOUS
<1>3. [call[t] EXCEPT !.pc = pc] \in Calls
  BY <1>1 DEF Calls
<1>4. /\ call' \in [Threads -> Calls \cup {Idle}] /\ call'[t] = [call[t] EXCEPT !.pc = pc]
      /\ \A u \in Threads \ {t} : call'[u] = call[u]
  BY <1>1, <1>2, <1>3
<1> QED  BY <1>1, <1>3, <1>4 DEF Calls

LEMMA GoQuiet ==
  ASSUME TypedChildren, NEW t \in Threads, NEW pc \in {"create", "teardown"} \cup Creating \cup Writing,
         {call[t].pc, pc} \subseteq Delivering \/ {call[t].pc, pc} \subseteq Creating \ {"publish"}, pc # "drop",
         call' = [call EXCEPT ![t].pc = pc]
  PROVE  call' \in [Threads -> Calls \cup {Idle}] /\ CallsQuiet
<1>1. call[t].pc # "idle"
  BY DEF Delivering, Creating
<1>2. /\ call' \in [Threads -> Calls \cup {Idle}]
      /\ \A u \in Threads \ {t} : call'[u] = call[u]
      /\ call'[t].pc = pc
      /\ call'[t].caller = call[t].caller /\ call'[t].mode = call[t].mode /\ call'[t].target = call[t].target
      /\ call'[t].bg = call[t].bg /\ call'[t].pool = call[t].pool /\ call'[t].obj = call[t].obj
  BY <1>1, GoIs
<1>3. Quietly(call[t], call'[t])
  BY <1>2 DEF Quietly, Follows, Pinned, Delivering, Creating
<1> QED  BY <1>2, <1>3, SameCallQuiet DEF CallsQuiet

LEMMA ReturnIs ==
  ASSUME TypedChildren, NEW t \in Threads, Return(t)
  PROVE  /\ call' \in [Threads -> Calls \cup {Idle}] /\ call'[t] = Idle
         /\ \A u \in Threads \ {t} : call'[u] = call[u]
BY DEF Return, TypedChildren

LEMMA ReturnQuiet ==
  ASSUME TypedChildren, NEW t \in Threads, Return(t), ~Pinned(call[t])
  PROVE  call' \in [Threads -> Calls \cup {Idle}] /\ CallsQuiet
BY ReturnIs, SameCallQuiet DEF CallsQuiet, Quietly, Follows

\* Nobody holds a child that is resident for good.
LEMMA HousedIs ==
  ASSUME SubInv, NEW k \in Kids, Housed(handle[k])
  PROVE  ~HeldBy(k, call)
<1> SUFFICES ASSUME NEW t \in Threads, Holds(call[t]), call[t].obj[1] = k PROVE FALSE
  BY DEF HeldBy
<1>1. CallShape(call[t], res) /\ CallHolds(call[t], handle, agent, catalog, registry)
  BY DEF SubInv, CallsKept, Shaped, Holding
<1> QED  BY <1>1 DEF CallShape, CallHolds, Holds, Reopens, Housed

-----------------------------------------------------------------------------
(* The agents' turns.                                                      *)

\* A step of an agent alone, which gets or loses no message.
LEMMA AgentOnly ==
  ASSUME SubInv, NEW k \in Kids, agent'[k] \in Agents, agent' = [agent EXCEPT ![k] = agent'[k]],
         agent'[k].live = agent[k].live, Received(agent'[k]) = Received(agent[k]),
         AgentStays(agent[k], agent'[k], HeldBy(k, call)), CallsQuiet, call' \in [Threads -> Calls \cup {Idle}],
         UNCHANGED <<svc, registry, handle, res, reserved, catalog, watcher, rel, stopTodo>>,
         budget' \in Bounds, budget'.active = budget.active
  PROVE  SubInv'
<1>1. agent' \in [Kids -> Agents] /\ \A j \in Kids \ {k} : agent'[j] = agent[j]
  BY DEF SubInv, Typed, TypedChildren
<1>2. Typed'
  BY <1>1 DEF SubInv, Typed, TypedChildren, TypedRest
<1>3. Settled(svc, registry, handle[k], agent'[k], watcher'[k])
  BY DEF SubInv, Settling, Settled
<1>4. WatcherStays(watcher[k], watcher'[k], handle[k])
  BY DEF WatcherStays
<1> QED  BY <1>1, <1>2, <1>3, <1>4, ChildOnly

LEMMA TurnBeginKept == ASSUME SubInv, NEW k \in Kids, Empty(agent[k]), TurnBegin(k) PROVE SubInv'
<1> USE DEF TurnBegin
<1>1. agent[k] \in Agents /\ agent \in [Kids -> Agents] /\ budget \in Bounds /\ TypedChildren
  BY DEF SubInv, Typed, TypedChildren, TypedRest
<1>2. PICK b \in Agents : /\ agent' = [agent EXCEPT ![k] = b]
                          /\ b.live = agent[k].live /\ Received(b) = Received(agent[k]) /\ b.busy
  <2> DEFINE a == [agent[k] EXCEPT !.busy = TRUE, !.stage = "begun", !.cut = FALSE, !.woken = FALSE]
             b1 == [a EXCEPT !.task = FALSE]
             b2 == [a EXCEPT !.job = "hand"]
             b3 == [a EXCEPT !.held = @ - 1, !.hand = 1, !.ahead = IF a.job = "queued" THEN @ - 1 ELSE @]
  <2>1. a \in Agents /\ a.live = agent[k].live /\ Received(a) = Received(agent[k]) /\ a.busy /\ a.hand = 0
    <3>1. a \in Agents
      BY <1>1 DEF Agents
    <3>2. a.live = agent[k].live /\ a.busy
      BY <1>1 DEF Agents
    <3>3. a.held = agent[k].held /\ a.hand = agent[k].hand /\ a.lost = agent[k].lost /\ a.done = agent[k].done
      BY <1>1 DEF Agents
    <3> QED  BY <3>1, <3>2, <3>3 DEF Received, Empty
  <2>2. \/ agent' = [agent EXCEPT ![k] = b1] \/ agent' = [agent EXCEPT ![k] = b2]
        \/ a.held > 0 /\ (a.job = "queued" => a.ahead > 0) /\ agent' = [agent EXCEPT ![k] = b3]
    <3>1. a.held = agent[k].held
      BY <1>1 DEF Agents
    <3> QED  BY <3>1
  <2> HIDE DEF a
  <2>3. b1 \in Agents /\ b1.live = a.live /\ Received(b1) = Received(a) /\ b1.busy
    <3>1. b1 \in Agents
      BY <2>1 DEF Agents
    <3>2. b1.live = a.live /\ b1.busy = a.busy
      BY <2>1 DEF Agents
    <3>3. b1.held = a.held /\ b1.hand = a.hand /\ b1.lost = a.lost /\ b1.done = a.done
      BY <2>1 DEF Agents
    <3> QED  BY <2>1, <3>1, <3>2, <3>3 DEF Received
  <2>4. b2 \in Agents /\ b2.live = a.live /\ Received(b2) = Received(a) /\ b2.busy
    <3>1. b2 \in Agents
      BY <2>1 DEF Agents
    <3>2. b2.live = a.live /\ b2.busy = a.busy
      BY <2>1 DEF Agents
    <3>3. b2.held = a.held /\ b2.hand = a.hand /\ b2.lost = a.lost /\ b2.done = a.done
      BY <2>1 DEF Agents
    <3> QED  BY <2>1, <3>1, <3>2, <3>3 DEF Received
  <2>5. a.held > 0 /\ (a.job = "queued" => a.ahead > 0) =>
          b3 \in Agents /\ b3.live = a.live /\ Received(b3) = Received(a) /\ b3.busy
    <3> SUFFICES ASSUME a.held > 0, a.job = "queued" => a.ahead > 0
                 PROVE  b3 \in Agents /\ b3.live = a.live /\ Received(b3) = Received(a) /\ b3.busy
      OBVIOUS
    <3> DEFINE n == IF a.job = "queued" THEN a.ahead - 1 ELSE a.ahead
    <3>1. n \in Nat /\ a.held - 1 \in Nat
      BY <2>1 DEF Agents
    <3>2. b3 = [a EXCEPT !.held = a.held - 1, !.hand = 1, !.ahead = n]
      BY <2>1
    <3> HIDE DEF n, b3
    <3>3. b3 \in Agents
      BY <2>1, <3>1, <3>2 DEF Agents
    <3>4. b3.live = a.live /\ b3.busy = a.busy
      BY <2>1, <3>2 DEF Agents
    <3>5. b3.held = a.held - 1 /\ b3.hand = 1 /\ b3.lost = a.lost /\ b3.done = a.done
      BY <2>1, <3>2 DEF Agents
    <3>6. a.held \in Nat /\ a.lost \in Nat /\ a.done \in Nat
      BY <2>1 DEF Agents
    <3> QED  BY <2>1, <3>3, <3>4, <3>5, <3>6 DEF Received
  <2> HIDE DEF b1, b2, b3
  <2> QED  BY <2>1, <2>2, <2>3, <2>4, <2>5
<1>3. agent'[k] = b
  BY <1>1, <1>2
<1>4. AgentStays(agent[k], agent'[k], HeldBy(k, call))
  BY <1>1, <1>2, <1>3 DEF AgentStays, Fresh, Agents
<1> QED  BY <1>1, <1>2, <1>3, <1>4, CallsSame, AgentOnly DEF TypedChildren

\* What a commit of a turn makes of its agent.
LEMMA CommitsIs ==
  ASSUME TypedChildren, budget \in Bounds, NEW k \in Kids, NEW next \in {"opened", "drained"}, agent[k].busy, Commits(k, next)
  PROVE  /\ budget' \in Bounds /\ budget'.active = budget.active
         /\ \E b \in Agents : /\ agent' = [agent EXCEPT ![k] = b]
                              /\ b.live = agent[k].live /\ b.busy /\ Received(b) = Received(agent[k])
<1>1. agent[k] \in Agents /\ agent \in [Kids -> Agents]
  BY DEF TypedChildren
<1>2. /\ agent[k].hand \in Nat /\ agent[k].held \in Nat /\ agent[k].lost \in Nat /\ agent[k].done \in Nat
      /\ agent[k].job \in {"none", "queued", "hand", "owed"}
  BY <1>1 DEF Agents
<1>3. CASE /\ agent' = [agent EXCEPT ![k].done = @ + agent[k].hand, ![k].hand = 0, ![k].stage = next,
                          ![k].job = IF @ = "hand" THEN "none" ELSE @]
           /\ UNCHANGED budget
  <2> DEFINE m == IF agent[k].job = "hand" THEN "none" ELSE agent[k].job
             b == [agent[k] EXCEPT !.done = @ + agent[k].hand, !.hand = 0, !.stage = next, !.job = m]
  <2>1. m \in {"none", "queued", "owed"} /\ agent[k].done + agent[k].hand \in Nat
    BY <1>2
  <2>2. agent' = [agent EXCEPT ![k] = b]
    BY <1>1, <1>3
  <2> HIDE DEF m
  <2>3. b \in Agents
    BY <1>1, <2>1 DEF Agents
  <2>4. b.live = agent[k].live /\ b.busy = agent[k].busy
    BY <1>1 DEF Agents
  <2>5. b.held = agent[k].held /\ b.hand = 0 /\ b.done = agent[k].done + agent[k].hand /\ b.lost = agent[k].lost
    BY <1>1 DEF Agents
  <2> HIDE DEF b
  <2>6. Received(b) = Received(agent[k])
    BY <1>2, <2>5 DEF Received
  <2> QED  BY <1>3, <2>2, <2>3, <2>4, <2>6
<1>4. CASE /\ Spend("faults")
           /\ \E n \in 0..agent[k].hand :
                agent' = [agent EXCEPT ![k].done = @ + n, ![k].lost = @ + (agent[k].hand - n), ![k].hand = 0,
                            ![k].stage = "over", ![k].job = IF @ = "hand" THEN "owed" ELSE @]
  <2>1. PICK n \in 0..agent[k].hand :
          agent' = [agent EXCEPT ![k].done = @ + n, ![k].lost = @ + (agent[k].hand - n), ![k].hand = 0,
                      ![k].stage = "over", ![k].job = IF @ = "hand" THEN "owed" ELSE @]
    BY <1>4
  <2> DEFINE m == IF agent[k].job = "hand" THEN "owed" ELSE agent[k].job
             l == agent[k].lost + (agent[k].hand - n)
             b == [agent[k] EXCEPT !.done = @ + n, !.lost = l, !.hand = 0, !.stage = "over", !.job = m]
  <2>2. m \in {"none", "queued", "owed"} /\ agent[k].done + n \in Nat /\ l \in Nat
    BY <1>2
  <2>3. agent' = [agent EXCEPT ![k] = b]
    BY <1>1, <2>1
  <2> HIDE DEF m, l
  <2>4. b \in Agents
    BY <1>1, <2>2 DEF Agents
  <2>5. b.live = agent[k].live /\ b.busy = agent[k].busy
    BY <1>1 DEF Agents
  <2>6. b.held = agent[k].held /\ b.hand = 0 /\ b.done = agent[k].done + n /\ b.lost = l
    BY <1>1 DEF Agents
  <2> HIDE DEF b
  <2>7. Received(b) = Received(agent[k])
    BY <1>2, <2>6 DEF Received, l
  <2>8. budget' \in Bounds /\ budget'.active = budget.active
    BY <1>4, SpendIs
  <2> QED  BY <2>3, <2>4, <2>5, <2>7, <2>8
<1> QED  BY <1>3, <1>4 DEF Commits

\* A step of a turn that changes only its agent and keeps it busy.
LEMMA TurnOnly ==
  ASSUME SubInv, NEW k \in Kids, agent[k].busy, NEW b \in Agents, agent' = [agent EXCEPT ![k] = b],
         b.live = agent[k].live, Received(b) = Received(agent[k]),
         UNCHANGED <<svc, registry, handle, res, reserved, catalog, watcher, rel, call, stopTodo>>,
         budget' \in Bounds, budget'.active = budget.active
  PROVE  SubInv'
<1>1. agent \in [Kids -> Agents] /\ agent[k] \in Agents /\ call \in [Threads -> Calls \cup {Idle}]
  BY DEF SubInv, Typed, TypedChildren
<1>2. agent'[k] = b
  BY <1>1
<1>3. AgentStays(agent[k], agent'[k], HeldBy(k, call))
  BY <1>1, <1>2 DEF AgentStays, Fresh, Agents
<1> QED  BY <1>1, <1>2, <1>3, CallsSame, AgentOnly

LEMMA TurnOpensKept == ASSUME SubInv, NEW k \in Kids, TurnOpens(k) PROVE SubInv'
<1> USE DEF TurnOpens
<1>1. /\ budget' \in Bounds /\ budget'.active = budget.active
      /\ \E b \in Agents : /\ agent' = [agent EXCEPT ![k] = b]
                           /\ b.live = agent[k].live /\ b.busy /\ Received(b) = Received(agent[k])
  BY CommitsIs DEF SubInv, Typed, TypedRest
<1> QED  BY <1>1, TurnOnly

LEMMA TurnCommitsKept == ASSUME SubInv, NEW k \in Kids, TurnCommits(k) PROVE SubInv'
<1> USE DEF TurnCommits
<1>1. /\ budget' \in Bounds /\ budget'.active = budget.active
      /\ \E b \in Agents : /\ agent' = [agent EXCEPT ![k] = b]
                           /\ b.live = agent[k].live /\ b.busy /\ Received(b) = Received(agent[k])
  BY CommitsIs DEF SubInv, Typed, TypedRest
<1> QED  BY <1>1, TurnOnly

LEMMA TurnTakesKept == ASSUME SubInv, NEW k \in Kids, TurnTakes(k) PROVE SubInv'
<1> USE DEF TurnTakes
<1>1. agent[k] \in Agents /\ agent \in [Kids -> Agents] /\ budget \in Bounds
  BY DEF SubInv, Typed, TypedChildren, TypedRest
<1> DEFINE m == IF agent[k].job = "queued" THEN "hand" ELSE agent[k].job
           b == [agent[k] EXCEPT !.hand = agent[k].held, !.held = 0, !.stage = "drained", !.job = m, !.ahead = 0]
<1>2. m \in {"none", "queued", "hand", "owed"}
  BY <1>1 DEF Agents
<1>3. agent' = [agent EXCEPT ![k] = b]
  BY <1>1
<1> HIDE DEF m
<1>4. b \in Agents /\ b.live = agent[k].live /\ Received(b) = Received(agent[k])
  <2>1. b \in Agents
    BY <1>1, <1>2 DEF Agents
  <2>2. b.live = agent[k].live
    BY <1>1 DEF Agents
  <2>3. b.held = 0 /\ b.hand = agent[k].held /\ b.lost = agent[k].lost /\ b.done = agent[k].done
    BY <1>1 DEF Agents
  <2>4. agent[k].held \in Nat /\ agent[k].hand = 0 /\ agent[k].lost \in Nat /\ agent[k].done \in Nat
    BY <1>1 DEF Agents, Empty
  <2> QED  BY <2>1, <2>2, <2>3, <2>4 DEF Received
<1> HIDE DEF b
<1> QED  BY <1>1, <1>3, <1>4, TurnOnly

LEMMA TurnEndKept == ASSUME SubInv, NEW k \in Kids, TurnEnd(k) PROVE SubInv'
<1> USE DEF TurnEnd
<1>1. agent[k] \in Agents /\ agent \in [Kids -> Agents] /\ budget \in Bounds
  BY DEF SubInv, Typed, TypedChildren, TypedRest
<1> DEFINE a == [agent[k] EXCEPT !.held = @ + agent[k].hand, !.hand = 0, !.ahead = IF agent[k].job = "queued" THEN @ + agent[k].hand ELSE 0,
                  !.job = IF @ = "hand" THEN "queued" ELSE @]
           left == a.held > 0 \/ a.job = "queued"
<1>2. a \in Agents /\ a.live = agent[k].live /\ Received(a) = Received(agent[k])
  <2> DEFINE n == IF agent[k].job = "queued" THEN agent[k].ahead + agent[k].hand ELSE 0
             m == IF agent[k].job = "hand" THEN "queued" ELSE agent[k].job
  <2>1. n \in Nat /\ m \in {"none", "queued", "owed"} /\ agent[k].held + agent[k].hand \in Nat
    BY <1>1 DEF Agents
  <2>2. a = [agent[k] EXCEPT !.held = @ + agent[k].hand, !.hand = 0, !.ahead = n, !.job = m]
    BY <1>1
  <2> HIDE DEF n, m, a
  <2>3. a \in Agents
    BY <1>1, <2>1, <2>2 DEF Agents
  <2>4. a.live = agent[k].live
    BY <1>1, <2>2 DEF Agents
  <2>5. a.held = agent[k].held + agent[k].hand /\ a.hand = 0 /\ a.lost = agent[k].lost /\ a.done = agent[k].done
    BY <1>1, <2>2 DEF Agents
  <2>6. agent[k].held \in Nat /\ agent[k].hand \in Nat /\ agent[k].lost \in Nat /\ agent[k].done \in Nat
    BY <1>1 DEF Agents
  <2> QED  BY <2>3, <2>4, <2>5, <2>6 DEF Received
<1>3. PICK w \in BOOLEAN : w = (left /\ (~a.cut \/ a.woken) /\ a.mode = "continuable")
  OBVIOUS
<1> DEFINE b == [a EXCEPT !.busy = FALSE, !.stage = "over", !.ended = TRUE, !.woken = w]
<1>4. agent' = [agent EXCEPT ![k] = b]
  BY <1>1, <1>3
<1> HIDE DEF a
<1>5. b \in Agents /\ b.live = a.live /\ b.busy = FALSE /\ Received(b) = Received(a)
  BY <1>2 DEF Agents, Received
<1> HIDE DEF b
<1>6. agent'[k] = b
  BY <1>1, <1>4
<1>7. AgentStays(agent[k], agent'[k], HeldBy(k, call))
  BY <1>1, <1>2, <1>5, <1>6 DEF AgentStays, Fresh, Agents
<1>8. call \in [Threads -> Calls \cup {Idle}]
  BY DEF SubInv, Typed, TypedChildren
<1> QED  BY <1>1, <1>2, <1>4, <1>5, <1>6, <1>7, <1>8, CallsSame, AgentOnly

\* Enqueued wakes or holds; it neither starts nor stops anything.
LEMMA EnqueuedIs ==
  ASSUME NEW a \in Agents
  PROVE  /\ Enqueued(a) \in Agents /\ Enqueued(a).live = a.live /\ Enqueued(a).busy = a.busy
         /\ Received(Enqueued(a)) = Received(a) + 1
<1>1. PICK w \in BOOLEAN : w <=> a.woken \/ (a.busy /\ a.cut) \/ (~a.busy /\ ~a.task)
  OBVIOUS
<1>2. a.woken \in BOOLEAN /\ a.busy \in BOOLEAN /\ a.cut \in BOOLEAN /\ a.task \in BOOLEAN /\ a.held \in Nat
  BY DEF Agents
<1>3. (a.woken \/ (a.busy /\ a.cut) \/ (~a.busy /\ ~a.task)) = w
  BY <1>1, <1>2
<1>4. Enqueued(a) = [a EXCEPT !.held = a.held + 1, !.woken = w]
  BY <1>3 DEF Enqueued
<1>5. w \in BOOLEAN
  BY <1>1
<1> DEFINE b == [a EXCEPT !.held = a.held + 1]
<1>6. b \in Agents /\ b.live = a.live /\ b.busy = a.busy /\ Received(b) = Received(a) + 1
  BY <1>2 DEF Agents, Received
<1>7. Enqueued(a) = [b EXCEPT !.woken = w]
  BY <1>4
<1> HIDE DEF b
<1> QED  BY <1>5, <1>6, <1>7 DEF Agents, Received

LEMMA JobNoticeKept == ASSUME SubInv, NEW k \in Kids, JobNotice(k) PROVE SubInv'
<1> USE DEF JobNotice
<1>1. agent[k] \in Agents /\ agent \in [Kids -> Agents] /\ budget \in Bounds /\ call \in [Threads -> Calls \cup {Idle}]
  BY DEF SubInv, Typed, TypedChildren, TypedRest
<1>2. PICK w \in BOOLEAN : w <=> agent[k].woken \/ (agent[k].busy /\ agent[k].cut) \/ (~agent[k].busy /\ ~agent[k].task)
  OBVIOUS
<1> DEFINE b == [agent[k] EXCEPT !.woken = w, !.job = "queued", !.ahead = agent[k].held]
<1>3. agent' = [agent EXCEPT ![k] = b]
  <2>1. agent' = [agent EXCEPT ![k] = [Enqueued(agent[k]) EXCEPT !.held = agent[k].held, !.job = "queued", !.ahead = agent[k].held]]
    BY <1>1
  <2>2. (agent[k].woken \/ (agent[k].busy /\ agent[k].cut) \/ (~agent[k].busy /\ ~agent[k].task)) = w
    BY <1>1, <1>2 DEF Agents
  <2>3. Enqueued(agent[k]) = [agent[k] EXCEPT !.held = @ + 1, !.woken = w]
    BY <2>2 DEF Enqueued
  <2>4. [Enqueued(agent[k]) EXCEPT !.held = agent[k].held, !.job = "queued", !.ahead = agent[k].held] = b
    BY <1>1, <2>3 DEF Agents
  <2> QED  BY <2>1, <2>4
<1>4. b \in Agents /\ b.live = agent[k].live /\ b.busy = agent[k].busy /\ Received(b) = Received(agent[k])
  BY <1>1 DEF Agents, Received
<1>5. b.ended = agent[k].ended
  BY <1>1 DEF Agents
<1> HIDE DEF b
<1>6. agent'[k] = b
  BY <1>1, <1>3
<1>7. AgentStays(agent[k], agent'[k], HeldBy(k, call))
  BY <1>4, <1>6 DEF AgentStays, Fresh
<1>8. budget' \in Bounds /\ budget'.active = budget.active
  BY <1>1, SpendIs
<1> QED  BY <1>1, <1>3, <1>4, <1>6, <1>7, <1>8, CallsSame, AgentOnly

\* Submit finds the agent alive only while the child is resident: nobody else
\* holds the child of a creation that is under way.
LEMMA SubmitKept == ASSUME SubInv, NEW t \in Threads, Submit(t) PROVE SubInv'
<1> USE DEF Submit
<1> DEFINE c == call[t]
           k == c.obj[1]
<1>1. call \in [Threads -> Calls \cup {Idle}] /\ c \in Calls /\ agent \in [Kids -> Agents] /\ TypedChildren
  BY CallIs DEF SubInv, Typed, TypedChildren
<1>2. CallShape(c, res) /\ c.pc = "submit"
  BY DEF SubInv, CallsKept, Shaped
<1>3. c.obj \in Objects /\ k \in Kids /\ Creates(c) /\ c.mode # None
  BY <1>2 DEF CallShape, Creates, Creating, Objects
<1>4. agent[k] \in Agents
  BY <1>1, <1>3, SMTT(30)
<1>5. CASE agent[k].live /\ ~c.cancelled
  <2>1. PICK pc \in {"accept", "result"} : call' = [call EXCEPT ![t].pc = pc]
    BY <1>5 DEF Go
  <2>2. call' \in [Threads -> Calls \cup {Idle}] /\ CallsQuiet
    BY <1>1, <1>2, <2>1, GoQuiet DEF Creating
  <2>3. agent' = [agent EXCEPT ![k].task = TRUE]
    BY <1>5
  <2>4. agent' \in [Kids -> Agents]
    <3>1. [agent[k] EXCEPT !.task = TRUE] \in Agents
      BY <1>4 DEF Agents
    <3> QED  BY <1>1, <1>3, <2>3, <3>1
  <2>5. /\ agent'[k].live = agent[k].live /\ Received(agent'[k]) = Received(agent[k])
        /\ agent'[k].busy = agent[k].busy /\ \A j \in Kids \ {k} : agent'[j] = agent[j]
    BY <1>1, <1>3, <1>4, <2>3 DEF Agents, Received
  <2>6. Typed'
    BY <2>2, <2>4 DEF SubInv, Typed, TypedChildren, TypedRest
  <2>7. ~HeldBy(k, call)
    <3>1. SUFFICES ASSUME NEW u \in Threads, Holds(call[u]), call[u].obj[1] = k PROVE FALSE
      BY DEF HeldBy
    <3>2. u # t
      BY <1>2, <3>1 DEF Holds
    <3>3. Apart(c, call[u]) /\ CallShape(call[u], res)
      BY <3>2 DEF SubInv, CallsKept, AllApart, Shaped
    <3>4. Creates(call[u]) \/ (Writes(call[u]) /\ call[u].target = call[u].obj[1])
      BY <3>1, <3>3 DEF CallShape, Holds, Creates, Writes, Creating, Writing, Reopens
    <3> HIDE DEF c
    <3> QED  BY <1>3, <3>1, <3>3, <3>4 DEF Apart
  <2>8. AgentStays(agent[k], agent'[k], HeldBy(k, call))
    BY <2>5, <2>7, SMTT(30) DEF AgentStays
  <2>9. Settled(svc, registry, handle[k], agent'[k], watcher'[k])
    BY <1>3, <2>5 DEF SubInv, Settling, Settled
  <2>10. watcher' = watcher /\ budget' = budget
    OBVIOUS
  <2>11. WatcherStays(watcher[k], watcher'[k], handle[k])
    BY <2>10 DEF WatcherStays
  <2> QED  BY <1>3, <2>2, <2>5, <2>6, <2>8, <2>9, <2>10, <2>11, ChildOnly
<1>6. CASE ~(agent[k].live /\ ~c.cancelled)
  <2>1. call' = [call EXCEPT ![t].pc = "close"] /\ agent' = agent
    BY <1>6 DEF Go
  <2>2. call' \in [Threads -> Calls \cup {Idle}] /\ CallsQuiet
    BY <1>1, <1>2, <2>1, GoQuiet DEF Creating
  <2>3. Typed'
    BY <2>1, <2>2 DEF SubInv, Typed, TypedChildren, TypedRest
  <2> QED  BY <2>1, <2>2, <2>3, CallsOnly
<1> QED  BY <1>5, <1>6

LEMMA InterruptedIs ==
  ASSUME NEW a \in Agents, NEW h, registry' = "open" => registry = "open"
  PROVE  /\ Interrupted(a) \in Agents /\ Interrupted(a).live = a.live /\ Interrupted(a).busy = a.busy
         /\ Received(Interrupted(a)) = Received(a)
         /\ AgentStays(a, Interrupted(a), h)
<1>1. /\ Interrupted(a) \in Agents /\ Interrupted(a).live = a.live /\ Interrupted(a).busy = a.busy
      /\ Received(Interrupted(a)) = Received(a)
  <2>1. CASE ~a.busy
    BY <2>1 DEF Interrupted
  <2>2. CASE a.busy
    <3>1. Interrupted(a) = [a EXCEPT !.cut = TRUE]
      BY <2>2 DEF Interrupted
    <3>2. Interrupted(a) \in Agents
      BY <3>1 DEF Agents
    <3>3. Interrupted(a).live = a.live /\ Interrupted(a).busy = a.busy
      BY <3>1 DEF Agents
    <3>4. Received(Interrupted(a)) = Received(a)
      BY <3>1 DEF Agents, Received
    <3> QED  BY <3>2, <3>3, <3>4
  <2> QED  BY <2>1, <2>2
<1>2. Fresh(a, registry) => Interrupted(a) = a /\ Fresh(a, registry')
  BY DEF Fresh, Interrupted
<1> QED  BY <1>1, <1>2 DEF AgentStays

\* The agents after one was interrupted.
LEMMA InterruptIs ==
  ASSUME TypedChildren, NEW k \in Kids, agent' = [agent EXCEPT ![k] = Interrupted(@)], registry' = "open" => registry = "open"
  PROVE  /\ agent' \in [Kids -> Agents] /\ \A j \in Kids \ {k} : agent'[j] = agent[j]
         /\ agent'[k].live = agent[k].live /\ Received(agent'[k]) = Received(agent[k])
         /\ AgentStays(agent[k], agent'[k], HeldBy(k, call))
<1>1. agent \in [Kids -> Agents] /\ agent' = [agent EXCEPT ![k] = Interrupted(agent[k])]
  BY DEF TypedChildren
<1>2. /\ Interrupted(agent[k]) \in Agents /\ Interrupted(agent[k]).live = agent[k].live
      /\ Received(Interrupted(agent[k])) = Received(agent[k])
      /\ AgentStays(agent[k], Interrupted(agent[k]), HeldBy(k, call))
  BY <1>1, InterruptedIs
<1> QED  BY <1>1, <1>2

LEMMA InterruptKept == ASSUME SubInv, NEW s \in Pools, NEW k \in Kids, Interrupt(s, k) PROVE SubInv'
<1> USE DEF Interrupt
<1>1. TypedChildren /\ budget \in Bounds
  BY DEF SubInv, Typed, TypedRest
<1>2. /\ agent' \in [Kids -> Agents] /\ \A j \in Kids \ {k} : agent'[j] = agent[j]
      /\ agent'[k].live = agent[k].live /\ Received(agent'[k]) = Received(agent[k])
      /\ AgentStays(agent[k], agent'[k], HeldBy(k, call))
  BY <1>1, InterruptIs
<1>3. call' \in [Threads -> Calls \cup {Idle}] /\ CallsQuiet
  BY <1>1, CutIs
<1>4. budget' \in Bounds /\ budget'.active = budget.active
  BY <1>1, SpendIs
<1>5. Typed'
  BY <1>2, <1>3, <1>4 DEF SubInv, Typed, TypedChildren, TypedRest
<1>6. Settled(svc, registry, handle[k], agent'[k], watcher'[k])
  BY <1>2 DEF SubInv, Settling, Settled
<1>7. WatcherStays(watcher[k], watcher'[k], handle[k]) /\ watcher' = watcher
  BY DEF WatcherStays
<1> QED  BY <1>2, <1>3, <1>4, <1>5, <1>6, <1>7, ChildOnly

-----------------------------------------------------------------------------
(* The steps of a call that touch nothing else.                            *)

LEMMA ResultKept == ASSUME SubInv, NEW t \in Threads, Result(t) PROVE SubInv'
<1> USE DEF Result
<1>1. call' \in [Threads -> Calls \cup {Idle}] /\ CallsQuiet
  BY GoQuiet DEF SubInv, Typed, Go, Creating
<1>2. Typed'
  BY <1>1 DEF SubInv, Typed, TypedChildren, TypedRest
<1> QED  BY <1>1, <1>2, CallsOnly

LEMMA CancelCallKept == ASSUME SubInv, NEW t \in Threads, CancelCall(t) PROVE SubInv'
<1> USE DEF CancelCall
<1>1. call' \in [Threads -> Calls \cup {Idle}] /\ CallsQuiet
  BY CancelIs DEF SubInv, Typed
<1>2. budget' \in Bounds /\ budget'.active = budget.active
  BY SpendIs DEF SubInv, Typed, TypedRest
<1>3. Typed'
  BY <1>1, <1>2 DEF SubInv, Typed, TypedChildren, TypedRest
<1> QED  BY <1>1, <1>2, <1>3, CallsOnly

LEMMA DeliverElseKept == ASSUME SubInv, NEW t \in Threads, DeliverElse(t) PROVE SubInv'
<1> USE DEF DeliverElse
<1> DEFINE k == call[t].target
<1>1. TypedChildren /\ call \in [Threads -> Calls \cup {Idle}] /\ call[t] \in Calls /\ call[t].pc = "deliver"
  BY CallIs DEF SubInv, Typed, TypedChildren
<1>2. CallShape(call[t], res)
  BY DEF SubInv, CallsKept, Shaped
<1>3. k \in Pools
  BY <1>1, <1>2 DEF CallShape, Writing, Delivering, Calls
<1>4. call' \in [Threads -> Calls \cup {Idle}] /\ CallsQuiet
  <2>1. CASE Return(t)
    BY <1>1, <2>1, ReturnQuiet DEF Pinned
  <2>2. CASE Go(t, "resume")
    BY <1>1, <2>2, GoQuiet DEF Go, Delivering, Writing
  <2>3. CASE k # Root /\ call' = [call EXCEPT ![t].pc = "wait", ![t].obj = Object(k)]
    <3>1. k \in Kids /\ Object(k) \in Objects
      BY <1>1, <1>3, <2>3 DEF Pools, Object, Objects, TypedChildren
    <3> DEFINE b == [call[t] EXCEPT !.pc = "wait", !.obj = Object(k)]
    <3>2. b \in Calls
      BY <1>1, <3>1 DEF Calls, Writing, Delivering
    <3>3. call' = [call EXCEPT ![t] = b]
      BY <1>1, <2>3
    <3>4. b.pc = "wait" /\ b.caller = call[t].caller /\ b.mode = call[t].mode /\ b.target = call[t].target
          /\ b.bg = call[t].bg /\ b.pool = call[t].pool
      BY <1>1 DEF Calls
    <3> HIDE DEF b
    <3>5. Quietly(call[t], b)
      BY <1>1, <3>4 DEF Quietly, Follows, Delivering, Pinned
    <3> QED  BY <1>1, <3>2, <3>3, <3>5, SameCallQuiet DEF CallsQuiet
  <2> QED  BY <2>1, <2>2, <2>3
<1>5. Typed'
  BY <1>4 DEF SubInv, Typed, TypedChildren, TypedRest
<1> QED  BY <1>4, <1>5, CallsOnly

LEMMA WaitReleaseKept == ASSUME SubInv, NEW t \in Threads, WaitRelease(t) PROVE SubInv'
<1> USE DEF WaitRelease
<1>1. call' \in [Threads -> Calls \cup {Idle}] /\ CallsQuiet
  <2>1. CASE Return(t)
    BY <2>1, ReturnQuiet DEF Pinned, SubInv, Typed
  <2>2. CASE Go(t, "deliver")
    BY <2>2, GoQuiet DEF SubInv, Typed, Go, Delivering, Writing
  <2> QED  BY <2>1, <2>2
<1>2. Typed'
  BY <1>1 DEF SubInv, Typed, TypedChildren, TypedRest
<1> QED  BY <1>1, <1>2, CallsOnly

-----------------------------------------------------------------------------
(* The watcher, up to its decision.                                        *)

\* A step of a watcher that is settled after it.
LEMMA WatcherOnly ==
  ASSUME SubInv, NEW k \in Kids, watcher[k].pc # "idle", NEW w \in Watchers \cup {Idle},
         watcher' = [watcher EXCEPT ![k] = w], Settled(svc, registry, handle[k], agent[k], w),
         UNCHANGED <<svc, registry, handle, res, reserved, agent, catalog, rel, call, stopTodo, budget>>
  PROVE  SubInv'
<1>1. watcher \in [Kids -> Watchers \cup {Idle}]
  BY DEF SubInv, Typed, TypedChildren
<1>2. watcher' \in [Kids -> Watchers \cup {Idle}] /\ watcher'[k] = w /\ \A j \in Kids \ {k} : watcher'[j] = watcher[j]
  BY <1>1
<1>3. Typed'
  BY <1>2 DEF SubInv, Typed, TypedChildren, TypedRest
<1>4. AgentStays(agent[k], agent'[k], HeldBy(k, call)) /\ agent' = agent
  BY DEF AgentStays
<1>5. WatcherStays(watcher[k], watcher'[k], handle[k])
  BY DEF WatcherStays
<1>6. Settled(svc, registry, handle[k], agent'[k], watcher'[k])
  BY <1>2
<1> QED  BY <1>2, <1>3, <1>4, <1>5, <1>6, CallsSame, ChildOnly

\* What a watcher at work is, and what it knows.
LEMMA WatcherIs ==
  ASSUME SubInv, NEW k \in Kids, watcher[k].pc # "idle"
  PROVE  /\ watcher \in [Kids -> Watchers \cup {Idle}] /\ watcher[k] \in Watchers
         /\ agent[k] \in Agents /\ handle[k] \in Child /\ handle[k] # None
         /\ Settled(svc, registry, handle[k], agent[k], watcher[k])
<1>1. watcher \in [Kids -> Watchers \cup {Idle}] /\ agent[k] \in Agents /\ handle[k] \in Child \cup {None}
  BY DEF SubInv, Typed, TypedChildren
<1>2. watcher[k] \in Watchers
  BY <1>1 DEF Idle
<1>3. handle[k] # None
  BY DEF SubInv, Tree, Attended, AttendedBy, Housed
<1>4. Settled(svc, registry, handle[k], agent[k], watcher[k])
  BY DEF SubInv, Settling
<1> QED  BY <1>1, <1>2, <1>3, <1>4

LEMMA WatchTopKept == ASSUME SubInv, NEW k \in Kids, WatchTop(k) PROVE SubInv'
<1> USE DEF WatchTop
<1> DEFINE w == IF handle[k].closing THEN Idle ELSE [watcher[k] EXCEPT !.pc = "idle wait", !.stale = FALSE]
<1>1. /\ watcher \in [Kids -> Watchers \cup {Idle}] /\ watcher[k] \in Watchers /\ watcher[k].pc = "top"
      /\ Settled(svc, registry, handle[k], agent[k], watcher[k])
  BY WatcherIs
<1>2. watcher' = [watcher EXCEPT ![k] = w]
  BY <1>1
<1>3. w \in Watchers \cup {Idle} /\ (~handle[k].closing => w.pc = "idle wait")
  BY <1>1 DEF Watchers
<1>4. Settled(svc, registry, handle[k], agent[k], w)
  BY <1>1, <1>3 DEF Settled
<1> HIDE DEF w
<1> QED  BY <1>1, <1>2, <1>3, <1>4, WatcherOnly

LEMMA WatchIdleKept == ASSUME SubInv, NEW k \in Kids, WatchIdle(k) PROVE SubInv'
<1> USE DEF WatchIdle
<1>1. /\ watcher \in [Kids -> Watchers \cup {Idle}] /\ watcher[k] \in Watchers /\ watcher[k].pc = "idle wait"
      /\ Settled(svc, registry, handle[k], agent[k], watcher[k])
  BY WatcherIs
<1>2. PICK w \in Watchers \cup {Idle} :
        /\ watcher' = [watcher EXCEPT ![k] = w]
        /\ w.pc = "events" \/ (w.pc = "idle" /\ (svc # "active" \/ ~agent[k].live))
  <2>1. CASE watcher' = [watcher EXCEPT ![k].pc = "events"]
    <3>1. [watcher[k] EXCEPT !.pc = "events"] \in Watchers /\ [watcher[k] EXCEPT !.pc = "events"].pc = "events"
      BY <1>1 DEF Watchers
    <3> QED  BY <1>1, <2>1, <3>1
  <2>2. CASE (svc # "active" \/ ~agent[k].live) /\ watcher' = [watcher EXCEPT ![k] = Idle]
    <3>1. Idle \in Watchers \cup {Idle} /\ Idle.pc = "idle"
      BY DEF Idle
    <3> QED  BY <2>2, <3>1
  <2> QED  BY <2>1, <2>2
<1>3. Settled(svc, registry, handle[k], agent[k], w)
  BY <1>1, <1>2 DEF Settled
<1> QED  BY <1>1, <1>2, <1>3, WatcherOnly

LEMMA WatchEventsKept == ASSUME SubInv, NEW k \in Kids, WatchEvents(k) PROVE SubInv'
<1> USE DEF WatchEvents
<1> DEFINE w == [watcher[k] EXCEPT !.pc = "status", !.seen = agent[k].done]
<1>1. /\ watcher \in [Kids -> Watchers \cup {Idle}] /\ watcher[k] \in Watchers /\ watcher[k].pc = "events"
      /\ agent[k] \in Agents /\ Settled(svc, registry, handle[k], agent[k], watcher[k])
  BY WatcherIs
<1>2. watcher' = [watcher EXCEPT ![k] = w]
  BY <1>1
<1>3. w \in Watchers /\ w.pc = "status"
  BY <1>1 DEF Watchers, Agents
<1> HIDE DEF w
<1>4. Settled(svc, registry, handle[k], agent[k], w)
  BY <1>1, <1>3 DEF Settled
<1> QED  BY <1>1, <1>2, <1>3, <1>4, WatcherOnly

LEMMA WatchStatusKept == ASSUME SubInv, NEW k \in Kids, WatchStatus(k) PROVE SubInv'
<1> USE DEF WatchStatus
<1>1. /\ watcher \in [Kids -> Watchers \cup {Idle}] /\ watcher[k] \in Watchers /\ watcher[k].pc = "status"
      /\ agent[k] \in Agents /\ Settled(svc, registry, handle[k], agent[k], watcher[k])
  BY WatcherIs
<1>2. PICK q \in BOOLEAN : q = (agent[k].held > 0 \/ agent[k].job = "queued")
  OBVIOUS
<1> DEFINE w == [watcher[k] EXCEPT !.pc = "decide", !.held = q]
<1>3. watcher' = [watcher EXCEPT ![k] = w]
  BY <1>1, <1>2
<1>4. w \in Watchers /\ w.pc = "decide"
  BY <1>1, <1>2 DEF Watchers
<1> HIDE DEF w
<1>5. Settled(svc, registry, handle[k], agent[k], w)
  BY <1>1, <1>4 DEF Settled
<1> QED  BY <1>1, <1>3, <1>4, <1>5, WatcherOnly

LEMMA WatchParkedKept == ASSUME SubInv, NEW k \in Kids, WatchParked(k) PROVE SubInv'
<1> USE DEF WatchParked
<1>1. /\ watcher \in [Kids -> Watchers \cup {Idle}] /\ watcher[k] \in Watchers /\ watcher[k].pc = "parked"
      /\ Settled(svc, registry, handle[k], agent[k], watcher[k])
  BY WatcherIs
<1>2. PICK w \in Watchers \cup {Idle} :
        /\ watcher' = [watcher EXCEPT ![k] = w]
        /\ w.pc = "top" \/ (w.pc = "idle" /\ svc # "active")
  <2>1. CASE watcher' = [watcher EXCEPT ![k].pc = "top"]
    <3>1. [watcher[k] EXCEPT !.pc = "top"] \in Watchers /\ [watcher[k] EXCEPT !.pc = "top"].pc = "top"
      BY <1>1 DEF Watchers
    <3> QED  BY <1>1, <2>1, <3>1
  <2>2. CASE svc # "active" /\ watcher' = [watcher EXCEPT ![k] = Idle]
    <3>1. Idle \in Watchers \cup {Idle} /\ Idle.pc = "idle"
      BY DEF Idle
    <3> QED  BY <2>2, <3>1
  <2> QED  BY <2>1, <2>2
<1>3. Settled(svc, registry, handle[k], agent[k], w)
  BY <1>1, <1>2 DEF Settled
<1> QED  BY <1>1, <1>2, <1>3, WatcherOnly
-----------------------------------------------------------------------------
(* Closing a child, waking a watcher.                                      *)

\* A child that begins closing was housed, and stays.
LEMMA ClosingIs ==
  ASSUME SubInv, NEW k \in Kids, handle[k] # None, ~handle[k].closing,
         handle' = [handle EXCEPT ![k].closing = TRUE]
  PROVE  /\ handle' \in [Kids -> Child \cup {None}] /\ HandlesStay
         /\ Housed(handle'[k]) /\ handle'[k].closing
         /\ \A j \in Kids \ {k} : handle'[j] = handle[j]
<1>1. handle \in [Kids -> Child \cup {None}] /\ handle[k] \in Child
  BY DEF SubInv, Typed, TypedChildren
<1>2. ~handle[k].ph
  BY DEF SubInv, Tree, Placeholders, Placeholder, Vacant
<1> DEFINE g == [handle[k] EXCEPT !.closing = TRUE]
<1>3. /\ g \in Child /\ g.closing /\ g.ph = handle[k].ph /\ g.parent = handle[k].parent
      /\ g.mode = handle[k].mode /\ g.pool = handle[k].pool
  BY <1>1 DEF Child
<1>4. handle' = [handle EXCEPT ![k] = g]
  BY <1>1
<1> HIDE DEF g
<1>5. handle' \in [Kids -> Child \cup {None}] /\ handle'[k] = g /\ \A j \in Kids \ {k} : handle'[j] = handle[j]
  BY <1>1, <1>3, <1>4
<1>6. g # None
  BY <1>3, Ground
<1>7. HandlesStay
  BY <1>3, <1>5, <1>6 DEF HandlesStay, Stays
<1> QED  BY <1>2, <1>3, <1>5, <1>6, <1>7 DEF Housed

LEMMA WakeIs ==
  ASSUME NEW w \in [Kids -> Watchers \cup {Idle}], NEW k \in Kids
  PROVE  /\ Wake(w, k) \in [Kids -> Watchers \cup {Idle}]
         /\ \A j \in Kids \ {k} : Wake(w, k)[j] = w[j]
         /\ Wake(w, k)[k].pc = w[k].pc
         /\ w[k].pc # "idle" => Wake(w, k)[k].stale /\ Wake(w, k)[k].seen = w[k].seen
<1>1. CASE w[k].pc = "idle"
  BY <1>1 DEF Wake
<1>2. CASE w[k].pc # "idle"
  <2>1. w[k] \in Watchers
    BY <1>2 DEF Idle
  <2>2. Wake(w, k) = [w EXCEPT ![k] = [w[k] EXCEPT !.stale = TRUE]]
    BY <1>2 DEF Wake
  <2>3. /\ [w[k] EXCEPT !.stale = TRUE] \in Watchers /\ [w[k] EXCEPT !.stale = TRUE].pc = w[k].pc
        /\ [w[k] EXCEPT !.stale = TRUE].stale /\ [w[k] EXCEPT !.stale = TRUE].seen = w[k].seen
    BY <2>1 DEF Watchers
  <2> QED  BY <2>2, <2>3
<1> QED  BY <1>1, <1>2

LEMMA BegunIs ==
  ASSUME NEW notice \in BOOLEAN
  PROVE  Begun(notice) \in Releases /\ Begun(notice).pc = "interrupt"
<1>1. {} \in SUBSET Objects /\ <<>> \in Objects \cup {<<>>}
  OBVIOUS
<1> QED  BY <1>1 DEF Begun, Releases

LEMMA CloseNextIs ==
  ASSUME SubInv, NEW o \in Objects, CloseNext(o)
  PROVE  /\ handle' \in [Kids -> Child \cup {None}] /\ watcher' \in [Kids -> Watchers \cup {Idle}]
         /\ HandlesStay /\ \A k \in Kids : WatcherStays(watcher[k], watcher'[k], handle'[k])
         /\ \A k \in Kids : handle'[k] # None /\ ~handle'[k].closing => handle'[k] = handle[k] /\ watcher'[k] = watcher[k]
         /\ Present(o) => Housed(handle'[o[1]]) \/ handle[o[1]].closing
         /\ Present(o) => handle'[o[1]].closing
<1>1. TypedChildren /\ o[1] \in Kids
  BY DEF SubInv, Typed, Objects
<1>2. CASE Present(o) /\ ~handle[o[1]].closing
  <2>1. handle' = [handle EXCEPT ![o[1]].closing = TRUE] /\ watcher' = Wake(watcher, o[1])
    BY <1>2 DEF CloseNext
  <2>2. handle[o[1]] # None
    BY <1>2 DEF Present, Resident
  <2>3. /\ handle' \in [Kids -> Child \cup {None}] /\ HandlesStay
        /\ Housed(handle'[o[1]]) /\ handle'[o[1]].closing
        /\ \A j \in Kids \ {o[1]} : handle'[j] = handle[j]
    BY <1>1, <1>2, <2>1, <2>2, ClosingIs
  <2>4. /\ watcher' \in [Kids -> Watchers \cup {Idle}]
        /\ \A j \in Kids \ {o[1]} : watcher'[j] = watcher[j]
        /\ watcher'[o[1]].pc = watcher[o[1]].pc
    BY <1>1, <2>1, WakeIs DEF TypedChildren
  <2>5. \A k \in Kids : WatcherStays(watcher[k], watcher'[k], handle'[k])
    BY <2>4 DEF WatcherStays
  <2> QED  BY <2>3, <2>4, <2>5
<1>3. CASE ~(Present(o) /\ ~handle[o[1]].closing)
  <2>1. handle' = handle /\ watcher' = watcher
    BY <1>3 DEF CloseNext
  <2>2. HandlesStay /\ \A k \in Kids : WatcherStays(watcher[k], watcher'[k], handle'[k])
    BY <2>1 DEF HandlesStay, Stays, WatcherStays
  <2>3. handle' \in [Kids -> Child \cup {None}] /\ watcher' \in [Kids -> Watchers \cup {Idle}]
    BY <1>1, <2>1 DEF TypedChildren
  <2>4. Present(o) => handle[o[1]].closing
    BY <1>3
  <2> QED  BY <2>1, <2>2, <2>3, <2>4
<1> QED  BY <1>2, <1>3

\* The release of the child that is closed is begun; the others go on.
LEMMA ReleasingIs ==
  ASSUME SubInv, NEW o \in Objects, NEW r \in [Kids -> Releases \cup {Idle}], CloseNext(o)
  PROVE  /\ Releasing(r, o) \in [Kids -> Releases \cup {Idle}]
         /\ \A k \in Kids : \/ Releasing(r, o)[k] = r[k]
                            \/ /\ k = o[1] /\ Releasing(r, o)[k].pc = "interrupt" /\ ~handle[k].closing
                               /\ Housed(handle'[k]) /\ handle'[k].closing
<1>1. o[1] \in Kids
  BY DEF Objects
<1>2. CASE Present(o) /\ ~handle[o[1]].closing
  <2>1. Releasing(r, o) = [r EXCEPT ![o[1]] = Begun(FALSE)]
    BY <1>2 DEF Releasing
  <2>2. Housed(handle'[o[1]]) /\ handle'[o[1]].closing
    BY <1>2, CloseNextIs
  <2>3. Begun(FALSE) \in Releases /\ Begun(FALSE).pc = "interrupt"
    BY BegunIs
  <2> QED  BY <1>1, <1>2, <2>1, <2>2, <2>3
<1>3. CASE ~(Present(o) /\ ~handle[o[1]].closing)
  BY <1>3 DEF Releasing
<1> QED  BY <1>2, <1>3

-----------------------------------------------------------------------------
(* stop.                                                                   *)

LEMMA StopKept == ASSUME SubInv, Stop PROVE SubInv'
<1> USE DEF Stop
<1>1. TypedChildren /\ budget \in Bounds
  BY DEF SubInv, Typed, TypedRest
<1> DEFINE T == {Object(k) : k \in {k \in Kids : Resident(k)}}
           D == [k \in Kids |-> IF Resident(k) THEN handle[k].depth ELSE 0]
<1>2. T \in SUBSET Objects
  BY <1>1 DEF Object, Objects, TypedChildren
<1>3. D \in [Kids -> Nat]
  <2>1. \A k \in Kids : Resident(k) => handle[k].depth \in Nat
    BY <1>1 DEF TypedChildren, Resident, Child
  <2> QED  BY <2>1
<1>4. stopTodo' = [todo |-> T, cur |-> <<>>, depth |-> D]
  OBVIOUS
<1>5. \A d \in Kids : handle[d] # None => <<d, res[d]>> \in T
  BY DEF Object, Resident
<1> HIDE DEF T, D
<1>6. stopTodo' \in [todo : SUBSET Objects, cur : Objects \cup {<<>>}, depth : [Kids -> Nat]] /\ stopTodo'.todo = T
  BY <1>2, <1>3, <1>4
<1>7. budget' \in Bounds /\ budget'.active = budget.active
  BY <1>1, SpendIs
<1>8. Typed'
  BY <1>6, <1>7 DEF SubInv, Typed, TypedChildren, TypedRest
<1>9. HandlesStay /\ AgentsStay /\ CallsQuiet
  BY CallsSame DEF HandlesStay, Stays, AgentsStay, AgentStays
<1>10. Quiet
  BY <1>7, <1>9 DEF Quiet, ReleaseStays, WatcherStays
<1>11. Settling'
  BY DEF SubInv, Settling, Settled
<1>12. StopListed'
  BY <1>5, <1>6 DEF StopListed, StopKnows, Housed
<1> QED  BY <1>8, <1>10, <1>11, <1>12, QuietKept

LEMMA StopChildKept == ASSUME SubInv, StopChild PROVE SubInv'
<1> USE DEF StopChild
<1>1. /\ TypedChildren /\ StopListed
      /\ stopTodo \in [todo : SUBSET Objects, cur : Objects \cup {<<>>}, depth : [Kids -> Nat]]
  BY DEF SubInv, Typed, TypedRest
<1>2. CASE \E o \in stopTodo.todo :
             /\ CloseNext(o) /\ rel' = Releasing(rel, o)
             /\ stopTodo' = [stopTodo EXCEPT !.cur = o] /\ UNCHANGED svc
  <2>1. PICK o \in Objects : /\ CloseNext(o) /\ rel' = Releasing(rel, o)
                             /\ stopTodo' = [stopTodo EXCEPT !.cur = o] /\ UNCHANGED svc
    BY <1>1, <1>2
  <2>2. /\ handle' \in [Kids -> Child \cup {None}] /\ watcher' \in [Kids -> Watchers \cup {Idle}]
        /\ HandlesStay /\ \A k \in Kids : WatcherStays(watcher[k], watcher'[k], handle'[k])
        /\ \A k \in Kids : handle'[k] # None /\ ~handle'[k].closing => handle'[k] = handle[k] /\ watcher'[k] = watcher[k]
    BY <2>1, CloseNextIs
  <2>3. rel \in [Kids -> Releases \cup {Idle}]
    BY <1>1 DEF TypedChildren
  <2>4. /\ rel' \in [Kids -> Releases \cup {Idle}]
        /\ \A k \in Kids : ReleaseStays(k)
    BY <2>1, <2>3, ReleasingIs DEF ReleaseStays, ReleaseMoves
  <2>5. /\ stopTodo' \in [todo : SUBSET Objects, cur : Objects \cup {<<>>}, depth : [Kids -> Nat]]
        /\ stopTodo'.todo = stopTodo.todo
    BY <1>1, <2>1
  <2>6. Typed'
    BY <2>1, <2>2, <2>4, <2>5 DEF SubInv, Typed, TypedChildren, TypedRest
  <2>7. AgentsStay /\ CallsQuiet
    BY CallsSame DEF AgentsStay, AgentStays
  <2>8. Quiet
    BY <2>2, <2>4, <2>7 DEF Quiet
  <2>9. Settling'
    <3>1. \A k \in Kids : SettledSame(k)
      BY <2>2 DEF SettledSame
    <3>2. Settling /\ {} \in SUBSET Kids /\ svc' = svc /\ registry' = registry
      BY <2>1 DEF SubInv
    <3> QED  BY <3>1, <3>2, SettlingStays
  <2>10. StopListed'
    BY <1>1, <2>1, <2>2, <2>5 DEF StopListed, StopKnows, HandlesStay, Stays, Housed
  <2> QED  BY <2>6, <2>8, <2>9, <2>10, QuietKept
<1>3. CASE /\ stopTodo.cur # <<>> /\ ~Present(stopTodo.cur)
           /\ stopTodo' = [stopTodo EXCEPT !.todo = @ \ {stopTodo.cur}, !.cur = <<>>]
           /\ UNCHANGED <<handle, watcher, rel, svc>>
  <2>1. /\ stopTodo' \in [todo : SUBSET Objects, cur : Objects \cup {<<>>}, depth : [Kids -> Nat]]
        /\ stopTodo'.todo = stopTodo.todo \ {stopTodo.cur}
    BY <1>1, <1>3
  <2>2. Typed'
    BY <1>3, <2>1 DEF SubInv, Typed, TypedChildren, TypedRest
  <2>3. HandlesStay /\ AgentsStay /\ CallsQuiet
    BY <1>3, CallsSame DEF HandlesStay, Stays, AgentsStay, AgentStays
  <2>4. Quiet
    BY <1>3, <2>3 DEF Quiet, ReleaseStays, WatcherStays
  <2>5. Settling'
    BY <1>3 DEF SubInv, Settling
  <2>6. \A d \in Kids : handle[d] # None => <<d, res[d]>> # stopTodo.cur
    BY <1>3 DEF Present, Resident
  <2>7. StopListed'
    BY <1>1, <1>3, <2>1, <2>6 DEF StopListed, StopKnows, Housed
  <2> QED  BY <2>2, <2>4, <2>5, <2>7, QuietKept
<1>4. CASE stopTodo.todo = {} /\ svc' = "stopped" /\ UNCHANGED <<handle, watcher, rel, stopTodo>>
  <2>1. Typed'
    BY <1>4 DEF SubInv, Typed, TypedChildren, TypedRest
  <2>2. HandlesStay /\ AgentsStay /\ CallsQuiet
    BY <1>4, CallsSame DEF HandlesStay, Stays, AgentsStay, AgentStays
  <2>3. Quiet
    BY <1>4, <2>2 DEF Quiet, ReleaseStays, WatcherStays
  <2>4. Settling'
    BY <1>4 DEF SubInv, Settling, Settled
  <2>5. StopListed'
    BY <1>1, <1>4 DEF StopListed, StopKnows
  <2> QED  BY <2>1, <2>3, <2>4, <2>5, QuietKept
<1> QED  BY <1>2, <1>3, <1>4
-----------------------------------------------------------------------------
(* Steps that touch a resident child.                                      *)

\* A step that changes the handle, the agent or the watcher of one housed child
\* and leaves it settled.
LEMMA HousedOnly ==
  ASSUME SubInv, Typed', NEW k \in Kids, Housed(handle[k]), Stays(handle[k], handle'[k]),
         AgentStays(agent[k], agent'[k], HeldBy(k, call)),
         \A j \in Kids \ {k} : handle'[j] = handle[j] /\ agent'[j] = agent[j] /\ watcher'[j] = watcher[j],
         Settled(svc, registry, handle'[k], agent'[k], watcher'[k]),
         CallsQuiet, \A j \in Kids : ReleaseStays(j),
         UNCHANGED <<svc, registry, res, reserved, catalog, stopTodo>>, budget'.active = budget.active
  PROVE  SubInv'
<1>1. HandlesStay
  BY DEF HandlesStay, Stays
<1>2. AgentsStay
  BY DEF AgentsStay, AgentStays
<1>3. Housed(handle'[k])
  BY DEF Stays, Housed
<1>4. \A j \in Kids : WatcherStays(watcher[j], watcher'[j], handle'[j])
  BY <1>3 DEF WatcherStays
<1>5. Quiet
  BY <1>1, <1>2, <1>4 DEF Quiet
<1>6. Settling'
  <2>1. \A j \in Kids \ {k} : SettledSame(j)
    BY DEF SettledSame
  <2>2. Settling /\ {k} \in SUBSET Kids /\ svc' = svc /\ registry' = registry
    BY DEF SubInv
  <2>3. \A j \in {k} : Settled(svc', registry', handle'[j], agent'[j], watcher'[j])
    BY <2>2
  <2> QED  BY <2>1, <2>2, <2>3, SettlingStays
<1>7. StopListed'
  BY <1>1, StopStays DEF SubInv
<1> QED  BY <1>5, <1>6, <1>7, QuietKept

LEMMA MarkClosingIs ==
  ASSUME SubInv, NEW k \in Kids, NEW notice \in BOOLEAN, handle[k] # None, MarkClosing(k, notice)
  PROVE  /\ handle' \in [Kids -> Child \cup {None}] /\ rel' \in [Kids -> Releases \cup {Idle}]
         /\ Housed(handle[k]) /\ Stays(handle[k], handle'[k]) /\ handle'[k].closing
         /\ \A j \in Kids \ {k} : handle'[j] = handle[j]
         /\ \A j \in Kids : ReleaseStays(j)
<1>1. rel \in [Kids -> Releases \cup {Idle}]
  BY DEF SubInv, Typed, TypedChildren
<1>2. ~handle[k].closing /\ handle' = [handle EXCEPT ![k].closing = TRUE] /\ rel' = [rel EXCEPT ![k] = Begun(notice)]
  BY DEF MarkClosing
<1>3. /\ handle' \in [Kids -> Child \cup {None}] /\ HandlesStay
      /\ Housed(handle'[k]) /\ handle'[k].closing
      /\ \A j \in Kids \ {k} : handle'[j] = handle[j]
  BY <1>2, ClosingIs
<1>4. Begun(notice) \in Releases /\ Begun(notice).pc = "interrupt"
  BY BegunIs
<1>5. rel' \in [Kids -> Releases \cup {Idle}] /\ rel'[k].pc = "interrupt" /\ \A j \in Kids \ {k} : rel'[j] = rel[j]
  BY <1>1, <1>2, <1>4
<1>6. \A j \in Kids : ReleaseStays(j)
  BY <1>3, <1>5 DEF ReleaseStays, ReleaseMoves
<1>7. Stays(handle[k], handle'[k])
  BY <1>3 DEF HandlesStay
<1>8. Housed(handle[k])
  BY <1>3, <1>7 DEF Housed, Stays
<1> QED  BY <1>3, <1>5, <1>6, <1>7, <1>8

LEMMA WatchDecideKept == ASSUME SubInv, NEW k \in Kids, WatchDecide(k) PROVE SubInv'
<1> USE DEF WatchDecide
<1>1. /\ watcher \in [Kids -> Watchers \cup {Idle}] /\ watcher[k] \in Watchers /\ watcher[k].pc = "decide"
      /\ handle[k] \in Child /\ handle[k] # None
      /\ Settled(svc, registry, handle[k], agent[k], watcher[k])
  BY WatcherIs
<1>2. \A pc \in {"top", "parked", "releasing"} : /\ [watcher[k] EXCEPT !.pc = pc] \in Watchers
                                                 /\ [watcher[k] EXCEPT !.pc = pc].pc = pc
  BY <1>1 DEF Watchers
<1>3. CASE \E pc \in {"top", "parked"} : watcher' = [watcher EXCEPT ![k].pc = pc] /\ UNCHANGED <<handle, rel>>
  <2>1. PICK pc \in {"top", "parked"} : watcher' = [watcher EXCEPT ![k].pc = pc] /\ UNCHANGED <<handle, rel>>
    BY <1>3
  <2> DEFINE w == [watcher[k] EXCEPT !.pc = pc]
  <2>2. w \in Watchers \cup {Idle} /\ w.pc = pc
    BY <1>2
  <2>3. watcher' = [watcher EXCEPT ![k] = w]
    BY <1>1, <2>1
  <2> HIDE DEF w
  <2>4. Settled(svc, registry, handle[k], agent[k], w)
    BY <1>1, <2>2 DEF Settled
  <2> QED  BY <1>1, <2>1, <2>2, <2>3, <2>4, WatcherOnly
<1>4. CASE MarkClosing(k, handle[k].announced) /\ watcher' = [watcher EXCEPT ![k].pc = "releasing"]
  <2>1. handle[k].announced \in BOOLEAN
    BY <1>1 DEF Child
  <2>2. /\ handle' \in [Kids -> Child \cup {None}] /\ rel' \in [Kids -> Releases \cup {Idle}]
        /\ Housed(handle[k]) /\ Stays(handle[k], handle'[k]) /\ handle'[k].closing
        /\ \A j \in Kids \ {k} : handle'[j] = handle[j]
        /\ \A j \in Kids : ReleaseStays(j)
    BY <1>1, <1>4, <2>1, MarkClosingIs
  <2>3. watcher' \in [Kids -> Watchers \cup {Idle}] /\ \A j \in Kids \ {k} : watcher'[j] = watcher[j]
    BY <1>1, <1>2, <1>4
  <2>4. Typed'
    BY <2>2, <2>3 DEF SubInv, Typed, TypedChildren, TypedRest
  <2>5. Settled(svc, registry, handle'[k], agent'[k], watcher'[k])
    BY <2>2 DEF Settled
  <2>6. AgentStays(agent[k], agent'[k], HeldBy(k, call)) /\ agent' = agent /\ budget' = budget
    BY DEF AgentStays
  <2> QED  BY <2>2, <2>3, <2>4, <2>5, <2>6, CallsSame, HousedOnly
<1> QED  BY <1>3, <1>4

LEMMA CloseChildKept == ASSUME SubInv, NEW t \in Threads, CloseChild(t) PROVE SubInv'
<1> USE DEF CloseChild
<1> DEFINE k == call[t].obj[1]
<1>1. TypedChildren /\ call[t].pc \in {"close", "drop"}
  BY SMTT(30) DEF SubInv, Typed
<1>2. CASE Present(call[t].obj)
  <2>1. k \in Kids /\ handle[k] # None
    <3>1. CallShape(call[t], res)
      BY DEF SubInv, CallsKept, Shaped
    <3> QED  BY <1>1, <1>2, <3>1 DEF CallShape, Creates, Creating, Objects, Present, Resident
  <2>2. MarkClosing(k, FALSE) /\ watcher' = Wake(watcher, k) /\ call' = call
    BY <1>2
  <2>3. /\ handle' \in [Kids -> Child \cup {None}] /\ rel' \in [Kids -> Releases \cup {Idle}]
        /\ Housed(handle[k]) /\ Stays(handle[k], handle'[k]) /\ handle'[k].closing
        /\ \A j \in Kids \ {k} : handle'[j] = handle[j]
        /\ \A j \in Kids : ReleaseStays(j)
    BY <2>1, <2>2, MarkClosingIs
  <2>4. watcher' \in [Kids -> Watchers \cup {Idle}] /\ \A j \in Kids \ {k} : watcher'[j] = watcher[j]
    BY <1>1, <2>1, <2>2, WakeIs DEF TypedChildren
  <2>5. Typed'
    BY <2>2, <2>3, <2>4, SMTT(30) DEF SubInv, Typed, TypedChildren, TypedRest
  <2>6. Settled(svc, registry, handle'[k], agent'[k], watcher'[k])
    BY <2>3 DEF Settled
  <2>7. AgentStays(agent[k], agent'[k], HeldBy(k, call)) /\ agent' = agent /\ budget' = budget
    BY DEF AgentStays
  <2> QED  BY <2>1, <2>2, <2>3, <2>4, <2>5, <2>6, <2>7, CallsSame, HousedOnly
<1>3. CASE ~Present(call[t].obj)
  <2>1. Return(t) /\ UNCHANGED <<handle, rel, watcher>>
    BY <1>3
  <2>2. call' \in [Threads -> Calls \cup {Idle}] /\ CallsQuiet
    BY <1>1, <2>1, ReturnQuiet DEF Pinned
  <2>3. Typed'
    BY <2>1, <2>2 DEF SubInv, Typed, TypedChildren, TypedRest
  <2> QED  BY <2>1, <2>2, <2>3, CallsOnly
<1> QED  BY <1>2, <1>3

\* A watcher that starts.
Started == [pc |-> "top", stale |-> FALSE, seen |-> 0, held |-> FALSE]

LEMMA StartedIs == Started \in Watchers /\ Started.pc = "top"
BY DEF Started, Watchers

LEMMA AcceptedKept == ASSUME SubInv, NEW t \in Threads, Accepted(t) PROVE SubInv'
<1> USE DEF Accepted
<1> DEFINE k == call[t].obj[1]
<1>1. TypedChildren /\ call[t].pc = "accept" /\ Return(t)
  BY DEF SubInv, Typed
<1>2. call' \in [Threads -> Calls \cup {Idle}] /\ CallsQuiet
  BY <1>1, ReturnQuiet DEF Pinned
<1>3. CASE Present(call[t].obj)
  <2>1. k \in Kids /\ handle[k] # None /\ res[k] = 1
    <3>1. CallShape(call[t], res)
      BY DEF SubInv, CallsKept, Shaped
    <3> QED  BY <1>1, <1>3, <3>1 DEF CallShape, Creates, Creating, Objects, Present, Resident
  <2>2. Accept(k)
    BY <1>3
  <2>3. Housed(handle[k])
    <3>1. Placeholder(k, handle[k], res[k], call)
      BY <2>1 DEF SubInv, Tree, Placeholders
    <3> QED  BY <2>1, <3>1 DEF Placeholder, Vacant, Housed
  <2>4. handle[k] \in Child /\ handle \in [Kids -> Child \cup {None}] /\ watcher \in [Kids -> Watchers \cup {Idle}]
    BY <1>1, <2>1 DEF TypedChildren
  <2>5. PICK q \in BOOLEAN : q <=> handle[k].watched \/ svc = "active"
    OBVIOUS
  <2>6. handle[k].watched \in BOOLEAN
    BY <2>4 DEF Child
  <2>7. (handle[k].watched \/ svc = "active") = q
    BY <2>5, <2>6
  <2> DEFINE g == [handle[k] EXCEPT !.announced = TRUE, !.watched = q]
  <2>8. handle' = [handle EXCEPT ![k] = g]
    BY <2>2, <2>4, <2>7 DEF Accept
  <2>9. /\ g \in Child /\ g.ph = handle[k].ph /\ g.parent = handle[k].parent /\ g.pool = handle[k].pool
        /\ g.mode = handle[k].mode /\ g.closing = handle[k].closing /\ g.delivered = handle[k].delivered /\ g.watched = q
    BY <2>4 DEF Child
  <2>10. g # None
    BY <2>9, Ground
  <2> HIDE DEF g
  <2>11. handle' \in [Kids -> Child \cup {None}] /\ handle'[k] = g /\ \A j \in Kids \ {k} : handle'[j] = handle[j]
    BY <2>1, <2>4, <2>8, <2>9
  <2>12. Stays(handle[k], handle'[k])
    BY <2>9, <2>10, <2>11, <2>1, SMTT(30) DEF Stays
  <2>13. /\ watcher' \in [Kids -> Watchers \cup {Idle}] /\ \A j \in Kids \ {k} : watcher'[j] = watcher[j]
         /\ IF ~handle[k].watched /\ svc = "active" THEN watcher'[k].pc = "top" ELSE watcher'[k] = watcher[k]
    BY <2>1, <2>2, <2>4, StartedIs DEF Accept, Started
  <2>14. Typed'
    BY <1>2, <2>11, <2>13 DEF SubInv, Typed, TypedChildren, TypedRest
  <2>15. Settled(svc, registry, handle[k], agent[k], watcher[k]) /\ agent' = agent
    BY <2>1 DEF SubInv, Settling
  <2>16. q <=> handle[k].watched \/ svc = "active"
    BY <2>5
  <2>17. Settled(svc, registry, handle'[k], agent'[k], watcher'[k])
    <3>1. CASE ~handle[k].watched /\ svc = "active"
      BY <3>1, <2>1, <2>9, <2>11, <2>13, <2>15, <2>16 DEF Settled
    <3>2. CASE ~(~handle[k].watched /\ svc = "active")
      BY <3>2, <2>1, <2>9, <2>11, <2>13, <2>15, <2>16 DEF Settled
    <3> QED  BY <3>1, <3>2, SMTT(30)
  <2>18. AgentStays(agent[k], agent'[k], HeldBy(k, call)) /\ budget' = budget /\ \A j \in Kids : ReleaseStays(j)
    BY DEF AgentStays, ReleaseStays
  <2> HIDE DEF k
  <2> QED  BY <1>2, <2>1, <2>3, <2>11, <2>12, <2>13, <2>14, <2>15, <2>17, <2>18, HousedOnly
<1>4. CASE ~Present(call[t].obj)
  <2>1. UNCHANGED <<handle, watcher>>
    BY <1>4
  <2>2. Typed'
    BY <1>2, <2>1 DEF SubInv, Typed, TypedChildren, TypedRest
  <2> QED  BY <1>2, <2>1, <2>2, CallsOnly
<1> QED  BY <1>3, <1>4

\* A message to a housed child, with the wake of its watcher.
LEMMA MessageKept ==
  ASSUME SubInv, NEW k \in Kids, Housed(handle[k]), NEW g \in Child, NEW w \in Watchers \cup {Idle},
         agent' = [agent EXCEPT ![k] = Enqueued(@)], handle' = [handle EXCEPT ![k] = g],
         watcher' = [watcher EXCEPT ![k] = w],
         g.ph = handle[k].ph, g.parent = handle[k].parent, g.pool = handle[k].pool, g.mode = handle[k].mode,
         g.closing = handle[k].closing,
         g.delivered = handle[k].delivered + 1,
         agent[k].live, svc = "active" /\ registry = "open" => ((g.announced => g.watched) /\ (g.watched => w.pc # "idle")) \/ handle[k].closing,
         CallsQuiet, call' \in [Threads -> Calls \cup {Idle}],
         UNCHANGED <<svc, registry, res, reserved, catalog, rel, stopTodo, budget>>
  PROVE  SubInv'
<1>1. /\ handle \in [Kids -> Child \cup {None}] /\ agent \in [Kids -> Agents] /\ watcher \in [Kids -> Watchers \cup {Idle}]
      /\ handle[k] \in Child /\ handle[k] # None
  BY DEF SubInv, Typed, TypedChildren, Housed
<1> DEFINE b == Enqueued(agent[k])
<1>2. b \in Agents /\ b.live = agent[k].live /\ b.busy = agent[k].busy /\ Received(b) = Received(agent[k]) + 1
  BY <1>1, EnqueuedIs
<1> HIDE DEF b
<1>3. agent' \in [Kids -> Agents] /\ agent'[k] = b /\ \A j \in Kids \ {k} : agent'[j] = agent[j]
  BY <1>1, <1>2 DEF b
<1>4. handle' \in [Kids -> Child \cup {None}] /\ handle'[k] = g /\ \A j \in Kids \ {k} : handle'[j] = handle[j]
  BY <1>1
<1>5. watcher' \in [Kids -> Watchers \cup {Idle}] /\ watcher'[k] = w /\ \A j \in Kids \ {k} : watcher'[j] = watcher[j]
  BY <1>1
<1>6. Typed'
  BY <1>3, <1>4, <1>5 DEF SubInv, Typed, TypedChildren, TypedRest
<1>7. g # None
  BY Ground
<1>8. Stays(handle[k], handle'[k])
  BY <1>1, <1>4, <1>7 DEF Stays
<1>9. AgentStays(agent[k], agent'[k], HeldBy(k, call))
  BY <1>2, <1>3, HousedIs DEF AgentStays
<1>10. Settled(svc, registry, g, b, w)
  <2> SUFFICES ASSUME ~g.closing PROVE Settled(svc, registry, g, b, w)
    BY DEF Settled
  <2>1. Settled(svc, registry, handle[k], agent[k], watcher[k])
    BY DEF SubInv, Settling
  <2>2. handle[k].delivered = Received(agent[k])
    BY <1>1, <2>1 DEF Settled
  <2> QED  BY <1>2, <2>2 DEF Settled
<1>11. Settled(svc, registry, handle'[k], agent'[k], watcher'[k])
  BY <1>3, <1>4, <1>5, <1>10
<1>12. \A j \in Kids : ReleaseStays(j)
  BY DEF ReleaseStays
<1>13. UNCHANGED <<svc, registry, res, reserved, catalog, stopTodo>> /\ budget'.active = budget.active
  OBVIOUS
<1> QED  BY <1>3, <1>4, <1>5, <1>6, <1>8, <1>9, <1>11, <1>12, <1>13, HousedOnly

LEMMA DeliveredIs ==
  ASSUME NEW h \in Child
  PROVE  /\ Delivered(h) \in Child /\ Delivered(h).ph = h.ph /\ Delivered(h).parent = h.parent /\ Delivered(h).pool = h.pool
         /\ Delivered(h).mode = h.mode /\ Delivered(h).closing = h.closing /\ Delivered(h).delivered = h.delivered + 1
         /\ Delivered(h).announced = h.announced /\ Delivered(h).watched = h.watched
BY DEF Delivered, Child

LEMMA DeliverUpKept == ASSUME SubInv, NEW t \in Threads, DeliverUp(t) PROVE SubInv'
<1> USE DEF DeliverUp
<1> DEFINE p == call[t].target
<1>1. TypedChildren /\ call[t] \in Calls /\ call[t].pc = "deliver" /\ Return(t)
  BY CallIs DEF SubInv, Typed, TypedChildren
<1>2. call' \in [Threads -> Calls \cup {Idle}] /\ CallsQuiet
  BY <1>1, ReturnQuiet DEF Pinned
<1>3. CASE p # Root /\ Takes(p)
  <2>1. call[t].caller \in Kids /\ handle[call[t].caller] # None /\ handle[call[t].caller].parent = p
    BY <1>1 DEF ToParent, Resident, Calls, Pools
  <2>2. handle[call[t].caller] \in Child
    BY <1>1, <2>1 DEF TypedChildren
  <2>3. p \in Kids
    BY <1>3, <2>1, <2>2 DEF Child
  <2>4. Housed(handle[p]) /\ agent[p].live
    BY <1>3, <2>1, <2>3 DEF SubInv, Tree, Parented, Takes
  <2>5. handle[p] \in Child /\ handle[p] # None /\ watcher \in [Kids -> Watchers \cup {Idle}]
    BY <1>1, <2>3, <2>4 DEF TypedChildren, Housed
  <2> DEFINE g == Delivered(handle[p])
             w == Wake(watcher, p)[p]
  <2>6. agent' = [agent EXCEPT ![p] = Enqueued(@)] /\ handle' = [handle EXCEPT ![p] = g] /\ watcher' = Wake(watcher, p)
    BY <1>1, <1>3, <2>3, <2>5 DEF Resident, TypedChildren
  <2>7. /\ g \in Child /\ g.ph = handle[p].ph /\ g.parent = handle[p].parent /\ g.pool = handle[p].pool
        /\ g.mode = handle[p].mode /\ g.closing = handle[p].closing /\ g.delivered = handle[p].delivered + 1
        /\ g.announced = handle[p].announced /\ g.watched = handle[p].watched
    BY <2>5, DeliveredIs
  <2>8. /\ Wake(watcher, p) \in [Kids -> Watchers \cup {Idle}]
        /\ \A j \in Kids \ {p} : Wake(watcher, p)[j] = watcher[j]
        /\ w.pc = watcher[p].pc
        /\ watcher[p].pc # "idle" => w.stale /\ w.seen = watcher[p].seen
    BY <2>3, <2>5, WakeIs
  <2>9. w \in Watchers \cup {Idle} /\ watcher' = [watcher EXCEPT ![p] = w]
    BY <2>3, <2>5, <2>6, <2>8
  <2>10. Settled(svc, registry, handle[p], agent[p], watcher[p])
    BY <2>3 DEF SubInv, Settling
  <2> HIDE DEF g, w, p
  <2>11. svc = "active" /\ registry = "open" => ((g.announced => g.watched) /\ (g.watched => w.pc # "idle")) \/ handle[p].closing
    BY <2>5, <2>7, <2>8, <2>10 DEF Settled
  <2>13. UNCHANGED <<svc, registry, res, reserved, catalog, rel, stopTodo, budget>>
    OBVIOUS
  <2> QED  BY <1>2, <2>3, <2>4, <2>6, <2>7, <2>9, <2>11, <2>13, MessageKept
<1>4. CASE ~(p # Root /\ Takes(p))
  <2>1. UNCHANGED <<agent, handle, watcher>>
    BY <1>4
  <2>2. Typed'
    BY <1>2, <2>1 DEF SubInv, Typed, TypedChildren, TypedRest
  <2> QED  BY <1>2, <2>1, <2>2, CallsOnly
<1> QED  BY <1>3, <1>4

LEMMA DeliverDownKept == ASSUME SubInv, NEW t \in Threads, DeliverDown(t) PROVE SubInv'
<1> USE DEF DeliverDown
<1> DEFINE k == call[t].target
<1>1. TypedChildren /\ call[t] \in Calls /\ call[t].pc = "deliver"
  BY CallIs DEF SubInv, Typed, TypedChildren
<1>2. Return(t) => call' \in [Threads -> Calls \cup {Idle}] /\ CallsQuiet
  BY <1>1, ReturnQuiet DEF Pinned
<1>3. k \in Kids /\ handle[k] # None /\ ~handle[k].closing
  <2>1. CallShape(call[t], res)
    BY DEF SubInv, CallsKept, Shaped
  <2> QED  BY <1>1, <2>1 DEF CallShape, Calls, Pools, Resident, Writing, Delivering
<1>4. CASE Authorized(call[t].caller, k) /\ agent[k].live
  <2>1. Housed(handle[k]) /\ handle[k] \in Child /\ watcher \in [Kids -> Watchers \cup {Idle}] /\ handle \in [Kids -> Child \cup {None}]
    <3>1. Placeholder(k, handle[k], res[k], call)
      BY <1>3 DEF SubInv, Tree, Placeholders
    <3> QED  BY <1>1, <1>3, <3>1 DEF Placeholder, Vacant, Housed, TypedChildren
  <2> DEFINE h == [handle[k] EXCEPT !.announced = TRUE, !.watched = TRUE]
             g == Delivered(h)
             w == IF ~handle[k].watched THEN Started ELSE Wake(watcher, k)[k]
  <2>2. /\ h \in Child /\ h.ph = handle[k].ph /\ h.parent = handle[k].parent /\ h.pool = handle[k].pool
        /\ h.mode = handle[k].mode /\ h.closing = handle[k].closing /\ h.delivered = handle[k].delivered
    BY <2>1 DEF Child
  <2>3. agent' = [agent EXCEPT ![k] = Enqueued(@)] /\ handle' = [handle EXCEPT ![k] = g]
    BY <1>4, <2>1
  <2>4. watcher' = IF ~handle[k].watched THEN [watcher EXCEPT ![k] = Started] ELSE Wake(watcher, k)
    BY <1>4 DEF Started
  <2> HIDE DEF h
  <2>5. /\ g \in Child /\ g.ph = handle[k].ph /\ g.parent = handle[k].parent /\ g.pool = handle[k].pool
        /\ g.mode = handle[k].mode /\ g.closing = handle[k].closing /\ g.delivered = handle[k].delivered + 1
    BY <2>2, DeliveredIs
  <2>6. /\ Wake(watcher, k) \in [Kids -> Watchers \cup {Idle}]
        /\ \A j \in Kids \ {k} : Wake(watcher, k)[j] = watcher[j]
        /\ Wake(watcher, k)[k].pc = watcher[k].pc
        /\ watcher[k].pc # "idle" => Wake(watcher, k)[k].stale /\ Wake(watcher, k)[k].seen = watcher[k].seen
    BY <1>3, <2>1, WakeIs, SMTT(30)
  <2>7. Settled(svc, registry, handle[k], agent[k], watcher[k]) /\ svc = "active"
    BY <1>3 DEF SubInv, Settling
  <2>8. /\ w \in Watchers \cup {Idle} /\ watcher' = [watcher EXCEPT ![k] = w]
        /\ registry = "open" => w.pc # "idle"
    <3>1. CASE ~handle[k].watched
      BY <3>1, <2>1, <2>4, StartedIs, SMTT(30)
    <3>2. CASE handle[k].watched
      <4>1. (registry = "open" => watcher[k].pc # "idle") /\ w = Wake(watcher, k)[k] /\ watcher' = Wake(watcher, k)
        BY <1>3, <2>4, <2>7, <3>2 DEF Settled
      <4> HIDE DEF w
      <4> QED  BY <1>3, <2>1, <2>6, <4>1
    <3> QED  BY <3>1, <3>2
  <2> HIDE DEF g, w, k
  <2>9. UNCHANGED <<svc, registry, res, reserved, catalog, rel, stopTodo, budget>>
    OBVIOUS
  <2>10. svc = "active" /\ registry = "open" => ((g.announced => g.watched) /\ (g.watched => w.pc # "idle")) \/ handle[k].closing
    <3>1. g.watched
      <4>1. h.watched
        BY <2>1 DEF h, Child
      <4> QED  BY <4>1, <2>2, DeliveredIs DEF g
    <3> QED  BY <2>8, <3>1
  <2>11. agent[k].live /\ Return(t)
    BY <1>4 DEF k
  <2> QED  BY <1>2, <1>3, <2>1, <2>3, <2>5, <2>8, <2>9, <2>10, <2>11, MessageKept DEF k
<1>5. CASE Authorized(call[t].caller, k) /\ ~agent[k].live
  <2>1. call' = [call EXCEPT ![t].pc = "drop", ![t].obj = Object(k)] /\ UNCHANGED <<agent, handle, watcher>>
    BY <1>5
  <2>2. Object(k) \in Objects
    BY <1>1, <1>3 DEF Object, Objects, TypedChildren
  <2> DEFINE b == [call[t] EXCEPT !.pc = "drop", !.obj = Object(k)]
  <2>3. b \in Calls
    BY <1>1, <2>2 DEF Calls, Writing, Delivering
  <2>4. call' = [call EXCEPT ![t] = b]
    BY <1>1, <2>1
  <2>5. b.pc = "drop" /\ b.caller = call[t].caller /\ b.mode = call[t].mode /\ b.target = call[t].target
        /\ b.bg = call[t].bg /\ b.pool = call[t].pool /\ b.obj \in Objects
    BY <1>1, <2>2 DEF Calls
  <2> HIDE DEF b
  <2>6. Quietly(call[t], b)
    BY <1>1, <2>5 DEF Quietly, Follows, Delivering, Pinned
  <2>7. call' \in [Threads -> Calls \cup {Idle}] /\ CallsQuiet
    BY <1>1, <2>3, <2>4, <2>6, SameCallQuiet DEF CallsQuiet, TypedChildren
  <2>8. Typed'
    BY <2>1, <2>7 DEF SubInv, Typed, TypedChildren, TypedRest
  <2> QED  BY <2>1, <2>7, <2>8, CallsOnly
<1>6. CASE ~Authorized(call[t].caller, k)
  <2>1. UNCHANGED <<agent, handle, watcher>> /\ Return(t)
    BY <1>6
  <2>2. Typed'
    BY <1>2, <2>1 DEF SubInv, Typed, TypedChildren, TypedRest
  <2> QED  BY <1>2, <2>1, <2>2, CallsOnly
<1> QED  BY <1>4, <1>5, <1>6
-----------------------------------------------------------------------------
(* The steps of a release before its end.                                  *)

\* What a release at work says of its child.
LEMMA ReleaseIs ==
  ASSUME SubInv, NEW k \in Kids, rel[k].pc # "idle"
  PROVE  /\ rel \in [Kids -> Releases \cup {Idle}] /\ rel[k] \in Releases
         /\ handle[k] \in Child /\ Housed(handle[k]) /\ handle[k].closing
<1>1. rel \in [Kids -> Releases \cup {Idle}] /\ rel[k] \in Releases \cup {Idle} /\ handle[k] \in Child \cup {None}
  BY DEF SubInv, Typed, TypedChildren
<1>2. rel[k] \in Releases
  BY <1>1 DEF Idle
<1>3. Housed(handle[k]) /\ handle[k].closing
  BY DEF SubInv, Tree, Attended, AttendedBy
<1>4. handle[k] # None
  BY <1>3 DEF Housed
<1> QED  BY <1>1, <1>2, <1>3, <1>4

\* A step of a release that changes at most its child's agent and its calls.
LEMMA ReleaseOnly ==
  ASSUME SubInv, Typed', NEW k \in Kids, rel[k].pc # "idle", ReleaseMoves(k),
         \A j \in Kids \ {k} : agent'[j] = agent[j] /\ rel'[j] = rel[j],
         AgentStays(agent[k], agent'[k], HeldBy(k, call)), CallsQuiet,
         UNCHANGED <<svc, registry, handle, res, reserved, catalog, watcher, stopTodo>>, budget'.active = budget.active
  PROVE  SubInv'
<1>1. Housed(handle[k]) /\ handle[k].closing
  BY ReleaseIs
<1>2. Stays(handle[k], handle'[k])
  BY DEF Stays
<1>3. Settled(svc, registry, handle'[k], agent'[k], watcher'[k])
  BY <1>1 DEF Settled
<1>4. \A j \in Kids : ReleaseStays(j)
  BY DEF ReleaseStays
<1> QED  BY <1>1, <1>2, <1>3, <1>4, HousedOnly

LEMMA ReleaseInterruptKept == ASSUME SubInv, NEW k \in Kids, ReleaseInterrupt(k) PROVE SubInv'
<1> USE DEF ReleaseInterrupt
<1>1. /\ TypedChildren /\ rel[k].pc = "interrupt"
      /\ rel \in [Kids -> Releases \cup {Idle}] /\ rel[k] \in Releases
      /\ Housed(handle[k]) /\ handle[k].closing
  BY ReleaseIs DEF SubInv, Typed
<1>2. /\ agent' \in [Kids -> Agents] /\ \A j \in Kids \ {k} : agent'[j] = agent[j]
      /\ AgentStays(agent[k], agent'[k], HeldBy(k, call))
  BY <1>1, InterruptIs
<1>3. call' \in [Threads -> Calls \cup {Idle}] /\ CallsQuiet
  BY <1>1, CutIs
<1>4. /\ rel' \in [Kids -> Releases \cup {Idle}] /\ rel'[k].pc = "list" /\ \A j \in Kids \ {k} : rel'[j] = rel[j]
  <2>1. [rel[k] EXCEPT !.pc = "list"] \in Releases /\ [rel[k] EXCEPT !.pc = "list"].pc = "list"
    BY <1>1 DEF Releases
  <2> QED  BY <1>1, <2>1
<1>5. Typed'
  BY <1>2, <1>3, <1>4 DEF SubInv, Typed, TypedChildren, TypedRest
<1>6. ReleaseMoves(k)
  BY <1>1, <1>4 DEF ReleaseMoves
<1>7. budget'.active = budget.active /\ rel[k].pc # "idle"
  BY <1>1
<1> QED  BY <1>2, <1>3, <1>4, <1>5, <1>6, <1>7, ReleaseOnly

LEMMA ReleaseListKept == ASSUME SubInv, NEW k \in Kids, ReleaseList(k) PROVE SubInv'
<1> USE DEF ReleaseList
<1>1. /\ TypedChildren /\ rel[k].pc = "list"
      /\ rel \in [Kids -> Releases \cup {Idle}] /\ rel[k] \in Releases
      /\ Housed(handle[k]) /\ handle[k].closing
  BY ReleaseIs DEF SubInv, Typed
<1> DEFINE T == {Object(d) : d \in {d \in Kids : Resident(d) /\ handle[d].parent = k}}
           q == [rel[k] EXCEPT !.pc = "children", !.todo = T]
<1>2. T \in SUBSET Objects
  BY <1>1 DEF Object, Objects, TypedChildren
<1>3. \A d \in Kids : Housed(handle[d]) /\ handle[d].parent = k => <<d, res[d]>> \in T
  BY DEF Object, Resident, Housed
<1>4. rel' = [rel EXCEPT ![k] = q]
  BY <1>1
<1> HIDE DEF T
<1>5. q \in Releases /\ q.pc = "children" /\ q.todo = T
  BY <1>1, <1>2 DEF Releases
<1> HIDE DEF q
<1>6. rel' \in [Kids -> Releases \cup {Idle}] /\ rel'[k] = q /\ \A j \in Kids \ {k} : rel'[j] = rel[j]
  BY <1>1, <1>4, <1>5
<1>7. Typed'
  BY <1>6 DEF SubInv, Typed, TypedChildren, TypedRest
<1>8. ReleaseMoves(k)
  BY <1>1, <1>3, <1>5, <1>6 DEF ReleaseMoves
<1>9. /\ budget'.active = budget.active /\ rel[k].pc # "idle" /\ agent' = agent
      /\ AgentStays(agent[k], agent'[k], HeldBy(k, call))
  BY <1>1 DEF AgentStays
<1> QED  BY <1>6, <1>7, <1>8, <1>9, CallsSame, ReleaseOnly

LEMMA ReleaseChildKept == ASSUME SubInv, NEW k \in Kids, ReleaseChild(k) PROVE SubInv'
<1> USE DEF ReleaseChild
<1>1. /\ TypedChildren /\ rel[k].pc = "children"
      /\ rel \in [Kids -> Releases \cup {Idle}] /\ rel[k] \in Releases
      /\ Housed(handle[k]) /\ handle[k].closing
  BY ReleaseIs DEF SubInv, Typed
<1>2. registry = "open" => \A d \in Kids : Housed(handle[d]) /\ handle[d].parent = k => <<d, res[d]>> \in rel[k].todo
  BY <1>1 DEF SubInv, Tree, Listed, ListedIn
<1>3. /\ budget'.active = budget.active /\ rel[k].pc # "idle" /\ agent' = agent
      /\ AgentStays(agent[k], agent'[k], HeldBy(k, call))
  BY <1>1 DEF AgentStays
<1>4. CASE \E o \in rel[k].todo : CloseNext(o) /\ rel' = Releasing([rel EXCEPT ![k].cur = o], o)
  <2>1. PICK o \in Objects : CloseNext(o) /\ rel' = Releasing([rel EXCEPT ![k].cur = o], o)
    BY <1>1, <1>4 DEF Releases
  <2> DEFINE q == [rel[k] EXCEPT !.cur = o]
             r == [rel EXCEPT ![k] = q]
  <2>2. q \in Releases /\ q.pc = "children" /\ q.todo = rel[k].todo
    BY <1>1 DEF Releases
  <2>3. rel' = Releasing(r, o)
    BY <1>1, <2>1
  <2> HIDE DEF q
  <2>4. r \in [Kids -> Releases \cup {Idle}] /\ r[k] = q /\ \A j \in Kids \ {k} : r[j] = rel[j]
    BY <1>1, <2>2
  <2> HIDE DEF r
  <2>5. /\ rel' \in [Kids -> Releases \cup {Idle}]
        /\ \A j \in Kids : \/ rel'[j] = r[j]
                           \/ /\ j = o[1] /\ rel'[j].pc = "interrupt" /\ ~handle[j].closing
                              /\ Housed(handle'[j]) /\ handle'[j].closing
    <3>1. CloseNext(o) /\ r \in [Kids -> Releases \cup {Idle}]
      BY <2>1, <2>4
    <3>2. /\ Releasing(r, o) \in [Kids -> Releases \cup {Idle}]
          /\ \A j \in Kids : \/ Releasing(r, o)[j] = r[j]
                             \/ /\ j = o[1] /\ Releasing(r, o)[j].pc = "interrupt" /\ ~handle[j].closing
                                /\ Housed(handle'[j]) /\ handle'[j].closing
      BY <3>1, ReleasingIs
    <3> QED  BY <2>3, <3>2
  <2>6. /\ handle' \in [Kids -> Child \cup {None}] /\ watcher' \in [Kids -> Watchers \cup {Idle}]
        /\ HandlesStay /\ \A j \in Kids : WatcherStays(watcher[j], watcher'[j], handle'[j])
        /\ \A j \in Kids : handle'[j] # None /\ ~handle'[j].closing => handle'[j] = handle[j] /\ watcher'[j] = watcher[j]
    BY <2>1, CloseNextIs
  <2>7. rel'[k] = q /\ Housed(handle'[k]) /\ handle'[k].closing
    BY <1>1, <2>4, <2>5, <2>6 DEF HandlesStay, Stays, Housed
  <2>8. \A j \in Kids : ReleaseStays(j)
    <3> SUFFICES ASSUME NEW j \in Kids PROVE ReleaseStays(j)
      OBVIOUS
    <3>1. CASE j = k
      BY <1>2, <2>2, <2>7, <3>1 DEF ReleaseStays, ReleaseMoves
    <3>2. CASE j # k
      BY <2>4, <2>5, <3>2 DEF ReleaseStays, ReleaseMoves
    <3> QED  BY <3>1, <3>2
  <2>9. Typed'
    BY <2>5, <2>6 DEF SubInv, Typed, TypedChildren, TypedRest
  <2>10. AgentsStay /\ CallsQuiet
    BY CallsSame DEF AgentsStay, AgentStays
  <2>11. Quiet
    BY <2>6, <2>8, <2>10 DEF Quiet
  <2>12. Settling'
    <3>1. \A j \in Kids : SettledSame(j)
      BY <2>6 DEF SettledSame
    <3>2. Settling /\ {} \in SUBSET Kids /\ svc' = svc /\ registry' = registry
      BY DEF SubInv
    <3> QED  BY <3>1, <3>2, SettlingStays
  <2>13. StopListed'
    BY <2>6, StopStays DEF SubInv
  <2> QED  BY <2>9, <2>11, <2>12, <2>13, QuietKept
<1>5. CASE /\ rel[k].cur # <<>> /\ ~Present(rel[k].cur)
           /\ rel' = [rel EXCEPT ![k].todo = @ \ {rel[k].cur}, ![k].cur = <<>>] /\ UNCHANGED <<handle, watcher>>
  <2> DEFINE q == [rel[k] EXCEPT !.todo = rel[k].todo \ {rel[k].cur}, !.cur = <<>>]
  <2>1. rel' = [rel EXCEPT ![k] = q]
    BY <1>1, <1>5
  <2>2. q \in Releases /\ q.pc = "children" /\ q.todo = rel[k].todo \ {rel[k].cur}
    BY <1>1 DEF Releases
  <2> HIDE DEF q
  <2>3. rel' \in [Kids -> Releases \cup {Idle}] /\ rel'[k] = q /\ \A j \in Kids \ {k} : rel'[j] = rel[j]
    BY <1>1, <2>1, <2>2
  <2>4. \A d \in Kids : handle[d] # None => <<d, res[d]>> # rel[k].cur
    BY <1>5 DEF Present, Resident
  <2>5. ReleaseMoves(k)
    BY <1>1, <1>2, <1>5, <2>2, <2>3, <2>4 DEF ReleaseMoves, Housed
  <2>6. Typed'
    BY <1>5, <2>3 DEF SubInv, Typed, TypedChildren, TypedRest
  <2> QED  BY <1>3, <1>5, <2>3, <2>5, <2>6, CallsSame, ReleaseOnly
<1>6. CASE rel[k].todo = {} /\ rel' = [rel EXCEPT ![k].pc = "unmount"] /\ UNCHANGED <<handle, watcher>>
  <2> DEFINE q == [rel[k] EXCEPT !.pc = "unmount"]
  <2>1. rel' = [rel EXCEPT ![k] = q]
    BY <1>1, <1>6
  <2>2. q \in Releases /\ q.pc = "unmount"
    BY <1>1 DEF Releases
  <2> HIDE DEF q
  <2>3. rel' \in [Kids -> Releases \cup {Idle}] /\ rel'[k] = q /\ \A j \in Kids \ {k} : rel'[j] = rel[j]
    BY <1>1, <2>1, <2>2
  <2>4. ReleaseMoves(k)
    BY <1>1, <1>2, <1>6, <2>2, <2>3 DEF ReleaseMoves
  <2>5. Typed'
    BY <1>6, <2>3 DEF SubInv, Typed, TypedChildren, TypedRest
  <2> QED  BY <1>3, <1>6, <2>3, <2>4, <2>5, CallsSame, ReleaseOnly
<1> QED  BY <1>4, <1>5, <1>6

LEMMA ReleaseUnmountKept == ASSUME SubInv, NEW k \in Kids, ReleaseUnmount(k) PROVE SubInv'
<1> USE DEF ReleaseUnmount
<1>1. /\ TypedChildren /\ rel[k].pc = "unmount"
      /\ rel \in [Kids -> Releases \cup {Idle}] /\ rel[k] \in Releases
      /\ Housed(handle[k]) /\ handle[k].closing
  BY ReleaseIs DEF SubInv, Typed
<1>2. registry = "open" => \A d \in Kids : Housed(handle[d]) => handle[d].parent # k
  BY <1>1 DEF SubInv, Tree, Listed, ListedIn
<1>3. \A pc \in {"agent", "jobs"} : rel' = [rel EXCEPT ![k].pc = pc] =>
        rel' \in [Kids -> Releases \cup {Idle}] /\ rel'[k].pc = pc /\ \A j \in Kids \ {k} : rel'[j] = rel[j]
  <2> SUFFICES ASSUME NEW pc \in {"agent", "jobs"}, rel' = [rel EXCEPT ![k].pc = pc]
               PROVE  rel' \in [Kids -> Releases \cup {Idle}] /\ rel'[k].pc = pc /\ \A j \in Kids \ {k} : rel'[j] = rel[j]
    OBVIOUS
  <2>1. [rel[k] EXCEPT !.pc = pc] \in Releases /\ [rel[k] EXCEPT !.pc = pc].pc = pc
    BY <1>1 DEF Releases
  <2> QED  BY <1>1, <2>1
<1>4. agent \in [Kids -> Agents] /\ agent[k] \in Agents
  BY <1>1 DEF TypedChildren
<1>5. CASE registry = "open"
  <2> DEFINE b == [Interrupted(agent[k]) EXCEPT !.live = FALSE]
  <2>1. agent' = [agent EXCEPT ![k] = b]
    BY <1>4, <1>5
  <2>2. Interrupted(agent[k]) \in Agents /\ Interrupted(agent[k]).busy = agent[k].busy
    BY <1>4, InterruptedIs
  <2>3. b \in Agents /\ ~b.live /\ b.busy = agent[k].busy
    BY <2>2 DEF Agents
  <2> HIDE DEF b
  <2>4. agent' \in [Kids -> Agents] /\ agent'[k] = b /\ \A j \in Kids \ {k} : agent'[j] = agent[j]
    BY <1>4, <2>1, <2>3
  <2>5. AgentStays(agent[k], agent'[k], HeldBy(k, call))
    BY <1>1, <2>3, <2>4, HousedIs DEF AgentStays
  <2>6. call' \in [Threads -> Calls \cup {Idle}] /\ CallsQuiet
    BY <1>1, <1>5, CutIs
  <2>7. rel' \in [Kids -> Releases \cup {Idle}] /\ rel'[k].pc = "agent" /\ \A j \in Kids \ {k} : rel'[j] = rel[j]
    BY <1>3, <1>5
  <2>8. Typed'
    BY <2>4, <2>6, <2>7 DEF SubInv, Typed, TypedChildren, TypedRest
  <2>9. ReleaseMoves(k)
    BY <1>1, <1>2, <2>3, <2>4, <2>7 DEF ReleaseMoves
  <2>10. budget'.active = budget.active /\ rel[k].pc # "idle"
    BY <1>1
  <2> QED  BY <2>4, <2>5, <2>6, <2>7, <2>8, <2>9, <2>10, ReleaseOnly
<1>6. CASE registry # "open"
  <2>1. agent' = agent /\ call' = Cancel(JobsOf(k)) /\ rel' = [rel EXCEPT ![k].pc = "jobs"]
    BY <1>6
  <2>2. AgentStays(agent[k], agent'[k], HeldBy(k, call))
    BY <2>1 DEF AgentStays
  <2>3. call' \in [Threads -> Calls \cup {Idle}] /\ CallsQuiet
    BY <1>1, <2>1, CancelIs
  <2>4. rel' \in [Kids -> Releases \cup {Idle}] /\ rel'[k].pc = "jobs" /\ \A j \in Kids \ {k} : rel'[j] = rel[j]
    BY <1>3, <2>1
  <2>5. Typed'
    BY <2>1, <2>3, <2>4 DEF SubInv, Typed, TypedChildren, TypedRest
  <2>6. ReleaseMoves(k)
    BY <1>1, <1>6, <2>4 DEF ReleaseMoves
  <2>7. budget'.active = budget.active /\ rel[k].pc # "idle"
    BY <1>1
  <2> QED  BY <2>1, <2>2, <2>3, <2>4, <2>5, <2>6, <2>7, ReleaseOnly
<1> QED  BY <1>5, <1>6

\* What an agent is once its worker has exited.
LEMMA EndedIs ==
  ASSUME NEW a \in Agents
  PROVE  /\ Ended(a) \in Agents /\ ~Ended(a).live /\ ~Ended(a).busy /\ ~Ended(a).task /\ ~Ended(a).woken /\ ~Ended(a).ended
         /\ Ended(a).held = 0 /\ Ended(a).hand = 0 /\ Ended(a).done = 0 /\ Ended(a).lost = 0 /\ Empty(Ended(a))
<1> DEFINE j == IF a.job = "none" THEN "none" ELSE "owed"
<1>1. j \in {"none", "owed"}
  OBVIOUS
<1>2. Ended(a) = [Gone EXCEPT !.job = j]
  BY DEF Ended
<1> HIDE DEF j
<1>3. Gone \in Agents
  BY DEF Agents, Gone
<1>4. Ended(a) \in Agents
  BY <1>1, <1>2, <1>3 DEF Agents
<1>5. /\ ~Ended(a).live /\ ~Ended(a).busy /\ ~Ended(a).task /\ ~Ended(a).woken /\ ~Ended(a).ended
      /\ Ended(a).held = 0 /\ Ended(a).hand = 0 /\ Ended(a).done = 0 /\ Ended(a).lost = 0 /\ Ended(a).job = j
  BY <1>2 DEF Gone
<1> QED  BY <1>1, <1>4, <1>5 DEF Empty

\* The agent is gone once no call of its turn is under way; the calls that are
\* left are the child's background runs.
LEMMA ReleaseAgentKept == ASSUME SubInv, NEW k \in Kids, ReleaseAgent(k) PROVE SubInv'
<1> USE DEF ReleaseAgent
<1>1. /\ TypedChildren /\ rel[k].pc = "agent" /\ budget \in Bounds
      /\ rel \in [Kids -> Releases \cup {Idle}] /\ rel[k] \in Releases
      /\ Housed(handle[k]) /\ handle[k].closing
  BY ReleaseIs DEF SubInv, Typed, TypedRest
<1>2. registry = "open" => \A d \in Kids : Housed(handle[d]) => handle[d].parent # k
  BY <1>1 DEF SubInv, Tree, Listed, ListedIn
<1>3. \A t \in Threads : call[t].pc # "idle" /\ call[t].caller = k => call[t].bg
  BY DEF InTurn
<1> DEFINE b == Ended(agent[k])
<1>4. agent \in [Kids -> Agents] /\ agent[k] \in Agents /\ agent' = [agent EXCEPT ![k] = b]
  BY <1>1 DEF TypedChildren
<1>5. b \in Agents /\ ~b.live /\ ~b.busy
  BY <1>4, EndedIs
<1> HIDE DEF b
<1>6. agent' \in [Kids -> Agents] /\ agent'[k] = b /\ \A j \in Kids \ {k} : agent'[j] = agent[j]
  BY <1>4, <1>5
<1>7. AgentStays(agent[k], agent'[k], HeldBy(k, call))
  BY <1>1, <1>5, <1>6, HousedIs DEF AgentStays
<1>8. call' \in [Threads -> Calls \cup {Idle}] /\ CallsQuiet
  BY <1>1, CancelIs
<1>9. /\ rel' \in [Kids -> Releases \cup {Idle}] /\ rel'[k].pc = "jobs" /\ \A j \in Kids \ {k} : rel'[j] = rel[j]
      /\ budget' \in Bounds /\ budget'.active = budget.active
  <2>1. CASE rel' = [rel EXCEPT ![k].pc = "jobs"] /\ UNCHANGED budget
    <3>1. [rel[k] EXCEPT !.pc = "jobs"] \in Releases /\ [rel[k] EXCEPT !.pc = "jobs"].pc = "jobs"
      BY <1>1 DEF Releases
    <3> QED  BY <1>1, <2>1, <3>1
  <2>2. CASE rel' = [rel EXCEPT ![k].pc = "jobs", ![k].failed = TRUE] /\ Spend("faults")
    <3> DEFINE q == [rel[k] EXCEPT !.pc = "jobs", !.failed = TRUE]
    <3>1. q \in Releases /\ q.pc = "jobs"
      BY <1>1 DEF Releases
    <3>2. rel' = [rel EXCEPT ![k] = q]
      BY <1>1, <2>2
    <3> HIDE DEF q
    <3> QED  BY <1>1, <2>2, <3>1, <3>2, SpendIs
  <2> QED  BY <2>1, <2>2
<1>10. Typed'
  BY <1>6, <1>8, <1>9 DEF SubInv, Typed, TypedChildren, TypedRest
<1>11. ReleaseMoves(k)
  BY <1>1, <1>2, <1>3, <1>5, <1>6, <1>9 DEF ReleaseMoves
<1>12. rel[k].pc # "idle"
  BY <1>1
<1> QED  BY <1>6, <1>7, <1>8, <1>9, <1>10, <1>11, <1>12, ReleaseOnly
-----------------------------------------------------------------------------
(* The end of a release: the handle goes and the parent is told.           *)

\* Nothing is left that belongs to the child: no call and no child of its own.
LEMMA NothingOfChild ==
  ASSUME SubInv, NEW k \in Kids, rel[k].pc = "jobs", JobsOf(k) = {}, registry = "open"
  PROVE  /\ \A t \in Threads : call[t].pc # "idle" => call[t].caller # k
         /\ \A d \in Kids : handle[d] # None => handle[d].parent # k
         /\ ~agent[k].live /\ ~agent[k].busy
<1>1. \A t \in Threads : call[t].pc # "idle" => call[t].caller # k
  <2> SUFFICES ASSUME NEW t \in Threads, call[t].pc # "idle", call[t].caller = k PROVE FALSE
    OBVIOUS
  <2>1. call[t].bg
    BY DEF SubInv, CallsKept, CallersThere, CallerThere
  <2> QED  BY <2>1 DEF JobsOf
<1>2. \A d \in Kids : handle[d] # None => handle[d].parent # k
  <2> SUFFICES ASSUME NEW d \in Kids, handle[d] # None, handle[d].parent = k PROVE FALSE
    OBVIOUS
  <2>1. CASE Housed(handle[d])
    <3>1. ListedIn(k, rel[k], d, handle[d], res[d], registry)
      BY DEF SubInv, Tree, Listed
    <3> QED  BY <2>1, <3>1 DEF ListedIn
  <2>2. CASE ~Housed(handle[d])
    <3>1. PICK t \in Threads : Reopens(call[t]) /\ call[t].target = d
      BY <2>2 DEF SubInv, Tree, Placeholders, Placeholder, ReopenedBy, Housed, Vacant
    <3>2. CallHolds(call[t], handle, agent, catalog, registry)
      BY DEF SubInv, CallsKept, Holding
    <3>3. call[t].caller = k
      BY <3>1, <3>2 DEF CallHolds
    <3> QED  BY <1>1, <3>1, <3>3 DEF Reopens
  <2> QED  BY <2>1, <2>2
<1>3. ~agent[k].live /\ ~agent[k].busy
  BY DEF SubInv, Tree, Attended, AttendedBy
<1> QED  BY <1>1, <1>2, <1>3

\* What the step changes: the child is gone, its parent at most told.
LEMMA FinishIs ==
  ASSUME SubInv, NEW k \in Kids, ReleaseFinish(k)
  PROVE  /\ handle' \in [Kids -> Child \cup {None}] /\ agent' \in [Kids -> Agents]
         /\ watcher' \in [Kids -> Watchers \cup {Idle}] /\ rel' \in [Kids -> Releases \cup {Idle}]
         /\ handle'[k] = None /\ watcher'[k].pc = "idle" /\ rel'[k].pc = "idle" /\ agent'[k] = agent[k]
         /\ \A j \in Kids \ {k} : rel'[j] = rel[j] /\ Stays(handle[j], handle'[j]) /\ watcher'[j].pc = watcher[j].pc
         /\ AgentsStay
         /\ \A j \in Kids \ {k} : Settled(svc, registry, handle'[j], agent'[j], watcher'[j])
<1> USE DEF ReleaseFinish
<1> DEFINE p == handle[k].parent
<1>1. /\ TypedChildren /\ rel[k].pc = "jobs" /\ JobsOf(k) = {}
      /\ handle \in [Kids -> Child \cup {None}] /\ agent \in [Kids -> Agents]
      /\ watcher \in [Kids -> Watchers \cup {Idle}] /\ rel \in [Kids -> Releases \cup {Idle}]
      /\ handle[k] \in Child /\ handle[k] # None
  BY ReleaseIs DEF SubInv, Typed, TypedChildren, Housed
<1>2. p \in Pools /\ (registry = "open" => p # k /\ (p \in Kids => Housed(handle[p]) /\ handle[p] \in Child /\ handle[p] # None))
  <2>1. p \in Pools /\ (registry = "open" => p # k)
    BY <1>1, NothingOfChild DEF Child, Pools
  <2>2. registry = "open" /\ p \in Kids => Housed(handle[p])
    BY <1>1 DEF SubInv, Tree, Parented
  <2> QED  BY <1>1, <2>1, <2>2 DEF Housed
<1>3. PICK told \in BOOLEAN : told <=> rel[k].notice /\ svc = "active" /\ ~IsClosing(p) /\ Takes(p)
  OBVIOUS
<1>4. /\ agent' = IF told /\ p # Root THEN [agent EXCEPT ![p] = Enqueued(@)] ELSE agent
      /\ handle' = [j \in Kids |-> IF j = k THEN None
                                   ELSE IF j = p /\ Resident(p) /\ told THEN Delivered(handle[j])
                                   ELSE handle[j]]
      /\ watcher' = LET w == [watcher EXCEPT ![k] = Idle] IN IF p # Root /\ Resident(p) THEN Wake(w, p) ELSE w
  BY <1>3
<1>5. rel' = [rel EXCEPT ![k] = Idle] /\ svc' = svc
  OBVIOUS
<1>6. rel' \in [Kids -> Releases \cup {Idle}] /\ rel'[k].pc = "idle" /\ \A j \in Kids \ {k} : rel'[j] = rel[j]
  BY <1>1, <1>5 DEF Idle
<1> DEFINE w0 == [watcher EXCEPT ![k] = Idle]
<1>7. w0 \in [Kids -> Watchers \cup {Idle}] /\ w0[k].pc = "idle" /\ \A j \in Kids \ {k} : w0[j] = watcher[j]
  BY <1>1, SMTT(30) DEF Idle
<1>8. CASE p \in Kids /\ registry = "open"
  <2>1. p # Root /\ Resident(p)
    BY <1>2, <1>8, Ground DEF Resident
  <2>2. watcher' = Wake(w0, p)
    BY <1>4, <2>1
  <2> HIDE DEF w0, p
  <2>3. /\ Wake(w0, p) \in [Kids -> Watchers \cup {Idle}]
        /\ \A j \in Kids \ {p} : Wake(w0, p)[j] = w0[j]
        /\ Wake(w0, p)[p].pc = w0[p].pc
        /\ w0[p].pc # "idle" => Wake(w0, p)[p].stale /\ Wake(w0, p)[p].seen = w0[p].seen
    BY <1>7, <1>8, WakeIs
  <2>4. /\ watcher' \in [Kids -> Watchers \cup {Idle}] /\ watcher'[k].pc = "idle"
        /\ \A j \in Kids \ {k, p} : watcher'[j] = watcher[j]
        /\ watcher'[p].pc = watcher[p].pc
        /\ watcher[p].pc # "idle" => watcher'[p].stale /\ watcher'[p].seen = watcher[p].seen
    BY <1>2, <1>7, <1>8, <2>2, <2>3
  <2>5. \A j \in Kids \ {k} : watcher'[j].pc = watcher[j].pc
    BY <2>4
  <2>6. Settled(svc, registry, handle[p], agent[p], watcher[p])
    BY <1>8, SMTT(30) DEF SubInv, Settling
  <2>7. /\ handle' \in [Kids -> Child \cup {None}] /\ agent' \in [Kids -> Agents]
        /\ handle'[k] = None /\ \A j \in Kids \ {k, p} : handle'[j] = handle[j]
        /\ \A j \in Kids \ {p} : agent'[j] = agent[j]
        /\ handle'[p] # None /\ handle'[p].ph = handle[p].ph /\ handle'[p].parent = handle[p].parent
        /\ handle'[p].mode = handle[p].mode /\ handle'[p].pool = handle[p].pool /\ handle'[p].closing = handle[p].closing
        /\ agent'[p].live = agent[p].live /\ agent'[p].busy = agent[p].busy
        /\ Settled(svc, registry, handle'[p], agent'[p], watcher'[p])
    <3>1. CASE told
      <4>1. /\ agent' = [agent EXCEPT ![p] = Enqueued(agent[p])]
            /\ handle' = [j \in Kids |-> IF j = k THEN None ELSE IF j = p THEN Delivered(handle[j]) ELSE handle[j]]
        <5>1. agent' = [agent EXCEPT ![p] = Enqueued(@)]
          BY <1>4, <2>1, <3>1 DEF p
        <5>2. handle' = [j \in Kids |-> IF j = k THEN None ELSE IF j = p THEN Delivered(handle[j]) ELSE handle[j]]
          BY <1>4, <2>1, <3>1 DEF p
        <5> QED  BY <1>1, <1>8, <5>1, <5>2
      <4> DEFINE a == Enqueued(agent[p])
                 g == Delivered(handle[p])
      <4>2. agent[p] \in Agents
        BY <1>1, <1>8
      <4>3. a \in Agents /\ a.live = agent[p].live /\ a.busy = agent[p].busy /\ Received(a) = Received(agent[p]) + 1
        BY <4>2, EnqueuedIs
      <4>4. /\ g \in Child /\ g.ph = handle[p].ph /\ g.parent = handle[p].parent /\ g.pool = handle[p].pool
            /\ g.mode = handle[p].mode /\ g.closing = handle[p].closing /\ g.delivered = handle[p].delivered + 1
            /\ g.announced = handle[p].announced /\ g.watched = handle[p].watched
        BY <1>2, <1>8, DeliveredIs
      <4>5. handle'[p] = g /\ handle' \in [Kids -> Child \cup {None}] /\ handle'[k] = None
            /\ \A j \in Kids \ {k, p} : handle'[j] = handle[j]
        <5> HIDE DEF g
        <5>1. handle' = [j \in Kids |-> IF j = k THEN None ELSE IF j = p THEN g ELSE handle[j]]
          BY <4>1 DEF g
        <5> QED  BY <1>1, <1>2, <1>8, <4>4, <5>1
      <4> HIDE DEF a, g
      <4>6. agent'[p] = a /\ agent' \in [Kids -> Agents] /\ \A j \in Kids \ {p} : agent'[j] = agent[j]
        BY <1>1, <1>8, <4>1, <4>3, ZenonT(60) DEF a
      <4>7. g # None
        BY <4>4, Ground
      <4>8. Settled(svc, registry, g, a, watcher'[p])
        <5> SUFFICES ASSUME ~g.closing PROVE Settled(svc, registry, g, a, watcher'[p])
          BY DEF Settled
        <5>1. ~handle[p].closing /\ handle[p] # None
          BY <1>2, <1>8, <4>4
        <5>2. agent[p].live /\ handle[p].delivered = Received(agent[p])
          BY <1>8, <2>6, <5>1 DEF Settled
        <5>3. g.delivered = Received(a)
          BY <4>3, <4>4, <5>2
        <5>4. a.live /\ (svc = "active" => (g.announced => g.watched) /\ (g.watched => watcher'[p].pc # "idle"))
          BY <1>8, <2>4, <2>6, <4>3, <4>4, <5>1 DEF Settled
        <5> QED  BY <5>3, <5>4 DEF Settled
      <4> QED  BY <4>3, <4>4, <4>5, <4>6, <4>7, <4>8
    <3>2. CASE ~told
      <4>1. agent' = agent /\ handle' = [j \in Kids |-> IF j = k THEN None ELSE handle[j]]
        BY <1>4, <3>2
      <4>2. handle' \in [Kids -> Child \cup {None}] /\ handle'[k] = None /\ \A j \in Kids \ {k} : handle'[j] = handle[j]
        BY <1>1, <4>1
      <4>3. Settled(svc, registry, handle[p], agent[p], watcher'[p])
        BY <2>4, <2>6 DEF Settled
      <4> QED  BY <1>1, <1>2, <1>8, <4>1, <4>2, <4>3
    <3> QED  BY <3>1, <3>2, SMTT(30)
  <2>8. \A j \in Kids \ {k} : Stays(handle[j], handle'[j])
    BY <1>2, <1>8, <2>7, SMTT(30) DEF Stays
  <2>9. AgentsStay
    <3>1. ~HeldBy(p, call)
      BY <1>2, <1>8, HousedIs
    <3>2. registry' = registry
      OBVIOUS
    <3> QED  BY <1>2, <1>8, <2>7, <3>1, <3>2 DEF AgentsStay, AgentStays
  <2>10. \A j \in Kids \ {k, p} : Settled(svc, registry, handle[j], agent[j], watcher[j])
    BY SMTT(30) DEF SubInv, Settling
  <2>11. \A j \in Kids \ {k} : Settled(svc, registry, handle'[j], agent'[j], watcher'[j])
    BY <2>4, <2>7, <2>10, ZenonT(60)
  <2> QED  BY <1>2, <1>6, <1>8, <2>4, <2>5, <2>7, <2>8, <2>9, <2>11
<1>9. CASE p \notin Kids \/ registry # "open"
  <2>1. agent' = agent
    BY <1>2, <1>3, <1>4, <1>9 DEF Takes, Pools
  <2>2. handle' = [j \in Kids |-> IF j = k THEN None ELSE handle[j]]
    <3>1. CASE p \notin Kids
      <4>1. \A j \in Kids : j # p
        BY <3>1
      <4> QED  BY <1>4, <4>1
    <3>2. CASE registry # "open"
      <4>1. ~told
        BY <1>3, <3>2 DEF Takes
      <4> QED  BY <1>4, <4>1
    <3> QED  BY <1>9, <3>1, <3>2
  <2>3. watcher' = w0 \/ (p \in Kids /\ watcher' = Wake(w0, p))
    BY <1>2, <1>4 DEF Pools
  <2> HIDE DEF w0, p
  <2>4. /\ watcher' \in [Kids -> Watchers \cup {Idle}] /\ watcher'[k].pc = "idle"
        /\ \A j \in Kids \ {k} : watcher'[j].pc = watcher[j].pc
    <3>1. CASE watcher' = w0
      BY <1>7, <3>1
    <3>2. CASE p \in Kids /\ watcher' = Wake(w0, p)
      <4>1. /\ Wake(w0, p) \in [Kids -> Watchers \cup {Idle}]
            /\ \A j \in Kids \ {p} : Wake(w0, p)[j] = w0[j]
            /\ Wake(w0, p)[p].pc = w0[p].pc
        BY <1>7, <3>2, WakeIs
      <4>2. \A j \in Kids : watcher'[j].pc = w0[j].pc
        BY <3>2, <4>1
      <4> QED  BY <1>7, <3>2, <4>1, <4>2
    <3> QED  BY <2>3, <3>1, <3>2
  <2>5. handle' \in [Kids -> Child \cup {None}] /\ handle'[k] = None /\ \A j \in Kids \ {k} : handle'[j] = handle[j]
    BY <1>1, <2>2
  <2>6. \A j \in Kids \ {k} : Stays(handle[j], handle'[j])
    BY <2>5 DEF Stays
  <2>7. AgentsStay
    BY <2>1 DEF AgentsStay, AgentStays
  <2>8. \A j \in Kids \ {k} : Settled(svc, registry, handle[j], agent[j], watcher[j])
    BY DEF SubInv, Settling
  <2>9. \A j \in Kids \ {k} : Settled(svc, registry, handle'[j], agent'[j], watcher'[j])
    <3> SUFFICES ASSUME NEW j \in Kids \ {k} PROVE Settled(svc, registry, handle'[j], agent'[j], watcher'[j])
      OBVIOUS
    <3>1. handle'[j] = handle[j] /\ agent'[j] = agent[j] /\ watcher'[j].pc = watcher[j].pc
      BY <2>1, <2>4, <2>5
    <3> QED  BY <2>8, <3>1 DEF Settled
  <2> QED  BY <1>1, <1>6, <2>1, <2>4, <2>5, <2>6, <2>7, <2>9, ZenonT(60)
<1> QED  BY <1>8, <1>9

LEMMA ReleaseFinishKept == ASSUME SubInv, NEW k \in Kids, ReleaseFinish(k) PROVE SubInv'
<1> USE DEF ReleaseFinish
<1>1. /\ handle' \in [Kids -> Child \cup {None}] /\ agent' \in [Kids -> Agents]
      /\ watcher' \in [Kids -> Watchers \cup {Idle}] /\ rel' \in [Kids -> Releases \cup {Idle}]
      /\ handle'[k] = None /\ watcher'[k].pc = "idle" /\ rel'[k].pc = "idle" /\ agent'[k] = agent[k]
      /\ \A j \in Kids \ {k} : rel'[j] = rel[j] /\ Stays(handle[j], handle'[j]) /\ watcher'[j].pc = watcher[j].pc
      /\ AgentsStay
      /\ \A j \in Kids \ {k} : Settled(svc, registry, handle'[j], agent'[j], watcher'[j])
  BY FinishIs
<1>2. UNCHANGED <<svc, registry, res, reserved, catalog, call, stopTodo, budget>>
  OBVIOUS
<1>3. registry = "open" =>
        /\ \A t \in Threads : call[t].pc # "idle" => call[t].caller # k
        /\ \A d \in Kids : handle[d] # None => handle[d].parent # k
        /\ ~agent[k].live /\ ~agent[k].busy
  BY NothingOfChild
<1>4. Housed(handle[k])
  BY ReleaseIs
<1>5. Typed'
  BY <1>1, <1>2 DEF SubInv, Typed, TypedChildren, TypedRest
<1>6. \A j \in Kids : AgentStays(agent[j], agent'[j], HeldBy(j, call))
  BY <1>1 DEF AgentsStay
<1>7. \A j \in Kids : handle'[j] # None => /\ j # k /\ handle[j] # None /\ handle'[j].ph = handle[j].ph
                                           /\ handle'[j].parent = handle[j].parent /\ handle'[j].pool = handle[j].pool
                                           /\ handle'[j].mode = handle[j].mode
                                           /\ (handle[j].closing => handle'[j].closing)
  BY <1>1 DEF Stays
<1>8. \A j \in Kids : j # k /\ handle[j] # None => handle'[j] # None /\ handle'[j].ph = handle[j].ph
  BY <1>1 DEF Stays
<1>9. Shaped' /\ AllApart'
  BY <1>2 DEF SubInv, CallsKept, Shaped, AllApart
<1>10. Holding'
  <2> SUFFICES ASSUME NEW t \in Threads PROVE CallHolds(call[t], handle', agent', catalog, registry)
    BY <1>2 DEF Holding
  <2> DEFINE c == call[t]
  <2>1. CallHolds(c, handle, agent, catalog, registry) /\ CallShape(c, res) /\ c \in Calls \cup {Idle}
    BY DEF SubInv, CallsKept, Holding, Shaped, Typed, TypedChildren
  <2> HIDE DEF c
  <2>2. Holds(c) => c.obj[1] \in Kids /\ ~Housed(handle[c.obj[1]])
    BY <2>1, Ground DEF CallHolds, CallShape, Holds, Housed, Reopens, Creates, Creating, Objects
  <2>3. Holds(c) => Fresh(agent'[c.obj[1]], registry)
    <3> SUFFICES ASSUME Holds(c) PROVE Fresh(agent'[c.obj[1]], registry)
      OBVIOUS
    <3>1. c.obj[1] \in Kids /\ HeldBy(c.obj[1], call) /\ Fresh(agent[c.obj[1]], registry)
      BY <2>1, <2>2 DEF CallHolds, HeldBy, c
    <3> QED  BY <1>2, <1>6, <3>1 DEF AgentStays
  <2>4. c.pc = "publish" => handle'[c.obj[1]] = None /\ ~Named(c.obj[1], catalog)
    BY <1>7, <2>1, <2>2 DEF CallHolds, Holds
  <2>5. c.pc = "teardown" /\ handle'[c.obj[1]] # None => handle'[c.obj[1]].ph
    BY <1>7, <2>1, <2>2 DEF CallHolds, Holds
  <2>6. Reopens(c) => c.target \in Kids /\ c.target # k
    BY <1>4, <2>1 DEF CallHolds, CallShape, Objects, Housed
  <2>7. Reopens(c) => Stays(handle[c.target], handle'[c.target])
    BY <1>1, <2>6, SMTT(30)
  <2>8. Reopens(c) => /\ handle'[c.target] # None /\ handle'[c.target].ph
                      /\ handle'[c.target].pool = c.pool /\ handle'[c.target].parent = c.caller
    <3>1. Reopens(c) => /\ handle[c.target] # None /\ handle[c.target].ph
                        /\ handle[c.target].pool = c.pool /\ handle[c.target].parent = c.caller
      BY <2>1 DEF CallHolds
    <3> QED  BY <2>7, <3>1, PlaceholderStays
  <2>9. CallHolds(c, handle', agent', catalog, registry)
    BY <2>3, <2>4, <2>5, <2>8 DEF CallHolds
  <2> QED  BY <2>9 DEF c
<1>11. CallersThere'
  <2> SUFFICES ASSUME NEW t \in Threads PROVE CallerThere(call[t], handle', rel', registry')
    BY <1>2 DEF CallersThere
  <2>1. CallerThere(call[t], handle, rel, registry)
    BY DEF SubInv, CallsKept, CallersThere
  <2> QED  BY <1>1, <1>2, <1>3, <1>8, <2>1 DEF CallerThere
<1>12. Placeholders'
  <2> SUFFICES ASSUME NEW j \in Kids PROVE Placeholder(j, handle'[j], res[j], call)
    BY <1>2 DEF Placeholders
  <2>1. Placeholder(j, handle[j], res[j], call)
    BY DEF SubInv, Tree, Placeholders
  <2> QED  BY <1>7, <2>1 DEF Placeholder, Vacant
<1>13. Numbered'
  BY <1>2, <1>7 DEF SubInv, Tree, Numbered
<1>14. Attended'
  <2> SUFFICES ASSUME NEW j \in Kids PROVE AttendedBy(handle'[j], watcher'[j], rel'[j], agent'[j], registry')
    BY DEF Attended
  <2>1. CASE j = k
    BY <1>1, <2>1 DEF AttendedBy
  <2>2. CASE j # k
    <3>1. AttendedBy(handle[j], watcher[j], rel[j], agent[j], registry)
      BY DEF SubInv, Tree, Attended
    <3>2. rel'[j] = rel[j] /\ watcher'[j].pc = watcher[j].pc /\ Stays(handle[j], handle'[j])
      BY <1>1, <2>2
    <3>3. AgentStays(agent[j], agent'[j], HeldBy(j, call)) /\ agent[j] \in Agents /\ agent'[j] \in Agents
      BY <1>1, <1>6 DEF SubInv, Typed, TypedChildren
    <3> QED  BY <1>2, <3>1, <3>2, <3>3 DEF AttendedBy, Stays, AgentStays, Housed
  <2> QED  BY <2>1, <2>2
<1>15. Parented'
  <2> SUFFICES ASSUME NEW j \in Kids, registry = "open", handle'[j] # None, handle'[j].parent \in Kids
               PROVE  Housed(handle'[handle'[j].parent])
    BY <1>2 DEF Parented
  <2>1. handle[j] # None /\ handle'[j].parent = handle[j].parent /\ handle[j].parent # k
    BY <1>3, <1>7
  <2> DEFINE q == handle[j].parent
  <2>2. q \in Kids /\ q # k /\ Housed(handle[q])
    BY <2>1 DEF SubInv, Tree, Parented
  <2> HIDE DEF q
  <2>3. Housed(handle'[q])
    BY <1>8, <2>2 DEF Housed
  <2> QED  BY <2>1, <2>3 DEF q
<1>16. Listed'
  <2> SUFFICES ASSUME NEW j \in Kids, NEW d \in Kids PROVE ListedIn(j, rel'[j], d, handle'[d], res[d], registry)
    BY <1>2 DEF Listed
  <2>1. CASE j = k
    BY <1>1, <2>1, SMTT(30) DEF ListedIn
  <2>2. CASE j # k
    <3>1. ListedIn(j, rel[j], d, handle[d], res[d], registry)
      BY DEF SubInv, Tree, Listed
    <3> QED  BY <1>1, <1>7, <2>2, <3>1 DEF ListedIn, Housed
  <2> QED  BY <2>1, <2>2
<1>17. Owned'
  <2> SUFFICES ASSUME NEW j \in Kids, agent'[j].live
               PROVE  registry # "closed" /\ (Housed(handle'[j]) \/ HeldBy(j, call) \/ registry = "closing")
    BY <1>2 DEF Owned, OwnedBy
  <2>1. agent[j].live /\ (registry = "open" => j # k)
    BY <1>1, <1>3, <1>6 DEF AgentStays
  <2>2. registry # "closed" /\ (Housed(handle[j]) \/ HeldBy(j, call) \/ registry = "closing")
    BY <2>1, SMTT(30) DEF SubInv, Tree, Owned, OwnedBy
  <2>3. registry \in {"open", "closing", "closed"}
    BY DEF SubInv, Typed, TypedRest
  <2> QED  BY <1>8, <2>1, <2>2, <2>3 DEF Housed
<1>18. Settling'
  BY <1>1, <1>2, ZenonT(60) DEF Settling, Settled
<1>19. ReservedExact' /\ PoolBounded'
  <2>1. \A t \in Threads, p \in Pools : Reserves(call'[t], p) <=> Reserves(call[t], p)
    BY <1>2
  <2>2. \A j \in Kids, p \in Pools : handle'[j] # None /\ handle'[j].pool = p => handle[j] # None /\ handle[j].pool = p
    BY <1>7
  <2>3. /\ reserved \in [Pools -> Nat] /\ budget.active \in Nat /\ reserved' = reserved /\ budget'.active = budget.active
        /\ ReservedExact /\ PoolBounded
    BY <1>2 DEF SubInv, Typed, TypedRest, Bounds
  <2> QED  BY <2>1, <2>2, <2>3, PoolsStay
<1>20. StopListed'
  BY <1>2, <1>7 DEF SubInv, StopListed, StopKnows, Housed
<1>21. Pooled'
  BY <1>7 DEF SubInv, Tree, Pooled, HasPool
<1> QED  BY <1>5, <1>9, <1>10, <1>11, <1>12, <1>13, <1>14, <1>15, <1>16, <1>17, <1>18, <1>19, <1>20, <1>21, SMTT(30)
         DEF SubInv, CallsKept, Tree
-----------------------------------------------------------------------------
(* Steps that create a child, bring one back or give one up.  They are steps *)
(* of one call t and touch at most one child k.                            *)

LEMMA CallsElsewhere ==
  ASSUME TypedChildren, CallsKept, NEW t \in Threads, NEW k \in Kids,
         \A u \in Threads \ {t} : call'[u] = call[u], rel' = rel, registry' = registry,
         \A j \in Kids \ {k} : handle'[j] = handle[j] /\ agent'[j] = agent[j] /\ (Named(j, catalog') => Named(j, catalog)),
         \A j \in Kids : res'[j] \in Nat /\ res'[j] >= res[j],
         Housed(handle[k]) => Housed(handle'[k]),
         \A u \in Threads \ {t} :
            /\ Holds(call[u]) /\ call[u].obj[1] = k =>
                 call[u].pc = "teardown" /\ agent'[k] = agent[k] /\ ~Housed(handle'[k])
            /\ Reopens(call[u]) /\ call[u].target = k => handle'[k] = handle[k],
         CallShape(call'[t], res'), \A u \in Threads \ {t} : Apart(call'[t], call[u]),
         CallHolds(call'[t], handle', agent', catalog', registry'), CallerThere(call'[t], handle', rel, registry)
  PROVE  CallsKept'
<1>1. \A u \in Threads : call[u] \in Calls \cup {Idle} /\ CallShape(call[u], res) /\ CallHolds(call[u], handle, agent, catalog, registry)
  BY DEF TypedChildren, CallsKept, Shaped, Holding
<1>2. \A j \in Kids : res[j] \in Nat
  BY DEF TypedChildren
<1>3. Shaped'
  <2> SUFFICES ASSUME NEW u \in Threads, u # t PROVE CallShape(call[u], res')
    BY DEF Shaped
  <2> DEFINE c == call[u]
  <2>1. Follows(c, c) /\ c \in Calls \cup {Idle} /\ CallShape(c, res)
    BY <1>1 DEF Follows, CallShape
  <2>2. \A j \in Kids : res[j] \in Nat /\ res'[j] \in Nat /\ res'[j] >= res[j]
    BY <1>2
  <2> HIDE DEF c
  <2>3. CallShape(c, res')
    BY <2>1, <2>2, ShapeFollows
  <2> QED  BY <2>3 DEF c
<1>4. AllApart'
  <2> SUFFICES ASSUME NEW u \in Threads, NEW v \in Threads, u # v PROVE Apart(call'[u], call'[v])
    BY DEF AllApart
  <2>1. CASE u # t /\ v # t
    BY <2>1 DEF CallsKept, AllApart
  <2>2. CASE u = t
    BY <2>2
  <2>3. CASE v = t
    <3>1. Apart(call'[t], call[u])
      BY <2>3
    <3> QED  BY <2>3, <3>1 DEF Apart
  <2> QED  BY <2>1, <2>2, <2>3
<1>5. Holding'
  <2> SUFFICES ASSUME NEW u \in Threads, u # t PROVE CallHolds(call[u], handle', agent', catalog', registry')
    BY DEF Holding
  <2> DEFINE c == call[u]
  <2>1. CallHolds(c, handle, agent, catalog, registry) /\ CallShape(c, res) /\ c \in Calls \cup {Idle}
    BY <1>1
  <2>2. /\ Holds(c) /\ c.obj[1] = k => c.pc = "teardown" /\ agent'[k] = agent[k] /\ ~Housed(handle'[k])
        /\ Reopens(c) /\ c.target = k => handle'[k] = handle[k]
    OBVIOUS
  <2> HIDE DEF c
  <2>3. (Holds(c) => c.obj[1] \in Kids) /\ (Reopens(c) => c.target \in Kids)
    BY <2>1, Ground DEF CallShape, Holds, Reopens, Creates, Creating, Objects
  <2>4. Holds(c) => Fresh(agent'[c.obj[1]], registry')
    BY <2>1, <2>2, <2>3 DEF CallHolds
  <2>5. c.pc = "publish" => handle'[c.obj[1]] = None /\ ~Named(c.obj[1], catalog')
    BY <2>1, <2>2, <2>3 DEF CallHolds, Holds
  <2>6. c.pc = "teardown" /\ handle'[c.obj[1]] # None => handle'[c.obj[1]].ph
    BY <2>1, <2>2, <2>3 DEF CallHolds, Holds, Housed
  <2>7. Reopens(c) => handle'[c.target] = handle[c.target]
    BY <2>2, <2>3
  <2>8. Reopens(c) => /\ handle'[c.target] # None /\ handle'[c.target].ph
                      /\ handle'[c.target].pool = c.pool /\ handle'[c.target].parent = c.caller
    BY <2>1, <2>7 DEF CallHolds
  <2>9. CallHolds(c, handle', agent', catalog', registry')
    BY <2>4, <2>5, <2>6, <2>8 DEF CallHolds
  <2> QED  BY <2>9 DEF c
<1>6. CallersThere'
  <2> SUFFICES ASSUME NEW u \in Threads, u # t PROVE CallerThere(call[u], handle', rel, registry)
    BY DEF CallersThere
  <2>1. CallerThere(call[u], handle, rel, registry)
    BY DEF CallsKept, CallersThere
  <2> QED  BY <2>1 DEF CallerThere, Housed
<1> QED  BY <1>3, <1>4, <1>5, <1>6 DEF CallsKept

LEMMA TreeElsewhere ==
  ASSUME Tree, NEW t \in Threads, NEW k \in Kids,
         \A u \in Threads \ {t} : call'[u] = call[u], rel' = rel, watcher' = watcher, registry' = registry,
         \A j \in Kids \ {k} : handle'[j] = handle[j] /\ agent'[j] = agent[j] /\ res'[j] = res[j],
         \A j \in Kids : Named(j, catalog') => Named(j, catalog) \/ res'[j] > 0,
         \A j \in Kids : res[j] \in Nat /\ res'[j] \in Nat /\ res'[j] >= res[j],
         Holds(call[t]) => call[t].obj[1] = k, Reopens(call[t]) => call[t].target = k,
         Housed(handle[k]) => Housed(handle'[k]),
         Placeholder(k, handle'[k], res'[k], call'), handle'[k] # None => res'[k] > 0, HasPool(handle'[k]),
         AttendedBy(handle'[k], watcher[k], rel[k], agent'[k], registry'),
         registry = "open" /\ handle'[k] # None /\ handle'[k].parent \in Kids => Housed(handle'[handle'[k].parent]),
         \A j \in Kids : ListedIn(j, rel[j], k, handle'[k], res'[k], registry'),
         OwnedBy(k, handle'[k], agent'[k], call', registry')
  PROVE  Tree'
<1>1. \A j \in Kids \ {k} : /\ ReopenedBy(j, call) => ReopenedBy(j, call')
                            /\ HeldBy(j, call) => HeldBy(j, call')
  BY DEF ReopenedBy, HeldBy
<1>2. Placeholders'
  <2> SUFFICES ASSUME NEW j \in Kids \ {k} PROVE Placeholder(j, handle[j], res[j], call')
    BY DEF Placeholders
  <2>1. Placeholder(j, handle[j], res[j], call)
    BY DEF Tree, Placeholders
  <2> QED  BY <1>1, <2>1 DEF Placeholder
<1>3. Numbered'
  <2> SUFFICES ASSUME NEW j \in Kids, handle'[j] # None \/ Named(j, catalog') PROVE res'[j] > 0
    BY DEF Numbered
  <2>1. handle[j] # None \/ Named(j, catalog) => res[j] > 0
    BY DEF Tree, Numbered
  <2>2. j = k \/ (handle'[j] = handle[j] /\ res'[j] = res[j])
    OBVIOUS
  <2>3. res[j] > 0 => res'[j] > 0
    OBVIOUS
  <2> QED  BY <2>1, <2>2, <2>3
<1>4. Pooled'
  BY DEF Tree, Pooled
<1>5. Attended'
  BY DEF Tree, Attended
<1>6. Parented'
  <2> SUFFICES ASSUME NEW j \in Kids \ {k}, registry = "open", handle[j] # None, handle[j].parent \in Kids
               PROVE  Housed(handle'[handle[j].parent])
    BY DEF Parented
  <2>1. Housed(handle[handle[j].parent])
    BY DEF Tree, Parented
  <2> QED  BY <2>1
<1>7. Listed'
  BY DEF Tree, Listed
<1>8. Owned'
  <2> SUFFICES ASSUME NEW j \in Kids \ {k} PROVE OwnedBy(j, handle[j], agent[j], call', registry')
    BY DEF Owned
  <2>1. OwnedBy(j, handle[j], agent[j], call, registry)
    BY DEF Tree, Owned
  <2> QED  BY <1>1, <2>1 DEF OwnedBy
<1> QED  BY <1>2, <1>3, <1>4, <1>5, <1>6, <1>7, <1>8 DEF Tree

\* A call that holds nothing begins or ends.
LEMMA CallComesOrGoes ==
  ASSUME SubInv, NEW t \in Threads, \A u \in Threads \ {t} : call'[u] = call[u],
         ~Holds(call[t]), ~Reopens(call[t]), ~Holds(call'[t]), ~Reopens(call'[t]),
         CallShape(call'[t], res), \A u \in Threads \ {t} : Apart(call'[t], call[u]),
         CallerThere(call'[t], handle, rel, registry),
         UNCHANGED <<registry, handle, res, agent, catalog, watcher, rel>>
  PROVE  CallsKept' /\ Tree'
<1>1. Shaped' /\ CallersThere'
  BY DEF SubInv, CallsKept, Shaped, CallersThere
<1>2. Holding'
  <2>1. CallHolds(call'[t], handle, agent, catalog, registry)
    BY DEF CallHolds, Holds
  <2> QED  BY <2>1 DEF SubInv, CallsKept, Holding
<1>3. AllApart'
  <2> SUFFICES ASSUME NEW u \in Threads, NEW v \in Threads, u # v PROVE Apart(call'[u], call'[v])
    BY DEF AllApart
  <2>1. CASE u # t /\ v # t
    BY <2>1 DEF SubInv, CallsKept, AllApart
  <2>2. CASE u = t
    BY <2>2
  <2>3. CASE v = t
    <3>1. Apart(call'[t], call[u])
      BY <2>3
    <3> QED  BY <2>3, <3>1 DEF Apart
  <2> QED  BY <2>1, <2>2, <2>3
<1>4. \A j \in Kids : (ReopenedBy(j, call) => ReopenedBy(j, call')) /\ (HeldBy(j, call) => HeldBy(j, call'))
  BY DEF ReopenedBy, HeldBy
<1>5. Placeholders' /\ Owned'
  BY <1>4 DEF SubInv, Tree, Placeholders, Placeholder, Owned, OwnedBy
<1>6. Numbered' /\ Pooled' /\ Attended' /\ Parented' /\ Listed'
  BY DEF SubInv, Tree, Numbered, Pooled, Attended, Parented, Listed
<1> QED  BY <1>1, <1>2, <1>3, <1>5, <1>6 DEF CallsKept, Tree

\* A reservation that is made, or given back.
LEMMA ReserveMore ==
  ASSUME ReservedExact, reserved \in [Pools -> Nat], NEW t \in Threads, NEW q \in Pools \cup {None},
         \A u \in Threads \ {t} : call'[u] = call[u],
         \A p \in Pools : ~Reserves(call[t], p) /\ (Reserves(call'[t], p) <=> p = q),
         reserved' = IF q = None THEN reserved ELSE [reserved EXCEPT ![q] = @ + 1]
  PROVE  ReservedExact'
<1> SUFFICES ASSUME NEW p \in Pools PROVE reserved'[p] = Cardinality({u \in Threads : Reserves(call'[u], p)})
  BY DEF ReservedExact
<1> DEFINE A == {u \in Threads : Reserves(call[u], p)}
           B == {u \in Threads : Reserves(call'[u], p)}
<1>1. IsFiniteSet(A) /\ reserved[p] = Cardinality(A) /\ t \notin A
  BY Ground, FS_Subset DEF ReservedExact
<1>2. CASE p = q
  <2>1. B = A \cup {t}
    BY <1>2
  <2> HIDE DEF A, B
  <2>2. Cardinality(B) = Cardinality(A) + 1
    BY <1>1, <2>1, FS_AddElement
  <2>3. reserved'[p] = reserved[p] + 1
    BY <1>2, Ground
  <2>4. reserved'[p] = Cardinality(B)
    BY <1>1, <2>2, <2>3
  <2> QED  BY <2>4 DEF B
<1>3. CASE p # q
  <2>1. B = A
    BY <1>3
  <2>2. reserved'[p] = reserved[p]
    BY <1>3
  <2> QED  BY <1>1, <2>1, <2>2
<1> QED  BY <1>2, <1>3

LEMMA ReserveLess ==
  ASSUME ReservedExact, reserved \in [Pools -> Nat], NEW t \in Threads, call[t].pool \in Pools \cup {None},
         call[t].pc \in {"create", "publish"}, call'[t].pc \notin {"create", "publish"},
         \A u \in Threads \ {t} : call'[u] = call[u], reserved' = Unreserved(t)
  PROVE  /\ ReservedExact' /\ reserved' \in [Pools -> Nat]
         /\ \A p \in Pools : reserved'[p] = IF p = call[t].pool THEN reserved[p] - 1 ELSE reserved[p]
<1> DEFINE q == call[t].pool
<1>1. reserved' = IF q = None THEN reserved ELSE [reserved EXCEPT ![q] = @ - 1]
  BY DEF Unreserved
<1>2. ASSUME NEW p \in Pools
      PROVE  /\ reserved'[p] = Cardinality({u \in Threads : Reserves(call'[u], p)}) /\ reserved'[p] \in Nat
             /\ reserved'[p] = IF p = q THEN reserved[p] - 1 ELSE reserved[p]
  <2> DEFINE A == {u \in Threads : Reserves(call[u], p)}
             B == {u \in Threads : Reserves(call'[u], p)}
  <2>1. IsFiniteSet(A) /\ reserved[p] = Cardinality(A) /\ reserved[p] \in Nat
    BY Ground, FS_Subset DEF ReservedExact
  <2>2. CASE p = q
    <3>1. t \in A /\ B = A \ {t}
      BY <2>2 DEF Reserves
    <3> HIDE DEF A, B
    <3>2. Cardinality(B) = Cardinality(A) - 1 /\ IsFiniteSet(B)
      BY <2>1, <3>1, FS_RemoveElement
    <3>3. Cardinality(B) \in Nat
      BY <3>2, FS_CardinalityType
    <3>4. reserved'[p] = reserved[p] - 1
      BY <1>1, <2>2, Ground
    <3>5. reserved'[p] = Cardinality(B) /\ reserved'[p] \in Nat
      BY <2>1, <3>2, <3>3, <3>4
    <3> QED  BY <2>2, <3>4, <3>5 DEF B
  <2>3. CASE p # q
    <3>1. B = A
      BY <2>3 DEF Reserves
    <3>2. reserved'[p] = reserved[p]
      BY <1>1, <2>3
    <3> QED  BY <2>1, <2>3, <3>1, <3>2
  <2> QED  BY <2>2, <2>3
<1>3. ReservedExact'
  BY <1>2 DEF ReservedExact
<1>4. reserved' \in [Pools -> Nat]
  <2>1. reserved' = [p \in Pools |-> reserved'[p]]
    BY <1>1
  <2> QED  BY <1>2, <2>1
<1> QED  BY <1>2, <1>3, <1>4

LEMMA PoolFacts ==
  ASSUME SubInv, NEW p \in Pools
  PROVE  /\ IsFiniteSet({k \in Kids : handle[k] # None /\ handle[k].pool = p})
         /\ Cardinality({k \in Kids : handle[k] # None /\ handle[k].pool = p}) \in Nat
         /\ reserved[p] \in Nat /\ budget.active \in Nat
         /\ Used(p) = reserved[p] + Cardinality({k \in Kids : handle[k] # None /\ handle[k].pool = p})
         /\ Used(p) <= budget.active
<1>1. IsFiniteSet({k \in Kids : handle[k] # None /\ handle[k].pool = p})
  BY Ground, FS_Subset
<1>2. Cardinality({k \in Kids : handle[k] # None /\ handle[k].pool = p}) \in Nat
  BY <1>1, FS_CardinalityType
<1>3. reserved[p] \in Nat /\ budget.active \in Nat
  BY DEF SubInv, Typed, TypedRest, Bounds
<1>4. Used(p) = reserved[p] + Cardinality({k \in Kids : handle[k] # None /\ handle[k].pool = p})
  BY DEF Used, Resident
<1>5. Used(p) <= budget.active
  BY DEF SubInv, PoolBounded, Pools
<1> QED  BY <1>1, <1>2, <1>3, <1>4, <1>5

\* The pool of a session is a pool.
LEMMA PoolOfIs == ASSUME SubInv, NEW s \in Pools PROVE PoolOf(s) \in Pools
<1>1. CASE s # Root /\ Resident(s) /\ handle[s].mode = "continuable"
  <2>1. s \in Kids /\ handle[s] \in Child /\ HasPool(handle[s]) /\ handle[s] # None
    BY <1>1 DEF SubInv, Typed, TypedChildren, Tree, Pooled, Pools, Resident
  <2>2. handle[s].pool \in Pools
    BY <1>1, <2>1 DEF HasPool, Child, Pools
  <2> QED  BY <1>1, <2>2 DEF PoolOf
<1>2. CASE ~(s # Root /\ Resident(s) /\ handle[s].mode = "continuable")
  BY <1>2 DEF PoolOf
<1> QED  BY <1>1, <1>2

\* A session that calls is housed, and not past its agent's end.
LEMMA CallerIs ==
  ASSUME SubInv, NEW s \in Kids, MayCall(s)
  PROVE  Housed(handle[s]) /\ rel[s].pc # "jobs"
<1>1. agent[s].live /\ agent[s].busy
  BY DEF MayCall
<1>2. ~HeldBy(s, call)
  <2> SUFFICES ASSUME NEW t \in Threads, Holds(call[t]), call[t].obj[1] = s PROVE FALSE
    BY DEF HeldBy
  <2>1. Fresh(agent[s], registry)
    BY DEF SubInv, CallsKept, Holding, CallHolds
  <2> QED  BY <1>1, <2>1 DEF Fresh
<1>3. Housed(handle[s])
  BY <1>1, <1>2 DEF SubInv, Tree, Owned, OwnedBy, MayCall
<1>4. rel[s].pc # "jobs"
  BY <1>1 DEF SubInv, Tree, Attended, AttendedBy, MayCall
<1> QED  BY <1>3, <1>4
LEMMA StartKept ==
  ASSUME SubInv, NEW t \in Threads, NEW s \in Pools, NEW mode \in Modes, NEW bg \in BOOLEAN, Start(t, s, mode, bg)
  PROVE  SubInv'
<1> USE DEF Start
<1> DEFINE pool == IF mode = "continuable" THEN PoolOf(s) ELSE None
           c == [pc |-> "create", caller |-> s, mode |-> mode, bg |-> bg, started |-> FALSE,
                 pool |-> pool, obj |-> <<>>, target |-> None, cancelled |-> FALSE]
<1>1. TypedChildren /\ TypedRest /\ call[t].pc = "idle" /\ MayCall(s) /\ UNCHANGED <<svc, registry, handle, res, agent, catalog, watcher, rel, stopTodo>>
  BY DEF SubInv, Typed
<1>2. budget' \in Bounds /\ budget'.active = budget.active
  BY <1>1, SpendIs DEF TypedRest
<1>3. PoolOf(s) \in Pools /\ PoolOf(s) # None /\ None \notin Modes
  BY PoolOfIs, Ground
<1>4. pool \in Pools \cup {None} /\ (mode = "continuable" => pool # None)
  BY <1>3
<1>5. call' = [call EXCEPT ![t] = c] /\ reserved' = IF pool = None THEN reserved ELSE [reserved EXCEPT ![pool] = @ + 1]
  BY <1>3
<1>6. mode = "continuable" => pool = PoolOf(s) /\ Admitted(s)
  OBVIOUS
<1>13. mode # "continuable" => pool = None
  OBVIOUS
<1> HIDE DEF pool
<1>7. /\ c \in Calls /\ c.pc = "create" /\ c.caller = s /\ c.mode = mode /\ c.pool = pool
  BY <1>4 DEF Calls
<1> HIDE DEF c
<1>8. call' \in [Threads -> Calls \cup {Idle}] /\ call'[t] = c /\ \A u \in Threads \ {t} : call'[u] = call[u]
  BY <1>1, <1>5, <1>7, ZenonT(60) DEF TypedChildren
<1>9. CallsKept' /\ Tree'
  <2>1. ~Holds(call[t]) /\ ~Reopens(call[t]) /\ ~Holds(c) /\ ~Reopens(c) /\ ~Creates(c) /\ ~Writes(c)
    BY <1>1, <1>7 DEF Holds, Reopens, Creates, Writes, Creating, Writing, Delivering
  <2>2. CallShape(c, res)
    BY <1>3, <1>4, <1>7, <2>1 DEF CallShape, Writing, Delivering
  <2>3. \A u \in Threads \ {t} : Apart(c, call[u])
    BY <2>1 DEF Apart
  <2>4. CallerThere(c, handle, rel, registry)
    BY <1>1, <1>7, CallerIs DEF CallerThere, Housed
  <2>5. CallShape(call'[t], res) /\ CallerThere(call'[t], handle, rel, registry) /\ ~Holds(call'[t]) /\ ~Reopens(call'[t])
    BY <1>8, <2>1, <2>2, <2>4
  <2>6. \A u \in Threads \ {t} : Apart(call'[t], call[u])
    BY <1>8, <2>3
  <2> QED  BY <1>1, <1>8, <2>1, <2>5, <2>6, CallComesOrGoes
<1>10. ReservedExact'
  <2>1. \A p \in Pools : ~Reserves(call[t], p) /\ (Reserves(call'[t], p) <=> p = pool)
    BY <1>1, <1>7, <1>8 DEF Reserves
  <2> QED  BY <1>1, <1>4, <1>5, <1>8, <2>1, ReserveMore DEF SubInv, TypedRest
<1>11. reserved' \in [Pools -> Nat]
  BY <1>1, <1>4, <1>5 DEF TypedRest
<1>12. PoolBounded'
  <2> SUFFICES ASSUME NEW p \in Pools
               PROVE  reserved'[p] + Cardinality({k \in Kids : handle[k] # None /\ handle[k].pool = p}) <= budget.active
    BY <1>1, <1>2 DEF PoolBounded, Used, Resident, Pools
  <2> DEFINE N == Cardinality({k \in Kids : handle[k] # None /\ handle[k].pool = p})
  <2>1. N \in Nat /\ reserved[p] \in Nat /\ budget.active \in Nat /\ Used(p) = reserved[p] + N /\ Used(p) <= budget.active
    BY PoolFacts
  <2>2. p = pool => Used(p) < budget.active
    BY <1>4, <1>6, <1>13, Ground DEF Admitted
  <2>3. reserved'[p] = IF p = pool THEN reserved[p] + 1 ELSE reserved[p]
    BY <1>1, <1>4, <1>5, Ground DEF TypedRest
  <2> HIDE DEF N
  <2>4. reserved'[p] + N <= budget.active
    BY <2>1, <2>2, <2>3
  <2> QED  BY <2>4 DEF N
<1>14. Typed'
  BY <1>1, <1>2, <1>8, <1>11 DEF Typed, TypedChildren, TypedRest
<1>15. Settling' /\ StopListed'
  BY <1>1 DEF SubInv, Settling, StopListed
<1> QED  BY <1>9, <1>10, <1>12, <1>14, <1>15 DEF SubInv

LEMMA SendKept ==
  ASSUME SubInv, NEW t \in Threads, NEW s \in Pools, NEW target \in Pools, Send(t, s, target)
  PROVE  SubInv'
<1> USE DEF Send
<1> DEFINE c == [pc |-> "deliver", caller |-> s, mode |-> None, bg |-> FALSE, started |-> TRUE,
                 pool |-> None, obj |-> <<>>, target |-> target, cancelled |-> FALSE]
<1>1. /\ TypedChildren /\ TypedRest /\ call[t].pc = "idle" /\ MayCall(s)
      /\ UNCHANGED <<svc, registry, handle, res, reserved, agent, catalog, watcher, rel, stopTodo>>
  BY DEF SubInv, Typed
<1>2. budget' \in Bounds /\ budget'.active = budget.active
  BY <1>1, SpendIs DEF TypedRest
<1>3. call' = [call EXCEPT ![t] = c]
  OBVIOUS
<1>4. /\ c \in Calls /\ c.pc = "deliver" /\ c.caller = s /\ c.mode = None /\ c.target = target /\ c.pool = None
  BY DEF Calls, Writing, Delivering
<1> HIDE DEF c
<1>5. call' \in [Threads -> Calls \cup {Idle}] /\ call'[t] = c /\ \A u \in Threads \ {t} : call'[u] = call[u]
  BY <1>1, <1>3, <1>4, ZenonT(60) DEF TypedChildren
<1>6. target \in Kids => res[target] > 0
  <2> SUFFICES ASSUME target \in Kids PROVE res[target] > 0
    OBVIOUS
  <2>1. PICK p \in Pools : \E entry \in catalog[p] : entry[1] = target
    BY Ground DEF Pools
  <2>2. PICK entry \in catalog[p] : entry[1] = target
    BY <2>1
  <2>3. entry \in Kids \X Modes
    BY <1>1 DEF TypedChildren
  <2>4. entry = <<target, entry[2]>> /\ entry[2] \in Modes
    BY <2>2, <2>3
  <2>5. Named(target, catalog)
    BY <2>2, <2>4 DEF Named
  <2> QED  BY <2>5 DEF SubInv, Tree, Numbered
<1>7. ASSUME NEW u \in Threads, Creates(call[u]) PROVE call[u].obj[1] # target
  <2>1. CallShape(call[u], res)
    BY DEF SubInv, CallsKept, Shaped
  <2>2. call[u].obj \in Objects /\ call[u].obj[2] = 1 /\ call[u].mode # None /\ call[u].pc # "idle"
    BY <1>7, <2>1 DEF CallShape, Creates, Creating
  <2>3. call[u].obj # <<target, 1>>
    BY <2>2
  <2> QED  BY <2>2, <2>3 DEF Objects
<1>8. CallsKept' /\ Tree'
  <2>1. ~Holds(call[t]) /\ ~Reopens(call[t]) /\ ~Holds(c) /\ ~Reopens(c) /\ ~Creates(c)
    BY <1>1, <1>4 DEF Holds, Reopens, Creates, Creating
  <2>2. CallShape(c, res)
    BY <1>4, <1>6, <2>1, Ground DEF CallShape, Creating
  <2>3. \A u \in Threads \ {t} : Apart(c, call[u])
    BY <1>4, <1>7, <2>1 DEF Apart
  <2>4. CallerThere(c, handle, rel, registry)
    BY <1>1, <1>4, CallerIs DEF CallerThere, Housed
  <2>5. CallShape(call'[t], res) /\ CallerThere(call'[t], handle, rel, registry) /\ ~Holds(call'[t]) /\ ~Reopens(call'[t])
    BY <1>5, <2>1, <2>2, <2>4
  <2>6. \A u \in Threads \ {t} : Apart(call'[t], call[u])
    BY <1>5, <2>3
  <2> QED  BY <1>1, <1>5, <2>1, <2>5, <2>6, CallComesOrGoes
<1>9. ReservedExact' /\ PoolBounded'
  <2>1. \A u \in Threads, p \in Pools : Reserves(call'[u], p) <=> Reserves(call[u], p)
    BY <1>1, <1>4, <1>5 DEF Reserves
  <2>2. \A k \in Kids, p \in Pools : handle'[k] # None /\ handle'[k].pool = p => handle[k] # None /\ handle[k].pool = p
    BY <1>1
  <2>3. /\ reserved \in [Pools -> Nat] /\ budget.active \in Nat /\ reserved' = reserved
        /\ ReservedExact /\ PoolBounded
    BY <1>1 DEF SubInv, TypedRest, Bounds
  <2> QED  BY <1>2, <2>1, <2>2, <2>3, PoolsStay
<1>10. Typed'
  BY <1>1, <1>2, <1>5 DEF Typed, TypedChildren, TypedRest
<1>11. Settling' /\ StopListed'
  BY <1>1 DEF SubInv, Settling, StopListed
<1> QED  BY <1>8, <1>9, <1>10, <1>11 DEF SubInv
\* What a call that is over holds: nothing.
LEMMA IdleIs ==
  ASSUME NEW n, NEW h, NEW r, NEW a, NEW cat, NEW g
  PROVE  /\ Idle.pc = "idle" /\ ~Holds(Idle) /\ ~Reopens(Idle) /\ ~Creates(Idle) /\ ~Writes(Idle)
         /\ CallShape(Idle, n) /\ CallerThere(Idle, h, r, g) /\ CallHolds(Idle, h, a, cat, g)
         /\ \A d : Apart(Idle, d)
<1>1. Idle.pc = "idle"
  BY DEF Idle
<1>2. ~Holds(Idle) /\ ~Reopens(Idle) /\ ~Creates(Idle) /\ ~Writes(Idle) /\ Idle.pc \notin Writing
      /\ Idle.pc # "create" /\ Idle.pc \notin Creating
  BY <1>1 DEF Holds, Reopens, Creates, Writes, Creating, Writing, Delivering
<1>3. CallShape(Idle, n)
  BY <1>1, <1>2 DEF CallShape
<1>4. \A d : Apart(Idle, d)
  BY <1>2 DEF Apart
<1>5. CallHolds(Idle, h, a, cat, g) /\ CallerThere(Idle, h, r, g)
  BY <1>1, <1>2 DEF CallHolds, CallerThere
<1> QED  BY <1>1, <1>2, <1>3, <1>4, <1>5

\* The child of a call has had a residency, and is a child.
LEMMA HeldNumbered ==
  ASSUME SubInv, NEW u \in Threads
  PROVE  /\ Creates(call[u]) => call[u].obj \in Objects /\ call[u].obj[1] \in Kids /\ res[call[u].obj[1]] > 0
         /\ Writes(call[u]) /\ call[u].target \in Kids => res[call[u].target] > 0
         /\ Holds(call[u]) => /\ call[u].obj \in Objects /\ call[u].obj[1] \in Kids /\ res[call[u].obj[1]] > 0
                              /\ ~Housed(handle[call[u].obj[1]])
         /\ Reopens(call[u]) => call[u].target \in Kids /\ call[u].target = call[u].obj[1] /\ res[call[u].target] > 0
<1> DEFINE c == call[u]
<1>1. CallShape(c, res) /\ CallHolds(c, handle, agent, catalog, registry) /\ c \in Calls \cup {Idle}
  BY DEF SubInv, CallsKept, Shaped, Holding, Typed, TypedChildren
<1> HIDE DEF c
<1>2. Creates(c) => c.obj \in Objects /\ c.obj[1] \in Kids /\ res[c.obj[1]] > 0
  BY <1>1 DEF CallShape, Objects
<1>3. Writes(c) /\ c.target \in Kids => res[c.target] > 0
  BY <1>1 DEF CallShape
<1>4. Reopens(c) \/ (c.pc = "teardown" /\ c.mode = None) => c.obj \in Objects /\ c.target = c.obj[1] /\ c.target \in Kids
  BY <1>1 DEF CallShape, Objects
<1>5. Reopens(c) => Writes(c)
  BY DEF Reopens, Writes, Writing
<1>6. Holds(c) => Creates(c) \/ (Writes(c) /\ c.obj \in Objects /\ c.target = c.obj[1] /\ c.target \in Kids)
  BY <1>4, <1>5 DEF Holds, Creates, Writes, Reopens, Creating
<1>7. Holds(c) => ~Housed(handle[c.obj[1]])
  BY <1>1, <1>4 DEF CallHolds, Holds, Reopens, Housed
<1> QED  BY <1>2, <1>3, <1>4, <1>5, <1>6, <1>7 DEF c

\* A finite set with one more element has at most one more.
LEMMA OneMore ==
  ASSUME NEW A, IsFiniteSet(A), NEW x
  PROVE  IsFiniteSet(A \cup {x}) /\ Cardinality(A \cup {x}) \in Nat /\ Cardinality(A \cup {x}) <= Cardinality(A) + 1
<1>1. IsFiniteSet(A \cup {x}) /\ (Cardinality(A \cup {x}) = Cardinality(A) \/ Cardinality(A \cup {x}) = Cardinality(A) + 1)
  BY FS_AddElement
<1>2. Cardinality(A) \in Nat
  BY FS_CardinalityType
<1> QED  BY <1>1, <1>2

\* A slot given back, and at most one more child resident in that pool.
LEMMA PoolsLess ==
  ASSUME SubInv, budget'.active = budget.active, NEW k, NEW q,
         \A p \in Pools : reserved'[p] \in Nat /\ reserved'[p] = IF p = q THEN reserved[p] - 1 ELSE reserved[p],
         \A j \in Kids, p \in Pools : handle'[j] # None /\ handle'[j].pool = p =>
            (handle[j] # None /\ handle[j].pool = p) \/ (j = k /\ p = q)
  PROVE  PoolBounded'
<1> SUFFICES ASSUME NEW p \in Pools
             PROVE  reserved'[p] + Cardinality({j \in Kids : handle'[j] # None /\ handle'[j].pool = p}) <= budget.active
  BY DEF PoolBounded, Used, Resident, Pools
<1> DEFINE A == {j \in Kids : handle[j] # None /\ handle[j].pool = p}
           B == {j \in Kids : handle'[j] # None /\ handle'[j].pool = p}
<1>1. /\ IsFiniteSet(A) /\ Cardinality(A) \in Nat /\ reserved[p] \in Nat /\ budget.active \in Nat
      /\ reserved[p] + Cardinality(A) <= budget.active
  BY PoolFacts
<1>2. B \subseteq A \cup {k} /\ (p # q => B \subseteq A)
  OBVIOUS
<1> HIDE DEF A, B
<1>3. IsFiniteSet(A \cup {k}) /\ Cardinality(A \cup {k}) \in Nat /\ Cardinality(A \cup {k}) <= Cardinality(A) + 1
  BY <1>1, OneMore
<1>4. Cardinality(B) \in Nat /\ Cardinality(B) <= Cardinality(A \cup {k})
  BY <1>2, <1>3, FS_Subset, FS_CardinalityType
<1>5. p # q => Cardinality(B) <= Cardinality(A)
  BY <1>1, <1>2, FS_Subset
<1>6. reserved'[p] \in Nat /\ reserved'[p] = IF p = q THEN reserved[p] - 1 ELSE reserved[p]
  OBVIOUS
<1>7. reserved'[p] + Cardinality(B) <= budget.active
  BY <1>1, <1>3, <1>4, <1>5, <1>6
<1> QED  BY <1>7 DEF B

LEMMA CreateAgentKept == ASSUME SubInv, NEW t \in Threads, CreateAgent(t) PROVE SubInv'
<1> USE DEF CreateAgent
<1>1. /\ TypedChildren /\ TypedRest /\ call[t] \in Calls /\ call[t].pc = "create"
      /\ UNCHANGED <<svc, registry, handle, catalog, watcher, rel, stopTodo>>
  BY CallIs DEF SubInv, Typed, TypedChildren
<1>2. CallShape(call[t], res) /\ CallerThere(call[t], handle, rel, registry) /\ ~Holds(call[t]) /\ ~Reopens(call[t])
  BY <1>1 DEF SubInv, CallsKept, Shaped, CallersThere, Holds, Reopens
<1>3. CASE /\ CreateFails(t) /\ Return(t) /\ reserved' = Unreserved(t) /\ UNCHANGED <<agent, res>>
  <2>1. call' \in [Threads -> Calls \cup {Idle}] /\ call'[t] = Idle /\ \A u \in Threads \ {t} : call'[u] = call[u]
    BY <1>1, <1>3, ReturnIs
  <2>2. budget' \in Bounds /\ budget'.active = budget.active
    BY <1>1, <1>3, FailsIs DEF TypedRest, CreateFails
  <2>3. CallsKept' /\ Tree'
    <3>1. /\ CallShape(call'[t], res) /\ CallerThere(call'[t], handle, rel, registry) /\ ~Holds(call'[t]) /\ ~Reopens(call'[t])
          /\ \A u \in Threads \ {t} : Apart(call'[t], call[u])
      BY <2>1, IdleIs
    <3> QED  BY <1>1, <1>2, <1>3, <2>1, <3>1, CallComesOrGoes
  <2>4. /\ ReservedExact' /\ reserved' \in [Pools -> Nat]
        /\ \A p \in Pools : reserved'[p] = IF p = call[t].pool THEN reserved[p] - 1 ELSE reserved[p]
    <3>1. ReservedExact /\ reserved \in [Pools -> Nat] /\ call[t].pool \in Pools \cup {None}
      BY <1>1 DEF SubInv, TypedRest, Calls
    <3>2. call[t].pc \in {"create", "publish"} /\ call'[t].pc \notin {"create", "publish"} /\ reserved' = Unreserved(t)
      BY <1>1, <1>3, <2>1, IdleIs
    <3> QED  BY <2>1, <3>1, <3>2, ReserveLess
  <2>5. PoolBounded'
    <3> DEFINE q == call[t].pool
    <3>1. \A p \in Pools : reserved'[p] \in Nat /\ reserved'[p] = IF p = q THEN reserved[p] - 1 ELSE reserved[p]
      BY <2>4
    <3> HIDE DEF q
    <3>2. \A j \in Kids, p \in Pools : handle'[j] # None /\ handle'[j].pool = p =>
             (handle[j] # None /\ handle[j].pool = p) \/ (j = None /\ p = q)
      BY <1>1
    <3> QED  BY <2>2, <3>1, <3>2, PoolsLess
  <2>6. Typed'
    BY <1>1, <1>3, <2>1, <2>2, <2>4 DEF Typed, TypedChildren, TypedRest
  <2>7. Settling' /\ StopListed'
    BY <1>1, <1>3 DEF SubInv, Settling, StopListed
  <2> QED  BY <2>3, <2>4, <2>5, <2>6, <2>7 DEF SubInv
<1>4. ASSUME NEW i \in 1..Len(Ids), registry = "open", res[Ids[i]] = 0, res' = [res EXCEPT ![Ids[i]] = 1],
             agent' = [agent EXCEPT ![Ids[i]] = [Gone EXCEPT !.live = TRUE, !.mode = call[t].mode,
                                                   !.parent = call[t].caller, !.depth = Depth(call[t].caller) + 1]],
             call' = [call EXCEPT ![t].pc = "publish", ![t].obj = <<Ids[i], 1>>],
             UNCHANGED <<reserved, budget>>
      PROVE  SubInv'
  <2> HIDE DEF CreateAgent
  <2> DEFINE k == Ids[i]
             a == [Gone EXCEPT !.live = TRUE, !.mode = call[t].mode, !.parent = call[t].caller, !.depth = Depth(call[t].caller) + 1]
             c == [call[t] EXCEPT !.pc = "publish", !.obj = <<k, 1>>]
  <2>1. k \in Kids
    BY DEF Kids
  <2>2. Depth(call[t].caller) \in Nat /\ call[t].caller \in Pools /\ call[t].mode \in Modes \cup {None}
    <3>1. call[t].caller \in Pools /\ call[t].mode \in Modes \cup {None}
      BY <1>1 DEF Calls
    <3>2. \A s \in Kids : agent[s].depth \in Nat
      BY <1>1 DEF TypedChildren, Agents
    <3> QED  BY <3>1, <3>2 DEF Depth, Pools
  <2>3. a \in Agents /\ Fresh(a, registry)
    <3>1. call[t].caller \in Pools \cup {None} /\ Depth(call[t].caller) + 1 \in Nat
      BY <2>2
    <3> QED  BY <2>2, <3>1 DEF Gone, Agents, Fresh
  <2>4. /\ c \in Calls /\ c.pc = "publish" /\ c.obj = <<k, 1>> /\ c.caller = call[t].caller /\ c.mode = call[t].mode
        /\ c.bg = call[t].bg /\ c.pool = call[t].pool
    BY <1>1, <2>1 DEF Calls, Creating, Objects
  <2>5. call' = [call EXCEPT ![t] = c] /\ agent' = [agent EXCEPT ![k] = a] /\ res' = [res EXCEPT ![k] = 1] /\ res[k] = 0
    BY <1>1, <1>4 DEF TypedChildren
  <2> HIDE DEF a, c, k
  <2>6. /\ call' \in [Threads -> Calls \cup {Idle}] /\ call'[t] = c /\ \A u \in Threads \ {t} : call'[u] = call[u]
        /\ agent' \in [Kids -> Agents] /\ agent'[k] = a /\ \A j \in Kids \ {k} : agent'[j] = agent[j]
        /\ res' \in [Kids -> Nat] /\ res'[k] = 1 /\ \A j \in Kids \ {k} : res'[j] = res[j]
    BY <1>1, <2>1, <2>3, <2>4, <2>5, ZenonT(60) DEF TypedChildren
  <2>7. \A j \in Kids : res[j] \in Nat /\ res'[j] \in Nat /\ res'[j] >= res[j]
    <3> SUFFICES ASSUME NEW j \in Kids PROVE res[j] \in Nat /\ res'[j] \in Nat /\ res'[j] >= res[j]
      OBVIOUS
    <3>1. res[j] \in Nat
      BY <1>1 DEF TypedChildren
    <3>2. CASE j = k
      <4>1. res[k] = 0 /\ res'[k] = 1
        BY <2>5, <2>6
      <4> QED  BY <3>2, <4>1
    <3>3. CASE j # k
      BY <2>6, <3>1, <3>3
    <3> QED  BY <3>2, <3>3
  <2>8. handle[k] = None /\ ~Named(k, catalog)
    BY <2>1, <2>5 DEF SubInv, Tree, Numbered
  <2>9. \A u \in Threads : /\ ~(Creates(call[u]) /\ call[u].obj[1] = k)
                           /\ ~(Writes(call[u]) /\ call[u].target = k)
                           /\ ~(Holds(call[u]) /\ call[u].obj[1] = k)
                           /\ ~(Reopens(call[u]) /\ call[u].target = k)
    BY <2>1, <2>5, HeldNumbered
  <2>10. c.obj \in Objects /\ c.obj[1] = k /\ c.obj[2] = 1
    BY <2>1, <2>4 DEF Objects
  <2>11. Creates(c) /\ ~Writes(c) /\ ~Reopens(c) /\ Holds(c) /\ c.pc \notin Writing
    BY <2>4 DEF Creates, Writes, Reopens, Holds, Creating, Writing, Delivering
  <2>12. CallShape(c, res')
    BY <1>1, <1>2, <2>4, <2>6, <2>10, <2>11 DEF CallShape
  <2>13. \A u \in Threads \ {t} : Apart(c, call[u])
    BY <2>9, <2>10, <2>11 DEF Apart
  <2>14. CallHolds(c, handle, agent', catalog, registry)
    BY <2>3, <2>4, <2>6, <2>8, <2>10, <2>11 DEF CallHolds
  <2>15. CallerThere(c, handle, rel, registry)
    BY <1>1, <1>2, <2>4 DEF CallerThere
  <2>16. CallsKept'
    <3>1. \A j \in Kids \ {k} : handle'[j] = handle[j] /\ agent'[j] = agent[j] /\ (Named(j, catalog') => Named(j, catalog))
      BY <1>1, <2>6
    <3>2. Housed(handle[k]) => Housed(handle'[k])
      BY <1>1
    <3>3. \A u \in Threads \ {t} :
            /\ Holds(call[u]) /\ call[u].obj[1] = k =>
                 call[u].pc = "teardown" /\ agent'[k] = agent[k] /\ ~Housed(handle'[k])
            /\ Reopens(call[u]) /\ call[u].target = k => handle'[k] = handle[k]
      BY <2>9
    <3>4. /\ CallShape(call'[t], res') /\ CallHolds(call'[t], handle', agent', catalog', registry') /\ CallerThere(call'[t], handle', rel, registry)
          /\ \A u \in Threads \ {t} : Apart(call'[t], call[u])
      BY <1>1, <2>6, <2>12, <2>13, <2>14, <2>15
    <3>5. CallsKept /\ rel' = rel /\ \A j \in Kids : res'[j] \in Nat /\ res'[j] >= res[j]
      BY <1>1, <2>7 DEF SubInv
    <3> QED  BY <1>1, <2>1, <2>6, <3>1, <3>2, <3>3, <3>4, <3>5, CallsElsewhere
  <2>17. Tree'
    <3>1. AttendedBy(handle[k], watcher[k], rel[k], agent[k], registry)
      BY <2>1 DEF SubInv, Tree, Attended
    <3>2. AttendedBy(handle[k], watcher[k], rel[k], agent'[k], registry')
      BY <2>8, <3>1 DEF AttendedBy, Housed
    <3>3. HeldBy(k, call')
      BY <2>6, <2>10, <2>11 DEF HeldBy
    <3>4. handle'[k] = None /\ handle' = handle
      BY <1>1, <2>8
    <3>5. Placeholder(k, handle'[k], res'[k], call') /\ HasPool(handle'[k]) /\ OwnedBy(k, handle'[k], agent'[k], call', registry')
      BY <1>1, <1>4, <3>3, <3>4 DEF Placeholder, HasPool, OwnedBy, Vacant
    <3>6. \A j \in Kids : ListedIn(j, rel[j], k, handle'[k], res'[k], registry')
      BY <3>4 DEF ListedIn, Housed
    <3>7. \A j \in Kids \ {k} : handle'[j] = handle[j] /\ agent'[j] = agent[j] /\ res'[j] = res[j]
      BY <2>6, <3>4
    <3>8. Tree /\ rel' = rel /\ watcher' = watcher /\ \A j \in Kids : Named(j, catalog') => Named(j, catalog)
      BY <1>1 DEF SubInv
    <3>9. AttendedBy(handle'[k], watcher[k], rel[k], agent'[k], registry') /\ (Housed(handle[k]) => Housed(handle'[k]))
      BY <3>2, <3>4
    <3> QED  BY <1>1, <1>2, <2>1, <2>6, <2>7, <3>4, <3>5, <3>6, <3>7, <3>8, <3>9, TreeElsewhere
  <2>18. ReservedExact' /\ PoolBounded'
    <3>1. \A u \in Threads, p \in Pools : Reserves(call'[u], p) <=> Reserves(call[u], p)
      BY <1>1, <2>4, <2>6 DEF Reserves
    <3>2. \A j \in Kids, p \in Pools : handle'[j] # None /\ handle'[j].pool = p => handle[j] # None /\ handle[j].pool = p
      BY <1>1
    <3>3. /\ reserved \in [Pools -> Nat] /\ budget.active \in Nat /\ reserved' = reserved /\ budget'.active = budget.active
          /\ ReservedExact /\ PoolBounded
      BY <1>1, <1>4 DEF SubInv, TypedRest, Bounds
    <3> QED  BY <3>1, <3>2, <3>3, PoolsStay
  <2>19. Typed'
    BY <1>1, <1>4, <2>6 DEF Typed, TypedChildren, TypedRest
  <2>20. Settling' /\ StopListed'
    <3>1. \A j \in Kids : Settled(svc, registry, handle[j], agent[j], watcher[j]) /\ StopKnows(svc, stopTodo.todo, j, handle[j], res[j])
      BY DEF SubInv, Settling, StopListed
    <3>2. \A j \in Kids : Settled(svc, registry, handle[j], agent'[j], watcher[j]) /\ StopKnows(svc, stopTodo.todo, j, handle[j], res'[j])
      <4> SUFFICES ASSUME NEW j \in Kids
                   PROVE  Settled(svc, registry, handle[j], agent'[j], watcher[j]) /\ StopKnows(svc, stopTodo.todo, j, handle[j], res'[j])
        OBVIOUS
      <4>1. CASE j = k
        BY <2>8, <4>1 DEF Settled, StopKnows, Housed
      <4>2. CASE j # k
        BY <2>6, <3>1, <4>2
      <4> QED  BY <4>1, <4>2
    <3> QED  BY <1>1, <3>2 DEF Settling, StopListed
  <2> QED  BY <2>16, <2>17, <2>18, <2>19, <2>20 DEF SubInv
<1> QED  BY <1>3, <1>4
\* Nobody else has the child of a call.
LEMMA OnlyHolder ==
  ASSUME SubInv, NEW t \in Threads, NEW u \in Threads \ {t}, Creates(call[t]) \/ Holds(call[t])
  PROVE  /\ Holds(call[t]) => ~(Holds(call[u]) /\ call[u].obj[1] = call[t].obj[1])
         /\ Creates(call[t]) => /\ ~(Holds(call[u]) /\ call[u].obj[1] = call[t].obj[1])
                                /\ ~(Reopens(call[u]) /\ call[u].target = call[t].obj[1])
<1>1. Apart(call[t], call[u])
  BY DEF SubInv, CallsKept, AllApart
<1>2. /\ Holds(call[u]) => Creates(call[u]) \/ (Writes(call[u]) /\ call[u].target = call[u].obj[1])
      /\ Reopens(call[u]) => Writes(call[u])
  <2>1. CallShape(call[u], res)
    BY DEF SubInv, CallsKept, Shaped
  <2> QED  BY <2>1 DEF CallShape, Holds, Creates, Writes, Reopens, Creating, Writing
<1> QED  BY <1>1, <1>2 DEF Apart

\* The child of a creation at publish: it is not resident, and nothing runs for it.
LEMMA PublishIs ==
  ASSUME SubInv, NEW t \in Threads, call[t].pc = "publish"
  PROVE  /\ call[t] \in Calls /\ CallShape(call[t], res) /\ Creates(call[t]) /\ Holds(call[t]) /\ ~Reopens(call[t])
         /\ call[t].obj \in Objects /\ call[t].obj[1] \in Kids /\ call[t].obj[2] = 1 /\ res[call[t].obj[1]] > 0
         /\ call[t].mode \in Modes /\ call[t].pool \in Pools \cup {None} /\ call[t].caller \in Pools
         /\ handle[call[t].obj[1]] = None /\ ~Named(call[t].obj[1], catalog) /\ Fresh(agent[call[t].obj[1]], registry)
         /\ watcher[call[t].obj[1]].pc = "idle" /\ rel[call[t].obj[1]].pc = "idle"
<1>1. call[t] \in Calls /\ CallShape(call[t], res) /\ CallHolds(call[t], handle, agent, catalog, registry)
  BY CallIs DEF SubInv, CallsKept, Shaped, Holding, Typed, TypedChildren
<1>2. Creates(call[t]) /\ Holds(call[t]) /\ ~Reopens(call[t])
  BY DEF Creates, Holds, Reopens, Creating
<1>3. call[t].obj \in Objects /\ call[t].obj[1] \in Kids /\ call[t].obj[2] = 1 /\ res[call[t].obj[1]] > 0
  BY <1>1, <1>2 DEF CallShape, Objects
<1>4. call[t].mode \in Modes /\ call[t].pool \in Pools \cup {None} /\ call[t].caller \in Pools
  BY <1>1, <1>2 DEF CallShape, Calls, Creating
<1>5. handle[call[t].obj[1]] = None /\ ~Named(call[t].obj[1], catalog) /\ Fresh(agent[call[t].obj[1]], registry)
  BY <1>1, <1>2 DEF CallHolds
<1>6. watcher[call[t].obj[1]].pc = "idle" /\ rel[call[t].obj[1]].pc = "idle"
  BY <1>3, <1>5 DEF SubInv, Tree, Attended, AttendedBy, Housed
<1> QED  BY <1>1, <1>2, <1>3, <1>4, <1>5, <1>6

\* A session that is not closing is not being released.
LEMMA NotClosingIs ==
  ASSUME SubInv, NEW s \in Kids, Housed(handle[s]), ~IsClosing(s)
  PROVE  ~handle[s].closing /\ rel[s].pc = "idle"
<1>1. ~handle[s].closing
  BY Ground DEF IsClosing, Resident, Housed
<1> QED  BY <1>1 DEF SubInv, Tree, Attended, AttendedBy

LEMMA PublishKept == ASSUME SubInv, NEW t \in Threads, Publish(t) PROVE SubInv'
<1> USE DEF Publish
<1> DEFINE k == call[t].obj[1]
           s == call[t].caller
           q == call[t].pool
<1>1. /\ TypedChildren /\ TypedRest /\ UNCHANGED <<svc, registry, res, agent, catalog, watcher, rel, stopTodo, budget>>
      /\ call[t].pc = "publish" /\ reserved' = Unreserved(t)
  BY DEF SubInv, Typed
<1>2. /\ call[t] \in Calls /\ CallShape(call[t], res) /\ Creates(call[t]) /\ Holds(call[t]) /\ ~Reopens(call[t])
      /\ call[t].obj \in Objects /\ k \in Kids /\ call[t].obj[2] = 1 /\ res[k] > 0
      /\ call[t].mode \in Modes /\ q \in Pools \cup {None} /\ s \in Pools
      /\ handle[k] = None /\ ~Named(k, catalog) /\ Fresh(agent[k], registry)
      /\ watcher[k].pc = "idle" /\ rel[k].pc = "idle"
  BY <1>1, PublishIs
<1>3. \A u \in Threads \ {t} : Apart(call[t], call[u])
  BY DEF SubInv, CallsKept, AllApart
<1>4. \A u \in Threads \ {t} : ~(Holds(call[u]) /\ call[u].obj[1] = k) /\ ~(Reopens(call[u]) /\ call[u].target = k)
  BY <1>2, OnlyHolder
<1>5. registry = "open" /\ s \in Kids => s # k /\ Housed(handle[s]) /\ (rel[s].pc = "jobs" => call[t].bg)
  <2>1. CallerThere(call[t], handle, rel, registry)
    BY DEF SubInv, CallsKept, CallersThere
  <2> QED  BY <1>1, <1>2, <2>1 DEF CallerThere, Housed
<1>6. \A j \in Kids : res[j] \in Nat /\ res'[j] \in Nat /\ res'[j] >= res[j]
  BY <1>1 DEF TypedChildren
<1>7. \E pc \in {"catalog", "teardown"} : call' = [call EXCEPT ![t].pc = pc]
  BY DEF Go
<1>8. PICK pc \in {"catalog", "teardown"} : call' = [call EXCEPT ![t].pc = pc]
  BY <1>7
<1>9. /\ call' \in [Threads -> Calls \cup {Idle}] /\ \A u \in Threads \ {t} : call'[u] = call[u]
      /\ call'[t] \in Calls /\ call'[t].pc = pc /\ call'[t].caller = s /\ call'[t].mode = call[t].mode
      /\ call'[t].target = call[t].target /\ call'[t].bg = call[t].bg /\ call'[t].pool = q /\ call'[t].obj = call[t].obj
  <2>1. pc \in {"create", "teardown"} \cup Creating \cup Writing
    BY DEF Creating
  <2> QED  BY <1>1, <1>8, <2>1, GoIs
<1>10. /\ ReservedExact' /\ reserved' \in [Pools -> Nat]
       /\ \A p \in Pools : reserved'[p] = IF p = q THEN reserved[p] - 1 ELSE reserved[p]
  <2>1. ReservedExact /\ reserved \in [Pools -> Nat] /\ call[t].pool \in Pools \cup {None}
    BY <1>1, <1>2 DEF SubInv, TypedRest
  <2>2. call[t].pc \in {"create", "publish"} /\ call'[t].pc \notin {"create", "publish"} /\ reserved' = Unreserved(t)
    BY <1>1, <1>8, <1>9
  <2> QED  BY <1>9, <2>1, <2>2, ReserveLess
<1>11. None \notin Modes
  BY Ground
<1>12. call'[t].pc = pc /\ Creates(call'[t]) /\ ~Writes(call'[t]) /\ ~Reopens(call'[t]) /\ call'[t].pc \notin Writing /\ call'[t].pc # "publish"
       /\ (Holds(call'[t]) <=> pc = "teardown")
  BY <1>2, <1>8, <1>9, <1>11 DEF Creates, Writes, Reopens, Holds, Creating, Writing, Delivering
<1>13. CallShape(call'[t], res')
  <2>1. call[t].mode # None /\ (call[t].mode = "continuable" => q # None)
    BY <1>1, <1>2 DEF CallShape, Creating
  <2> QED  BY <1>1, <1>2, <1>9, <1>12, <2>1 DEF CallShape
<1>14. \A u \in Threads \ {t} : Apart(call'[t], call[u])
  BY <1>2, <1>3, <1>9, <1>12 DEF Apart
<1>15. SubInv /\ {k} \in SUBSET Kids /\ CallsKept /\ Tree /\ Settling /\ rel' = rel /\ watcher' = watcher /\ svc' = svc /\ registry' = registry
  BY <1>1, <1>2 DEF SubInv
<1>16. CASE svc = "active" /\ ~IsClosing(s)
  <2> DEFINE n == Depth(s) + 1
             g == NewChild(s, call[t].mode, q, n, FALSE)
  <2>1. handle' = [handle EXCEPT ![k] = g] /\ call' = [call EXCEPT ![t].pc = "catalog"]
    BY <1>16 DEF Go
  <2>2. pc = "catalog"
    <3>1. call'[t].pc = "catalog"
      BY <1>1, <1>2, <2>1 DEF TypedChildren, Calls
    <3> QED  BY <1>9, <3>1
  <2>3. n \in Nat
    <3>1. s \in Kids => agent[s].depth \in Nat
      BY <1>1 DEF TypedChildren, Agents
    <3> QED  BY <1>2, <3>1 DEF Depth, Pools
  <2>4. /\ g \in Child /\ g # None /\ ~g.ph /\ ~g.closing /\ g.parent = s /\ g.pool = q
        /\ g.mode = call[t].mode /\ g.delivered = 0 /\ ~g.announced /\ ~g.watched
    <3> DEFINE m == call[t].mode
    <3>1. g = NewChild(s, m, q, n, FALSE) /\ s \in Pools /\ m \in Modes /\ q \in Pools \cup {None} /\ n \in Nat
      BY <1>2, <2>3
    <3> HIDE DEF g, k, s, q, m, n
    <3>2. /\ g \in Child /\ g # None /\ ~g.ph /\ ~g.closing /\ g.parent = s /\ g.pool = q
          /\ g.mode = m /\ g.delivered = 0 /\ ~g.announced /\ ~g.watched
      <4>1. g \in Child
        BY <3>1 DEF NewChild, Child, Pools
      <4> QED  BY <3>1, <4>1, Ground DEF NewChild
    <3> QED  BY <3>2 DEF m
  <2> HIDE DEF g, k, s, q, n, Publish
  <2>5. handle' \in [Kids -> Child \cup {None}] /\ handle'[k] = g /\ \A j \in Kids \ {k} : handle'[j] = handle[j]
    BY <1>1, <1>2, <2>1, <2>4 DEF TypedChildren
  <2>6. Housed(handle'[k]) /\ ~Housed(handle[k])
    BY <1>2, <2>4, <2>5 DEF Housed
  <2>7. registry = "open" /\ s \in Kids => Housed(handle'[s]) /\ rel[s].pc = "idle"
    BY <1>5, <1>15, <1>16, <2>5, NotClosingIs
  <2>8. CallsKept'
    <3>1. CallHolds(call'[t], handle', agent', catalog', registry')
      BY <1>12, <2>2 DEF CallHolds
    <3>2. CallerThere(call'[t], handle', rel, registry)
      BY <1>5, <1>9, <2>7 DEF CallerThere, Housed
    <3>3. \A j \in Kids \ {k} : handle'[j] = handle[j] /\ agent'[j] = agent[j] /\ (Named(j, catalog') => Named(j, catalog))
      BY <1>1, <2>5
    <3>4. \A u \in Threads \ {t} :
            /\ Holds(call[u]) /\ call[u].obj[1] = k =>
                 call[u].pc = "teardown" /\ agent'[k] = agent[k] /\ ~Housed(handle'[k])
            /\ Reopens(call[u]) /\ call[u].target = k => handle'[k] = handle[k]
      BY <1>4
    <3> QED  BY <1>1, <1>2, <1>6, <1>9, <1>13, <1>14, <1>15, <2>6, <3>1, <3>2, <3>3, <3>4, CallsElsewhere
  <2>9. Tree'
    <3>0. OwnedBy(k, handle[k], agent[k], call, registry)
      BY <1>2, <1>15 DEF Tree, Owned
    <3>1. Placeholder(k, handle'[k], res'[k], call') /\ OwnedBy(k, handle'[k], agent'[k], call', registry')
      BY <1>1, <2>6, <3>0 DEF Placeholder, Vacant, Housed, OwnedBy
    <3>2. HasPool(handle'[k])
      <4>1. CallShape(call[t], res) /\ call[t].pc \in Creating /\ call[t].pool = q
        BY <1>1, <1>2 DEF Creating, q
      <4>2. call[t].mode = "continuable" => q # None
        BY <4>1 DEF CallShape
      <4> QED  BY <2>4, <2>5, <4>2 DEF HasPool
    <3>3. AttendedBy(handle'[k], watcher[k], rel[k], agent'[k], registry')
      BY <1>2 DEF AttendedBy
    <3>4. registry = "open" /\ handle'[k] # None /\ handle'[k].parent \in Kids => Housed(handle'[handle'[k].parent])
      BY <2>4, <2>5, <2>7
    <3>5. \A j \in Kids : ListedIn(j, rel[j], k, handle'[k], res'[k], registry')
      BY <1>1, <2>4, <2>5, <2>7 DEF ListedIn
    <3>6. \A j \in Kids \ {k} : handle'[j] = handle[j] /\ agent'[j] = agent[j] /\ res'[j] = res[j]
      BY <1>1, <2>5
    <3>7. \A j \in Kids : Named(j, catalog') => Named(j, catalog) \/ res'[j] > 0
      BY <1>1
    <3>8. (Holds(call[t]) => call[t].obj[1] = k) /\ (Reopens(call[t]) => call[t].target = k)
      BY <1>2 DEF k
    <3>9. res'[k] > 0
      BY <1>1, <1>2
    <3> QED  BY <1>2, <1>6, <1>9, <1>15, <2>6, <3>1, <3>2, <3>3, <3>4, <3>5, <3>6, <3>7, <3>8, <3>9, TreeElsewhere
  <2>10. PoolBounded'
    <3>1. \A j \in Kids, p \in Pools : handle'[j] # None /\ handle'[j].pool = p =>
             (handle[j] # None /\ handle[j].pool = p) \/ (j = k /\ p = q)
      BY <2>4, <2>5
    <3>2. \A p \in Pools : reserved'[p] \in Nat /\ reserved'[p] = IF p = q THEN reserved[p] - 1 ELSE reserved[p]
      BY <1>10
    <3>3. budget'.active = budget.active
      BY <1>1
    <3>4. SubInv
      BY <1>15
    <3> QED  BY <3>1, <3>2, <3>3, <3>4, PoolsLess
  <2>11. Settling'
    <3>1. \A j \in Kids \ {k} : SettledSame(j)
      BY <1>1, <2>5 DEF SettledSame
    <3>2. Settled(svc, registry, g, agent[k], watcher[k])
      BY <1>2, <2>4 DEF Settled, Fresh, Received
    <3>3. \A j \in {k} : Settled(svc', registry', handle'[j], agent'[j], watcher'[j])
      BY <1>1, <2>5, <3>2
    <3> QED  BY <1>15, <3>1, <3>3, SettlingStays
  <2>12. StopListed'
    BY <1>1, <1>15, <1>16 DEF StopListed, StopKnows
  <2>13. Typed'
    BY <1>1, <1>9, <1>10, <2>5 DEF Typed, TypedChildren, TypedRest
  <2> QED  BY <1>10, <2>8, <2>9, <2>10, <2>11, <2>12, <2>13 DEF SubInv
<1>17. CASE ~(svc = "active" /\ ~IsClosing(s))
  <2>1. handle' = handle /\ call' = [call EXCEPT ![t].pc = "teardown"]
    BY <1>17 DEF Go
  <2>2. pc = "teardown"
    <3>1. call'[t].pc = "teardown"
      BY <1>1, <1>2, <2>1 DEF TypedChildren, Calls
    <3> QED  BY <1>9, <3>1
  <2> HIDE DEF k, s, q, Publish
  <2>3. CallsKept'
    <3>1. CallHolds(call'[t], handle', agent', catalog', registry')
      BY <1>1, <1>2, <1>9, <1>12, <2>1 DEF CallHolds, k
    <3>2. CallerThere(call'[t], handle', rel, registry)
      BY <1>5, <1>9, <2>1 DEF CallerThere, Housed
    <3>3. \A j \in Kids \ {k} : handle'[j] = handle[j] /\ agent'[j] = agent[j] /\ (Named(j, catalog') => Named(j, catalog))
      BY <1>1, <2>1
    <3>4. \A u \in Threads \ {t} :
            /\ Holds(call[u]) /\ call[u].obj[1] = k =>
                 call[u].pc = "teardown" /\ agent'[k] = agent[k] /\ ~Housed(handle'[k])
            /\ Reopens(call[u]) /\ call[u].target = k => handle'[k] = handle[k]
      BY <1>4
    <3>5. Housed(handle[k]) => Housed(handle'[k])
      BY <2>1
    <3> QED  BY <1>1, <1>2, <1>6, <1>9, <1>13, <1>14, <1>15, <3>1, <3>2, <3>3, <3>4, <3>5, CallsElsewhere
  <2>4. Tree'
    <3>0. OwnedBy(k, handle[k], agent[k], call, registry)
      BY <1>2, <1>15 DEF Tree, Owned
    <3>1. HeldBy(k, call')
      BY <1>9, <1>12, <2>2 DEF HeldBy, k
    <3>2. handle'[k] = None /\ Housed(handle[k]) = Housed(handle'[k])
      BY <1>2, <2>1
    <3>3. Placeholder(k, handle'[k], res'[k], call') /\ OwnedBy(k, handle'[k], agent'[k], call', registry') /\ HasPool(handle'[k])
      BY <1>1, <3>0, <3>1, <3>2 DEF Placeholder, Vacant, OwnedBy, HasPool
    <3>4. AttendedBy(handle'[k], watcher[k], rel[k], agent'[k], registry')
      BY <1>2 DEF AttendedBy
    <3>5. \A j \in Kids : ListedIn(j, rel[j], k, handle'[k], res'[k], registry')
      BY <3>2 DEF ListedIn, Housed
    <3>6. \A j \in Kids \ {k} : handle'[j] = handle[j] /\ agent'[j] = agent[j] /\ res'[j] = res[j]
      BY <1>1, <2>1
    <3>7. \A j \in Kids : Named(j, catalog') => Named(j, catalog) \/ res'[j] > 0
      BY <1>1
    <3>8. (Holds(call[t]) => call[t].obj[1] = k) /\ (Reopens(call[t]) => call[t].target = k)
      BY <1>2 DEF k
    <3> QED  BY <1>2, <1>6, <1>9, <1>15, <3>2, <3>3, <3>4, <3>5, <3>6, <3>7, <3>8, TreeElsewhere
  <2>5. PoolBounded'
    <3>1. \A j \in Kids, p \in Pools : handle'[j] # None /\ handle'[j].pool = p =>
             (handle[j] # None /\ handle[j].pool = p) \/ (j = k /\ p = q)
      BY <2>1
    <3>2. \A p \in Pools : reserved'[p] \in Nat /\ reserved'[p] = IF p = q THEN reserved[p] - 1 ELSE reserved[p]
      BY <1>10
    <3>3. budget'.active = budget.active
      BY <1>1
    <3>4. SubInv
      BY <1>15
    <3> QED  BY <3>1, <3>2, <3>3, <3>4, PoolsLess
  <2>6. Settling' /\ StopListed'
    BY <1>1, <2>1 DEF SubInv, Settling, StopListed
  <2>7. Typed'
    BY <1>1, <1>9, <1>10, <2>1 DEF Typed, TypedChildren, TypedRest
  <2> QED  BY <1>10, <2>3, <2>4, <2>5, <2>6, <2>7 DEF SubInv
<1> QED  BY <1>16, <1>17
LEMMA CatalogKept == ASSUME SubInv, NEW t \in Threads, Catalog(t) PROVE SubInv'
<1> USE DEF Catalog
<1> DEFINE k == call[t].obj[1]
<1>1. /\ TypedChildren /\ TypedRest /\ UNCHANGED <<svc, registry, handle, res, reserved, agent, watcher, rel, stopTodo>>
      /\ call[t].pc = "catalog" /\ call[t] \in Calls
  BY CallIs DEF SubInv, Typed, TypedChildren
<1>2. CASE FailsAt(t) /\ Go(t, "close") /\ UNCHANGED catalog
  <2>1. call' \in [Threads -> Calls \cup {Idle}] /\ CallsQuiet
    <3>1. /\ call' = [call EXCEPT ![t].pc = "close"] /\ "close" \in {"create", "teardown"} \cup Creating \cup Writing
          /\ {call[t].pc, "close"} \subseteq Creating \ {"publish"}
      BY <1>1, <1>2 DEF Go, Creating
    <3> QED  BY <1>1, <3>1, GoQuiet
  <2>2. budget' \in Bounds /\ budget'.active = budget.active
    BY <1>1, <1>2, FailsIs DEF TypedRest
  <2>3. Typed'
    BY <1>1, <1>2, <2>1, <2>2 DEF Typed, TypedChildren, TypedRest
  <2> QED  BY <1>1, <1>2, <2>1, <2>2, <2>3, CallsOnly
<1>3. ASSUME catalog' = [catalog EXCEPT ![call[t].caller] = @ \cup {<<call[t].obj[1], call[t].mode>>}],
             call' = [call EXCEPT ![t].pc = "submit", ![t].started = TRUE], UNCHANGED budget
      PROVE  SubInv'
  <2> DEFINE c == [call[t] EXCEPT !.pc = "submit", !.started = TRUE]
             s == call[t].caller
             m == call[t].mode
  <2>1. Creates(call[t]) /\ CallShape(call[t], res) /\ ~Holds(call[t]) /\ ~Reopens(call[t])
    BY <1>1 DEF SubInv, CallsKept, Shaped, Creates, Holds, Reopens, Creating
  <2>2. call[t].obj \in Objects /\ k \in Kids /\ res[k] > 0 /\ m \in Modes /\ s \in Pools
    BY <1>1, <2>1 DEF CallShape, Objects, Calls, Creating
  <2>3. c \in Calls /\ c.pc = "submit" /\ c.obj = call[t].obj /\ c.caller = s /\ c.mode = m
        /\ c.target = call[t].target /\ c.bg = call[t].bg /\ c.pool = call[t].pool
    BY <1>1 DEF Calls, Creating
  <2>4. call' = [call EXCEPT ![t] = c] /\ catalog' = [catalog EXCEPT ![s] = @ \cup {<<k, m>>}]
    BY <1>1, <1>3 DEF TypedChildren
  <2> HIDE DEF c, s, m, k
  <2>5. call' \in [Threads -> Calls \cup {Idle}] /\ call'[t] = c /\ \A u \in Threads \ {t} : call'[u] = call[u]
    BY <1>1, <2>3, <2>4 DEF TypedChildren
  <2>6. catalog' \in [Pools -> SUBSET (Kids \X Modes)]
    BY <1>1, <2>2, <2>4 DEF TypedChildren
  <2>7. ASSUME NEW j \in Kids, Named(j, catalog') PROVE Named(j, catalog) \/ j = k
    <3>1. PICK p \in Pools, n \in Modes : <<j, n>> \in catalog'[p]
      BY <2>7 DEF Named
    <3>2. <<j, n>> \in catalog[p] \/ <<j, n>> = <<k, m>>
      BY <1>1, <2>2, <2>4, <3>1 DEF TypedChildren
    <3> QED  BY <3>2 DEF Named
  <2>8. \A j \in Kids : res[j] \in Nat /\ res'[j] \in Nat /\ res'[j] >= res[j]
    BY <1>1 DEF TypedChildren
  <2>9. /\ Creates(c) /\ ~Writes(c) /\ ~Reopens(c) /\ ~Holds(c) /\ c.pc \notin Writing
    BY <2>3 DEF Creates, Writes, Reopens, Holds, Creating, Writing, Delivering
  <2>10. CallsKept'
    <3>1. \A u \in Threads \ {t} : ~(Holds(call[u]) /\ call[u].obj[1] = k) /\ ~(Reopens(call[u]) /\ call[u].target = k)
      BY <2>1, OnlyHolder DEF k
    <3>2. \A u \in Threads \ {t} :
            /\ Holds(call[u]) /\ call[u].obj[1] = k =>
                 call[u].pc = "teardown" /\ agent'[k] = agent[k] /\ ~Housed(handle'[k])
            /\ Reopens(call[u]) /\ call[u].target = k => handle'[k] = handle[k]
      BY <3>1
    <3>3. CallShape(c, res')
      BY <1>1, <2>1, <2>3, <2>9 DEF CallShape, Creating, m
    <3>4. \A u \in Threads \ {t} : Apart(c, call[u])
      <4> SUFFICES ASSUME NEW u \in Threads \ {t} PROVE Apart(c, call[u])
        OBVIOUS
      <4>1. Apart(call[t], call[u])
        BY DEF SubInv, CallsKept, AllApart
      <4> QED  BY <2>1, <2>3, <2>9, <4>1 DEF Apart
    <3>5. CallHolds(c, handle', agent', catalog', registry')
      BY <2>3, <2>9 DEF CallHolds
    <3>6. CallerThere(c, handle', rel, registry)
      <4>1. CallerThere(call[t], handle, rel, registry)
        BY DEF SubInv, CallsKept, CallersThere
      <4> QED  BY <1>1, <2>3, <4>1 DEF CallerThere, s
    <3>7. \A j \in Kids \ {k} : handle'[j] = handle[j] /\ agent'[j] = agent[j] /\ (Named(j, catalog') => Named(j, catalog))
      BY <1>1, <2>7
    <3>8. CallsKept /\ rel' = rel /\ (Housed(handle[k]) => Housed(handle'[k]))
      BY <1>1 DEF SubInv
    <3>9. /\ CallShape(call'[t], res') /\ CallHolds(call'[t], handle', agent', catalog', registry') /\ CallerThere(call'[t], handle', rel, registry)
          /\ \A u \in Threads \ {t} : Apart(call'[t], call[u])
      BY <2>5, <3>3, <3>4, <3>5, <3>6
    <3> QED  BY <1>1, <2>2, <2>5, <2>8, <3>2, <3>7, <3>8, <3>9, CallsElsewhere
  <2>11. Tree'
    <3>1. \A j \in Kids : (ReopenedBy(j, call) => ReopenedBy(j, call')) /\ (HeldBy(j, call) => HeldBy(j, call'))
      BY <2>1, <2>5 DEF ReopenedBy, HeldBy
    <3>2. Placeholders' /\ Owned'
      BY <1>1, <3>1 DEF SubInv, Tree, Placeholders, Placeholder, Owned, OwnedBy
    <3>3. Numbered'
      BY <1>1, <2>2, <2>7 DEF SubInv, Tree, Numbered
    <3>4. Pooled' /\ Attended' /\ Parented' /\ Listed'
      BY <1>1 DEF SubInv, Tree, Pooled, Attended, Parented, Listed
    <3> QED  BY <3>2, <3>3, <3>4 DEF Tree
  <2>12. ReservedExact' /\ PoolBounded'
    <3>1. \A u \in Threads, p \in Pools : Reserves(call'[u], p) <=> Reserves(call[u], p)
      BY <1>1, <2>3, <2>5 DEF Reserves
    <3>2. \A j \in Kids, p \in Pools : handle'[j] # None /\ handle'[j].pool = p => handle[j] # None /\ handle[j].pool = p
      BY <1>1
    <3>3. /\ reserved \in [Pools -> Nat] /\ budget.active \in Nat /\ reserved' = reserved /\ budget'.active = budget.active
          /\ ReservedExact /\ PoolBounded
      BY <1>1, <1>3 DEF SubInv, TypedRest, Bounds
    <3> QED  BY <3>1, <3>2, <3>3, PoolsStay
  <2>13. Typed'
    BY <1>1, <1>3, <2>5, <2>6 DEF Typed, TypedChildren, TypedRest
  <2>14. Settling' /\ StopListed'
    BY <1>1 DEF SubInv, Settling, StopListed
  <2> QED  BY <2>10, <2>11, <2>12, <2>13, <2>14 DEF SubInv
<1> QED  BY <1>2, <1>3

LEMMA TeardownKept == ASSUME SubInv, NEW t \in Threads, Teardown(t) PROVE SubInv'
<1> USE DEF Teardown
<1> DEFINE k == call[t].obj[1]
           a == IF registry = "open" THEN Ended(agent[k]) ELSE agent[k]
<1>1. /\ TypedChildren /\ TypedRest /\ UNCHANGED <<svc, registry, handle, res, reserved, catalog, watcher, rel, stopTodo, budget>>
      /\ call[t].pc = "teardown" /\ agent' = [agent EXCEPT ![k] = a] /\ Return(t)
  BY DEF SubInv, Typed, TypedChildren
<1>2. Holds(call[t]) /\ ~Reopens(call[t])
  BY <1>1 DEF Holds, Reopens
<1>3. k \in Kids /\ ~Housed(handle[k])
  BY <1>2, HeldNumbered
<1>4. a \in Agents /\ ~a.busy /\ (registry = "open" => ~a.live) /\ (a.live => agent[k].live)
  <2>1. agent[k] \in Agents
    BY <1>1, <1>3 DEF TypedChildren
  <2>2. Fresh(agent[k], registry)
    BY <1>2 DEF SubInv, CallsKept, Holding, CallHolds
  <2> QED  BY <2>1, <2>2, EndedIs DEF Fresh
<1> HIDE DEF a, k
<1>5. /\ agent' \in [Kids -> Agents] /\ agent'[k] = a /\ \A j \in Kids \ {k} : agent'[j] = agent[j]
      /\ call' \in [Threads -> Calls \cup {Idle}] /\ call'[t] = Idle /\ \A u \in Threads \ {t} : call'[u] = call[u]
  BY <1>1, <1>3, <1>4, ReturnIs DEF TypedChildren
<1>6. \A j \in Kids : res[j] \in Nat /\ res'[j] \in Nat /\ res'[j] >= res[j]
  BY <1>1 DEF TypedChildren
<1>7. \A u \in Threads \ {t} : ~(Holds(call[u]) /\ call[u].obj[1] = k)
  BY <1>2, OnlyHolder, SMTT(30) DEF k
<1>8. CallsKept'
  <2>1. \A u \in Threads \ {t} :
          /\ Holds(call[u]) /\ call[u].obj[1] = k =>
               call[u].pc = "teardown" /\ agent'[k] = agent[k] /\ ~Housed(handle'[k])
          /\ Reopens(call[u]) /\ call[u].target = k => handle'[k] = handle[k]
    BY <1>1, <1>7
  <2>2. /\ CallShape(call'[t], res') /\ CallHolds(call'[t], handle', agent', catalog', registry') /\ CallerThere(call'[t], handle', rel, registry)
        /\ \A u \in Threads \ {t} : Apart(call'[t], call[u])
    BY <1>5, IdleIs
  <2>3. \A j \in Kids \ {k} : handle'[j] = handle[j] /\ agent'[j] = agent[j] /\ (Named(j, catalog') => Named(j, catalog))
    BY <1>1, <1>5
  <2>4. CallsKept /\ rel' = rel /\ (Housed(handle[k]) => Housed(handle'[k]))
    BY <1>1, SMTT(30) DEF SubInv
  <2> QED  BY <1>1, <1>3, <1>5, <1>6, <2>1, <2>2, <2>3, <2>4, CallsElsewhere
<1>9. Tree'
  <2>1. \A j \in Kids : ReopenedBy(j, call) => ReopenedBy(j, call')
    BY <1>2, <1>5 DEF ReopenedBy
  <2>2. Placeholder(k, handle[k], res[k], call) /\ (handle[k] # None => res[k] > 0) /\ HasPool(handle[k])
        /\ AttendedBy(handle[k], watcher[k], rel[k], agent[k], registry)
        /\ (registry = "open" /\ handle[k] # None /\ handle[k].parent \in Kids => Housed(handle[handle[k].parent]))
        /\ OwnedBy(k, handle[k], agent[k], call, registry)
        /\ \A j \in Kids : ListedIn(j, rel[j], k, handle[k], res[k], registry)
    BY <1>3 DEF SubInv, Tree, Placeholders, Numbered, Pooled, Attended, Parented, Listed, Owned
  <2>3. Placeholder(k, handle'[k], res'[k], call')
    BY <1>1, <1>3, <2>1, <2>2 DEF Placeholder
  <2>4. AttendedBy(handle'[k], watcher[k], rel[k], agent'[k], registry') /\ OwnedBy(k, handle'[k], agent'[k], call', registry')
    <3>1. registry \in {"open", "closing", "closed"}
      BY <1>1 DEF TypedRest
    <3> QED  BY <1>1, <1>4, <1>5, <2>2, <3>1 DEF AttendedBy, OwnedBy
  <2>5. /\ handle'[k] # None => res'[k] > 0
        /\ HasPool(handle'[k])
        /\ registry = "open" /\ handle'[k] # None /\ handle'[k].parent \in Kids => Housed(handle'[handle'[k].parent])
        /\ \A j \in Kids : ListedIn(j, rel[j], k, handle'[k], res'[k], registry')
        /\ Housed(handle[k]) => Housed(handle'[k])
    BY <1>1, <2>2
  <2>6. \A j \in Kids \ {k} : handle'[j] = handle[j] /\ agent'[j] = agent[j] /\ res'[j] = res[j]
    BY <1>1, <1>5
  <2>7. /\ \A j \in Kids : Named(j, catalog') => Named(j, catalog) \/ res'[j] > 0
        /\ Tree /\ rel' = rel /\ watcher' = watcher
        /\ (Holds(call[t]) => call[t].obj[1] = k) /\ (Reopens(call[t]) => call[t].target = k)
    BY <1>1, <1>2 DEF SubInv, k
  <2> QED  BY <1>3, <1>5, <1>6, <2>3, <2>4, <2>5, <2>6, <2>7, TreeElsewhere
<1>10. ReservedExact' /\ PoolBounded'
  <2>1. \A u \in Threads, p \in Pools : Reserves(call'[u], p) <=> Reserves(call[u], p)
    BY <1>1, <1>5, IdleIs DEF Reserves
  <2>2. \A j \in Kids, p \in Pools : handle'[j] # None /\ handle'[j].pool = p => handle[j] # None /\ handle[j].pool = p
    BY <1>1
  <2>3. /\ reserved \in [Pools -> Nat] /\ budget.active \in Nat /\ reserved' = reserved /\ budget'.active = budget.active
        /\ ReservedExact /\ PoolBounded
    BY <1>1 DEF SubInv, TypedRest, Bounds
  <2> QED  BY <2>1, <2>2, <2>3, PoolsStay
<1>11. Settling'
  <2> SUFFICES ASSUME NEW j \in Kids PROVE Settled(svc, registry, handle[j], agent'[j], watcher[j])
    BY <1>1 DEF Settling
  <2>1. CASE j = k
    <3>1. Placeholder(k, handle[k], res[k], call)
      BY <1>3 DEF SubInv, Tree, Placeholders
    <3> QED  BY <1>3, <2>1, <3>1 DEF Settled, Placeholder, Vacant, Housed
  <2>2. CASE j # k
    BY <1>5, <2>2 DEF SubInv, Settling
  <2> QED  BY <2>1, <2>2
<1>12. Typed'
  BY <1>1, <1>5 DEF Typed, TypedChildren, TypedRest
<1>13. StopListed'
  BY <1>1 DEF SubInv, StopListed
<1> QED  BY <1>8, <1>9, <1>10, <1>11, <1>12, <1>13 DEF SubInv
\* A pool with a free slot takes one more child.
LEMMA PoolTakes ==
  ASSUME SubInv, budget' = budget, reserved' = reserved, NEW k \in Kids, NEW q \in Pools, Used(q) < budget.active,
         \A j \in Kids, p \in Pools : handle'[j] # None /\ handle'[j].pool = p =>
            (handle[j] # None /\ handle[j].pool = p) \/ (j = k /\ p = q),
         \A u \in Threads, p \in Pools : Reserves(call'[u], p) <=> Reserves(call[u], p)
  PROVE  ReservedExact' /\ PoolBounded'
<1>1. ReservedExact'
  <2> SUFFICES ASSUME NEW p \in Pools PROVE reserved[p] = Cardinality({u \in Threads : Reserves(call'[u], p)})
    BY DEF ReservedExact
  <2>1. {u \in Threads : Reserves(call'[u], p)} = {u \in Threads : Reserves(call[u], p)}
    OBVIOUS
  <2> QED  BY <2>1 DEF SubInv, ReservedExact
<1>2. PoolBounded'
  <2> SUFFICES ASSUME NEW p \in Pools
               PROVE  reserved[p] + Cardinality({j \in Kids : handle'[j] # None /\ handle'[j].pool = p}) <= budget.active
    BY DEF PoolBounded, Used, Resident, Pools
  <2> DEFINE A == {j \in Kids : handle[j] # None /\ handle[j].pool = p}
             B == {j \in Kids : handle'[j] # None /\ handle'[j].pool = p}
  <2>1. /\ IsFiniteSet(A) /\ Cardinality(A) \in Nat /\ reserved[p] \in Nat /\ budget.active \in Nat
        /\ Used(p) = reserved[p] + Cardinality(A) /\ Used(p) <= budget.active
    BY PoolFacts
  <2>2. B \subseteq A \cup {k} /\ (p # q => B \subseteq A)
    OBVIOUS
  <2> HIDE DEF A, B
  <2>3. IsFiniteSet(A \cup {k}) /\ Cardinality(A \cup {k}) \in Nat /\ Cardinality(A \cup {k}) <= Cardinality(A) + 1
    BY <2>1, OneMore
  <2>4. Cardinality(B) \in Nat /\ Cardinality(B) <= Cardinality(A \cup {k})
    BY <2>2, <2>3, FS_Subset, FS_CardinalityType
  <2>5. p # q => Cardinality(B) <= Cardinality(A)
    BY <2>1, <2>2, FS_Subset
  <2>6. reserved[p] + Cardinality(B) <= budget.active
    BY <2>1, <2>3, <2>4, <2>5
  <2> QED  BY <2>6 DEF B
<1> QED  BY <1>1, <1>2

LEMMA ResumeKept == ASSUME SubInv, NEW t \in Threads, Resume(t) PROVE SubInv'
<1> USE DEF Resume
<1> DEFINE k == call[t].target
           s == call[t].caller
           P == PoolOf(s)
           c == [call[t] EXCEPT !.pc = "reopen", !.pool = P, !.obj = <<k, res[k] + 1>>]
           g == NewChild(s, "continuable", P, 0, TRUE)
<1>1. /\ TypedChildren /\ TypedRest /\ UNCHANGED <<svc, registry, reserved, agent, catalog, watcher, rel, stopTodo, budget>>
      /\ call[t].pc = "resume" /\ call[t] \in Calls
  BY CallIs DEF SubInv, Typed, TypedChildren
<1>2. CASE Return(t) /\ UNCHANGED <<handle, res>>
  <2>1. call' \in [Threads -> Calls \cup {Idle}] /\ CallsQuiet
    BY <1>1, <1>2, ReturnQuiet DEF Pinned
  <2>2. Typed'
    BY <1>1, <1>2, <2>1 DEF Typed, TypedChildren, TypedRest
  <2> QED  BY <1>1, <1>2, <2>1, <2>2, CallsOnly
<1>3. CASE Go(t, "deliver") /\ UNCHANGED <<handle, res>>
  <2>1. call' \in [Threads -> Calls \cup {Idle}] /\ CallsQuiet
    <3>1. /\ call' = [call EXCEPT ![t].pc = "deliver"] /\ "deliver" \in {"create", "teardown"} \cup Creating \cup Writing
          /\ {call[t].pc, "deliver"} \subseteq Delivering
      BY <1>1, <1>3 DEF Go, Writing, Delivering
    <3> QED  BY <1>1, <3>1, GoQuiet
  <2>2. Typed'
    BY <1>1, <1>3, <2>1 DEF Typed, TypedChildren, TypedRest
  <2> QED  BY <1>1, <1>3, <2>1, <2>2, CallsOnly
<1>4. ASSUME InCatalog(s, k), svc = "active", ~Resident(k), Admitted(s), handle' = [handle EXCEPT ![k] = g],
             res' = [res EXCEPT ![k] = @ + 1], call' = [call EXCEPT ![t].pc = "reopen", ![t].pool = P, ![t].obj = <<k, res[k] + 1>>]
      PROVE  SubInv'
  <2>1. s \in Pools /\ P \in Pools /\ P # None
    <3>1. s \in Pools
      BY <1>1 DEF Calls
    <3> QED  BY <3>1, PoolOfIs, Ground
  <2>2. k \in Kids /\ handle[k] = None /\ Named(k, catalog)
    <3>1. <<k, "continuable">> \in catalog[s] /\ catalog[s] \subseteq Kids \X Modes
      BY <1>1, <1>4, <2>1 DEF InCatalog, TypedChildren
    <3> QED  BY <1>4, <2>1, <3>1 DEF Named, Resident, Modes
  <2>3. res[k] \in Nat /\ res[k] > 0
    BY <1>1, <2>2 DEF SubInv, Tree, Numbered, TypedChildren
  <2>4. Used(P) < budget.active
    BY <1>4 DEF Admitted
  <2>5. /\ g \in Child /\ g # None /\ g.ph /\ g.closing /\ g.parent = s /\ g.pool = P
    BY <2>1, PlaceholderIs
  <2>6. /\ c \in Calls /\ c.pc = "reopen" /\ c.pool = P /\ c.obj = <<k, res[k] + 1>> /\ c.caller = s /\ c.target = k
        /\ c.mode = call[t].mode /\ c.bg = call[t].bg
    <3>1. <<k, res[k] + 1>> \in Objects
      BY <2>2, <2>3 DEF Objects
    <3> QED  BY <1>1, <2>1, <3>1 DEF Calls, Writing
  <2>7. call' = [call EXCEPT ![t] = c]
    BY <1>1, <1>4 DEF TypedChildren
  <2>8. c.obj \in Objects /\ c.obj[1] = k
    BY <2>2, <2>3, <2>6 DEF Objects
  <2>9. CallShape(call[t], res) /\ CallerThere(call[t], handle, rel, registry) /\ Writes(call[t]) /\ ~Holds(call[t]) /\ ~Reopens(call[t])
    BY <1>1 DEF SubInv, CallsKept, Shaped, CallersThere, Writes, Holds, Reopens, Writing, Delivering
  <2>10. k # None /\ call[t].mode = None
    BY <1>1, <2>9 DEF CallShape, Writing, Delivering
  <2>11. registry = "open" /\ s \in Kids => s # k /\ Housed(handle[s]) /\ (rel[s].pc = "jobs" => call[t].bg)
    BY <1>1, <2>2, <2>9 DEF CallerThere, Housed
  <2>12. \A u \in Threads : /\ ~(Reopens(call[u]) /\ call[u].target = k)
                            /\ u # t => ~(Creates(call[u]) /\ call[u].obj[1] = k)
                            /\ u # t /\ Holds(call[u]) /\ call[u].obj[1] = k => call[u].pc = "teardown"
    <3> SUFFICES ASSUME NEW u \in Threads
                 PROVE  /\ ~(Reopens(call[u]) /\ call[u].target = k)
                        /\ u # t => ~(Creates(call[u]) /\ call[u].obj[1] = k)
                        /\ u # t /\ Holds(call[u]) /\ call[u].obj[1] = k => call[u].pc = "teardown"
      OBVIOUS
    <3>1. CallHolds(call[u], handle, agent, catalog, registry)
      BY DEF SubInv, CallsKept, Holding
    <3>2. ~(Reopens(call[u]) /\ call[u].target = k)
      BY <2>2, <3>1 DEF CallHolds
    <3>3. u # t => Apart(call[t], call[u])
      BY DEF SubInv, CallsKept, AllApart
    <3>4. u # t => ~(Creates(call[u]) /\ call[u].obj[1] = k)
      BY <2>9, <3>3 DEF Apart
    <3>5. call[u].pc = "publish" => Creates(call[u])
      BY DEF Creates, Creating
    <3>6. call[u].pc = "replace" => Reopens(call[u]) /\ call[u].target = call[u].obj[1]
      BY HeldNumbered DEF Reopens
    <3> QED  BY <3>2, <3>4, <3>5, <3>6 DEF Holds
  <2>13. watcher[k].pc = "idle" /\ rel[k].pc = "idle"
    BY <2>2 DEF SubInv, Tree, Attended, AttendedBy, Housed
  <2> HIDE DEF c, g, P, k, s
  <2>15. /\ handle' \in [Kids -> Child \cup {None}] /\ handle'[k] = g /\ \A j \in Kids \ {k} : handle'[j] = handle[j]
         /\ res' \in [Kids -> Nat] /\ res'[k] = res[k] + 1 /\ \A j \in Kids \ {k} : res'[j] = res[j]
         /\ call' \in [Threads -> Calls \cup {Idle}] /\ call'[t] = c /\ \A u \in Threads \ {t} : call'[u] = call[u]
    BY <1>1, <1>4, <2>2, <2>5, <2>6, <2>7 DEF TypedChildren
  <2>16. \A j \in Kids : res[j] \in Nat /\ res'[j] \in Nat /\ res'[j] >= res[j]
    BY <1>1, <2>3, <2>15 DEF TypedChildren
  <2>17. Writes(c) /\ Reopens(c) /\ ~Holds(c) /\ ~Creates(c) /\ c.pc \notin Creating /\ c.pc # "create" /\ c.pc # "publish" /\ c.pc # "teardown"
    BY <2>6 DEF Writes, Reopens, Holds, Creates, Writing, Creating
  <2>18. ~Housed(handle'[k]) /\ ~Housed(handle[k])
    BY <2>2, <2>5, <2>15 DEF Housed
  <2>19. CallsKept'
    <3>1. CallShape(c, res')
      BY <2>1, <2>3, <2>6, <2>8, <2>10, <2>15, <2>17 DEF CallShape
    <3>2. \A u \in Threads \ {t} : Apart(c, call[u])
      BY <2>6, <2>12, <2>17 DEF Apart
    <3>3. CallHolds(c, handle', agent', catalog', registry')
      BY <2>5, <2>6, <2>15, <2>17 DEF CallHolds
    <3>4. CallerThere(c, handle', rel, registry)
      BY <2>6, <2>11, <2>15 DEF CallerThere, Housed
    <3>5. \A j \in Kids \ {k} : handle'[j] = handle[j] /\ agent'[j] = agent[j] /\ (Named(j, catalog') => Named(j, catalog))
      BY <1>1, <2>15
    <3>6. \A u \in Threads \ {t} :
            /\ Holds(call[u]) /\ call[u].obj[1] = k =>
                 call[u].pc = "teardown" /\ agent'[k] = agent[k] /\ ~Housed(handle'[k])
            /\ Reopens(call[u]) /\ call[u].target = k => handle'[k] = handle[k]
      BY <1>1, <2>12, <2>18
    <3>7. /\ CallShape(call'[t], res') /\ CallHolds(call'[t], handle', agent', catalog', registry') /\ CallerThere(call'[t], handle', rel, registry)
          /\ \A u \in Threads \ {t} : Apart(call'[t], call[u])
      BY <2>15, <3>1, <3>2, <3>3, <3>4
    <3>8. CallsKept /\ rel' = rel /\ (Housed(handle[k]) => Housed(handle'[k]))
      BY <1>1, <2>18 DEF SubInv
    <3> QED  BY <1>1, <2>2, <2>15, <2>16, <3>5, <3>6, <3>7, <3>8, CallsElsewhere
  <2>20. Tree'
    <3>1. ReopenedBy(k, call')
      BY <2>6, <2>15, <2>17 DEF ReopenedBy
    <3>2. Placeholder(k, handle'[k], res'[k], call') /\ HasPool(handle'[k])
      BY <2>1, <2>3, <2>5, <2>15, <3>1 DEF Placeholder, HasPool
    <3>3. AttendedBy(handle'[k], watcher[k], rel[k], agent'[k], registry')
      BY <2>13 DEF AttendedBy
    <3>4. HeldBy(k, call) => HeldBy(k, call')
      BY <2>9, <2>15 DEF HeldBy
    <3>5. OwnedBy(k, handle'[k], agent'[k], call', registry')
      BY <1>1, <2>2, <2>18, <3>4 DEF SubInv, Tree, Owned, OwnedBy
    <3>6. registry = "open" /\ handle'[k] # None /\ handle'[k].parent \in Kids => Housed(handle'[handle'[k].parent])
      BY <2>5, <2>11, <2>15
    <3>7. \A j \in Kids : ListedIn(j, rel[j], k, handle'[k], res'[k], registry')
      BY <2>18 DEF ListedIn
    <3>8. \A j \in Kids \ {k} : handle'[j] = handle[j] /\ agent'[j] = agent[j] /\ res'[j] = res[j]
      BY <1>1, <2>15
    <3>9. /\ \A j \in Kids : Named(j, catalog') => Named(j, catalog) \/ res'[j] > 0
          /\ Tree /\ registry' = registry /\ rel' = rel /\ watcher' = watcher /\ res'[k] > 0
          /\ (Holds(call[t]) => call[t].obj[1] = k) /\ (Reopens(call[t]) => call[t].target = k)
      BY <1>1, <2>3, <2>9, <2>15 DEF SubInv
    <3> QED  BY <2>2, <2>15, <2>16, <2>18, <3>2, <3>3, <3>5, <3>6, <3>7, <3>8, <3>9, TreeElsewhere
  <2>21. ReservedExact' /\ PoolBounded'
    <3>1. \A u \in Threads, p \in Pools : Reserves(call'[u], p) <=> Reserves(call[u], p)
      BY <1>1, <2>15, <2>17 DEF Reserves
    <3>2. \A j \in Kids, p \in Pools : handle'[j] # None /\ handle'[j].pool = p =>
             (handle[j] # None /\ handle[j].pool = p) \/ (j = k /\ p = P)
      BY <2>5, <2>15
    <3>3. budget' = budget /\ reserved' = reserved
      BY <1>1
    <3> QED  BY <2>1, <2>2, <2>4, <3>1, <3>2, <3>3, PoolTakes
  <2>22. Settling'
    <3>1. \A j \in Kids \ {k} : SettledSame(j)
      BY <1>1, <2>15 DEF SettledSame
    <3>2. \A j \in {k} : Settled(svc', registry', handle'[j], agent'[j], watcher'[j])
      BY <2>5, <2>15 DEF Settled
    <3>3. Settling /\ {k} \in SUBSET Kids /\ svc' = svc /\ registry' = registry
      BY <1>1, <2>2 DEF SubInv
    <3> QED  BY <3>1, <3>2, <3>3, SettlingStays
  <2>23. StopListed'
    <3> SUFFICES ASSUME NEW j \in Kids PROVE StopKnows(svc, stopTodo.todo, j, handle'[j], res'[j])
      BY <1>1 DEF StopListed
    <3>1. StopKnows(svc, stopTodo.todo, j, handle[j], res[j])
      BY DEF SubInv, StopListed
    <3> QED  BY <2>15, <2>18, <3>1 DEF StopKnows
  <2>24. Typed'
    BY <1>1, <2>15 DEF Typed, TypedChildren, TypedRest
  <2> QED  BY <2>19, <2>20, <2>21, <2>22, <2>23, <2>24 DEF SubInv
<1> QED  BY <1>2, <1>3, <1>4
\* The placeholder of a resumption, and the call that holds it.
LEMMA ReopenIs ==
  ASSUME SubInv, NEW t \in Threads, Reopens(call[t])
  PROVE  /\ call[t] \in Calls /\ CallShape(call[t], res) /\ CallHolds(call[t], handle, agent, catalog, registry) /\ Writes(call[t])
         /\ call[t].target \in Kids /\ call[t].target # None /\ call[t].obj \in Objects /\ call[t].obj[1] = call[t].target
         /\ call[t].mode = None /\ call[t].pool \in Pools /\ call[t].caller \in Pools
         /\ res[call[t].target] \in Nat /\ res[call[t].target] > 0
         /\ handle[call[t].target] # None /\ handle[call[t].target].ph /\ handle[call[t].target].closing
         /\ handle[call[t].target].pool = call[t].pool /\ handle[call[t].target].parent = call[t].caller
         /\ ~Housed(handle[call[t].target])
         /\ watcher[call[t].target].pc = "idle" /\ rel[call[t].target].pc = "idle"
         /\ registry = "open" /\ call[t].caller \in Kids =>
                                       /\ call[t].caller # call[t].target /\ Housed(handle[call[t].caller])
                                       /\ rel[call[t].caller].pc = "jobs" => call[t].bg
         /\ \A u \in Threads \ {t} : /\ Apart(call[t], call[u])
                                     /\ ~(Reopens(call[u]) /\ call[u].target = call[t].target)
                                     /\ ~(Creates(call[u]) /\ call[u].obj[1] = call[t].target)
                                     /\ Holds(call[u]) /\ call[u].obj[1] = call[t].target =>
                                          call[u].pc = "teardown" /\ (registry = "open" => agent[call[t].target].live)
<1> DEFINE k == call[t].target
           s == call[t].caller
<1>1. call[t] \in Calls /\ CallShape(call[t], res) /\ CallHolds(call[t], handle, agent, catalog, registry) /\ CallerThere(call[t], handle, rel, registry)
  BY CallIs DEF SubInv, CallsKept, Shaped, Holding, CallersThere, Typed, TypedChildren, Reopens
<1>2. Writes(call[t]) /\ call[t].pc \in Writing
  BY DEF Reopens, Writes, Writing
<1>3. k \in Kids /\ k # None /\ call[t].obj \in Objects /\ call[t].obj[1] = k /\ call[t].mode = None
  BY <1>1, <1>2 DEF CallShape, Objects
<1>4. call[t].pool \in Pools /\ s \in Pools
  BY <1>1 DEF CallShape, Calls
<1>5. res[k] \in Nat /\ res[k] > 0
  BY <1>1, <1>2, <1>3 DEF CallShape, SubInv, Typed, TypedChildren
<1>6. handle[k] # None /\ handle[k].ph /\ handle[k].pool = call[t].pool /\ handle[k].parent = s
  BY <1>1 DEF CallHolds
<1>7. handle[k].closing /\ ~Housed(handle[k])
  BY <1>3, <1>6 DEF SubInv, Tree, Placeholders, Placeholder, Vacant, Housed
<1>8. watcher[k].pc = "idle" /\ rel[k].pc = "idle"
  BY <1>3, <1>7 DEF SubInv, Tree, Attended, AttendedBy
<1>9. registry = "open" /\ s \in Kids => s # k /\ Housed(handle[s]) /\ (rel[s].pc = "jobs" => call[t].bg)
  BY <1>1, <1>6 DEF CallerThere, Housed, Reopens
<1> HIDE DEF k
<1>10. ASSUME NEW u \in Threads \ {t}
       PROVE  /\ Apart(call[t], call[u]) /\ ~(Reopens(call[u]) /\ call[u].target = k) /\ ~(Creates(call[u]) /\ call[u].obj[1] = k)
              /\ Holds(call[u]) /\ call[u].obj[1] = k => call[u].pc = "teardown" /\ (registry = "open" => agent[k].live)
  <2>1. Apart(call[t], call[u]) /\ CallHolds(call[u], handle, agent, catalog, registry)
    BY DEF SubInv, CallsKept, AllApart, Holding
  <2>2. ~(Reopens(call[u]) /\ call[u].target = k) /\ ~(Creates(call[u]) /\ call[u].obj[1] = k)
    BY <1>2, <2>1 DEF Apart, k
  <2>3. call[u].pc = "publish" => Creates(call[u])
    BY DEF Creates, Creating
  <2>4. call[u].pc = "replace" => Reopens(call[u]) /\ call[u].target = call[u].obj[1]
    BY HeldNumbered DEF Reopens
  <2>5. Holds(call[u]) /\ call[u].obj[1] = k /\ registry = "open" => agent[k].live
    BY <2>1 DEF CallHolds, Fresh
  <2> QED  BY <2>1, <2>2, <2>3, <2>4, <2>5 DEF Holds
<1> QED  BY <1>1, <1>2, <1>3, <1>4, <1>5, <1>6, <1>7, <1>8, <1>9, <1>10 DEF k

LEMMA ReopenKept == ASSUME SubInv, NEW t \in Threads, Reopen(t) PROVE SubInv'
<1> USE DEF Reopen
<1> DEFINE k == call[t].target
           s == call[t].caller
           m == IF agent[k].job = "none" THEN "none" ELSE "queued"
           a == [Gone EXCEPT !.live = TRUE, !.mode = "continuable", !.job = m,
                             !.parent = s, !.depth = Depth(s) + 1]
<1>1. /\ TypedChildren /\ TypedRest /\ UNCHANGED <<svc, registry, res, reserved, catalog, watcher, rel, stopTodo>>
      /\ call[t].pc = "reopen"
  BY DEF SubInv, Typed
<1>2. Reopens(call[t]) /\ ~Holds(call[t])
  BY <1>1, SMTT(30) DEF Reopens, Holds
<1>3. /\ call[t] \in Calls /\ CallShape(call[t], res) /\ CallHolds(call[t], handle, agent, catalog, registry) /\ Writes(call[t])
      /\ k \in Kids /\ k # None /\ call[t].obj \in Objects /\ call[t].obj[1] = k
      /\ call[t].mode = None /\ call[t].pool \in Pools /\ s \in Pools
      /\ res[k] \in Nat /\ res[k] > 0
      /\ handle[k] # None /\ handle[k].ph /\ handle[k].closing
      /\ handle[k].pool = call[t].pool /\ handle[k].parent = s
      /\ ~Housed(handle[k])
      /\ watcher[k].pc = "idle" /\ rel[k].pc = "idle"
      /\ registry = "open" /\ s \in Kids => s # k /\ Housed(handle[s]) /\ (rel[s].pc = "jobs" => call[t].bg)
      /\ \A u \in Threads \ {t} : /\ Apart(call[t], call[u])
                                  /\ ~(Reopens(call[u]) /\ call[u].target = k)
                                  /\ ~(Creates(call[u]) /\ call[u].obj[1] = k)
                                  /\ Holds(call[u]) /\ call[u].obj[1] = k => call[u].pc = "teardown" /\ (registry = "open" => agent[k].live)
  BY <1>2, ReopenIs
<1>4. \A j \in Kids : res[j] \in Nat /\ res'[j] \in Nat /\ res'[j] >= res[j]
  BY <1>1 DEF TypedChildren
<1>5. /\ CallsKept /\ Tree /\ Settling /\ StopListed /\ ReservedExact /\ PoolBounded /\ {k} \in SUBSET Kids
      /\ reserved \in [Pools -> Nat] /\ budget.active \in Nat /\ budget \in Bounds
  BY <1>1, <1>3 DEF SubInv, TypedRest, Bounds
<1>6. CASE /\ IF agent[k].live THEN UNCHANGED budget ELSE CreateFails(t)
           /\ handle' = [handle EXCEPT ![k] = None]
           /\ Return(t) /\ UNCHANGED agent
  <2>1. budget' \in Bounds /\ budget'.active = budget.active
    BY <1>5, <1>6, FailsIs DEF CreateFails
  <2>2. call' \in [Threads -> Calls \cup {Idle}] /\ call'[t] = Idle /\ \A u \in Threads \ {t} : call'[u] = call[u]
    BY <1>1, <1>6, ReturnIs
  <2> HIDE DEF k, s, Reopen
  <2>3. handle' \in [Kids -> Child \cup {None}] /\ handle'[k] = None /\ \A j \in Kids \ {k} : handle'[j] = handle[j]
    BY <1>1, <1>3, <1>6 DEF TypedChildren
  <2>4. CallsKept'
    <3>1. \A u \in Threads \ {t} :
            /\ Holds(call[u]) /\ call[u].obj[1] = k =>
                 call[u].pc = "teardown" /\ agent'[k] = agent[k] /\ ~Housed(handle'[k])
            /\ Reopens(call[u]) /\ call[u].target = k => handle'[k] = handle[k]
      BY <1>3, <1>6, <2>3 DEF Housed
    <3>2. /\ CallShape(call'[t], res') /\ CallHolds(call'[t], handle', agent', catalog', registry') /\ CallerThere(call'[t], handle', rel, registry)
          /\ \A u \in Threads \ {t} : Apart(call'[t], call[u])
      BY <2>2, IdleIs
    <3>3. \A j \in Kids \ {k} : handle'[j] = handle[j] /\ agent'[j] = agent[j] /\ (Named(j, catalog') => Named(j, catalog))
      BY <1>1, <1>6, <2>3
    <3>4. rel' = rel /\ (Housed(handle[k]) => Housed(handle'[k]))
      BY <1>1, <1>3
    <3> QED  BY <1>1, <1>3, <1>4, <1>5, <2>2, <3>1, <3>2, <3>3, <3>4, CallsElsewhere
  <2>5. Tree'
    <3>1. HeldBy(k, call) => HeldBy(k, call')
      BY <1>2, <2>2 DEF HeldBy
    <3>2. OwnedBy(k, handle'[k], agent'[k], call', registry')
      BY <1>1, <1>3, <1>5, <1>6, <3>1 DEF Tree, Owned, OwnedBy
    <3>3. Placeholder(k, handle'[k], res'[k], call') /\ HasPool(handle'[k])
      BY <2>3 DEF Placeholder, Vacant, HasPool
    <3>4. AttendedBy(handle'[k], watcher[k], rel[k], agent'[k], registry')
      BY <1>3 DEF AttendedBy
    <3>5. \A j \in Kids : ListedIn(j, rel[j], k, handle'[k], res'[k], registry')
      BY <2>3 DEF ListedIn, Housed
    <3>6. \A j \in Kids \ {k} : handle'[j] = handle[j] /\ agent'[j] = agent[j] /\ res'[j] = res[j]
      BY <1>1, <1>6, <2>3
    <3>7. /\ \A j \in Kids : Named(j, catalog') => Named(j, catalog) \/ res'[j] > 0
          /\ rel' = rel /\ watcher' = watcher /\ registry' = registry /\ (Housed(handle[k]) => Housed(handle'[k]))
          /\ (Holds(call[t]) => call[t].obj[1] = k) /\ (Reopens(call[t]) => call[t].target = k)
      BY <1>1, <1>2, <1>3 DEF k
    <3> QED  BY <1>3, <1>4, <1>5, <2>2, <2>3, <3>2, <3>3, <3>4, <3>5, <3>6, <3>7, TreeElsewhere
  <2>6. ReservedExact' /\ PoolBounded'
    <3>1. \A u \in Threads, p \in Pools : Reserves(call'[u], p) <=> Reserves(call[u], p)
      BY <1>1, <2>2, IdleIs DEF Reserves
    <3>2. \A j \in Kids, p \in Pools : handle'[j] # None /\ handle'[j].pool = p => handle[j] # None /\ handle[j].pool = p
      BY <2>3
    <3> QED  BY <1>1, <1>5, <2>1, <3>1, <3>2, PoolsStay
  <2>7. Settling'
    <3>1. \A j \in Kids \ {k} : SettledSame(j)
      BY <1>1, <1>6, <2>3 DEF SettledSame
    <3>2. \A j \in {k} : Settled(svc', registry', handle'[j], agent'[j], watcher'[j])
      BY <2>3 DEF Settled
    <3>3. svc' = svc /\ registry' = registry
      BY <1>1
    <3> QED  BY <1>5, <3>1, <3>2, <3>3, SettlingStays
  <2>8. StopListed'
    <3> SUFFICES ASSUME NEW j \in Kids PROVE StopKnows(svc, stopTodo.todo, j, handle'[j], res[j])
      BY <1>1 DEF StopListed
    <3>1. StopKnows(svc, stopTodo.todo, j, handle[j], res[j])
      BY <1>5 DEF StopListed
    <3> QED  BY <2>3, <3>1 DEF StopKnows, Housed
  <2>9. Typed'
    BY <1>1, <1>6, <2>1, <2>2, <2>3 DEF Typed, TypedChildren, TypedRest
  <2> QED  BY <2>4, <2>5, <2>6, <2>7, <2>8, <2>9 DEF SubInv
<1>7. CASE /\ registry = "open" /\ ~agent[k].live /\ agent' = [agent EXCEPT ![k] = a]
           /\ Go(t, "replace") /\ UNCHANGED <<handle, budget>>
  <2>1. /\ call' \in [Threads -> Calls \cup {Idle}] /\ \A u \in Threads \ {t} : call'[u] = call[u]
        /\ call'[t] \in Calls /\ call'[t].pc = "replace" /\ call'[t].caller = s /\ call'[t].mode = call[t].mode
        /\ call'[t].target = k /\ call'[t].bg = call[t].bg /\ call'[t].pool = call[t].pool /\ call'[t].obj = call[t].obj
    <3>1. /\ call' = [call EXCEPT ![t].pc = "replace"] /\ "replace" \in {"create", "teardown"} \cup Creating \cup Writing
          /\ call[t].pc # "idle"
      BY <1>1, <1>7 DEF Go, Writing
    <3> QED  BY <1>1, <3>1, GoIs
  <2>2. a \in Agents /\ Fresh(a, registry) /\ a.live
    <3>1. Depth(s) \in Nat /\ m \in {"none", "queued"}
      <4>1. \A j \in Kids : agent[j].depth \in Nat
        BY <1>1 DEF TypedChildren, Agents
      <4> QED  BY <1>3, <4>1 DEF Depth, Pools
    <3>2. "continuable" \in Modes \cup {None} /\ s \in Pools \cup {None} /\ Depth(s) + 1 \in Nat
      BY <1>3, <3>1 DEF Modes
    <3> HIDE DEF m
    <3> QED  BY <3>1, <3>2 DEF Gone, Agents, Fresh
  <2> HIDE DEF a, k, s, Reopen
  <2>3. agent' \in [Kids -> Agents] /\ agent'[k] = a /\ \A j \in Kids \ {k} : agent'[j] = agent[j]
    BY <1>1, <1>3, <1>7, <2>2 DEF TypedChildren
  <2>4. Writes(call'[t]) /\ Reopens(call'[t]) /\ Holds(call'[t]) /\ ~Creates(call'[t])
        /\ call'[t].pc \notin Creating /\ call'[t].pc # "create" /\ call'[t].pc # "publish" /\ call'[t].pc # "teardown"
    BY <2>1 DEF Writes, Reopens, Holds, Creates, Writing, Creating
  <2>5. CallsKept'
    <3>1. CallShape(call'[t], res')
      BY <1>1, <1>2, <1>3, <2>1, <2>4, SMTT(30) DEF CallShape
    <3>2. \A u \in Threads \ {t} : Apart(call'[t], call[u])
      BY <1>3, <1>7, <2>1, <2>4 DEF Apart, k
    <3>3. CallHolds(call'[t], handle', agent', catalog', registry')
      BY <1>1, <1>3, <1>7, <2>1, <2>2, <2>3, <2>4 DEF CallHolds
    <3>4. CallerThere(call'[t], handle', rel, registry)
      BY <1>3, <1>7, <2>1 DEF CallerThere, Housed
    <3>5. \A j \in Kids \ {k} : handle'[j] = handle[j] /\ agent'[j] = agent[j] /\ (Named(j, catalog') => Named(j, catalog))
      BY <1>1, <1>7, <2>3
    <3>6. \A u \in Threads \ {t} :
            /\ Holds(call[u]) /\ call[u].obj[1] = k =>
                 call[u].pc = "teardown" /\ agent'[k] = agent[k] /\ ~Housed(handle'[k])
            /\ Reopens(call[u]) /\ call[u].target = k => handle'[k] = handle[k]
      BY <1>3, <1>7
    <3>7. rel' = rel /\ (Housed(handle[k]) => Housed(handle'[k]))
      BY <1>1, <1>3
    <3> QED  BY <1>1, <1>3, <1>4, <1>5, <2>1, <3>1, <3>2, <3>3, <3>4, <3>5, <3>6, <3>7, CallsElsewhere
  <2>6. Tree'
    <3>1. HeldBy(k, call') /\ ReopenedBy(k, call')
      BY <1>3, <2>1, <2>4 DEF HeldBy, ReopenedBy
    <3>2. /\ Placeholder(k, handle[k], res[k], call) /\ HasPool(handle[k])
          /\ (registry = "open" /\ handle[k] # None /\ handle[k].parent \in Kids => Housed(handle[handle[k].parent]))
      BY <1>3, <1>5 DEF Tree, Placeholders, Pooled, Parented
    <3>3. Placeholder(k, handle'[k], res'[k], call') /\ OwnedBy(k, handle'[k], agent'[k], call', registry')
      BY <1>1, <1>7, <3>1, <3>2 DEF Placeholder, OwnedBy
    <3>4. AttendedBy(handle'[k], watcher[k], rel[k], agent'[k], registry')
      BY <1>3 DEF AttendedBy
    <3>5. \A j \in Kids : ListedIn(j, rel[j], k, handle'[k], res'[k], registry')
      BY <1>3, <1>7 DEF ListedIn
    <3>6. \A j \in Kids \ {k} : handle'[j] = handle[j] /\ agent'[j] = agent[j] /\ res'[j] = res[j]
      BY <1>1, <1>7, <2>3
    <3>7. /\ \A j \in Kids : Named(j, catalog') => Named(j, catalog) \/ res'[j] > 0
          /\ rel' = rel /\ watcher' = watcher /\ registry' = registry /\ (Housed(handle[k]) => Housed(handle'[k]))
          /\ (Holds(call[t]) => call[t].obj[1] = k) /\ (Reopens(call[t]) => call[t].target = k)
          /\ res'[k] > 0
      BY <1>1, <1>2, <1>3 DEF k
    <3>8. HasPool(handle'[k]) /\ (registry = "open" /\ handle'[k] # None /\ handle'[k].parent \in Kids => Housed(handle'[handle'[k].parent]))
      BY <1>7, <3>2
    <3> QED  BY <1>3, <1>4, <1>5, <2>1, <3>3, <3>4, <3>5, <3>6, <3>7, <3>8, TreeElsewhere
  <2>7. ReservedExact' /\ PoolBounded'
    <3>1. \A u \in Threads, p \in Pools : Reserves(call'[u], p) <=> Reserves(call[u], p)
      BY <1>1, <2>1 DEF Reserves
    <3>2. \A j \in Kids, p \in Pools : handle'[j] # None /\ handle'[j].pool = p => handle[j] # None /\ handle[j].pool = p
      BY <1>7
    <3>3. budget'.active = budget.active
      BY <1>7
    <3> QED  BY <1>1, <1>5, <3>1, <3>2, <3>3, PoolsStay
  <2>8. Settling'
    <3>1. \A j \in Kids \ {k} : SettledSame(j)
      BY <1>1, <1>7, <2>3 DEF SettledSame
    <3>2. \A j \in {k} : Settled(svc', registry', handle'[j], agent'[j], watcher'[j])
      BY <1>3, <1>7 DEF Settled
    <3>3. svc' = svc /\ registry' = registry
      BY <1>1
    <3> QED  BY <1>5, <3>1, <3>2, <3>3, SettlingStays
  <2>9. Typed' /\ StopListed'
    BY <1>1, <1>5, <1>7, <2>1, <2>3 DEF Typed, TypedChildren, TypedRest, StopListed
  <2> QED  BY <2>5, <2>6, <2>7, <2>8, <2>9 DEF SubInv
<1> QED  BY <1>6, <1>7
LEMMA ReplaceKept == ASSUME SubInv, NEW t \in Threads, Replace(t) PROVE SubInv'
<1> USE DEF Replace
<1> DEFINE k == call[t].target
           s == call[t].caller
           n == Depth(s) + 1
           g == NewChild(s, "continuable", call[t].pool, n, FALSE)
           fits == agent[k].live /\ svc = "active" /\ ~IsClosing(s)
<1>1. /\ TypedChildren /\ TypedRest /\ UNCHANGED <<svc, registry, reserved, agent, catalog, watcher, rel, stopTodo>>
      /\ call[t].pc = "replace"
  BY DEF SubInv, Typed
<1>2. Reopens(call[t]) /\ Holds(call[t])
  BY <1>1 DEF Reopens, Holds
<1>3. /\ call[t] \in Calls /\ CallShape(call[t], res) /\ CallHolds(call[t], handle, agent, catalog, registry) /\ Writes(call[t])
      /\ k \in Kids /\ k # None /\ call[t].obj \in Objects /\ call[t].obj[1] = k
      /\ call[t].mode = None /\ call[t].pool \in Pools /\ s \in Pools
      /\ res[k] \in Nat /\ res[k] > 0
      /\ handle[k] # None /\ handle[k].ph /\ handle[k].closing
      /\ handle[k].pool = call[t].pool /\ handle[k].parent = s
      /\ ~Housed(handle[k])
      /\ watcher[k].pc = "idle" /\ rel[k].pc = "idle"
      /\ registry = "open" /\ s \in Kids => s # k /\ Housed(handle[s]) /\ (rel[s].pc = "jobs" => call[t].bg)
      /\ \A u \in Threads \ {t} : /\ Apart(call[t], call[u])
                                  /\ ~(Reopens(call[u]) /\ call[u].target = k)
                                  /\ ~(Creates(call[u]) /\ call[u].obj[1] = k)
  BY <1>2, ReopenIs
<1>4. Fresh(agent[k], registry) /\ \A u \in Threads \ {t} : ~(Holds(call[u]) /\ call[u].obj[1] = k)
  BY <1>2, <1>3 DEF CallHolds, Apart
<1>5. /\ CallsKept /\ Tree /\ Settling /\ StopListed /\ ReservedExact /\ PoolBounded /\ {k} \in SUBSET Kids
      /\ reserved \in [Pools -> Nat] /\ budget.active \in Nat /\ budget' \in Bounds /\ budget'.active = budget.active
  <2>1. budget \in Bounds
    BY <1>1 DEF TypedRest
  <2>2. budget' \in Bounds /\ budget'.active = budget.active
    BY <2>1, FailsIs
  <2> QED  BY <1>1, <1>3, <2>2 DEF SubInv, TypedRest, Bounds
<1>6. PICK pc \in {"deliver", "teardown"} : call' = [call EXCEPT ![t].pc = pc]
  <2>1. \E pc \in {"deliver", "teardown"} : call' = [call EXCEPT ![t].pc = pc]
    BY DEF Go
  <2> QED  BY <2>1
<1>7. /\ call' \in [Threads -> Calls \cup {Idle}] /\ \A u \in Threads \ {t} : call'[u] = call[u]
      /\ call'[t] \in Calls /\ call'[t].pc = pc /\ call'[t].caller = s /\ call'[t].mode = None
      /\ call'[t].target = k /\ call'[t].bg = call[t].bg /\ call'[t].pool = call[t].pool /\ call'[t].obj = call[t].obj
  <2>1. pc \in {"create", "teardown"} \cup Creating \cup Writing /\ call[t].pc # "idle"
    BY <1>1 DEF Writing, Delivering
  <2> QED  BY <1>1, <1>3, <1>6, <2>1, GoIs, ZenonT(60)
<1>8. /\ Writes(call'[t]) /\ ~Reopens(call'[t]) /\ ~Creates(call'[t]) /\ call'[t].pc \notin Creating /\ call'[t].pc # "create"
      /\ call'[t].pc # "publish" /\ (Holds(call'[t]) <=> pc = "teardown")
  BY <1>7 DEF Writes, Reopens, Creates, Holds, Writing, Delivering, Creating
<1>9. \A u \in Threads \ {t} : Apart(call'[t], call[u])
  BY <1>2, <1>3, <1>7, <1>8 DEF Apart
<1>10. \A u \in Threads, p \in Pools : Reserves(call'[u], p) <=> Reserves(call[u], p)
  BY <1>1, <1>7 DEF Reserves
<1>11. CASE fits /\ handle' = [handle EXCEPT ![k] = g] /\ res' = [res EXCEPT ![k] = @ + 1] /\ Go(t, "deliver")
  <2>1. handle' = [handle EXCEPT ![k] = g] /\ res' = [res EXCEPT ![k] = @ + 1] /\ call' = [call EXCEPT ![t].pc = "deliver"]
    BY <1>11 DEF Go
  <2>2. pc = "deliver"
    <3>1. call'[t].pc = "deliver"
      BY <1>1, <1>3, <2>1 DEF TypedChildren, Calls
    <3> QED  BY <1>7, <3>1
  <2>0. n \in Nat
    <3>1. s \in Kids => agent[s].depth \in Nat
      BY <1>1 DEF TypedChildren, Agents
    <3> QED  BY <1>3, <3>1 DEF Depth, Pools
  <2>3. /\ g \in Child /\ g # None /\ ~g.ph /\ ~g.closing /\ g.parent = s /\ g.pool = call[t].pool
        /\ g.mode = "continuable" /\ g.delivered = 0 /\ ~g.announced /\ ~g.watched
    <3>1. "continuable" \in Modes
      BY DEF Modes
    <3> DEFINE p == call[t].pool
    <3>2. g = NewChild(s, "continuable", p, n, FALSE) /\ s \in Pools /\ p \in Pools \cup {None} /\ n \in Nat
      BY <1>3, <2>0
    <3> HIDE DEF g, k, s, p, n
    <3>3. /\ g \in Child /\ g # None /\ ~g.ph /\ ~g.closing /\ g.parent = s /\ g.pool = p
          /\ g.mode = "continuable" /\ g.delivered = 0 /\ ~g.announced /\ ~g.watched
      <4>1. g \in Child
        BY <3>1, <3>2 DEF NewChild, Child, Pools
      <4> QED  BY <3>2, <4>1, Ground DEF NewChild
    <3> QED  BY <3>3 DEF p
  <2> HIDE DEF g, k, s, n, Replace
  <2>4. /\ handle' \in [Kids -> Child \cup {None}] /\ handle'[k] = g /\ \A j \in Kids \ {k} : handle'[j] = handle[j]
        /\ res' \in [Kids -> Nat] /\ res'[k] = res[k] + 1 /\ \A j \in Kids \ {k} : res'[j] = res[j]
    BY <1>1, <1>3, <2>1, <2>3 DEF TypedChildren
  <2>5. \A j \in Kids : res[j] \in Nat /\ res'[j] \in Nat /\ res'[j] >= res[j]
    BY <1>1, <2>4 DEF TypedChildren
  <2>6. Housed(handle'[k])
    BY <2>3, <2>4 DEF Housed
  <2>7. registry = "open" /\ s \in Kids => Housed(handle'[s]) /\ rel[s].pc = "idle"
    BY <1>3, <1>11, <2>4, NotClosingIs
  <2>8. CallsKept'
    <3>1. CallShape(call'[t], res')
      <4>1. call'[t].pc # "teardown"
        BY <1>7, <2>2
      <4> QED  BY <1>3, <1>7, <1>8, <2>4, <4>1 DEF CallShape
    <3>2. CallHolds(call'[t], handle', agent', catalog', registry')
      BY <1>7, <1>8, <2>2 DEF CallHolds
    <3>3. CallerThere(call'[t], handle', rel, registry)
      BY <1>3, <1>7, <2>7 DEF CallerThere, Housed
    <3>4. \A j \in Kids \ {k} : handle'[j] = handle[j] /\ agent'[j] = agent[j] /\ (Named(j, catalog') => Named(j, catalog))
      BY <1>1, <2>4
    <3>5. \A u \in Threads \ {t} :
            /\ Holds(call[u]) /\ call[u].obj[1] = k =>
                 call[u].pc = "teardown" /\ agent'[k] = agent[k] /\ ~Housed(handle'[k])
            /\ Reopens(call[u]) /\ call[u].target = k => handle'[k] = handle[k]
      BY <1>3, <1>4
    <3>6. rel' = rel /\ (Housed(handle[k]) => Housed(handle'[k]))
      BY <1>1, <2>6
    <3> QED  BY <1>1, <1>3, <1>5, <1>7, <1>9, <2>5, <3>1, <3>2, <3>3, <3>4, <3>5, <3>6, CallsElsewhere
  <2>9. Tree'
    <3>0. OwnedBy(k, handle[k], agent[k], call, registry)
      BY <1>3, <1>5 DEF Tree, Owned
    <3>1. Placeholder(k, handle'[k], res'[k], call') /\ OwnedBy(k, handle'[k], agent'[k], call', registry')
      BY <1>1, <2>6, <3>0 DEF Placeholder, Vacant, Housed, OwnedBy
    <3>2. HasPool(handle'[k])
      BY <1>3, <2>3, <2>4, Ground DEF HasPool
    <3>3. AttendedBy(handle'[k], watcher[k], rel[k], agent'[k], registry')
      BY <1>3 DEF AttendedBy
    <3>4. registry = "open" /\ handle'[k] # None /\ handle'[k].parent \in Kids => Housed(handle'[handle'[k].parent])
      BY <2>3, <2>4, <2>7
    <3>5. \A j \in Kids : ListedIn(j, rel[j], k, handle'[k], res'[k], registry')
      BY <1>1, <2>3, <2>4, <2>7 DEF ListedIn
    <3>6. \A j \in Kids \ {k} : handle'[j] = handle[j] /\ agent'[j] = agent[j] /\ res'[j] = res[j]
      BY <1>1, <2>4
    <3>7. /\ \A j \in Kids : Named(j, catalog') => Named(j, catalog) \/ res'[j] > 0
          /\ rel' = rel /\ watcher' = watcher /\ registry' = registry /\ res'[k] > 0 /\ (Housed(handle[k]) => Housed(handle'[k]))
          /\ (Holds(call[t]) => call[t].obj[1] = k) /\ (Reopens(call[t]) => call[t].target = k)
      BY <1>1, <1>3, <2>4, <2>6 DEF k
    <3> QED  BY <1>3, <1>5, <1>7, <2>5, <3>1, <3>2, <3>3, <3>4, <3>5, <3>6, <3>7, TreeElsewhere
  <2>10. ReservedExact' /\ PoolBounded'
    <3>1. \A j \in Kids, p \in Pools : handle'[j] # None /\ handle'[j].pool = p => handle[j] # None /\ handle[j].pool = p
      BY <1>3, <2>3, <2>4
    <3> QED  BY <1>1, <1>5, <1>10, <3>1, PoolsStay
  <2>11. Settling'
    <3>1. \A j \in Kids \ {k} : SettledSame(j)
      BY <1>1, <2>4 DEF SettledSame
    <3>2. Settled(svc, registry, g, agent[k], watcher[k])
      BY <1>4, <1>11, <2>3 DEF Settled, Fresh, Received
    <3>3. \A j \in {k} : Settled(svc', registry', handle'[j], agent'[j], watcher'[j])
      BY <1>1, <2>4, <3>2
    <3>4. svc' = svc /\ registry' = registry
      BY <1>1
    <3> QED  BY <1>5, <3>1, <3>3, <3>4, SettlingStays
  <2>12. StopListed'
    BY <1>1, <1>11 DEF StopListed, StopKnows
  <2>13. Typed'
    BY <1>1, <1>5, <1>7, <2>4 DEF Typed, TypedChildren, TypedRest
  <2> QED  BY <2>8, <2>9, <2>10, <2>11, <2>12, <2>13 DEF SubInv
<1>12. CASE handle' = [handle EXCEPT ![k] = None] /\ Go(t, "teardown") /\ UNCHANGED res
  <2>1. handle' = [handle EXCEPT ![k] = None] /\ res' = res /\ call' = [call EXCEPT ![t].pc = "teardown"]
    BY <1>12 DEF Go
  <2>2. pc = "teardown"
    <3>1. call'[t].pc = "teardown"
      BY <1>1, <1>3, <2>1 DEF TypedChildren, Calls
    <3> QED  BY <1>7, <3>1
  <2> HIDE DEF k, s, Replace
  <2>3. /\ handle' \in [Kids -> Child \cup {None}] /\ handle'[k] = None /\ \A j \in Kids \ {k} : handle'[j] = handle[j]
    BY <1>1, <1>3, <2>1 DEF TypedChildren
  <2>4. \A j \in Kids : res[j] \in Nat /\ res'[j] \in Nat /\ res'[j] >= res[j]
    BY <1>1, <2>1 DEF TypedChildren
  <2>5. CallsKept'
    <3>1. CallShape(call'[t], res')
      <4>1. call'[t].pc \notin Writing
        BY <1>7, <2>2 DEF Writing, Delivering
      <4> QED  BY <1>3, <1>7, <1>8, <2>1, <4>1 DEF CallShape
    <3>2. CallHolds(call'[t], handle', agent', catalog', registry')
      BY <1>1, <1>3, <1>4, <1>7, <1>8, <2>3 DEF CallHolds
    <3>3. CallerThere(call'[t], handle', rel, registry)
      BY <1>3, <1>7, <2>3 DEF CallerThere, Housed
    <3>4. \A j \in Kids \ {k} : handle'[j] = handle[j] /\ agent'[j] = agent[j] /\ (Named(j, catalog') => Named(j, catalog))
      BY <1>1, <2>3
    <3>5. \A u \in Threads \ {t} :
            /\ Holds(call[u]) /\ call[u].obj[1] = k =>
                 call[u].pc = "teardown" /\ agent'[k] = agent[k] /\ ~Housed(handle'[k])
            /\ Reopens(call[u]) /\ call[u].target = k => handle'[k] = handle[k]
      BY <1>3, <1>4
    <3>6. rel' = rel /\ (Housed(handle[k]) => Housed(handle'[k]))
      BY <1>1, <1>3
    <3> QED  BY <1>1, <1>3, <1>5, <1>7, <1>9, <2>4, <3>1, <3>2, <3>3, <3>4, <3>5, <3>6, CallsElsewhere
  <2>6. Tree'
    <3>1. HeldBy(k, call')
      BY <1>3, <1>7, <1>8, <2>2 DEF HeldBy
    <3>0. OwnedBy(k, handle[k], agent[k], call, registry)
      BY <1>3, <1>5 DEF Tree, Owned
    <3>2. Placeholder(k, handle'[k], res'[k], call') /\ OwnedBy(k, handle'[k], agent'[k], call', registry') /\ HasPool(handle'[k])
      BY <1>1, <2>3, <3>0, <3>1 DEF Placeholder, Vacant, OwnedBy, HasPool
    <3>3. AttendedBy(handle'[k], watcher[k], rel[k], agent'[k], registry')
      BY <1>3 DEF AttendedBy
    <3>4. \A j \in Kids : ListedIn(j, rel[j], k, handle'[k], res'[k], registry')
      BY <2>3 DEF ListedIn, Housed
    <3>5. \A j \in Kids \ {k} : handle'[j] = handle[j] /\ agent'[j] = agent[j] /\ res'[j] = res[j]
      BY <1>1, <2>1, <2>3
    <3>6. /\ \A j \in Kids : Named(j, catalog') => Named(j, catalog) \/ res'[j] > 0
          /\ rel' = rel /\ watcher' = watcher /\ registry' = registry /\ (Housed(handle[k]) => Housed(handle'[k]))
          /\ (Holds(call[t]) => call[t].obj[1] = k) /\ (Reopens(call[t]) => call[t].target = k)
      BY <1>1, <1>3 DEF k
    <3> QED  BY <1>3, <1>5, <1>7, <2>3, <2>4, <3>2, <3>3, <3>4, <3>5, <3>6, TreeElsewhere
  <2>7. ReservedExact' /\ PoolBounded'
    <3>1. \A j \in Kids, p \in Pools : handle'[j] # None /\ handle'[j].pool = p => handle[j] # None /\ handle[j].pool = p
      BY <2>3
    <3> QED  BY <1>1, <1>5, <1>10, <3>1, PoolsStay
  <2>8. Settling'
    <3>1. \A j \in Kids \ {k} : SettledSame(j)
      BY <1>1, <2>3 DEF SettledSame
    <3>2. \A j \in {k} : Settled(svc', registry', handle'[j], agent'[j], watcher'[j])
      BY <2>3 DEF Settled
    <3>3. svc' = svc /\ registry' = registry
      BY <1>1
    <3> QED  BY <1>5, <3>1, <3>2, <3>3, SettlingStays
  <2>9. StopListed'
    <3> SUFFICES ASSUME NEW j \in Kids PROVE StopKnows(svc, stopTodo.todo, j, handle'[j], res[j])
      BY <1>1, <2>1 DEF StopListed
    <3>1. StopKnows(svc, stopTodo.todo, j, handle[j], res[j])
      BY <1>5 DEF StopListed
    <3> QED  BY <2>3, <3>1 DEF StopKnows, Housed
  <2>10. Typed'
    BY <1>1, <1>5, <1>7, <2>1, <2>3 DEF Typed, TypedChildren, TypedRest
  <2> QED  BY <2>5, <2>6, <2>7, <2>8, <2>9, <2>10 DEF SubInv
<1> QED  BY <1>11, <1>12

-----------------------------------------------------------------------------
(* The stop of the registry.                                               *)

LEMMA RegistryStopKept == ASSUME SubInv, RegistryStop PROVE SubInv'
<1> USE DEF RegistryStop
<1>1. budget' \in Bounds /\ budget'.active = budget.active
  BY SpendIs DEF SubInv, Typed, TypedRest
<1>2. Typed'
  BY <1>1 DEF SubInv, Typed, TypedChildren, TypedRest
<1>3. HandlesStay /\ AgentsStay /\ CallsQuiet
  BY CallsSame DEF HandlesStay, Stays, AgentsStay, AgentStays, Fresh
<1>4. Quiet
  BY <1>1, <1>3 DEF Quiet, ReleaseStays, WatcherStays
<1>5. Settling'
  BY DEF SubInv, Settling, Settled
<1>6. StopListed'
  BY <1>3, StopStays DEF SubInv
<1> QED  BY <1>2, <1>4, <1>5, <1>6, QuietKept

LEMMA AgentCutKept == ASSUME SubInv, NEW k \in Kids, AgentCut(k) PROVE SubInv'
<1> USE DEF AgentCut
<1>1. TypedChildren /\ budget \in Bounds
  BY DEF SubInv, Typed, TypedRest
<1>2. /\ agent' \in [Kids -> Agents] /\ \A j \in Kids \ {k} : agent'[j] = agent[j]
      /\ agent'[k].live = agent[k].live /\ Received(agent'[k]) = Received(agent[k])
      /\ AgentStays(agent[k], agent'[k], HeldBy(k, call))
  BY <1>1, InterruptIs
<1>3. call' \in [Threads -> Calls \cup {Idle}] /\ CallsQuiet
  BY <1>1, CutIs
<1>4. Typed'
  BY <1>2, <1>3 DEF SubInv, Typed, TypedChildren, TypedRest
<1>5. Settled(svc, registry, handle[k], agent'[k], watcher'[k])
  BY <1>2 DEF SubInv, Settling, Settled
<1>6. WatcherStays(watcher[k], watcher'[k], handle[k]) /\ watcher' = watcher
  BY DEF WatcherStays
<1> QED  BY <1>2, <1>3, <1>4, <1>5, <1>6, ChildOnly

LEMMA RootCutKept == ASSUME SubInv, RootCut PROVE SubInv'
<1> USE DEF RootCut
<1>1. call' \in [Threads -> Calls \cup {Idle}] /\ CallsQuiet
  BY CancelIs DEF SubInv, Typed
<1>2. Typed'
  BY <1>1 DEF SubInv, Typed, TypedChildren, TypedRest
<1> QED  BY <1>1, <1>2, CallsOnly

LEMMA AgentExitsKept == ASSUME SubInv, NEW k \in Kids, AgentExits(k) PROVE SubInv'
<1> USE DEF AgentExits
<1>1. TypedChildren /\ call' = call /\ registry' = registry /\ registry = "closing"
  BY DEF SubInv, Typed
<1> DEFINE b == Ended(agent[k])
<1>2. agent \in [Kids -> Agents] /\ agent[k] \in Agents /\ agent' = [agent EXCEPT ![k] = b]
  BY <1>1 DEF TypedChildren
<1>3. /\ b \in Agents /\ ~b.live /\ ~b.busy /\ ~b.task /\ ~b.woken /\ ~b.ended
      /\ b.held = 0 /\ b.hand = 0 /\ b.done = 0 /\ b.lost = 0
  BY <1>2, EndedIs
<1> HIDE DEF b
<1>4. agent' \in [Kids -> Agents] /\ agent'[k] = b /\ \A j \in Kids \ {k} : agent'[j] = agent[j]
  BY <1>2, <1>3
<1>5. AgentStays(agent[k], agent'[k], HeldBy(k, call))
  BY <1>1, <1>3, <1>4 DEF AgentStays, Fresh
<1>6. Typed'
  BY <1>4 DEF SubInv, Typed, TypedChildren, TypedRest
<1>7. Settled(svc, registry, handle[k], agent'[k], watcher'[k])
  BY <1>1, <1>3, <1>4 DEF Settled
<1>8. WatcherStays(watcher[k], watcher'[k], handle[k]) /\ watcher' = watcher
  BY DEF WatcherStays
<1> QED  BY <1>1, <1>4, <1>5, <1>6, <1>7, <1>8, CallsSame, ChildOnly

LEMMA RegistryStoppedKept == ASSUME SubInv, RegistryStopped PROVE SubInv'
<1> USE DEF RegistryStopped
<1>1. Typed'
  BY DEF SubInv, Typed, TypedChildren, TypedRest
<1>2. HandlesStay /\ AgentsStay /\ CallsQuiet
  BY CallsSame DEF HandlesStay, Stays, AgentsStay, AgentStays, Fresh
<1>3. Quiet
  BY <1>2 DEF Quiet, ReleaseStays, WatcherStays
<1>4. Settling'
  BY DEF SubInv, Settling, Settled
<1>5. StopListed'
  BY <1>2, StopStays DEF SubInv
<1> QED  BY <1>1, <1>3, <1>4, <1>5, QuietKept

-----------------------------------------------------------------------------
(* The first part of the invariant.                                        *)

LEMMA InitInv == ASSUME Init PROVE SubInv
<1> USE DEF Init
<1>1. Gone \in Agents /\ ~Gone.live /\ ~Gone.busy
  BY DEF Gone, Agents
<1>2. Typed
  <2>1. TypedChildren
    BY <1>1 DEF TypedChildren, Pools
  <2>2. TypedRest
    BY SubagentAssumption DEF TypedRest, Bounds, Pools
  <2> QED  BY <2>1, <2>2 DEF Typed
<1>3. CallsKept
  BY IdleIs DEF CallsKept, Shaped, AllApart, Holding, CallersThere
<1>4. Tree
  <2>1. \A k \in Kids : ~Named(k, catalog)
    BY DEF Named, Pools
  <2> QED  BY <1>1, <2>1 DEF Tree, Placeholders, Placeholder, Vacant, Housed, Numbered, Pooled, HasPool, Attended, AttendedBy,
                             Parented, Listed, ListedIn, Owned, OwnedBy, Idle
<1>5. Settling /\ StopListed
  BY DEF Settling, Settled, StopListed, StopKnows, Housed
<1>6. ReservedExact
  <2> SUFFICES ASSUME NEW p \in Pools PROVE 0 = Cardinality({t \in Threads : Reserves(call[t], p)})
    BY DEF ReservedExact, Pools
  <2>1. {t \in Threads : Reserves(call[t], p)} = {}
    BY DEF Reserves, Idle
  <2> QED  BY <2>1, FS_EmptySet
<1>7. PoolBounded
  <2> SUFFICES ASSUME NEW p \in Pools PROVE 0 + Cardinality({k \in Kids : Resident(k) /\ handle[k].pool = p}) <= budget.active
    BY DEF PoolBounded, Used, Pools
  <2>1. {k \in Kids : Resident(k) /\ handle[k].pool = p} = {}
    BY DEF Resident
  <2>2. budget.active \in Nat
    BY <1>2 DEF Typed, TypedRest, Bounds
  <2>3. Cardinality({k \in Kids : Resident(k) /\ handle[k].pool = p}) = 0
    BY <2>1, FS_EmptySet
  <2> QED  BY <2>2, <2>3
<1> QED  BY <1>2, <1>3, <1>4, <1>5, <1>6, <1>7 DEF SubInv

LEMMA StepKept == ASSUME SubInv, \A k \in Kids : Hands(agent[k]), [Next]_vars PROVE SubInv'
<1>1. ASSUME NEW t \in Threads,
             \/ CreateAgent(t) \/ Publish(t) \/ Catalog(t) \/ Submit(t) \/ Accepted(t) \/ Result(t) \/ CloseChild(t) \/ Teardown(t)
             \/ DeliverUp(t) \/ DeliverDown(t) \/ DeliverElse(t) \/ WaitRelease(t) \/ Resume(t) \/ Reopen(t) \/ Replace(t)
      PROVE  SubInv'
  BY <1>1, CreateAgentKept, PublishKept, CatalogKept, SubmitKept, AcceptedKept, ResultKept, CloseChildKept, TeardownKept,
     DeliverUpKept, DeliverDownKept, DeliverElseKept, WaitReleaseKept, ResumeKept, ReopenKept, ReplaceKept
<1>2. ASSUME NEW k \in Kids,
             \/ TurnBegin(k) \/ TurnOpens(k) \/ TurnTakes(k) \/ TurnCommits(k) \/ TurnEnd(k) \/ AgentCut(k) \/ AgentExits(k)
             \/ JobNotice(k)
      PROVE  SubInv'
  <2>1. TurnBegin(k) => Empty(agent[k])
    BY DEF TurnBegin, Hands
  <2> QED  BY <1>2, <2>1, TurnBeginKept, TurnOpensKept, TurnTakesKept, TurnCommitsKept, TurnEndKept, AgentCutKept, AgentExitsKept,
              JobNoticeKept
<1>3. ASSUME NEW k \in Kids,
             \/ WatchTop(k) \/ WatchIdle(k) \/ WatchEvents(k) \/ WatchStatus(k) \/ WatchDecide(k) \/ WatchParked(k)
             \/ ReleaseInterrupt(k) \/ ReleaseList(k) \/ ReleaseChild(k) \/ ReleaseUnmount(k) \/ ReleaseAgent(k) \/ ReleaseFinish(k)
      PROVE  SubInv'
  BY <1>3, WatchTopKept, WatchIdleKept, WatchEventsKept, WatchStatusKept, WatchDecideKept, WatchParkedKept, ReleaseInterruptKept,
     ReleaseListKept, ReleaseChildKept, ReleaseUnmountKept, ReleaseAgentKept, ReleaseFinishKept
<1>4. CASE RootCut \/ RegistryStop \/ RegistryStopped \/ Stop \/ StopChild
  BY <1>4, RootCutKept, RegistryStopKept, RegistryStoppedKept, StopKept, StopChildKept
<1>5. ASSUME NEW t \in Threads, NEW s \in Pools,
             \/ \E mode \in Modes, bg \in BOOLEAN : Start(t, s, mode, bg)
             \/ \E target \in Pools : Send(t, s, target)
      PROVE  SubInv'
  <2>1. ASSUME NEW mode \in Modes, NEW bg \in BOOLEAN, Start(t, s, mode, bg) PROVE SubInv'
    BY <2>1, StartKept
  <2>2. ASSUME NEW target \in Pools, Send(t, s, target) PROVE SubInv'
    BY <2>2, SendKept
  <2> QED  BY <1>5, <2>1, <2>2
<1>6. ASSUME NEW s \in Pools, NEW k \in Kids, Interrupt(s, k) PROVE SubInv'
  BY <1>6, InterruptKept
<1>7. ASSUME NEW t \in Threads, CancelCall(t) PROVE SubInv'
  BY <1>7, CancelCallKept
<1>8. CASE UNCHANGED vars
  <2> USE DEF vars
  <2>1. Typed'
    BY <1>8 DEF SubInv, Typed, TypedChildren, TypedRest
  <2>2. CallsKept'
    BY <1>8 DEF SubInv, CallsKept, Shaped, AllApart, Holding, CallersThere
  <2>3. Placeholders' /\ Owned'
    BY <1>8 DEF SubInv, Tree, Placeholders, Placeholder, ReopenedBy, Owned, OwnedBy, HeldBy
  <2>4. Numbered' /\ Pooled' /\ Attended' /\ Parented' /\ Listed'
    BY <1>8 DEF SubInv, Tree, Numbered, Pooled, Attended, Parented, Listed
  <2>5. Settling' /\ StopListed'
    BY <1>8 DEF SubInv, Settling, StopListed
  <2>6. ReservedExact'
    BY <1>8 DEF SubInv, ReservedExact
  <2>7. PoolBounded'
    BY <1>8 DEF SubInv, PoolBounded, Used, Resident
  <2> QED  BY <2>1, <2>2, <2>3, <2>4, <2>5, <2>6, <2>7 DEF SubInv, Tree
<1>9. CASE CallStep
  BY <1>1, <1>9 DEF CallStep
<1>10. CASE ChildStep
  BY <1>2, <1>3, <1>10 DEF ChildStep
<1>11. CASE Request
  BY <1>2, <1>4, <1>5, <1>6, <1>7, <1>11 DEF Request, Pools
<1> QED  BY <1>4, <1>8, <1>9, <1>10, <1>11 DEF Next, Work

\* The service and the registry stop one after the other.
LEMMA StopOrder == Spec => []StopsInTurn
<1>1. Init => StopsInTurn
  BY DEF Init, StopsInTurn
<1>2. StopsInTurn /\ [Next]_vars => StopsInTurn'
  <2> SUFFICES ASSUME StopsInTurn, [Next]_vars PROVE StopsInTurn'
    OBVIOUS
  <2>1. CASE svc' = svc /\ registry' = registry
    BY <2>1 DEF StopsInTurn
  <2>2. CASE RegistryStop \/ RegistryStopped \/ Stop \/ StopChild
    BY <2>2 DEF RegistryStop, RegistryStopped, Stop, StopChild, StopsInTurn
  <2>3. CASE CallStep
    <3>1. svc' = svc /\ registry' = registry
      <4> SUFFICES ASSUME NEW t \in Threads,
                          \/ CreateAgent(t) \/ Publish(t) \/ Catalog(t) \/ Submit(t) \/ Accepted(t) \/ Result(t)
                          \/ CloseChild(t) \/ Teardown(t) \/ DeliverUp(t) \/ DeliverDown(t) \/ DeliverElse(t)
                          \/ WaitRelease(t) \/ Resume(t) \/ Reopen(t) \/ Replace(t)
                   PROVE  svc' = svc /\ registry' = registry
        BY <2>3 DEF CallStep
      <4>1. CASE CreateAgent(t) \/ Publish(t) \/ Catalog(t) \/ Submit(t) \/ Accepted(t)
        BY <4>1 DEF CreateAgent, Publish, Catalog, Submit, Accepted
      <4>2. CASE Result(t) \/ CloseChild(t) \/ Teardown(t) \/ WaitRelease(t)
        BY <4>2 DEF Result, CloseChild, Teardown, WaitRelease
      <4>3. CASE DeliverUp(t) \/ DeliverDown(t) \/ DeliverElse(t)
        BY <4>3 DEF DeliverUp, DeliverDown, DeliverElse
      <4>4. CASE Resume(t) \/ Reopen(t) \/ Replace(t)
        BY <4>4 DEF Resume, Reopen, Replace
      <4> QED  BY <4>1, <4>2, <4>3, <4>4
    <3> QED  BY <2>1, <3>1
  <2>4. CASE ChildStep
    <3>1. svc' = svc /\ registry' = registry
      <4> SUFFICES ASSUME NEW k \in Kids,
                          \/ TurnBegin(k) \/ TurnOpens(k) \/ TurnTakes(k) \/ TurnCommits(k) \/ TurnEnd(k) \/ AgentCut(k)
                          \/ AgentExits(k) \/ WatchTop(k) \/ WatchIdle(k) \/ WatchEvents(k) \/ WatchStatus(k) \/ WatchDecide(k)
                          \/ WatchParked(k) \/ ReleaseInterrupt(k) \/ ReleaseList(k) \/ ReleaseChild(k) \/ ReleaseUnmount(k)
                          \/ ReleaseAgent(k) \/ ReleaseFinish(k)
                   PROVE  svc' = svc /\ registry' = registry
        BY <2>4 DEF ChildStep
      <4>1. CASE TurnBegin(k) \/ TurnOpens(k) \/ TurnTakes(k) \/ TurnCommits(k) \/ TurnEnd(k) \/ AgentCut(k) \/ AgentExits(k)
        BY <4>1 DEF TurnBegin, TurnOpens, TurnTakes, TurnCommits, TurnEnd, AgentCut, AgentExits
      <4>2. CASE WatchTop(k) \/ WatchIdle(k) \/ WatchEvents(k) \/ WatchStatus(k) \/ WatchDecide(k) \/ WatchParked(k)
        BY <4>2 DEF WatchTop, WatchIdle, WatchEvents, WatchStatus, WatchDecide, WatchParked
      <4>3. CASE ReleaseInterrupt(k) \/ ReleaseList(k) \/ ReleaseChild(k) \/ ReleaseUnmount(k) \/ ReleaseAgent(k)
        BY <4>3 DEF ReleaseInterrupt, ReleaseList, ReleaseChild, ReleaseUnmount, ReleaseAgent
      <4>4. CASE ReleaseFinish(k)
        BY <4>4 DEF ReleaseFinish
      <4> QED  BY <4>1, <4>2, <4>3, <4>4
    <3> QED  BY <2>1, <3>1
  <2>5. CASE RootCut \/ UNCHANGED vars
    <3>1. svc' = svc /\ registry' = registry
      BY <2>5 DEF RootCut, vars
    <3> QED  BY <2>1, <3>1
  <2>6. CASE Request
    <3>1. (svc' = svc /\ registry' = registry) \/ RegistryStop \/ Stop
      <4>1. ASSUME NEW t \in Threads, NEW s \in Pools, NEW mode, NEW bg, Start(t, s, mode, bg)
            PROVE  svc' = svc /\ registry' = registry
        BY <4>1 DEF Start
      <4>2. ASSUME NEW t \in Threads, NEW s \in Pools, NEW target, Send(t, s, target) PROVE svc' = svc /\ registry' = registry
        BY <4>2 DEF Send
      <4> QED  BY <2>6, <4>1, <4>2 DEF Request, Interrupt, CancelCall, JobNotice, Pools
    <3> QED  BY <2>1, <2>2, <3>1
  <2> QED  BY <2>2, <2>3, <2>4, <2>5, <2>6 DEF Next, Work
<1> QED  BY <1>1, <1>2, PTL DEF Spec
=============================================================================
