------------------------ MODULE SubagentSettleProofs ------------------------
(***************************************************************************)
(* Proofs about Subagent, for every set of sessions, every depth and every *)
(* bound: the pools stay within their limit, every live child has an owner *)
(* and a watcher that will settle it, the count of deliveries is exact, a  *)
(* watcher releases only a child that is done, and nothing is left behind  *)
(* once stop and the calls are over.                                       *)
(*                                                                         *)
(* The inductive invariant is SettleInv == SubInv /\ DecideInv.  DecideInv *)
(* says what a watcher may conclude from what it read.  Since it saw the   *)
(* agent idle, and unless it was woken since (stale), whatever runs was    *)
(* opened by a notice of a job queued behind every message that is held    *)
(* (Steady); and once it saw no message in the inbox none is held or can   *)
(* come back there (Clear), which lasts until the release has taken the    *)
(* agent from the registry (Leaves).                                       *)
(***************************************************************************)
EXTENDS SubagentProofs

-----------------------------------------------------------------------------
(* The decision to release a child: what its watcher may conclude from what *)
(* it read.                                                                 *)

Looking == {"events", "status", "decide"}
Closing == {"interrupt", "list", "children", "unmount"}

\* An agent that is gone holds nothing, once its release has waited for it.
Dead(a, r) == ~a.live /\ r.pc # "agent" => ~a.busy /\ a.held = 0

\* Since the watcher saw the agent idle, no task was submitted, and whatever
\* runs was opened by a notice of a job, behind all messages that are held.
Steady(a) ==
  /\ ~a.task
  /\ a.woken \/ a.busy => a.held = 0 \/ (a.job = "queued" /\ a.ahead = a.held)
  /\ a.busy /\ a.stage = "begun" => /\ a.hand > 0 => a.job = "queued" /\ a.ahead = a.held
                                    /\ a.job = "hand" => a.held = 0

\* No message of the service is in the inbox, or can come back to it.
Clear(a) == a.held = 0 /\ (a.busy /\ a.stage = "begun" => a.hand = 0)

Looks(w, a) == a.live =>
  /\ w.pc \in {"status", "decide"} => w.seen <= a.done
  /\ w.pc \in Looking /\ ~w.stale => Steady(a)
  /\ w.pc = "decide" /\ ~w.stale /\ ~w.held => Clear(a)

\* The child its watcher releases: its agent lives until the release takes it
\* from the registry, and no message comes any more.
Leaves(n, w, r, a) ==
  w.pc = "releasing" /\ r.pc \in Closing \cup {"agent"} /\ (a.live \/ r.pc = "agent") => n = Received(a) /\ Clear(a)

Decided(h, w, r, a, g) ==
  /\ Hands(a) /\ Dead(a, r) /\ Looks(w, a)
  /\ w.pc = "releasing" => h # None /\ h.closing
  /\ g = "open" /\ r.pc \in Closing => a.live
  /\ h # None => Leaves(h.delivered, w, r, a)

\* A child its watcher releases gets no continuable child any more.
Alone(k) == watcher[k].pc = "releasing" =>
  \A d \in Kids : handle[d] # None /\ handle[d].parent = k /\ handle[d].mode = "continuable" => handle[d].closing

\* The child of a creation that has not submitted its task has no watcher.
Unwatched(c, w) == c.pc \in {"catalog", "submit"} => w[c.obj[1]].pc = "idle"

DecideInv ==
  /\ \A k \in Kids : Decided(handle[k], watcher[k], rel[k], agent[k], registry) /\ Alone(k)
  /\ \A t \in Threads : Unwatched(call[t], watcher)
-----------------------------------------------------------------------------
(* The decision to release: steps that tell its watcher nothing new.       *)

\* A step of an agent that neither gets nor drops a message.
QuietAgent(a, b) ==
  /\ b.live = a.live /\ Received(b) = Received(a) /\ b.done \in Nat /\ b.done >= a.done /\ Hands(b)
  /\ ~a.live /\ ~a.busy /\ a.held = 0 => ~b.busy /\ b.held = 0
  /\ Steady(a) => Steady(b)
  /\ Clear(a) => Clear(b)

WatcherCalm(w, v) ==
  \/ v.pc \notin Looking \cup {"releasing"}
  \/ v.pc = w.pc /\ v.seen = w.seen /\ v.held = w.held /\ (w.stale => v.stale)

ReleaseCalm(r, q) == q.pc = r.pc \/ {r.pc, q.pc} \subseteq Closing

Still(k) ==
  /\ QuietAgent(agent[k], agent'[k]) /\ WatcherCalm(watcher[k], watcher'[k]) /\ ReleaseCalm(rel[k], rel'[k])
  /\ watcher'[k].pc = "releasing" /\ handle[k] # None =>
       handle'[k] # None /\ handle'[k].delivered = handle[k].delivered /\ (handle[k].closing => handle'[k].closing)

\* No child becomes one its parent has to wait for, and no creation starts.
HandlesCalm == \A d \in Kids : handle'[d] # None /\ ~handle'[d].closing =>
  handle[d] # None /\ ~handle[d].closing /\ handle'[d].parent = handle[d].parent /\ handle'[d].mode = handle[d].mode
CallsCalm == \A t \in Threads : call'[t].pc \in {"catalog", "submit"} =>
  call[t].pc \in {"catalog", "submit"} /\ call'[t].obj = call[t].obj
WatchersCalm == \A k \in Kids : watcher'[k].pc # "idle" => watcher[k].pc # "idle"

LEMMA SameAgentQuiet == ASSUME NEW a \in Agents, Hands(a) PROVE QuietAgent(a, a)
BY DEF QuietAgent, Agents

LEMMA WatcherSeen == ASSUME NEW w \in Watchers PROVE w.seen \in Nat
BY DEF Watchers

LEMMA WatcherIsNot == ASSUME NEW w \in Watchers \cup {Idle}, w.pc # "idle" PROVE w \in Watchers
BY DEF Idle

LEMMA CalmDecided ==
  ASSUME TypedChildren, NEW k \in Kids, Still(k), registry' = "open" => registry = "open",
         Decided(handle[k], watcher[k], rel[k], agent[k], registry)
  PROVE  Decided(handle'[k], watcher'[k], rel'[k], agent'[k], registry')
<1> DEFINE a == agent[k]
           b == agent'[k]
           w == watcher[k]
           v == watcher'[k]
           r == rel[k]
           q == rel'[k]
<1>1. a \in Agents
  BY DEF TypedChildren
<1>0. w.pc # "idle" => w.seen \in Nat
  <2>1. w \in Watchers \cup {Idle}
    BY DEF TypedChildren
  <2> HIDE DEF w
  <2> QED  BY <2>1, WatcherSeen, WatcherIsNot
<1>2. QuietAgent(a, b) /\ WatcherCalm(w, v) /\ ReleaseCalm(r, q)
  BY DEF Still
<1>3. Hands(a) /\ Dead(a, r) /\ Looks(w, a) /\ (w.pc = "releasing" => handle[k] # None /\ handle[k].closing)
      /\ (registry = "open" /\ r.pc \in Closing => a.live)
      /\ (handle[k] # None => Leaves(handle[k].delivered, w, r, a))
  BY DEF Decided
<1>4. v.pc = "releasing" => w.pc = "releasing"
  BY <1>2 DEF WatcherCalm
<1>5. v.pc = "releasing" => handle'[k] # None /\ handle'[k].closing /\ handle'[k].delivered = handle[k].delivered
  BY <1>3, <1>4 DEF Still
<1> HIDE DEF a, b, w, v, r, q
<1>r. (q.pc = "agent" <=> r.pc = "agent") /\ (q.pc \in Closing <=> r.pc \in Closing)
  BY <1>2 DEF ReleaseCalm, Closing
<1>6. Hands(b) /\ Dead(b, q)
  BY <1>2, <1>3, <1>r DEF QuietAgent, Dead
<1>7. Looks(v, b)
  <2> SUFFICES ASSUME b.live, v.pc \in Looking
               PROVE  /\ v.pc \in {"status", "decide"} => v.seen <= b.done
                      /\ ~v.stale => Steady(b)
                      /\ v.pc = "decide" /\ ~v.stale /\ ~v.held => Clear(b)
    BY DEF Looks, Looking
  <2>1. a.live /\ v.pc = w.pc /\ v.seen = w.seen /\ v.held = w.held /\ (w.stale => v.stale)
    BY <1>2 DEF QuietAgent, WatcherCalm
  <2>2. v.pc \in {"status", "decide"} => v.seen <= b.done
    <3>1. v.pc \in {"status", "decide"} => w.seen <= a.done
      BY <1>3, <2>1 DEF Looks
    <3>3. v.pc \in {"status", "decide"} => w.seen \in Nat
      BY <1>0, <2>1
    <3>4. b.done >= a.done /\ a.done \in Nat /\ b.done \in Nat
      BY <1>1, <1>2 DEF QuietAgent, Agents
    <3> QED  BY <2>1, <3>1, <3>3, <3>4
  <2>3. ~v.stale => Steady(b)
    BY <1>2, <1>3, <2>1 DEF Looks, QuietAgent
  <2>4. v.pc = "decide" /\ ~v.stale /\ ~v.held => Clear(b)
    BY <1>2, <1>3, <2>1 DEF Looks, QuietAgent
  <2> QED  BY <2>2, <2>3, <2>4
<1>8. handle'[k] # None => Leaves(handle'[k].delivered, v, q, b)
  BY <1>2, <1>3, <1>4, <1>5, <1>r DEF Leaves, QuietAgent
<1>9. registry' = "open" /\ q.pc \in Closing => b.live
  BY <1>2, <1>3, <1>r DEF QuietAgent
<1> QED  BY <1>5, <1>6, <1>7, <1>8, <1>9 DEF Decided, b, v, q

LEMMA CalmAlone ==
  ASSUME DecideInv, HandlesCalm, \A k \in Kids : watcher'[k].pc = "releasing" => watcher[k].pc = "releasing"
  PROVE  \A k \in Kids : Alone(k)'
BY DEF DecideInv, Alone, HandlesCalm

LEMMA CalmUnwatched ==
  ASSUME SubInv, DecideInv, CallsCalm, WatchersCalm
  PROVE  \A t \in Threads : Unwatched(call'[t], watcher')
<1> SUFFICES ASSUME NEW t \in Threads, call'[t].pc \in {"catalog", "submit"} PROVE watcher'[call'[t].obj[1]].pc = "idle"
  BY DEF Unwatched
<1>1. call[t].pc \in {"catalog", "submit"} /\ call'[t].obj = call[t].obj
  BY DEF CallsCalm
<1>2. Unwatched(call[t], watcher) /\ CallShape(call[t], res)
  BY DEF DecideInv, SubInv, CallsKept, Shaped
<1>3. call[t].obj[1] \in Kids
  BY <1>1, <1>2 DEF CallShape, Creates, Creating, Objects
<1> QED  BY <1>1, <1>2, <1>3 DEF Unwatched, WatchersCalm

\* A step that disturbs the decision on the children of S only.
LEMMA DecidedBut ==
  ASSUME SubInv, DecideInv, NEW S, \A j \in Kids : j \notin S => Still(j),
         \A j \in Kids : j \in S => Decided(handle'[j], watcher'[j], rel'[j], agent'[j], registry'),
         registry' = "open" => registry = "open"
  PROVE  \A j \in Kids : Decided(handle'[j], watcher'[j], rel'[j], agent'[j], registry')
<1> SUFFICES ASSUME NEW j \in Kids, j \notin S PROVE Decided(handle'[j], watcher'[j], rel'[j], agent'[j], registry')
  OBVIOUS
<1>1. Still(j)
  OBVIOUS
<1>2. TypedChildren /\ Decided(handle[j], watcher[j], rel[j], agent[j], registry)
  BY DEF DecideInv, SubInv, Typed
<1> QED  BY <1>1, <1>2, CalmDecided

LEMMA CalmBut ==
  ASSUME SubInv, DecideInv, NEW S, \A j \in Kids : j \notin S => Still(j),
         \A j \in Kids : j \in S => Decided(handle'[j], watcher'[j], rel'[j], agent'[j], registry'),
         \A j \in Kids : watcher'[j].pc = "releasing" => watcher[j].pc = "releasing",
         HandlesCalm, CallsCalm, WatchersCalm, registry' = "open" => registry = "open"
  PROVE  DecideInv'
<1>1. \A j \in Kids : Decided(handle'[j], watcher'[j], rel'[j], agent'[j], registry')
  BY DecidedBut
<1>2. \A j \in Kids : Alone(j)'
  BY CalmAlone
<1>3. \A t \in Threads : Unwatched(call'[t], watcher')
  BY CalmUnwatched
<1> QED  BY <1>1, <1>2, <1>3 DEF DecideInv

\* What a step leaves as it was is still.
LEMMA SameStill ==
  ASSUME SubInv, DecideInv, NEW j \in Kids, agent'[j] = agent[j], rel'[j] = rel[j], handle'[j] = handle[j],
         WatcherCalm(watcher[j], watcher'[j])
  PROVE  Still(j)
<1>1. agent[j] \in Agents /\ Hands(agent[j])
  BY DEF SubInv, Typed, TypedChildren, DecideInv, Decided
<1>2. QuietAgent(agent[j], agent'[j])
  BY <1>1, SameAgentQuiet
<1> QED  BY <1>2 DEF Still, ReleaseCalm

LEMMA SameCalm == ASSUME NEW w PROVE WatcherCalm(w, w)
BY DEF WatcherCalm

\* Of the calls, only those that go on with a creation matter.
LEMMA GoCalm ==
  ASSUME TypedChildren, NEW t \in Threads, NEW pc, call' = [call EXCEPT ![t].pc = pc], call[t].pc # "idle",
         pc = "submit" => call[t].pc = "catalog", pc # "catalog"
  PROVE  CallsCalm
<1>1. call \in [Threads -> Calls \cup {Idle}] /\ call[t] \in Calls
  BY CallIs DEF TypedChildren
<1>2. call' = [call EXCEPT ![t] = [call[t] EXCEPT !.pc = pc]]
  OBVIOUS
<1>3. [call[t] EXCEPT !.pc = pc].pc = pc /\ [call[t] EXCEPT !.pc = pc].obj = call[t].obj
  BY <1>1 DEF Calls
<1>4. call'[t].pc = pc /\ call'[t].obj = call[t].obj /\ \A u \in Threads \ {t} : call'[u] = call[u]
  BY <1>1, <1>2, <1>3
<1> QED  BY <1>4 DEF CallsCalm

LEMMA ReturnCalm == ASSUME TypedChildren, NEW t \in Threads, Return(t) PROVE CallsCalm
BY ReturnIs DEF CallsCalm, Idle

LEMMA CancelCalm == ASSUME TypedChildren, NEW ts, call' = Cancel(ts) PROVE CallsCalm
<1> SUFFICES ASSUME NEW t \in Threads PROVE call'[t].pc = call[t].pc /\ call'[t].obj = call[t].obj
  BY DEF CallsCalm
<1>1. CASE t \in ts /\ call[t].pc # "idle"
  <2>1. call[t] \in Calls /\ call'[t] = [call[t] EXCEPT !.cancelled = TRUE]
    BY <1>1, CallIs DEF Cancel, TypedChildren
  <2> QED  BY <2>1 DEF Calls
<1>2. CASE ~(t \in ts /\ call[t].pc # "idle")
  BY <1>2 DEF Cancel
<1> QED  BY <1>1, <1>2

LEMMA CutCalm == ASSUME TypedChildren, NEW k \in Kids, call' = CutTurn(k) PROVE CallsCalm
BY CancelCalm DEF CutTurn

\* The steps of an agent's turn are quiet: they move messages and lose none
\* that is counted.
LEMMA BeginQuiet == ASSUME SubInv, NEW k \in Kids, Hands(agent[k]), TurnBegin(k) PROVE QuietAgent(agent[k], agent'[k])
<1> DEFINE a == agent[k]
           b == [a EXCEPT !.busy = TRUE, !.stage = "begun", !.cut = FALSE, !.woken = FALSE]
           late == [b EXCEPT !.held = @ - 1, !.hand = 1, !.ahead = IF a.job = "queued" THEN @ - 1 ELSE @]
<1>1. a \in Agents /\ agent \in [Kids -> Agents] /\ a.live /\ ~a.busy /\ a.hand = 0 /\ a.job # "hand"
  BY DEF SubInv, Typed, TypedChildren, TurnBegin, Hands, Empty
<1>2. \/ b.task /\ agent' = [agent EXCEPT ![k] = [b EXCEPT !.task = FALSE]]
      \/ a.woken /\ b.job = "queued" /\ b.ahead = 0 /\ agent' = [agent EXCEPT ![k] = [b EXCEPT !.job = "hand"]]
      \/ a.woken /\ b.held > 0 /\ (b.job = "queued" => b.ahead > 0) /\ agent' = [agent EXCEPT ![k] = late]
  <2> HIDE DEF b, a
  <2> QED  BY DEF TurnBegin, a, b
<1>3. CASE b.task /\ agent' = [agent EXCEPT ![k] = [b EXCEPT !.task = FALSE]]
  <2> DEFINE c == [a EXCEPT !.busy = TRUE, !.stage = "begun", !.cut = FALSE, !.woken = FALSE, !.task = FALSE]
  <2>1. agent'[k] = c /\ a.task
    BY <1>1, <1>3 DEF Agents
  <2>2. QuietAgent(a, c)
    <3>1. /\ c.live = a.live /\ c.done = a.done /\ c.lost = a.lost /\ c.busy /\ c.stage = "begun" /\ c.ahead \in Nat
          /\ c.held = a.held /\ c.hand = 0 /\ c.job = a.job /\ ~c.task /\ c.ahead = a.ahead
      BY <1>1, <2>1 DEF Agents
    <3>2. /\ a.held \in Nat /\ a.hand \in Nat /\ a.done \in Nat /\ a.lost \in Nat /\ a.ahead \in Nat
          /\ ~a.busy /\ a.hand = 0 /\ a.job # "hand" /\ a.live
      BY <1>1 DEF Agents
    <3> HIDE DEF a, c
    <3>3. Received(c) = Received(a) /\ Hands(c)
      BY <2>1, <3>1, <3>2 DEF Received, Hands
    <3>4. Steady(a) => Steady(c)
      BY <2>1, <3>1, <3>2 DEF Steady
    <3>5. Clear(a) => Clear(c)
      BY <2>1, <3>1, <3>2 DEF Clear
    <3> QED  BY <3>1, <3>2, <3>3, <3>4, <3>5 DEF QuietAgent
  <2> QED  BY <2>1, <2>2
<1>4. CASE a.woken /\ b.job = "queued" /\ b.ahead = 0 /\ agent' = [agent EXCEPT ![k] = [b EXCEPT !.job = "hand"]]
  <2> DEFINE c == [a EXCEPT !.busy = TRUE, !.stage = "begun", !.cut = FALSE, !.woken = FALSE, !.job = "hand"]
  <2>1. agent'[k] = c /\ a.job = "queued" /\ a.ahead = 0 /\ a.woken
    BY <1>1, <1>4 DEF Agents
  <2>2. QuietAgent(a, c)
    <3>1. /\ c.live = a.live /\ c.done = a.done /\ c.lost = a.lost /\ c.busy /\ c.stage = "begun" /\ c.ahead \in Nat
          /\ c.held = a.held /\ c.hand = 0 /\ c.job = "hand" /\ c.task = a.task /\ c.ahead = a.ahead
      BY <1>1, <2>1 DEF Agents
    <3>2. /\ a.held \in Nat /\ a.hand \in Nat /\ a.done \in Nat /\ a.lost \in Nat /\ a.ahead \in Nat
          /\ ~a.busy /\ a.hand = 0 /\ a.job # "hand" /\ a.live
      BY <1>1 DEF Agents
    <3> HIDE DEF a, c
    <3>3. Received(c) = Received(a) /\ Hands(c)
      BY <2>1, <3>1, <3>2 DEF Received, Hands
    <3>4. Steady(a) => Steady(c)
      BY <2>1, <3>1, <3>2 DEF Steady
    <3>5. Clear(a) => Clear(c)
      BY <2>1, <3>1, <3>2 DEF Clear
    <3> QED  BY <3>1, <3>2, <3>3, <3>4, <3>5 DEF QuietAgent
  <2> QED  BY <2>1, <2>2
<1>5. CASE a.woken /\ b.held > 0 /\ (b.job = "queued" => b.ahead > 0) /\ agent' = [agent EXCEPT ![k] = late]
  <2> DEFINE n == IF a.job = "queued" THEN a.ahead - 1 ELSE a.ahead
             c == [a EXCEPT !.busy = TRUE, !.stage = "begun", !.cut = FALSE, !.woken = FALSE,
                            !.held = a.held - 1, !.hand = 1, !.ahead = n]
  <2>1. agent'[k] = late /\ a.woken /\ a.held > 0 /\ (a.job = "queued" => a.ahead > 0)
    BY <1>1, <1>5 DEF Agents
  <2>2. late = c
    BY <1>1 DEF Agents
  <2>3. n \in Nat /\ (a.job = "queued" => n = a.ahead - 1)
    BY <1>1, <2>1 DEF Agents
  <2>4. QuietAgent(a, c)
    <3>1. /\ c.live = a.live /\ c.done = a.done /\ c.lost = a.lost /\ c.busy /\ c.stage = "begun" /\ c.ahead \in Nat
          /\ c.held = a.held - 1 /\ c.hand = 1 /\ c.job = a.job /\ c.task = a.task /\ (a.job = "queued" => c.ahead = a.ahead - 1)
      BY <1>1, <2>1, <2>3 DEF Agents
    <3>2. /\ a.held \in Nat /\ a.hand \in Nat /\ a.done \in Nat /\ a.lost \in Nat /\ a.ahead \in Nat
          /\ ~a.busy /\ a.hand = 0 /\ a.job # "hand" /\ a.live
      BY <1>1 DEF Agents
    <3> HIDE DEF a, c, n
    <3>3. Received(c) = Received(a) /\ Hands(c)
      BY <2>1, <3>1, <3>2 DEF Received, Hands
    <3>4. Steady(a) => Steady(c)
      BY <2>1, <3>1, <3>2 DEF Steady
    <3>5. Clear(a) => Clear(c)
      BY <2>1, <3>1, <3>2 DEF Clear
    <3> QED  BY <3>1, <3>2, <3>3, <3>4, <3>5 DEF QuietAgent
  <2> QED  BY <2>1, <2>2, <2>4
<1> QED  BY <1>2, <1>3, <1>4, <1>5 DEF a

LEMMA CommitsQuiet ==
  ASSUME SubInv, NEW k \in Kids, NEW next \in {"opened", "drained"}, agent[k].busy, Commits(k, next)
  PROVE  QuietAgent(agent[k], agent'[k])
<1> DEFINE a == agent[k]
<1>1. a \in Agents /\ agent \in [Kids -> Agents] /\ a.busy
  BY DEF SubInv, Typed, TypedChildren
<1>2. ASSUME NEW n \in Nat, n <= a.hand, NEW m, a.job \notin {"hand", "owed"} => m = a.job, m # "hand", NEW b,
             b.live = a.live, b.busy, b.task = a.task, b.woken = a.woken, b.held = a.held, b.hand = 0,
             b.done = a.done + n, b.lost = a.lost + (a.hand - n), b.ahead = a.ahead, b.job = m, b.stage # "begun"
      PROVE  QuietAgent(a, b)
  <2>1. a.held \in Nat /\ a.hand \in Nat /\ a.done \in Nat /\ a.lost \in Nat
    BY <1>1 DEF Agents
  <2> HIDE DEF a
  <2>2. Received(b) = Received(a) /\ Hands(b)
    BY <1>1, <1>2, <2>1 DEF Received, Hands
  <2>3. Steady(a) => Steady(b)
    BY <1>1, <1>2, <2>1 DEF Steady
  <2>4. Clear(a) => Clear(b)
    BY <1>1, <1>2, <2>1 DEF Clear
  <2> QED  BY <1>1, <1>2, <2>1, <2>2, <2>3, <2>4 DEF QuietAgent
<1>3. a.hand \in Nat /\ a.lost \in Nat /\ a.done \in Nat /\ a.job \in {"none", "queued", "hand", "owed"}
  BY <1>1 DEF Agents
<1>4. CASE agent' = [agent EXCEPT ![k].done = @ + agent[k].hand, ![k].hand = 0, ![k].stage = next,
                          ![k].job = IF @ = "hand" THEN "none" ELSE @]
  <2> DEFINE m == IF a.job = "hand" THEN "none" ELSE a.job
             b == [a EXCEPT !.done = a.done + a.hand, !.hand = 0, !.stage = next, !.job = m]
  <2>1. m # "hand" /\ (a.job \notin {"hand", "owed"} => m = a.job)
    OBVIOUS
  <2>2. agent' = [agent EXCEPT ![k] = b]
    BY <1>1, <1>4
  <2>3. agent'[k] = b
    BY <1>1, <2>2
  <2>4. /\ b.live = a.live /\ b.busy /\ b.task = a.task /\ b.woken = a.woken /\ b.held = a.held /\ b.hand = 0
        /\ b.done = a.done + a.hand /\ b.lost = a.lost /\ b.ahead = a.ahead /\ b.job = m /\ b.stage # "begun"
    BY <1>1 DEF Agents
  <2>5. a.lost = a.lost + (a.hand - a.hand) /\ a.hand <= a.hand
    BY <1>3
  <2> HIDE DEF m, b, a
  <2> QED  BY <1>2, <1>3, <2>1, <2>3, <2>4, <2>5 DEF a
<1>5. ASSUME NEW n \in 0..agent[k].hand,
             agent' = [agent EXCEPT ![k].done = @ + n, ![k].lost = @ + (agent[k].hand - n), ![k].hand = 0,
                         ![k].stage = "over", ![k].job = IF @ = "hand" THEN "owed" ELSE @]
      PROVE  QuietAgent(a, agent'[k])
  <2> DEFINE m == IF a.job = "hand" THEN "owed" ELSE a.job
             b == [a EXCEPT !.done = a.done + n, !.lost = a.lost + (a.hand - n), !.hand = 0, !.stage = "over", !.job = m]
  <2>1. m # "hand" /\ (a.job \notin {"hand", "owed"} => m = a.job) /\ n \in Nat /\ n <= a.hand
    BY <1>3
  <2>2. agent' = [agent EXCEPT ![k] = b]
    BY <1>1, <1>5
  <2>3. agent'[k] = b
    BY <1>1, <2>2
  <2>4. /\ b.live = a.live /\ b.busy /\ b.task = a.task /\ b.woken = a.woken /\ b.held = a.held /\ b.hand = 0
        /\ b.done = a.done + n /\ b.lost = a.lost + (a.hand - n) /\ b.ahead = a.ahead /\ b.job = m /\ b.stage # "begun"
    BY <1>1 DEF Agents
  <2> HIDE DEF m, a, b
  <2> QED  BY <1>2, <2>1, <2>3, <2>4
<1> QED  BY <1>4, <1>5 DEF Commits, a

LEMMA TakesQuiet == ASSUME SubInv, NEW k \in Kids, TurnTakes(k) PROVE QuietAgent(agent[k], agent'[k])
<1> DEFINE a == agent[k]
           m == IF a.job = "queued" THEN "hand" ELSE a.job
           b == [a EXCEPT !.hand = a.held, !.held = 0, !.stage = "drained", !.job = m, !.ahead = 0]
<1>1. a \in Agents /\ agent \in [Kids -> Agents] /\ a.busy /\ a.hand = 0
  BY DEF SubInv, Typed, TypedChildren, TurnTakes, Empty
<1>2. agent'[k] = b
  BY <1>1 DEF TurnTakes
<1> HIDE DEF a
<1>3. QuietAgent(a, b)
  BY <1>1 DEF Agents, QuietAgent, Received, Hands, Steady, Clear
<1> QED  BY <1>2, <1>3 DEF a

LEMMA EndQuiet == ASSUME SubInv, NEW k \in Kids, TurnEnd(k) PROVE QuietAgent(agent[k], agent'[k])
<1> DEFINE a == agent[k]
           n == IF a.job = "queued" THEN a.ahead + a.hand ELSE 0
           m == IF a.job = "hand" THEN "queued" ELSE a.job
           c == [a EXCEPT !.held = a.held + a.hand, !.hand = 0, !.ahead = n, !.job = m]
           left == c.held > 0 \/ c.job = "queued"
<1>1. /\ a \in Agents /\ agent \in [Kids -> Agents] /\ a.busy
      /\ (a.stage = "begun" \/ (a.hand = 0 /\ a.job # "hand"))
  BY DEF SubInv, Typed, TypedChildren, TurnEnd, Empty
<1>2. PICK v \in BOOLEAN : v = (left /\ (~c.cut \/ c.woken) /\ c.mode = "continuable")
  OBVIOUS
<1> DEFINE b == [c EXCEPT !.busy = FALSE, !.stage = "over", !.ended = TRUE, !.woken = v]
<1>3. agent'[k] = b
  BY <1>1, <1>2 DEF TurnEnd
<1> HIDE DEF a
<1>4. n \in Nat /\ m \in {"none", "queued", "owed"} /\ (a.job = "queued" => n = a.ahead + a.hand)
      /\ (a.job # "queued" => n = 0) /\ (a.job \notin {"hand", "queued"} => m = a.job) /\ (a.job \in {"hand", "queued"} => m = "queued")
  BY <1>1 DEF Agents
<1> HIDE DEF n, m
<1>5. b = [a EXCEPT !.held = a.held + a.hand, !.hand = 0, !.ahead = n, !.job = m, !.busy = FALSE, !.stage = "over",
                    !.ended = TRUE, !.woken = v]
  OBVIOUS
<1>6. QuietAgent(a, b)
  BY <1>1, <1>2, <1>4, <1>5 DEF Agents, QuietAgent, Received, Hands, Empty, Steady, Clear
<1> QED  BY <1>3, <1>6 DEF a

LEMMA JobQuiet == ASSUME SubInv, NEW k \in Kids, Hands(agent[k]), JobNotice(k) PROVE QuietAgent(agent[k], agent'[k])
<1> DEFINE a == agent[k]
           v == a.woken \/ (a.busy /\ a.cut) \/ (~a.busy /\ ~a.task)
           b == [a EXCEPT !.woken = v, !.job = "queued", !.ahead = a.held]
<1>1. a \in Agents /\ agent \in [Kids -> Agents] /\ a.live /\ a.job = "none"
  BY DEF SubInv, Typed, TypedChildren, JobNotice
<1>2. agent'[k] = b
  <2>1. agent' = [agent EXCEPT ![k] = [Enqueued(a) EXCEPT !.held = a.held, !.job = "queued", !.ahead = a.held]]
    BY DEF JobNotice
  <2>2. [Enqueued(a) EXCEPT !.held = a.held, !.job = "queued", !.ahead = a.held] = b
    <3> HIDE DEF a
    <3> QED  BY <1>1 DEF Enqueued, Agents
  <2> HIDE DEF b
  <2> QED  BY <1>1, <2>1, <2>2
<1>3. v \in BOOLEAN /\ Hands(a)
  BY <1>1 DEF Agents
<1> HIDE DEF a, v
<1>4. Received(b) = Received(a) /\ Hands(b) /\ b.live = a.live /\ b.done = a.done /\ b.busy = a.busy /\ b.held = a.held
  BY <1>1, <1>3 DEF Agents, Received, Hands, Empty
<1>5. Steady(a) => Steady(b)
  BY <1>1, <1>3 DEF Agents, Steady
<1>6. Clear(a) => Clear(b)
  BY <1>1, <1>3 DEF Agents, Clear
<1>7. b.done \in Nat /\ b.done >= a.done
  BY <1>1, <1>4 DEF Agents
<1>8. QuietAgent(a, b)
  BY <1>4, <1>5, <1>6, <1>7 DEF QuietAgent
<1> QED  BY <1>2, <1>8 DEF a

LEMMA InterruptQuiet == ASSUME NEW a \in Agents, Hands(a) PROVE QuietAgent(a, Interrupted(a))
BY DEF Agents, QuietAgent, Received, Hands, Empty, Steady, Clear, Interrupted

\* A step of one agent, or of the calls alone.
LEMMA AgentDecide ==
  ASSUME SubInv, DecideInv, NEW k \in Kids, QuietAgent(agent[k], agent'[k]), \A j \in Kids \ {k} : agent'[j] = agent[j],
         handle' = handle, watcher' = watcher, \A j \in Kids \ {k} : rel'[j] = rel[j], ReleaseCalm(rel[k], rel'[k]),
         CallsCalm, registry' = "open" => registry = "open"
  PROVE  DecideInv'
<1> DEFINE S == {}
<1>1. \A j \in Kids : WatcherCalm(watcher[j], watcher'[j])
  BY SameCalm
<1>2. ASSUME NEW j \in Kids PROVE Still(j)
  <2>1. CASE j = k
    BY <1>1, <2>1 DEF Still
  <2>2. CASE j # k
    BY <1>1, <2>2, SameStill
  <2> QED  BY <2>1, <2>2
<1>3. HandlesCalm /\ WatchersCalm
  BY DEF HandlesCalm, WatchersCalm
<1>4. /\ \A j \in Kids : j \notin S => Still(j)
      /\ \A j \in Kids : j \in S => Decided(handle'[j], watcher'[j], rel'[j], agent'[j], registry')
      /\ \A j \in Kids : watcher'[j].pc = "releasing" => watcher[j].pc = "releasing"
  BY <1>2
<1> HIDE DEF S
<1> QED  BY <1>3, <1>4, CalmBut

LEMMA CallsDecide ==
  ASSUME SubInv, DecideInv, agent' = agent, handle' = handle, watcher' = watcher, rel' = rel, CallsCalm,
         registry' = "open" => registry = "open"
  PROVE  DecideInv'
<1> DEFINE S == {}
<1>1. \A j \in Kids : WatcherCalm(watcher[j], watcher'[j])
  BY SameCalm
<1>2. \A j \in Kids : j \notin S => Still(j)
  BY <1>1, SameStill
<1>3. /\ \A j \in Kids : j \in S => Decided(handle'[j], watcher'[j], rel'[j], agent'[j], registry')
      /\ \A j \in Kids : watcher'[j].pc = "releasing" => watcher[j].pc = "releasing"
  OBVIOUS
<1>4. HandlesCalm /\ WatchersCalm
  BY DEF HandlesCalm, WatchersCalm
<1> HIDE DEF S
<1> QED  BY <1>2, <1>3, <1>4, CalmBut

\* A step of one watcher alone that does not begin a release.
LEMMA WatcherDecide ==
  ASSUME SubInv, DecideInv, NEW k \in Kids, watcher[k].pc # "idle", NEW w, w.pc # "releasing",
         watcher' = [watcher EXCEPT ![k] = w], Looks(w, agent[k]),
         UNCHANGED <<registry, handle, agent, rel, call>>
  PROVE  DecideInv'
<1>1. watcher \in [Kids -> Watchers \cup {Idle}]
  BY DEF SubInv, Typed, TypedChildren
<1>2. watcher'[k] = w /\ \A j \in Kids \ {k} : watcher'[j] = watcher[j]
  BY <1>1
<1>3. \A j \in Kids : j \notin {k} => Still(j)
  BY <1>2, SameCalm, SameStill
<1>4. Decided(handle[k], watcher[k], rel[k], agent[k], registry)
  BY DEF DecideInv
<1>5. Decided(handle[k], w, rel[k], agent[k], registry)
  BY <1>4 DEF Decided, Leaves
<1>6. \A j \in Kids : j \in {k} => Decided(handle'[j], watcher'[j], rel'[j], agent'[j], registry')
  BY <1>2, <1>5
<1>7. \A j \in Kids : watcher'[j].pc = "releasing" => watcher[j].pc = "releasing"
  BY <1>2
<1>8. HandlesCalm /\ WatchersCalm /\ CallsCalm
  BY <1>2 DEF HandlesCalm, WatchersCalm, CallsCalm
<1> QED  BY <1>3, <1>6, <1>7, <1>8, CalmBut

LEMMA TurnDecide ==
  ASSUME SubInv, DecideInv, NEW k \in Kids,
         TurnBegin(k) \/ TurnOpens(k) \/ TurnTakes(k) \/ TurnCommits(k) \/ TurnEnd(k) \/ JobNotice(k)
  PROVE  DecideInv'
<1>1. Hands(agent[k]) /\ agent \in [Kids -> Agents]
  BY DEF DecideInv, Decided, SubInv, Typed, TypedChildren
<1>2. QuietAgent(agent[k], agent'[k])
  <2>1. CASE TurnOpens(k) \/ TurnCommits(k)
    <3>1. agent[k].busy /\ \E next \in {"opened", "drained"} : Commits(k, next)
      BY <2>1 DEF TurnOpens, TurnCommits
    <3> QED  BY <3>1, CommitsQuiet
  <2>2. CASE TurnBegin(k) \/ TurnTakes(k) \/ TurnEnd(k) \/ JobNotice(k)
    BY <1>1, <2>2, BeginQuiet, TakesQuiet, EndQuiet, JobQuiet
  <2> QED  BY <2>1, <2>2
<1>3. \A j \in Kids \ {k} : agent'[j] = agent[j]
  <2>1. CASE TurnOpens(k) \/ TurnCommits(k)
    <3>1. PICK next \in {"opened", "drained"} : Commits(k, next)
      BY <2>1 DEF TurnOpens, TurnCommits
    <3> QED  BY <1>1, <3>1 DEF Commits
  <2>2. CASE TurnBegin(k)
    BY <1>1, <2>2 DEF TurnBegin
  <2>3. CASE TurnTakes(k)
    BY <1>1, <2>3 DEF TurnTakes
  <2>4. CASE TurnEnd(k) \/ JobNotice(k)
    BY <1>1, <2>4 DEF TurnEnd, JobNotice
  <2> QED  BY <2>1, <2>2, <2>3, <2>4
<1>4. UNCHANGED <<registry, handle, watcher, rel, call>>
  BY DEF TurnBegin, TurnOpens, TurnTakes, TurnCommits, TurnEnd, JobNotice
<1>5. CallsCalm
  BY <1>4 DEF CallsCalm
<1>6. (\A j \in Kids \ {k} : rel'[j] = rel[j]) /\ ReleaseCalm(rel[k], rel'[k])
  BY <1>4 DEF ReleaseCalm
<1> QED  BY <1>2, <1>3, <1>4, <1>5, <1>6, AgentDecide

LEMMA CutDecide ==
  ASSUME SubInv, DecideInv, NEW k \in Kids, AgentCut(k) \/ \E s \in Pools : Interrupt(s, k)
  PROVE  DecideInv'
<1>1. /\ agent' = [agent EXCEPT ![k] = Interrupted(@)] /\ call' = CutTurn(k)
      /\ UNCHANGED <<registry, handle, watcher, rel>>
  BY DEF AgentCut, Interrupt
<1>2. TypedChildren /\ agent[k] \in Agents /\ Hands(agent[k]) /\ agent \in [Kids -> Agents]
  BY DEF DecideInv, Decided, SubInv, Typed, TypedChildren
<1>3. agent' = [agent EXCEPT ![k] = Interrupted(agent[k])]
  BY <1>1
<1>4. agent'[k] = Interrupted(agent[k]) /\ \A j \in Kids \ {k} : agent'[j] = agent[j]
  BY <1>2, <1>3
<1>5. QuietAgent(agent[k], agent'[k])
  BY <1>2, <1>4, InterruptQuiet
<1>6. CallsCalm
  BY <1>1, <1>2, CutCalm
<1>7. (\A j \in Kids \ {k} : rel'[j] = rel[j]) /\ ReleaseCalm(rel[k], rel'[k])
  BY <1>1 DEF ReleaseCalm
<1> QED  BY <1>1, <1>4, <1>5, <1>6, <1>7, AgentDecide

\* The steps of the calls, of the registry and of stop that touch no child.
LEMMA CallDecide ==
  ASSUME SubInv, DecideInv, NEW t \in Threads,
         Catalog(t) \/ Result(t) \/ DeliverElse(t) \/ WaitRelease(t) \/ CancelCall(t)
  PROVE  DecideInv'
<1>1. TypedChildren /\ call \in [Threads -> Calls \cup {Idle}]
  BY DEF SubInv, Typed, TypedChildren
<1>2. CallsCalm
  <2>1. CASE Catalog(t)
    <3>1. CASE call' = [call EXCEPT ![t].pc = "submit", ![t].started = TRUE]
      <4>1. call[t] \in Calls /\ call[t].pc = "catalog"
        BY <1>1, <2>1, CallIs DEF Catalog
      <4> DEFINE b == [call[t] EXCEPT !.pc = "submit", !.started = TRUE]
      <4>2. b.obj = call[t].obj
        BY <4>1 DEF Calls
      <4>3. call' = [call EXCEPT ![t] = b]
        BY <1>1, <3>1
      <4> HIDE DEF b
      <4>4. call'[t] = b /\ \A u \in Threads \ {t} : call'[u] = call[u]
        BY <1>1, <4>3
      <4> QED  BY <4>1, <4>2, <4>4 DEF CallsCalm
    <3>2. CASE Go(t, "close") /\ call[t].pc # "idle"
      BY <1>1, <3>2, GoCalm DEF Go
    <3> QED  BY <2>1, <3>1, <3>2 DEF Catalog
  <2>2. CASE Result(t)
    BY <1>1, <2>2, GoCalm DEF Result, Go
  <2>3. CASE DeliverElse(t)
    <3>1. CASE Return(t)
      BY <1>1, <3>1, ReturnCalm
    <3>2. CASE Go(t, "resume") /\ call[t].pc # "idle"
      BY <1>1, <3>2, GoCalm DEF Go
    <3>3. CASE call' = [call EXCEPT ![t].pc = "wait", ![t].obj = Object(call[t].target)]
      <4>1. call[t] \in Calls
        BY <1>1, <2>3, CallIs DEF DeliverElse
      <4> DEFINE b == [call[t] EXCEPT !.pc = "wait", !.obj = Object(call[t].target)]
      <4>2. b.pc = "wait"
        BY <4>1 DEF Calls
      <4>3. call' = [call EXCEPT ![t] = b]
        BY <1>1, <3>3
      <4> HIDE DEF b
      <4>4. call'[t] = b /\ \A u \in Threads \ {t} : call'[u] = call[u]
        BY <1>1, <4>3
      <4> QED  BY <4>2, <4>4 DEF CallsCalm
    <3> QED  BY <2>3, <3>1, <3>2, <3>3 DEF DeliverElse
  <2>4. CASE WaitRelease(t)
    BY <1>1, <2>4, GoCalm, ReturnCalm DEF WaitRelease, Go
  <2>5. CASE CancelCall(t)
    BY <1>1, <2>5, CancelCalm DEF CancelCall
  <2> QED  BY <2>1, <2>2, <2>3, <2>4, <2>5
<1>3. UNCHANGED <<registry, handle, watcher, rel, agent>>
  BY DEF Catalog, Result, DeliverElse, WaitRelease, CancelCall
<1> QED  BY <1>2, <1>3, CallsDecide

LEMMA OtherDecide ==
  ASSUME SubInv, DecideInv, RootCut \/ RegistryStop \/ RegistryStopped \/ Stop
  PROVE  DecideInv'
<1>1. UNCHANGED <<handle, watcher, rel, agent>> /\ (registry' = "open" => registry = "open")
  BY DEF RootCut, RegistryStop, RegistryStopped, Stop
<1>2. CallsCalm
  <2>1. CASE call' = call
    BY <2>1 DEF CallsCalm
  <2>2. CASE RootCut
    BY <2>2, CancelCalm DEF RootCut, SubInv, Typed
  <2> QED  BY <2>1, <2>2 DEF RegistryStop, RegistryStopped, Stop
<1> QED  BY <1>1, <1>2, CallsDecide

LEMMA NewCallDecide ==
  ASSUME SubInv, DecideInv, NEW t \in Threads, NEW s \in Pools,
         \/ \E mode \in Modes, bg \in BOOLEAN : Start(t, s, mode, bg)
         \/ \E target \in Pools : Send(t, s, target)
  PROVE  DecideInv'
<1>1. call \in [Threads -> Calls \cup {Idle}]
  BY DEF SubInv, Typed, TypedChildren
<1>2. UNCHANGED <<registry, handle, watcher, rel, agent>>
  BY DEF Start, Send
<1>3. \E c : call' = [call EXCEPT ![t] = c] /\ c.pc \notin {"catalog", "submit"}
  <2>1. ASSUME NEW mode \in Modes, NEW bg \in BOOLEAN, Start(t, s, mode, bg)
        PROVE  \E c : call' = [call EXCEPT ![t] = c] /\ c.pc \notin {"catalog", "submit"}
    <3> DEFINE c == [pc |-> "create", caller |-> s, mode |-> mode, bg |-> bg, started |-> FALSE,
                     pool |-> IF mode = "continuable" THEN PoolOf(s) ELSE None,
                     obj |-> <<>>, target |-> None, cancelled |-> FALSE]
    <3>1. call' = [call EXCEPT ![t] = c]
      BY <2>1, Zenon DEF Start
    <3>2. c.pc = "create"
      OBVIOUS
    <3> HIDE DEF c
    <3> QED  BY <3>1, <3>2
  <2>2. ASSUME NEW target \in Pools, Send(t, s, target)
        PROVE  \E c : call' = [call EXCEPT ![t] = c] /\ c.pc \notin {"catalog", "submit"}
    <3> DEFINE c == [pc |-> "deliver", caller |-> s, mode |-> None, bg |-> FALSE, started |-> TRUE,
                     pool |-> None, obj |-> <<>>, target |-> target, cancelled |-> FALSE]
    <3>1. call' = [call EXCEPT ![t] = c]
      BY <2>2, Zenon DEF Send
    <3>2. c.pc = "deliver"
      OBVIOUS
    <3> HIDE DEF c
    <3> QED  BY <3>1, <3>2
  <2> QED  BY <2>1, <2>2
<1>4. CallsCalm
  BY <1>1, <1>3 DEF CallsCalm
<1> QED  BY <1>2, <1>4, CallsDecide

\* What a watcher reads.
LEMMA LookDecide ==
  ASSUME SubInv, DecideInv, NEW k \in Kids,
         WatchTop(k) \/ WatchIdle(k) \/ WatchEvents(k) \/ WatchStatus(k) \/ WatchParked(k)
  PROVE  DecideInv'
<1>1. watcher[k].pc # "idle" /\ UNCHANGED <<registry, handle, agent, rel, call>>
  BY DEF WatchTop, WatchIdle, WatchEvents, WatchStatus, WatchParked
<1>2. watcher \in [Kids -> Watchers \cup {Idle}] /\ watcher[k] \in Watchers /\ agent[k] \in Agents
  BY <1>1, WatcherIs
<1>3. Looks(watcher[k], agent[k])
  BY DEF DecideInv, Decided
<1>4. ASSUME NEW w, watcher' = [watcher EXCEPT ![k] = w], w.pc # "releasing", Looks(w, agent[k]) PROVE DecideInv'
  BY <1>1, <1>4, WatcherDecide
<1>5. Looks(Idle, agent[k]) /\ Idle.pc # "releasing"
  BY DEF Looks, Looking, Idle
<1>6. CASE WatchTop(k) \/ WatchParked(k)
  <2>1. ASSUME NEW pc \in {"idle wait", "top"}, NEW v \in BOOLEAN
        PROVE  LET w == [watcher[k] EXCEPT !.pc = pc, !.stale = v] IN Looks(w, agent[k]) /\ w.pc # "releasing"
    BY <1>2 DEF Looks, Looking, Watchers
  <2>2. CASE WatchTop(k)
    <3>1. \/ watcher' = [watcher EXCEPT ![k] = Idle]
          \/ watcher' = [watcher EXCEPT ![k] = [watcher[k] EXCEPT !.pc = "idle wait", !.stale = FALSE]]
      BY <1>2, <2>2 DEF WatchTop
    <3> QED  BY <1>4, <1>5, <2>1, <3>1
  <2>3. CASE WatchParked(k)
    <3>1. \/ watcher' = [watcher EXCEPT ![k] = Idle]
          \/ watcher' = [watcher EXCEPT ![k] = [watcher[k] EXCEPT !.pc = "top", !.stale = watcher[k].stale]]
      BY <1>2, <2>3 DEF WatchParked, Watchers
    <3>2. watcher[k].stale \in BOOLEAN
      BY <1>2 DEF Watchers
    <3> QED  BY <1>4, <1>5, <2>1, <3>1, <3>2
  <2> QED  BY <1>6, <2>2, <2>3
<1>7. CASE WatchIdle(k)
  <2> DEFINE w == [watcher[k] EXCEPT !.pc = "events"]
  <2>1. \/ watcher' = [watcher EXCEPT ![k] = Idle]
        \/ (IsIdle(k) \/ ~agent[k].live) /\ watcher' = [watcher EXCEPT ![k] = w]
    BY <1>2, <1>7 DEF WatchIdle
  <2>2. w.pc = "events"
    BY <1>2 DEF Watchers
  <2>3. IsIdle(k) \/ ~agent[k].live => Looks(w, agent[k])
    BY <2>2 DEF Looks, Looking, Steady, IsIdle
  <2> HIDE DEF w
  <2> QED  BY <1>4, <1>5, <2>1, <2>2, <2>3
<1>8. CASE WatchEvents(k)
  <2> DEFINE w == [watcher[k] EXCEPT !.pc = "status", !.seen = agent[k].done]
  <2>1. watcher' = [watcher EXCEPT ![k] = w]
    BY <1>2, <1>8 DEF WatchEvents
  <2>2. w.pc = "status" /\ w.seen = agent[k].done /\ w.stale = watcher[k].stale /\ agent[k].done \in Nat /\ watcher[k].pc = "events"
    BY <1>2, <1>8 DEF Watchers, Agents, WatchEvents
  <2> HIDE DEF w
  <2>3. Looks(w, agent[k])
    BY <1>3, <2>2 DEF Looks, Looking
  <2> QED  BY <1>4, <2>1, <2>2, <2>3
<1>9. CASE WatchStatus(k)
  <2> DEFINE v == agent[k].held > 0 \/ agent[k].job = "queued"
             w == [watcher[k] EXCEPT !.pc = "decide", !.held = v]
  <2>1. watcher' = [watcher EXCEPT ![k] = w]
    BY <1>2, <1>9 DEF WatchStatus
  <2>2. w.pc = "decide" /\ w.seen = watcher[k].seen /\ w.stale = watcher[k].stale /\ w.held = v /\ watcher[k].pc = "status"
    BY <1>2, <1>9 DEF Watchers, WatchStatus
  <2>3. agent[k].held \in Nat /\ agent[k].hand \in Nat
    BY <1>2 DEF Agents
  <2>4. agent[k].live /\ ~watcher[k].stale => Steady(agent[k])
    BY <1>3, <2>2 DEF Looks, Looking
  <2>5. agent[k].live /\ ~watcher[k].stale /\ ~v => Clear(agent[k])
    BY <2>3, <2>4 DEF Steady, Clear
  <2> HIDE DEF v, w
  <2>6. Looks(w, agent[k])
    BY <1>3, <2>2, <2>4, <2>5 DEF Looks, Looking
  <2> QED  BY <1>4, <2>1, <2>2, <2>6
<1> QED  BY <1>6, <1>7, <1>8, <1>9

\* The steps of a release up to the end of the agent.
LEMMA ReleaseDecide ==
  ASSUME SubInv, DecideInv, NEW k \in Kids, ReleaseInterrupt(k) \/ ReleaseList(k)
  PROVE  DecideInv'
<1>1. /\ UNCHANGED <<registry, handle, watcher>> /\ TypedChildren /\ rel[k].pc \in {"interrupt", "list"}
      /\ agent \in [Kids -> Agents] /\ agent[k] \in Agents /\ Hands(agent[k])
  BY DEF ReleaseInterrupt, ReleaseList, SubInv, Typed, TypedChildren, DecideInv, Decided
<1>2. rel \in [Kids -> Releases \cup {Idle}] /\ rel[k] \in Releases
  BY <1>1, ReleaseIs
<1>3. CASE ReleaseInterrupt(k)
  <2>1. rel' = [rel EXCEPT ![k] = [rel[k] EXCEPT !.pc = "list"]] /\ agent' = [agent EXCEPT ![k] = Interrupted(agent[k])]
        /\ call' = CutTurn(k)
    BY <1>1, <1>2, <1>3 DEF ReleaseInterrupt
  <2>2. [rel[k] EXCEPT !.pc = "list"].pc = "list"
    BY <1>2 DEF Releases
  <2>3. (\A j \in Kids \ {k} : rel'[j] = rel[j]) /\ ReleaseCalm(rel[k], rel'[k])
    BY <1>1, <1>2, <2>1, <2>2 DEF ReleaseCalm, Closing
  <2>4. QuietAgent(agent[k], agent'[k]) /\ \A j \in Kids \ {k} : agent'[j] = agent[j]
    BY <1>1, <2>1, InterruptQuiet
  <2>5. CallsCalm
    BY <1>1, <2>1, CutCalm
  <2> QED  BY <1>1, <2>3, <2>4, <2>5, AgentDecide
<1>4. CASE ReleaseList(k)
  <2>1. PICK T : rel' = [rel EXCEPT ![k] = [rel[k] EXCEPT !.pc = "children", !.todo = T]]
    BY <1>2, <1>4 DEF ReleaseList
  <2>2. [rel[k] EXCEPT !.pc = "children", !.todo = T].pc = "children"
    BY <1>2 DEF Releases
  <2>3. (\A j \in Kids \ {k} : rel'[j] = rel[j]) /\ ReleaseCalm(rel[k], rel'[k])
    BY <1>1, <1>2, <2>1, <2>2 DEF ReleaseCalm, Closing
  <2>4. agent' = agent /\ call' = call
    BY <1>4 DEF ReleaseList
  <2>5. QuietAgent(agent[k], agent'[k]) /\ CallsCalm
    BY <1>1, <2>4, SameAgentQuiet DEF CallsCalm
  <2> QED  BY <1>1, <2>3, <2>4, <2>5, AgentDecide
<1> QED  BY <1>3, <1>4

\* A child that somebody begins to close is not the one its watcher releases.
LEMMA MarkedDecided ==
  ASSUME SubInv, DecideInv, NEW d \in Kids, handle[d] # None, ~handle[d].closing,
         handle'[d] # None, handle'[d].closing, agent'[d] = agent[d], rel'[d].pc = "interrupt", registry' = registry,
         watcher'[d].pc = watcher[d].pc, watcher[d].pc # "idle" => watcher'[d].stale /\ watcher'[d].seen = watcher[d].seen
  PROVE  Decided(handle'[d], watcher'[d], rel'[d], agent'[d], registry') /\ watcher'[d].pc # "releasing"
<1> DEFINE a == agent[d]
           v == watcher'[d]
           w == watcher[d]
<1>1. /\ Hands(a) /\ Dead(a, rel[d]) /\ Looks(w, a) /\ w.pc # "releasing"
  BY DEF DecideInv, Decided
<1>2. rel[d].pc = "idle" /\ (registry = "open" => a.live)
  BY DEF SubInv, Tree, Attended, AttendedBy, Settling, Settled
<1>3. v.pc = w.pc /\ (w.pc # "idle" => v.stale /\ v.seen = w.seen)
  OBVIOUS
<1> HIDE DEF a, v, w
<1>4. Dead(a, rel'[d])
  BY <1>1, <1>2 DEF Dead
<1>5. Looks(v, a)
  BY <1>1, <1>3 DEF Looks, Looking
<1>6. handle'[d] # None => Leaves(handle'[d].delivered, v, rel'[d], a)
  BY <1>1, <1>3 DEF Leaves
<1> QED  BY <1>1, <1>2, <1>3, <1>4, <1>5, <1>6 DEF Decided, a, v

LEMMA CloseNextDecide ==
  ASSUME SubInv, DecideInv, NEW o \in Objects, CloseNext(o), NEW r, rel' = Releasing(r, o),
         r \in [Kids -> Releases \cup {Idle}], \A j \in Kids : r[j].pc = rel[j].pc,
         agent' = agent, call' = call, registry' = registry
  PROVE  DecideInv'
<1>1. o[1] \in Kids /\ watcher \in [Kids -> Watchers \cup {Idle}]
  BY DEF Objects, SubInv, Typed, TypedChildren
<1>2. CallsCalm
  BY DEF CallsCalm
<1>a. \A j \in Kids : agent[j] \in Agents /\ Hands(agent[j])
  BY DEF SubInv, Typed, TypedChildren, DecideInv, Decided
<1>b. \A j \in Kids : QuietAgent(agent[j], agent'[j])
  BY <1>a, SameAgentQuiet
<1>3. CASE Present(o) /\ ~handle[o[1]].closing
  <2>1. handle' = [handle EXCEPT ![o[1]].closing = TRUE] /\ watcher' = Wake(watcher, o[1]) /\ handle[o[1]] # None
    BY <1>3 DEF CloseNext, Present, Resident
  <2>2. /\ handle'[o[1]] # None /\ handle'[o[1]].closing
        /\ \A j \in Kids \ {o[1]} : handle'[j] = handle[j]
    BY <1>1, <1>3, <2>1, ClosingIs DEF Housed
  <2>3. /\ \A j \in Kids \ {o[1]} : watcher'[j] = watcher[j]
        /\ watcher'[o[1]].pc = watcher[o[1]].pc
        /\ watcher[o[1]].pc # "idle" => watcher'[o[1]].stale /\ watcher'[o[1]].seen = watcher[o[1]].seen
    BY <1>1, <2>1, WakeIs
  <2>4. rel' = [r EXCEPT ![o[1]] = Begun(FALSE)] /\ Begun(FALSE).pc = "interrupt"
    BY <1>3, BegunIs DEF Releasing
  <2>5. rel'[o[1]].pc = "interrupt" /\ \A j \in Kids \ {o[1]} : rel'[j] = r[j]
    BY <1>1, <2>4
  <2> DEFINE S == {o[1]}
  <2>6. \A j \in Kids : j \notin S => Still(j)
    <3> SUFFICES ASSUME NEW j \in Kids, j # o[1] PROVE Still(j)
      OBVIOUS
    <3>1. WatcherCalm(watcher[j], watcher'[j]) /\ ReleaseCalm(rel[j], rel'[j])
      BY <2>3, <2>5, SameCalm DEF ReleaseCalm
    <3> QED  BY <1>b, <2>2, <3>1 DEF Still
  <2>7. Decided(handle'[o[1]], watcher'[o[1]], rel'[o[1]], agent'[o[1]], registry') /\ watcher'[o[1]].pc # "releasing"
    BY <1>1, <1>3, <2>1, <2>2, <2>3, <2>5, MarkedDecided
  <2>8. HandlesCalm /\ WatchersCalm
    BY <1>1, <2>2, <2>3 DEF HandlesCalm, WatchersCalm
  <2>9. /\ \A j \in Kids : j \in S => Decided(handle'[j], watcher'[j], rel'[j], agent'[j], registry')
        /\ \A j \in Kids : watcher'[j].pc = "releasing" => watcher[j].pc = "releasing"
    BY <2>3, <2>7
  <2> HIDE DEF S
  <2> QED  BY <1>2, <2>6, <2>8, <2>9, CalmBut
<1>4. CASE ~(Present(o) /\ ~handle[o[1]].closing)
  <2>1. handle' = handle /\ watcher' = watcher /\ rel' = r
    BY <1>4 DEF CloseNext, Releasing
  <2>2. HandlesCalm /\ WatchersCalm
    BY <2>1 DEF HandlesCalm, WatchersCalm
  <2> DEFINE S == {}
  <2>3. \A j \in Kids : j \notin S => Still(j)
    BY <1>b, <2>1, SameCalm DEF Still, ReleaseCalm
  <2>4. /\ \A j \in Kids : j \in S => Decided(handle'[j], watcher'[j], rel'[j], agent'[j], registry')
        /\ \A j \in Kids : watcher'[j].pc = "releasing" => watcher[j].pc = "releasing"
    BY <2>1
  <2> HIDE DEF S
  <2> QED  BY <1>2, <2>2, <2>3, <2>4, CalmBut
<1> QED  BY <1>3, <1>4

LEMMA StopChildDecide == ASSUME SubInv, DecideInv, StopChild PROVE DecideInv'
<1>1. UNCHANGED <<registry, agent, call>> /\ rel \in [Kids -> Releases \cup {Idle}] /\ stopTodo.todo \subseteq Objects
  BY DEF StopChild, SubInv, Typed, TypedChildren, TypedRest
<1>2. CASE \E o \in stopTodo.todo : CloseNext(o) /\ rel' = Releasing(rel, o)
  BY <1>1, <1>2, CloseNextDecide
<1>3. CASE UNCHANGED <<handle, watcher, rel>>
  <2>1. CallsCalm
    BY <1>1 DEF CallsCalm
  <2> QED  BY <1>1, <1>3, <2>1, CallsDecide
<1> QED  BY <1>2, <1>3 DEF StopChild

LEMMA ReleaseChildDecide == ASSUME SubInv, DecideInv, NEW k \in Kids, ReleaseChild(k) PROVE DecideInv'
<1>1. /\ UNCHANGED <<registry, agent, call>> /\ rel \in [Kids -> Releases \cup {Idle}] /\ rel[k] \in Releases /\ rel[k].pc = "children"
      /\ agent[k] \in Agents /\ Hands(agent[k])
  BY ReleaseIs DEF ReleaseChild, SubInv, Typed, TypedChildren, DecideInv, Decided
<1>2. rel[k].todo \subseteq Objects
  BY <1>1 DEF Releases
<1>3. CASE \E o \in rel[k].todo : CloseNext(o) /\ rel' = Releasing([rel EXCEPT ![k].cur = o], o)
  <2>1. PICK o \in Objects : CloseNext(o) /\ rel' = Releasing([rel EXCEPT ![k].cur = o], o)
    BY <1>2, <1>3
  <2> DEFINE q == [rel[k] EXCEPT !.cur = o]
             r == [rel EXCEPT ![k] = q]
  <2>2. q \in Releases /\ q.pc = rel[k].pc
    BY <1>1 DEF Releases
  <2>3. rel' = Releasing(r, o)
    BY <1>1, <2>1
  <2> HIDE DEF q
  <2>4. r \in [Kids -> Releases \cup {Idle}] /\ \A j \in Kids : r[j].pc = rel[j].pc
    BY <1>1, <2>2
  <2> HIDE DEF r
  <2> QED  BY <1>1, <2>1, <2>3, <2>4, CloseNextDecide
<1>4. CASE UNCHANGED <<handle, watcher>> /\ \E q : rel' = [rel EXCEPT ![k] = q] /\ q.pc \in {"children", "unmount"}
  <2>1. (\A j \in Kids \ {k} : rel'[j] = rel[j]) /\ ReleaseCalm(rel[k], rel'[k])
    BY <1>1, <1>4 DEF ReleaseCalm, Closing
  <2>2. QuietAgent(agent[k], agent'[k]) /\ CallsCalm
    BY <1>1, SameAgentQuiet DEF CallsCalm
  <2> QED  BY <1>1, <1>4, <2>1, <2>2, AgentDecide
<1>5. CASE rel' = [rel EXCEPT ![k].todo = @ \ {rel[k].cur}, ![k].cur = <<>>] /\ UNCHANGED <<handle, watcher>>
  <2> DEFINE q == [rel[k] EXCEPT !.todo = rel[k].todo \ {rel[k].cur}, !.cur = <<>>]
  <2>1. rel' = [rel EXCEPT ![k] = q]
    BY <1>1, <1>5
  <2>2. q.pc = "children"
    BY <1>1 DEF Releases
  <2> HIDE DEF q
  <2> QED  BY <1>4, <1>5, <2>1, <2>2
<1>6. CASE rel' = [rel EXCEPT ![k].pc = "unmount"] /\ UNCHANGED <<handle, watcher>>
  <2> DEFINE q == [rel[k] EXCEPT !.pc = "unmount"]
  <2>1. rel' = [rel EXCEPT ![k] = q]
    BY <1>1, <1>6
  <2>2. q.pc = "unmount"
    BY <1>1 DEF Releases
  <2> HIDE DEF q
  <2> QED  BY <1>4, <1>6, <2>1, <2>2
<1> QED  BY <1>3, <1>5, <1>6 DEF ReleaseChild

\* The decision itself: what the watcher read is still so.
LEMMA WatchDecideDecide == ASSUME SubInv, DecideInv, NEW k \in Kids, WatchDecide(k) PROVE DecideInv'
<1> DEFINE a == agent[k]
           w == watcher[k]
           v == watcher'[k]
<1>1. /\ watcher \in [Kids -> Watchers \cup {Idle}] /\ w \in Watchers /\ w.pc = "decide"
      /\ handle[k] \in Child /\ handle[k] # None /\ a \in Agents
      /\ Settled(svc, registry, handle[k], a, w)
  BY WatcherIs DEF WatchDecide, SubInv, Typed, TypedChildren
<1>2. UNCHANGED <<registry, agent, call>>
  BY DEF WatchDecide
<1>3. Decided(handle[k], w, rel[k], a, registry)
  BY DEF DecideInv
<1>4. \A pc \in {"top", "parked", "releasing"} : [w EXCEPT !.pc = pc].pc = pc
  BY <1>1 DEF Watchers
<1>5. CASE \E pc \in {"top", "parked"} : watcher' = [watcher EXCEPT ![k].pc = pc] /\ UNCHANGED <<handle, rel>>
  <2>1. PICK pc \in {"top", "parked"} : watcher' = [watcher EXCEPT ![k].pc = pc] /\ UNCHANGED <<handle, rel>>
    BY <1>5
  <2> DEFINE u == [w EXCEPT !.pc = pc]
  <2>2. u.pc = pc /\ watcher' = [watcher EXCEPT ![k] = u] /\ w.pc # "idle"
    BY <1>1, <1>4, <2>1
  <2> HIDE DEF u
  <2>3. Looks(u, a) /\ u.pc # "releasing"
    BY <2>2 DEF Looks, Looking
  <2> QED  BY <1>2, <2>1, <2>2, <2>3, WatcherDecide
<1>6. CASE /\ ~w.stale /\ ~HasContinuable(k) /\ ~Queued(k)
           /\ MarkClosing(k, handle[k].announced) /\ watcher' = [watcher EXCEPT ![k].pc = "releasing"]
  <2>1. v.pc = "releasing" /\ \A j \in Kids \ {k} : watcher'[j] = watcher[j]
    <3>1. watcher' = [watcher EXCEPT ![k] = [w EXCEPT !.pc = "releasing"]]
      BY <1>1, <1>6
    <3> QED  BY <1>1, <1>4, <3>1
  <2>2. /\ ~handle[k].closing /\ handle'[k] = [handle[k] EXCEPT !.closing = TRUE]
        /\ \A j \in Kids \ {k} : handle'[j] = handle[j]
        /\ rel'[k] = Begun(handle[k].announced) /\ \A j \in Kids \ {k} : rel'[j] = rel[j]
    BY <1>6 DEF MarkClosing, SubInv, Typed, TypedChildren
  <2>3. /\ handle'[k] # None /\ handle'[k].closing /\ handle'[k].delivered = handle[k].delivered
        /\ handle'[k] \in Child
    <3>1. handle'[k] \in Child /\ handle'[k].closing /\ handle'[k].delivered = handle[k].delivered
      BY <1>1, <2>2 DEF Child
    <3> QED  BY <3>1, Ground
  <2>4. rel[k].pc = "idle" /\ rel'[k].pc = "interrupt"
    BY <2>2 DEF Begun, SubInv, Tree, Attended, AttendedBy
  <2>5. (registry = "open" => a.live) /\ (a.live => handle[k].delivered = Received(a))
    BY <1>1, <2>2 DEF Settled
  <2>6. a.live => Clear(a)
    <3>1. a.live => w.seen <= a.done /\ (~w.held => Clear(a))
      BY <1>1, <1>3, <1>6 DEF Decided, Looks
    <3>2. ~(w.seen < handle[k].delivered /\ w.held)
      BY <1>6 DEF Queued
    <3>3. w.seen \in Nat /\ handle[k].delivered \in Nat /\ a.held \in Nat /\ a.hand \in Nat /\ a.done \in Nat /\ a.lost \in Nat
      BY <1>1 DEF Watchers, Child, Agents
    <3>4. a.live /\ w.held => a.held = 0 /\ a.hand = 0
      <4> SUFFICES ASSUME a.live, w.held PROVE a.held = 0 /\ a.hand = 0
        OBVIOUS
      <4>1. handle[k].delivered <= a.done /\ handle[k].delivered = a.held + a.hand + a.done + a.lost
        BY <2>5, <3>1, <3>2, <3>3 DEF Received
      <4> HIDE DEF a
      <4> QED  BY <3>3, <4>1
    <3> QED  BY <3>1, <3>4 DEF Clear
  <2>7. Decided(handle'[k], v, rel'[k], agent'[k], registry')
    <3> HIDE DEF a, w, v
    <3>1. Hands(a) /\ Dead(a, rel'[k])
      BY <1>3, <2>4 DEF Decided, Dead
    <3>2. Looks(v, a)
      BY <2>1 DEF Looks, Looking
    <3>3. Leaves(handle'[k].delivered, v, rel'[k], a)
      BY <2>3, <2>4, <2>5, <2>6 DEF Leaves
    <3> QED  BY <1>2, <2>1, <2>3, <2>5, <3>1, <3>2, <3>3 DEF Decided, a
  <2> DEFINE S == {k}
  <2>8. \A j \in Kids : j \notin S => Still(j)
    <3>1. \A j \in Kids : j \notin S => WatcherCalm(watcher[j], watcher'[j])
      BY <2>1, SameCalm
    <3> QED  BY <1>2, <2>2, <3>1, SameStill
  <2>9. \A j \in Kids : j \in S => Decided(handle'[j], watcher'[j], rel'[j], agent'[j], registry')
    BY <2>7
  <2> HIDE DEF S
  <2>10. \A j \in Kids : Decided(handle'[j], watcher'[j], rel'[j], agent'[j], registry')
    BY <1>2, <2>8, <2>9, DecidedBut
  <2>11. ASSUME NEW j \in Kids PROVE Alone(j)'
    <3> SUFFICES ASSUME watcher'[j].pc = "releasing", NEW d \in Kids, handle'[d] # None, handle'[d].parent = j,
                        handle'[d].mode = "continuable", ~handle'[d].closing
                 PROVE  FALSE
      BY DEF Alone
    <3>1. handle'[d] = handle[d]
      BY <2>2, <2>3
    <3>2. CASE j = k
      BY <1>6, <3>1, <3>2 DEF HasContinuable, Resident
    <3>3. CASE j # k
      BY <2>1, <3>1, <3>3 DEF DecideInv, Alone
    <3> QED  BY <3>2, <3>3
  <2>12. CallsCalm /\ WatchersCalm
    BY <1>1, <1>2, <2>1 DEF CallsCalm, WatchersCalm
  <2>13. \A t \in Threads : Unwatched(call'[t], watcher')
    BY <2>12, CalmUnwatched
  <2> QED  BY <2>10, <2>11, <2>13 DEF DecideInv
<1> QED  BY <1>5, <1>6 DEF WatchDecide

LEMMA CloseChildDecide == ASSUME SubInv, DecideInv, NEW t \in Threads, CloseChild(t) PROVE DecideInv'
<1> USE DEF CloseChild
<1> DEFINE k == call[t].obj[1]
<1>1. /\ TypedChildren /\ call[t].pc \in {"close", "drop"} /\ UNCHANGED <<registry, agent>>
      /\ handle \in [Kids -> Child \cup {None}] /\ watcher \in [Kids -> Watchers \cup {Idle}] /\ rel \in [Kids -> Releases \cup {Idle}]
  BY SMTT(30) DEF SubInv, Typed, TypedChildren
<1>2. CASE Present(call[t].obj)
  <2>1. k \in Kids /\ handle[k] # None
    <3>1. CallShape(call[t], res)
      BY DEF SubInv, CallsKept, Shaped
    <3> QED  BY <1>1, <1>2, <3>1 DEF CallShape, Creates, Creating, Objects, Present, Resident
  <2>2. MarkClosing(k, FALSE) /\ watcher' = Wake(watcher, k) /\ call' = call
    BY <1>2
  <2> HIDE DEF k, CloseChild
  <2>3. handle'[k].closing /\ (\A j \in Kids \ {k} : handle'[j] = handle[j]) /\ Stays(handle[k], handle'[k])
    BY <2>1, <2>2, MarkClosingIs
  <2>4. handle'[k] # None /\ ~handle[k].closing /\ rel'[k].pc = "interrupt" /\ \A j \in Kids \ {k} : rel'[j] = rel[j]
    BY <1>1, <2>1, <2>2, <2>3 DEF MarkClosing, Begun, Stays
  <2>5. /\ \A j \in Kids \ {k} : watcher'[j] = watcher[j]
        /\ watcher'[k].pc = watcher[k].pc
        /\ watcher[k].pc # "idle" => watcher'[k].stale /\ watcher'[k].seen = watcher[k].seen
    BY <1>1, <2>1, <2>2, WakeIs
  <2>6. Decided(handle'[k], watcher'[k], rel'[k], agent'[k], registry') /\ watcher'[k].pc # "releasing"
    BY <1>1, <2>1, <2>3, <2>4, <2>5, MarkedDecided
  <2> DEFINE S == {k}
  <2>7. \A j \in Kids : j \notin S => Still(j)
    <3>1. \A j \in Kids : j \notin S => WatcherCalm(watcher[j], watcher'[j])
      BY <2>5, SameCalm
    <3> QED  BY <1>1, <2>3, <2>4, <3>1, SameStill
  <2>8. /\ \A j \in Kids : j \in S => Decided(handle'[j], watcher'[j], rel'[j], agent'[j], registry')
        /\ \A j \in Kids : watcher'[j].pc = "releasing" => watcher[j].pc = "releasing"
    BY <2>5, <2>6
  <2>9. HandlesCalm /\ WatchersCalm /\ CallsCalm
    BY <2>2, <2>3, <2>5 DEF HandlesCalm, WatchersCalm, CallsCalm
  <2> HIDE DEF S
  <2> QED  BY <1>1, <2>7, <2>8, <2>9, CalmBut
<1>3. CASE ~Present(call[t].obj)
  <2>1. Return(t) /\ UNCHANGED <<handle, rel, watcher>>
    BY <1>3
  <2>2. CallsCalm
    BY <1>1, <2>1, ReturnCalm
  <2> QED  BY <1>1, <2>1, <2>2, CallsDecide
<1> QED  BY <1>2, <1>3

\* The release takes the agent from the registry, and then waits for its worker.
LEMMA ReleaseUnmountDecide == ASSUME SubInv, DecideInv, NEW k \in Kids, ReleaseUnmount(k) PROVE DecideInv'
<1> DEFINE a == agent[k]
           w == watcher[k]
<1>1. /\ rel[k].pc = "unmount" /\ UNCHANGED <<registry, handle, watcher>> /\ TypedChildren
      /\ agent \in [Kids -> Agents] /\ a \in Agents /\ Decided(handle[k], w, rel[k], a, registry)
  BY DEF ReleaseUnmount, SubInv, Typed, TypedChildren, DecideInv
<1>2. rel \in [Kids -> Releases \cup {Idle}] /\ rel[k] \in Releases
  BY <1>1, ReleaseIs
<1>3. \A pc \in {"agent", "jobs"} : [rel[k] EXCEPT !.pc = pc].pc = pc
  BY <1>2 DEF Releases
<1> DEFINE S == {k}
<1>4. ASSUME NEW pc \in {"agent", "jobs"}, rel' = [rel EXCEPT ![k].pc = pc], NEW b, agent' = [agent EXCEPT ![k] = b],
             Decided(handle[k], w, [rel[k] EXCEPT !.pc = pc], b, registry), CallsCalm
      PROVE  DecideInv'
  <2>1. rel'[k] = [rel[k] EXCEPT !.pc = pc] /\ agent'[k] = b /\ \A j \in Kids \ {k} : rel'[j] = rel[j] /\ agent'[j] = agent[j]
    BY <1>1, <1>2, <1>4
  <2>2. \A j \in Kids : j \notin S => Still(j)
    <3>1. \A j \in Kids : j \notin S => WatcherCalm(watcher[j], watcher'[j])
      BY <1>1, SameCalm
    <3> QED  BY <1>1, <2>1, <3>1, SameStill
  <2>3. Decided(handle'[k], watcher'[k], rel'[k], agent'[k], registry')
    BY <1>1, <1>4, <2>1
  <2>4. /\ \A j \in Kids : j \in S => Decided(handle'[j], watcher'[j], rel'[j], agent'[j], registry')
        /\ \A j \in Kids : watcher'[j].pc = "releasing" => watcher[j].pc = "releasing"
    BY <1>1, <2>3
  <2>5. HandlesCalm /\ WatchersCalm
    BY <1>1 DEF HandlesCalm, WatchersCalm
  <2> HIDE DEF S
  <2> QED  BY <1>1, <1>4, <2>2, <2>4, <2>5, CalmBut
<1>5. CASE registry = "open"
  <2> DEFINE b == [Interrupted(a) EXCEPT !.live = FALSE]
             q == [rel[k] EXCEPT !.pc = "agent"]
  <2>1. /\ b.live = FALSE /\ Received(b) = Received(a) /\ (Hands(a) => Hands(b)) /\ (Clear(a) => Clear(b))
    BY <1>1 DEF Agents, Interrupted, Received, Hands, Empty, Clear
  <2>2. q.pc = "agent" /\ a.live
    BY <1>1, <1>3, <1>5 DEF Decided, Closing
  <2>3. agent' = [agent EXCEPT ![k] = b] /\ rel' = [rel EXCEPT ![k].pc = "agent"] /\ call' = CutTurn(k)
    BY <1>1, <1>5 DEF ReleaseUnmount
  <2> HIDE DEF a, b, q, w
  <2>4. Decided(handle[k], w, q, b, registry)
    BY <1>1, <2>1, <2>2, SMTT(30) DEF Decided, Dead, Looks, Leaves, Closing
  <2>5. CallsCalm
    BY <1>1, <2>3, CutCalm
  <2> QED  BY <1>4, <2>3, <2>4, <2>5 DEF q, a, b
<1>6. CASE registry # "open"
  <2> DEFINE q == [rel[k] EXCEPT !.pc = "jobs"]
  <2>1. q.pc = "jobs"
    BY <1>3
  <2>2. agent' = agent /\ rel' = [rel EXCEPT ![k].pc = "jobs"] /\ call' = Cancel(JobsOf(k))
    BY <1>6 DEF ReleaseUnmount
  <2>3. agent' = [agent EXCEPT ![k] = a] /\ CallsCalm
    BY <1>1, <2>2, CancelCalm
  <2> HIDE DEF a, q, w
  <2>4. Decided(handle[k], w, q, a, registry)
    BY <1>1, <1>6, <2>1, SMTT(30) DEF Decided, Dead, Looks, Leaves, Closing
  <2> QED  BY <1>4, <2>2, <2>3, <2>4 DEF q
<1> QED  BY <1>5, <1>6

\* The worker of an agent is gone, and its inbox with it.
LEMMA EndedDecide ==
  ASSUME SubInv, DecideInv, NEW k \in Kids, agent' = [agent EXCEPT ![k] = Ended(agent[k])], UNCHANGED <<registry, handle, watcher>>,
         \A j \in Kids \ {k} : rel'[j] = rel[j], rel'[k].pc # "agent", registry = "open" => rel'[k].pc \notin Closing, CallsCalm
  PROVE  DecideInv'
<1> DEFINE b == Ended(agent[k])
<1>1. agent \in [Kids -> Agents] /\ agent[k] \in Agents /\ Decided(handle[k], watcher[k], rel[k], agent[k], registry)
  BY DEF SubInv, Typed, TypedChildren, DecideInv
<1>2. ~b.live /\ ~b.busy /\ b.held = 0 /\ Empty(b)
  BY <1>1, EndedIs
<1>3. agent' = [agent EXCEPT ![k] = b]
  OBVIOUS
<1> HIDE DEF b
<1>4. agent'[k] = b /\ \A j \in Kids \ {k} : agent'[j] = agent[j]
  BY <1>1, <1>3
<1>5. Hands(b) /\ Dead(b, rel'[k]) /\ Looks(watcher[k], b) /\ (handle[k] # None => Leaves(handle[k].delivered, watcher[k], rel'[k], b))
  BY <1>2 DEF Hands, Dead, Looks, Leaves
<1>6. Decided(handle[k], watcher[k], rel'[k], b, registry)
  BY <1>1, <1>5 DEF Decided
<1> DEFINE S == {k}
<1>7. \A j \in Kids : j \notin S => Still(j)
  <2>1. \A j \in Kids : WatcherCalm(watcher[j], watcher'[j])
    BY SameCalm
  <2> QED  BY <1>4, <2>1, SameStill
<1>8. /\ \A j \in Kids : j \in S => Decided(handle'[j], watcher'[j], rel'[j], agent'[j], registry')
      /\ \A j \in Kids : watcher'[j].pc = "releasing" => watcher[j].pc = "releasing"
  BY <1>4, <1>6
<1>9. HandlesCalm /\ WatchersCalm
  BY DEF HandlesCalm, WatchersCalm
<1> HIDE DEF S
<1> QED  BY <1>7, <1>8, <1>9, CalmBut

LEMMA ReleaseAgentDecide == ASSUME SubInv, DecideInv, NEW k \in Kids, ReleaseAgent(k) PROVE DecideInv'
<1>1. /\ UNCHANGED <<registry, handle, watcher>> /\ agent' = [agent EXCEPT ![k] = Ended(agent[k])]
      /\ TypedChildren /\ rel[k].pc = "agent" /\ call' = Cancel(JobsOf(k))
  BY DEF ReleaseAgent, SubInv, Typed
<1>2. rel \in [Kids -> Releases \cup {Idle}] /\ rel[k] \in Releases
  BY <1>1, ReleaseIs
<1>3. PICK f \in BOOLEAN : rel' = [rel EXCEPT ![k] = [rel[k] EXCEPT !.pc = "jobs", !.failed = f]]
  <2>1. CASE rel' = [rel EXCEPT ![k].pc = "jobs"]
    <3>1. [rel[k] EXCEPT !.pc = "jobs"] = [rel[k] EXCEPT !.pc = "jobs", !.failed = rel[k].failed] /\ rel[k].failed \in BOOLEAN
      BY <1>2 DEF Releases
    <3> QED  BY <1>2, <2>1, <3>1
  <2>2. CASE rel' = [rel EXCEPT ![k].pc = "jobs", ![k].failed = TRUE]
    BY <1>2, <2>2
  <2> QED  BY <2>1, <2>2 DEF ReleaseAgent
<1>4. [rel[k] EXCEPT !.pc = "jobs", !.failed = f].pc = "jobs"
  BY <1>2 DEF Releases
<1>5. rel'[k].pc = "jobs" /\ \A j \in Kids \ {k} : rel'[j] = rel[j]
  BY <1>2, <1>3, <1>4
<1>6. CallsCalm
  BY <1>1, CancelCalm
<1> QED  BY <1>1, <1>5, <1>6, EndedDecide DEF Closing

LEMMA AgentExitsDecide == ASSUME SubInv, DecideInv, NEW k \in Kids, AgentExits(k) PROVE DecideInv'
<1>1. /\ UNCHANGED <<registry, handle, watcher, rel, call>> /\ agent' = [agent EXCEPT ![k] = Ended(agent[k])]
      /\ registry = "closing" /\ agent[k].live
  BY DEF AgentExits
<1>2. rel[k].pc # "agent"
  BY <1>1 DEF SubInv, Tree, Attended, AttendedBy
<1>3. CallsCalm
  BY <1>1 DEF CallsCalm
<1> QED  BY <1>1, <1>2, <1>3, EndedDecide

LEMMA TeardownDecide == ASSUME SubInv, DecideInv, NEW t \in Threads, Teardown(t) PROVE DecideInv'
<1> DEFINE k == call[t].obj[1]
<1>1. /\ UNCHANGED <<registry, handle, watcher, rel>> /\ Return(t) /\ Holds(call[t]) /\ TypedChildren
  BY DEF Teardown, Holds, SubInv, Typed
<1>2. k \in Kids /\ ~Housed(handle[k])
  BY <1>1, HeldNumbered
<1>3. rel[k].pc = "idle" /\ CallsCalm
  BY <1>1, <1>2, ReturnCalm DEF SubInv, Tree, Attended, AttendedBy
<1>4. CASE registry = "open"
  <2>1. agent' = [agent EXCEPT ![k] = Ended(agent[k])]
    BY <1>4 DEF Teardown
  <2> QED  BY <1>1, <1>2, <1>3, <2>1, EndedDecide DEF Closing
<1>5. CASE registry # "open"
  BY <1>1, <1>3, <1>5, CallsDecide DEF Teardown
<1> QED  BY <1>4, <1>5

\* A wake tells a watcher only that it has to look again.
LEMMA WakeCalm ==
  ASSUME NEW w \in [Kids -> Watchers \cup {Idle}], NEW k \in Kids, NEW j \in Kids
  PROVE  WatcherCalm(w[j], Wake(w, k)[j])
<1>1. CASE w[k].pc = "idle" \/ j # k
  <2>1. Wake(w, k)[j] = w[j]
    BY <1>1 DEF Wake
  <2> QED  BY <2>1, SameCalm
<1>2. CASE w[k].pc # "idle" /\ j = k
  <2>1. w[k] \in Watchers
    BY <1>2 DEF Idle
  <2>2. Wake(w, k)[k] = [w[k] EXCEPT !.stale = TRUE]
    BY <1>2 DEF Wake
  <2> QED  BY <1>2, <2>1, <2>2 DEF WatcherCalm, Watchers
<1> QED  BY <1>1, <1>2

LEMMA EnqueuedFields ==
  ASSUME NEW a \in Agents
  PROVE  Enqueued(a).hand = a.hand /\ Enqueued(a).job = a.job /\ Enqueued(a).done = a.done /\ Enqueued(a).busy = a.busy /\ Enqueued(a).live = a.live
BY DEF Enqueued, Agents

\* A message to a child that nobody's watcher releases, with the wake of its watcher.
LEMMA MessageDecided ==
  ASSUME NEW a \in Agents, a.live, NEW h, NEW n, NEW g, NEW w, NEW v, NEW r, Decided(h, w, r, a, g),
         v.pc # "releasing", v.pc \in Looking => v.stale /\ v.pc = w.pc /\ v.seen = w.seen
  PROVE  Decided(n, v, r, Enqueued(a), g)
<1> DEFINE b == Enqueued(a)
<1>1. b.hand = a.hand /\ b.job = a.job /\ b.done = a.done /\ b.busy = a.busy /\ b.live = a.live
  BY EnqueuedFields
<1> HIDE DEF b
<1>2. Hands(b) /\ Dead(b, r) /\ Looks(v, b) /\ (n # None => Leaves(n.delivered, v, r, b))
  BY <1>1 DEF Decided, Hands, Empty, Dead, Looks, Looking, Leaves
<1>3. g = "open" /\ r.pc \in Closing => b.live
  BY <1>1
<1> QED  BY <1>2, <1>3 DEF Decided, b

LEMMA MessageDecide ==
  ASSUME SubInv, DecideInv, NEW k \in Kids, agent[k].live, NEW w, agent' = [agent EXCEPT ![k] = Enqueued(@)],
         watcher' = [watcher EXCEPT ![k] = w], w.pc # "releasing",
         w.pc \in Looking => w.stale /\ w.pc = watcher[k].pc /\ w.seen = watcher[k].seen,
         \A j \in Kids \ {k} : handle'[j] = handle[j], Stays(handle[k], handle'[k]),
         UNCHANGED <<registry, rel>>, \A t \in Threads : Unwatched(call'[t], watcher')
  PROVE  DecideInv'
<1>1. /\ agent \in [Kids -> Agents] /\ agent[k] \in Agents /\ watcher \in [Kids -> Watchers \cup {Idle}]
      /\ Decided(handle[k], watcher[k], rel[k], agent[k], registry)
  BY DEF SubInv, Typed, TypedChildren, DecideInv
<1>2. /\ agent'[k] = Enqueued(agent[k]) /\ \A j \in Kids \ {k} : agent'[j] = agent[j]
      /\ watcher'[k] = w /\ \A j \in Kids \ {k} : watcher'[j] = watcher[j]
  BY <1>1
<1>3. Decided(handle'[k], watcher'[k], rel'[k], agent'[k], registry')
  BY <1>1, <1>2, MessageDecided
<1> DEFINE S == {k}
<1>4. \A j \in Kids : j \notin S => Still(j)
  <2>1. \A j \in Kids : j \notin S => WatcherCalm(watcher[j], watcher'[j])
    BY <1>2, SameCalm
  <2> QED  BY <1>2, <2>1, SameStill
<1>5. /\ \A j \in Kids : j \in S => Decided(handle'[j], watcher'[j], rel'[j], agent'[j], registry')
      /\ \A j \in Kids : watcher'[j].pc = "releasing" => watcher[j].pc = "releasing"
  BY <1>2, <1>3
<1>6. HandlesCalm
  BY DEF HandlesCalm, Stays
<1> HIDE DEF S
<1>7. \A j \in Kids : Decided(handle'[j], watcher'[j], rel'[j], agent'[j], registry')
  BY <1>4, <1>5, DecidedBut
<1>8. \A j \in Kids : Alone(j)'
  BY <1>5, <1>6, CalmAlone
<1> QED  BY <1>7, <1>8 DEF DecideInv

LEMMA ReleaseFinishDecide == ASSUME SubInv, DecideInv, NEW k \in Kids, ReleaseFinish(k) PROVE DecideInv'
<1> DEFINE p == handle[k].parent
<1>1. /\ handle'[k] = None /\ watcher'[k].pc = "idle" /\ rel'[k].pc = "idle" /\ agent'[k] = agent[k]
      /\ \A j \in Kids \ {k} : rel'[j] = rel[j] /\ Stays(handle[j], handle'[j]) /\ watcher'[j].pc = watcher[j].pc
  BY FinishIs
<1>2. /\ handle \in [Kids -> Child \cup {None}] /\ agent \in [Kids -> Agents] /\ watcher \in [Kids -> Watchers \cup {Idle}]
      /\ UNCHANGED <<registry, call>> /\ rel[k].pc = "jobs"
  BY DEF SubInv, Typed, TypedChildren, ReleaseFinish
<1>3. PICK told \in BOOLEAN : told <=> rel[k].notice /\ svc = "active" /\ ~IsClosing(p) /\ Takes(p)
  OBVIOUS
<1>4. /\ agent' = IF told /\ p # Root THEN [agent EXCEPT ![p] = Enqueued(@)] ELSE agent
      /\ handle' = [j \in Kids |-> IF j = k THEN None
                                   ELSE IF j = p /\ Resident(p) /\ told THEN Delivered(handle[j])
                                   ELSE handle[j]]
      /\ watcher' = LET w == [watcher EXCEPT ![k] = Idle] IN IF p # Root /\ Resident(p) THEN Wake(w, p) ELSE w
  BY <1>3 DEF ReleaseFinish
<1>5. \A j \in Kids \ {k} : WatcherCalm(watcher[j], watcher'[j])
  <2> DEFINE w0 == [watcher EXCEPT ![k] = Idle]
  <2>1. w0 \in [Kids -> Watchers \cup {Idle}] /\ \A j \in Kids \ {k} : w0[j] = watcher[j]
    BY <1>2, SMTT(30) DEF Idle
  <2>2. watcher' = w0 \/ (p # Root /\ Resident(p) /\ watcher' = Wake(w0, p))
    BY <1>4
  <2> HIDE DEF w0
  <2>3. CASE watcher' = w0
    BY <2>1, <2>3, SameCalm
  <2>4. CASE p # Root /\ watcher' = Wake(w0, p)
    <3>1. p \in Kids
      <4>1. handle[k] \in Child
        BY <1>2, ReleaseIs DEF Housed
      <4> QED  BY <2>4, <4>1 DEF Child
    <3> QED  BY <2>1, <2>4, <3>1, WakeCalm
  <2> QED  BY <2>2, <2>3, <2>4
<1>6. Decided(handle'[k], watcher'[k], rel'[k], agent'[k], registry')
  <2>1. Hands(agent[k]) /\ Dead(agent[k], rel[k])
    BY DEF DecideInv, Decided
  <2> QED  BY <1>1, <1>2, <2>1 DEF Decided, Dead, Looks, Looking, Closing
<1>7. HandlesCalm /\ WatchersCalm /\ CallsCalm /\ \A j \in Kids : watcher'[j].pc = "releasing" => watcher[j].pc = "releasing"
  BY <1>1, <1>2 DEF HandlesCalm, WatchersCalm, CallsCalm, Stays
<1>8. CASE told /\ p # Root
  <2> DEFINE S == {k, p}
  <2>1. p \in Kids /\ agent[p].live /\ registry = "open"
    <3>1. handle[k] \in Child
      BY <1>2, ReleaseIs DEF Housed
    <3> QED  BY <1>3, <1>8, <3>1 DEF Child, Takes
  <2>2. p # k
    BY <1>2, <2>1 DEF SubInv, Tree, Attended, AttendedBy
  <2>3. watcher[p].pc # "releasing"
    BY <1>3, <1>8, <2>1 DEF IsClosing, Resident, DecideInv, Decided
  <2>4. agent'[p] = Enqueued(agent[p]) /\ agent[p] \in Agents /\ \A j \in Kids \ {p} : agent'[j] = agent[j]
    BY <1>2, <1>4, <1>8, <2>1
  <2>5. \A j \in Kids \ {k, p} : handle'[j] = handle[j]
    BY <1>4
  <2> HIDE DEF p
  <2>6. Decided(handle'[p], watcher'[p], rel'[p], agent'[p], registry')
    <3>1. watcher'[p].pc # "releasing" /\ rel'[p] = rel[p] /\ registry' = registry
      BY <1>1, <1>2, <2>1, <2>2, <2>3
    <3>2. Decided(handle[p], watcher[p], rel[p], agent[p], registry)
      BY <2>1 DEF DecideInv
    <3>3. watcher'[p].pc \in Looking => watcher'[p].stale /\ watcher'[p].pc = watcher[p].pc /\ watcher'[p].seen = watcher[p].seen
      <4> SUFFICES ASSUME watcher'[p].pc \in Looking PROVE watcher'[p].stale /\ watcher'[p].pc = watcher[p].pc /\ watcher'[p].seen = watcher[p].seen
        OBVIOUS
      <4>1. watcher[p].pc # "idle"
        BY <1>1, <2>1, <2>2 DEF Looking
      <4>2. p # Root /\ handle[p] # None
        BY <1>8, <2>1, <4>1 DEF SubInv, Tree, Attended, AttendedBy, Housed
      <4> DEFINE w0 == [watcher EXCEPT ![k] = Idle]
      <4>3. w0 \in [Kids -> Watchers \cup {Idle}] /\ w0[p] = watcher[p]
        BY <1>2, <2>1, <2>2, SMTT(30) DEF Idle
      <4>4. watcher' = Wake(w0, p)
        BY <1>4, <4>2 DEF Resident, p
      <4> HIDE DEF w0
      <4> QED  BY <2>1, <4>1, <4>3, <4>4, WakeIs
    <3> QED  BY <2>4, <2>1, <3>1, <3>2, <3>3, MessageDecided
  <2>7. \A j \in Kids : j \notin S => Still(j)
    BY <1>1, <1>5, <2>4, <2>5, SameStill
  <2>8. \A j \in Kids : j \in S => Decided(handle'[j], watcher'[j], rel'[j], agent'[j], registry')
    BY <1>6, <2>6
  <2> HIDE DEF S
  <2> QED  BY <1>2, <1>7, <2>7, <2>8, CalmBut
<1>9. CASE ~(told /\ p # Root)
  <2> DEFINE S == {k}
  <2>1. agent' = agent
    BY <1>4, <1>9
  <2>2. \A j \in Kids \ {k} : handle'[j] = handle[j]
    <3>1. \A j \in Kids : j = p => ~told
      BY <1>9, Ground
    <3> QED  BY <1>4, <3>1
  <2>3. \A j \in Kids : j \notin S => Still(j)
    BY <1>1, <1>5, <2>1, <2>2, SameStill
  <2>4. \A j \in Kids : j \in S => Decided(handle'[j], watcher'[j], rel'[j], agent'[j], registry')
    BY <1>6
  <2> HIDE DEF S
  <2> QED  BY <1>2, <1>7, <2>3, <2>4, CalmBut
<1> QED  BY <1>8, <1>9

LEMMA DeliverUpDecide == ASSUME SubInv, DecideInv, NEW t \in Threads, DeliverUp(t) PROVE DecideInv'
<1> USE DEF DeliverUp
<1> DEFINE p == call[t].target
<1>1. TypedChildren /\ call[t] \in Calls /\ call[t].pc = "deliver" /\ Return(t) /\ UNCHANGED <<registry, rel>>
  BY CallIs DEF SubInv, Typed, TypedChildren
<1>2. CallsCalm
  BY <1>1, ReturnCalm
<1>3. CASE p # Root /\ Takes(p)
  <2>1. /\ call[t].caller \in Kids /\ handle[call[t].caller] # None /\ handle[call[t].caller].parent = p
        /\ handle[call[t].caller].mode = "continuable" /\ ~handle[call[t].caller].closing
    BY <1>1 DEF ToParent, Resident, Calls, Pools
  <2>2. handle[call[t].caller] \in Child
    BY <1>1, <2>1 DEF TypedChildren
  <2>3. p \in Kids
    BY <1>3, <2>1, <2>2 DEF Child
  <2>4. Housed(handle[p]) /\ agent[p].live
    BY <1>3, <2>1, <2>3 DEF SubInv, Tree, Parented, Takes
  <2>5. handle[p] \in Child /\ watcher \in [Kids -> Watchers \cup {Idle}] /\ handle \in [Kids -> Child \cup {None}]
    BY <1>1, <2>3, <2>4 DEF TypedChildren, Housed
  <2> DEFINE g == Delivered(handle[p])
             w == Wake(watcher, p)[p]
  <2>6. agent' = [agent EXCEPT ![p] = Enqueued(@)] /\ handle' = [handle EXCEPT ![p] = g] /\ watcher' = Wake(watcher, p)
    BY <1>3, <2>3, <2>4 DEF Resident, Housed
  <2>7. /\ g \in Child /\ g.ph = handle[p].ph /\ g.parent = handle[p].parent /\ g.pool = handle[p].pool
        /\ g.mode = handle[p].mode /\ g.closing = handle[p].closing /\ g # None
    <3>1. g \in Child /\ g.ph = handle[p].ph /\ g.parent = handle[p].parent /\ g.pool = handle[p].pool
          /\ g.mode = handle[p].mode /\ g.closing = handle[p].closing
      BY <2>5, DeliveredIs
    <3> QED  BY <3>1, Ground
  <2>8. /\ Wake(watcher, p) \in [Kids -> Watchers \cup {Idle}]
        /\ \A j \in Kids \ {p} : Wake(watcher, p)[j] = watcher[j]
        /\ w.pc = watcher[p].pc
        /\ watcher[p].pc # "idle" => w.stale /\ w.seen = watcher[p].seen
    BY <2>3, <2>5, WakeIs
  <2>9. watcher' = [watcher EXCEPT ![p] = w]
    BY <2>3, <2>5, <2>6, <2>8
  <2>10. watcher[p].pc # "releasing"
    BY <2>1, <2>3 DEF DecideInv, Alone
  <2> HIDE DEF g, w, p
  <2>11. Stays(handle[p], handle'[p]) /\ \A j \in Kids \ {p} : handle'[j] = handle[j]
    BY <2>3, <2>4, <2>5, <2>6, <2>7 DEF Stays, Housed
  <2>12. WatchersCalm
    BY <2>3, <2>5, <2>8, <2>9 DEF WatchersCalm
  <2>13. \A u \in Threads : Unwatched(call'[u], watcher')
    BY <1>2, <2>12, CalmUnwatched
  <2>14. w.pc \in Looking => w.stale /\ w.pc = watcher[p].pc /\ w.seen = watcher[p].seen
    BY <2>8 DEF Looking
  <2>15. w.pc # "releasing"
    BY <2>8, <2>10
  <2> QED  BY <1>1, <2>3, <2>4, <2>6, <2>9, <2>11, <2>13, <2>14, <2>15, MessageDecide
<1>4. CASE ~(p # Root /\ Takes(p))
  BY <1>1, <1>2, <1>4, CallsDecide
<1> QED  BY <1>3, <1>4

LEMMA DeliverDownDecide == ASSUME SubInv, DecideInv, NEW t \in Threads, DeliverDown(t) PROVE DecideInv'
<1> USE DEF DeliverDown
<1> DEFINE k == call[t].target
<1>1. /\ TypedChildren /\ call[t] \in Calls /\ call[t].pc = "deliver" /\ UNCHANGED <<registry, rel>>
      /\ call \in [Threads -> Calls \cup {Idle}]
  BY CallIs DEF SubInv, Typed, TypedChildren
<1>2. Return(t) => CallsCalm
  BY <1>1, ReturnCalm
<1>3. k \in Kids /\ handle[k] # None /\ ~handle[k].closing
  <2>1. CallShape(call[t], res)
    BY DEF SubInv, CallsKept, Shaped
  <2> QED  BY <1>1, <2>1 DEF CallShape, Calls, Pools, Resident, Writing, Delivering
<1>4. CASE Authorized(call[t].caller, k) /\ agent[k].live
  <2>1. handle[k] \in Child /\ watcher \in [Kids -> Watchers \cup {Idle}] /\ handle \in [Kids -> Child \cup {None}]
    BY <1>1, <1>3 DEF TypedChildren
  <2> DEFINE h == [handle[k] EXCEPT !.announced = TRUE, !.watched = TRUE]
             g == Delivered(h)
             w == IF ~handle[k].watched THEN Started ELSE Wake(watcher, k)[k]
  <2>2. /\ h \in Child /\ h.ph = handle[k].ph /\ h.parent = handle[k].parent /\ h.pool = handle[k].pool
        /\ h.mode = handle[k].mode /\ h.closing = handle[k].closing
    BY <2>1 DEF Child
  <2>3. agent' = [agent EXCEPT ![k] = Enqueued(@)] /\ handle' = [handle EXCEPT ![k] = g] /\ Return(t)
    BY <1>4, <2>1
  <2>4. watcher' = IF ~handle[k].watched THEN [watcher EXCEPT ![k] = Started] ELSE Wake(watcher, k)
    BY <1>4 DEF Started
  <2> HIDE DEF h
  <2>5. /\ g \in Child /\ g.ph = handle[k].ph /\ g.parent = handle[k].parent /\ g.pool = handle[k].pool
        /\ g.mode = handle[k].mode /\ g.closing = handle[k].closing /\ g # None
    <3>1. g \in Child /\ g.ph = handle[k].ph /\ g.parent = handle[k].parent /\ g.pool = handle[k].pool
          /\ g.mode = handle[k].mode /\ g.closing = handle[k].closing
      BY <2>2, DeliveredIs
    <3> QED  BY <3>1, Ground
  <2>6. /\ Wake(watcher, k) \in [Kids -> Watchers \cup {Idle}]
        /\ \A j \in Kids \ {k} : Wake(watcher, k)[j] = watcher[j]
        /\ Wake(watcher, k)[k].pc = watcher[k].pc
        /\ watcher[k].pc # "idle" => Wake(watcher, k)[k].stale /\ Wake(watcher, k)[k].seen = watcher[k].seen
    BY <1>3, <2>1, WakeIs, SMTT(30)
  <2>7. watcher[k].pc # "releasing"
    BY <1>3 DEF DecideInv, Decided
  <2>8. /\ watcher' = [watcher EXCEPT ![k] = w] /\ w.pc # "releasing"
        /\ w.pc \in Looking => w.stale /\ w.pc = watcher[k].pc /\ w.seen = watcher[k].seen
    <3>1. CASE ~handle[k].watched
      BY <3>1, <2>1, <2>4, StartedIs, SMTT(30) DEF Looking
    <3>2. CASE handle[k].watched
      <4>1. w = Wake(watcher, k)[k] /\ watcher' = Wake(watcher, k)
        BY <2>4, <3>2
      <4> HIDE DEF w, k
      <4>2. watcher' = [watcher EXCEPT ![k] = w]
        BY <1>3, <2>1, <2>6, <4>1
      <4> QED  BY <2>6, <2>7, <4>1, <4>2 DEF Looking
    <3> QED  BY <3>1, <3>2
  <2> HIDE DEF g, w
  <2>9. \A u \in Threads : Unwatched(call'[u], watcher')
    <3> SUFFICES ASSUME NEW u \in Threads, call'[u].pc \in {"catalog", "submit"} PROVE watcher'[call'[u].obj[1]].pc = "idle"
      BY DEF Unwatched
    <3>1. u # t /\ call'[u] = call[u]
      BY <1>1, <2>3, ReturnIs DEF Idle
    <3>2. CallShape(call[u], res) /\ Apart(call[u], call[t]) /\ Unwatched(call[u], watcher)
      BY <3>1 DEF SubInv, CallsKept, Shaped, AllApart, DecideInv
    <3>3. Creates(call[u]) /\ Writes(call[t])
      BY <1>1, <3>1 DEF Creates, Creating, Writes, Writing, Delivering
    <3>4. call[u].obj[1] \in Kids /\ k # call[u].obj[1]
      BY <3>2, <3>3 DEF CallShape, Apart, Objects
    <3> QED  BY <2>1, <2>8, <3>1, <3>2, <3>4 DEF Unwatched
  <2> HIDE DEF k
  <2>10. Stays(handle[k], handle'[k]) /\ \A j \in Kids \ {k} : handle'[j] = handle[j]
    BY <1>3, <2>1, <2>3, <2>5 DEF Stays
  <2>11. agent[k].live
    BY <1>4
  <2> QED  BY <1>1, <1>3, <2>3, <2>8, <2>9, <2>10, <2>11, MessageDecide
<1>5. CASE Authorized(call[t].caller, k) /\ ~agent[k].live
  <2>1. call' = [call EXCEPT ![t].pc = "drop", ![t].obj = Object(k)] /\ UNCHANGED <<agent, handle, watcher>>
    BY <1>5
  <2> DEFINE b == [call[t] EXCEPT !.pc = "drop", !.obj = Object(k)]
  <2>2. b.pc = "drop"
    BY <1>1 DEF Calls
  <2>3. call' = [call EXCEPT ![t] = b]
    BY <1>1, <2>1
  <2> HIDE DEF b
  <2>4. CallsCalm
    BY <1>1, <2>2, <2>3 DEF CallsCalm
  <2> QED  BY <1>1, <2>1, <2>4, CallsDecide
<1>6. CASE ~Authorized(call[t].caller, k)
  <2>1. UNCHANGED <<agent, handle, watcher>> /\ Return(t)
    BY <1>6
  <2> QED  BY <1>1, <1>2, <2>1, CallsDecide
<1> QED  BY <1>4, <1>5, <1>6

LEMMA SubmitDecide == ASSUME SubInv, DecideInv, NEW t \in Threads, Submit(t) PROVE DecideInv'
<1> DEFINE k == call[t].obj[1]
<1>1. TypedChildren /\ call[t].pc = "submit" /\ UNCHANGED <<registry, handle, watcher, rel>>
  BY DEF Submit, SubInv, Typed
<1>2. k \in Kids /\ watcher[k].pc = "idle"
  <2>1. CallShape(call[t], res) /\ Unwatched(call[t], watcher)
    BY DEF SubInv, CallsKept, Shaped, DecideInv
  <2> QED  BY <1>1, <2>1 DEF CallShape, Creates, Creating, Objects, Unwatched
<1>3. CallsCalm
  BY <1>1, GoCalm DEF Submit, Go
<1>4. CASE agent[k].live /\ ~call[t].cancelled
  <2> DEFINE b == [agent[k] EXCEPT !.task = TRUE]
  <2>1. agent \in [Kids -> Agents] /\ agent[k] \in Agents /\ Decided(handle[k], watcher[k], rel[k], agent[k], registry)
    BY <1>1, <1>2 DEF TypedChildren, DecideInv
  <2>2. agent' = [agent EXCEPT ![k] = b]
    BY <1>4, <2>1 DEF Submit
  <2>3. b.live /\ b.busy = agent[k].busy /\ b.hand = agent[k].hand /\ b.job = agent[k].job
    BY <1>4, <2>1 DEF Agents
  <2> HIDE DEF b, k
  <2>4. agent'[k] = b /\ \A j \in Kids \ {k} : agent'[j] = agent[j]
    BY <1>2, <2>1, <2>2
  <2>5. Hands(b) /\ Dead(b, rel[k]) /\ Looks(watcher[k], b) /\ (handle[k] # None => Leaves(handle[k].delivered, watcher[k], rel[k], b))
    BY <1>2, <2>1, <2>3 DEF Decided, Hands, Empty, Dead, Looks, Looking, Leaves
  <2>6. Decided(handle'[k], watcher'[k], rel'[k], agent'[k], registry')
    BY <1>1, <1>2, <2>1, <2>3, <2>4, <2>5 DEF Decided
  <2> DEFINE S == {k}
  <2>7. \A j \in Kids : j \notin S => Still(j)
    <3>1. \A j \in Kids : WatcherCalm(watcher[j], watcher'[j])
      BY <1>1, SameCalm
    <3> QED  BY <1>1, <2>4, <3>1, SameStill
  <2>8. /\ \A j \in Kids : j \in S => Decided(handle'[j], watcher'[j], rel'[j], agent'[j], registry')
        /\ \A j \in Kids : watcher'[j].pc = "releasing" => watcher[j].pc = "releasing"
    BY <1>1, <2>6
  <2>9. HandlesCalm /\ WatchersCalm
    BY <1>1 DEF HandlesCalm, WatchersCalm
  <2> HIDE DEF S
  <2> QED  BY <1>1, <1>3, <2>7, <2>8, <2>9, CalmBut
<1>5. CASE ~(agent[k].live /\ ~call[t].cancelled)
  <2>1. agent' = agent
    BY <1>5 DEF Submit
  <2> QED  BY <1>1, <1>3, <2>1, CallsDecide
<1> QED  BY <1>4, <1>5

LEMMA AcceptedDecide == ASSUME SubInv, DecideInv, NEW t \in Threads, Accepted(t) PROVE DecideInv'
<1> USE DEF Accepted
<1> DEFINE k == call[t].obj[1]
<1>1. /\ TypedChildren /\ call[t].pc = "accept" /\ Return(t) /\ UNCHANGED <<registry, agent, rel>>
      /\ call \in [Threads -> Calls \cup {Idle}]
  BY DEF SubInv, Typed, TypedChildren
<1>2. CallsCalm
  BY <1>1, ReturnCalm
<1>3. CASE Present(call[t].obj)
  <2>1. k \in Kids /\ handle[k] # None
    <3>1. CallShape(call[t], res)
      BY DEF SubInv, CallsKept, Shaped
    <3> QED  BY <1>1, <1>3, <3>1 DEF CallShape, Creates, Creating, Objects, Present, Resident
  <2>2. handle[k] \in Child /\ handle \in [Kids -> Child \cup {None}] /\ watcher \in [Kids -> Watchers \cup {Idle}]
    BY <1>1, <2>1 DEF TypedChildren
  <2> DEFINE g == [handle[k] EXCEPT !.announced = TRUE, !.watched = handle[k].watched \/ svc = "active"]
  <2>3. handle' = [handle EXCEPT ![k] = g]
    BY <1>3, <2>2 DEF Accept
  <2>4. /\ g.parent = handle[k].parent /\ g.mode = handle[k].mode /\ g.closing = handle[k].closing
        /\ g.delivered = handle[k].delivered /\ g # None
    <3>1. (handle[k].watched \/ svc = "active") \in BOOLEAN
      OBVIOUS
    <3>2. ASSUME NEW q \in BOOLEAN
          PROVE  LET f == [handle[k] EXCEPT !.announced = TRUE, !.watched = q]
                 IN  /\ f \in Child /\ f.parent = handle[k].parent /\ f.mode = handle[k].mode /\ f.closing = handle[k].closing
                     /\ f.delivered = handle[k].delivered
      BY <2>2 DEF Child
    <3>3. g \in Child /\ g.parent = handle[k].parent /\ g.mode = handle[k].mode /\ g.closing = handle[k].closing
          /\ g.delivered = handle[k].delivered
      BY <3>1, <3>2, Zenon
    <3> QED  BY <3>3, Ground
  <2> HIDE DEF g
  <2>5. handle'[k] = g /\ \A j \in Kids \ {k} : handle'[j] = handle[j]
    BY <2>1, <2>2, <2>3
  <2>6. HandlesCalm
    BY <2>1, <2>4, <2>5 DEF HandlesCalm
  <2>7. Decided(handle[k], watcher[k], rel[k], agent[k], registry) /\ Hands(agent[k]) /\ agent[k] \in Agents
    BY <1>1, <2>1 DEF DecideInv, Decided, TypedChildren
  <2>8. \A j \in Kids \ {k} : WatcherCalm(watcher[j], watcher'[j]) => Still(j)
    BY <1>1, <2>5, SameStill
  <2>9. CASE ~handle[k].watched /\ svc = "active"
    <3>1. watcher' = [watcher EXCEPT ![k] = Started]
      BY <1>3, <2>9 DEF Accept, Started
    <3>2. watcher'[k].pc = "top" /\ \A j \in Kids \ {k} : watcher'[j] = watcher[j]
      BY <2>1, <2>2, <3>1, StartedIs
    <3> HIDE DEF k
    <3>3. Decided(handle'[k], watcher'[k], rel'[k], agent'[k], registry')
      BY <1>1, <2>7, <3>2 DEF Decided, Looks, Looking, Leaves
    <3> DEFINE S == {k}
    <3>4. \A j \in Kids : j \notin S => Still(j)
      BY <2>8, <3>2, SameCalm
    <3>5. /\ \A j \in Kids : j \in S => Decided(handle'[j], watcher'[j], rel'[j], agent'[j], registry')
          /\ \A j \in Kids : watcher'[j].pc = "releasing" => watcher[j].pc = "releasing"
      BY <3>2, <3>3
    <3> HIDE DEF S
    <3>6. \A j \in Kids : Decided(handle'[j], watcher'[j], rel'[j], agent'[j], registry')
      BY <1>1, <3>4, <3>5, DecidedBut
    <3>7. \A j \in Kids : Alone(j)'
      BY <2>6, <3>5, CalmAlone
    <3>8. \A u \in Threads : Unwatched(call'[u], watcher')
      <4> SUFFICES ASSUME NEW u \in Threads, call'[u].pc \in {"catalog", "submit"} PROVE watcher'[call'[u].obj[1]].pc = "idle"
        BY DEF Unwatched
      <4>1. u # t /\ call'[u] = call[u]
        BY <1>1, ReturnIs DEF Idle
      <4>2. CallShape(call[u], res) /\ Apart(call[u], call[t]) /\ Unwatched(call[u], watcher)
        BY <4>1 DEF SubInv, CallsKept, Shaped, AllApart, DecideInv
      <4>3. Creates(call[u]) /\ Creates(call[t])
        BY <1>1, <4>1 DEF Creates, Creating
      <4>4. call[u].obj[1] \in Kids /\ k # call[u].obj[1]
        BY <4>2, <4>3 DEF CallShape, Apart, Objects, k
      <4> QED  BY <3>2, <4>1, <4>2, <4>4 DEF Unwatched
    <3> QED  BY <3>6, <3>7, <3>8 DEF DecideInv
  <2>10. CASE ~(~handle[k].watched /\ svc = "active")
    <3>1. watcher' = watcher
      BY <1>3, <2>10 DEF Accept
    <3>2. \A j \in Kids : WatcherCalm(watcher[j], watcher'[j])
      BY <3>1, SameCalm
    <3>3. QuietAgent(agent[k], agent'[k])
      BY <1>1, <2>7, SameAgentQuiet
    <3> HIDE DEF k
    <3>4. Still(k)
      BY <1>1, <2>1, <2>4, <2>5, <3>2, <3>3 DEF Still, ReleaseCalm
    <3> DEFINE S == {}
    <3>5. /\ \A j \in Kids : j \notin S => Still(j)
          /\ \A j \in Kids : j \in S => Decided(handle'[j], watcher'[j], rel'[j], agent'[j], registry')
          /\ \A j \in Kids : watcher'[j].pc = "releasing" => watcher[j].pc = "releasing"
      BY <2>8, <3>1, <3>2, <3>4
    <3>6. WatchersCalm
      BY <3>1 DEF WatchersCalm
    <3> HIDE DEF S
    <3> QED  BY <1>1, <1>2, <2>6, <3>5, <3>6, CalmBut
  <2> QED  BY <2>9, <2>10
<1>4. CASE ~Present(call[t].obj)
  BY <1>1, <1>2, <1>4, CallsDecide
<1> QED  BY <1>3, <1>4

\* A handle comes, or goes, where no watcher and no release is; its parent is not closing.
LEMMA HandleDecide ==
  ASSUME SubInv, DecideInv, NEW k \in Kids, NEW g, handle' = [handle EXCEPT ![k] = g], watcher[k].pc = "idle", rel[k].pc = "idle",
         g # None /\ ~g.closing => ~IsClosing(g.parent),
         UNCHANGED <<registry, agent, watcher, rel>>, \A t \in Threads : Unwatched(call'[t], watcher')
  PROVE  DecideInv'
<1>1. handle \in [Kids -> Child \cup {None}] /\ Decided(handle[k], watcher[k], rel[k], agent[k], registry)
  BY DEF SubInv, Typed, TypedChildren, DecideInv
<1>2. handle'[k] = g /\ \A j \in Kids \ {k} : handle'[j] = handle[j]
  BY <1>1
<1>3. Decided(handle'[k], watcher'[k], rel'[k], agent'[k], registry')
  BY <1>1, <1>2 DEF Decided, Looks, Looking, Leaves
<1> DEFINE S == {k}
<1>4. \A j \in Kids : j \notin S => Still(j)
  <2>1. \A j \in Kids : WatcherCalm(watcher[j], watcher'[j])
    BY SameCalm
  <2> QED  BY <1>2, <2>1, SameStill
<1>5. \A j \in Kids : j \in S => Decided(handle'[j], watcher'[j], rel'[j], agent'[j], registry')
  BY <1>3
<1> HIDE DEF S
<1>6. \A j \in Kids : Decided(handle'[j], watcher'[j], rel'[j], agent'[j], registry')
  BY <1>4, <1>5, DecidedBut
<1>7. ASSUME NEW j \in Kids PROVE Alone(j)'
  <2> SUFFICES ASSUME watcher[j].pc = "releasing", NEW d \in Kids, handle'[d] # None, handle'[d].parent = j,
                      handle'[d].mode = "continuable", ~handle'[d].closing
               PROVE  FALSE
    BY DEF Alone
  <2>1. handle[j] # None /\ handle[j].closing /\ Alone(j)
    BY DEF DecideInv, Decided
  <2>2. CASE d = k
    BY <1>2, <2>1, <2>2, Ground DEF IsClosing, Resident
  <2>3. CASE d # k
    BY <1>2, <2>1, <2>3 DEF Alone
  <2> QED  BY <2>2, <2>3
<1> QED  BY <1>6, <1>7 DEF DecideInv

\* An agent comes where no watcher and no release is.
LEMMA FreshDecide ==
  ASSUME SubInv, DecideInv, NEW k \in Kids, NEW b, agent' = [agent EXCEPT ![k] = b], b.live, Hands(b),
         watcher[k].pc = "idle", rel[k].pc = "idle", UNCHANGED <<registry, handle, watcher, rel>>, CallsCalm
  PROVE  DecideInv'
<1>1. agent \in [Kids -> Agents] /\ Decided(handle[k], watcher[k], rel[k], agent[k], registry)
  BY DEF SubInv, Typed, TypedChildren, DecideInv
<1>2. agent'[k] = b /\ \A j \in Kids \ {k} : agent'[j] = agent[j]
  BY <1>1
<1>3. Decided(handle'[k], watcher'[k], rel'[k], agent'[k], registry')
  BY <1>1, <1>2 DEF Decided, Dead, Looks, Looking, Leaves
<1> DEFINE S == {k}
<1>4. \A j \in Kids : j \notin S => Still(j)
  <2>1. \A j \in Kids : WatcherCalm(watcher[j], watcher'[j])
    BY SameCalm
  <2> QED  BY <1>2, <2>1, SameStill
<1>5. /\ \A j \in Kids : j \in S => Decided(handle'[j], watcher'[j], rel'[j], agent'[j], registry')
      /\ \A j \in Kids : watcher'[j].pc = "releasing" => watcher[j].pc = "releasing"
  BY <1>3
<1>6. HandlesCalm /\ WatchersCalm
  BY DEF HandlesCalm, WatchersCalm
<1> HIDE DEF S
<1> QED  BY <1>4, <1>5, <1>6, CalmBut

\* A call goes to a step that is not one of a creation about to submit its task.
LEMMA CallToCalm ==
  ASSUME TypedChildren, NEW t \in Threads, NEW c, call' = [call EXCEPT ![t] = c], c.pc \notin {"catalog", "submit"}
  PROVE  CallsCalm
BY DEF TypedChildren, CallsCalm

LEMMA PublishDecide == ASSUME SubInv, DecideInv, NEW t \in Threads, Publish(t) PROVE DecideInv'
<1> DEFINE k == call[t].obj[1]
           g == NewChild(call[t].caller, call[t].mode, call[t].pool, Depth(call[t].caller) + 1, FALSE)
<1>1. /\ TypedChildren /\ UNCHANGED <<registry, agent, watcher, rel>> /\ call[t].pc = "publish"
      /\ call \in [Threads -> Calls \cup {Idle}]
  BY DEF Publish, SubInv, Typed, TypedChildren
<1>2. call[t] \in Calls /\ k \in Kids /\ watcher[k].pc = "idle" /\ rel[k].pc = "idle"
  BY <1>1, PublishIs
<1>3. CASE ~IsClosing(call[t].caller) /\ handle' = [handle EXCEPT ![k] = g] /\ Go(t, "catalog")
  <2>1. \A u \in Threads : Unwatched(call'[u], watcher')
    <3>1. call' = [call EXCEPT ![t] = [call[t] EXCEPT !.pc = "catalog"]]
      BY <1>1, <1>3 DEF Go
    <3>2. [call[t] EXCEPT !.pc = "catalog"].obj = call[t].obj
      BY <1>2 DEF Calls
    <3>3. call'[t].obj = call[t].obj /\ \A u \in Threads \ {t} : call'[u] = call[u]
      BY <1>1, <3>1, <3>2
    <3> QED  BY <1>1, <1>2, <3>3 DEF Unwatched, DecideInv
  <2>2. g.parent = call[t].caller
    BY DEF NewChild
  <2> HIDE DEF g, k
  <2> QED  BY <1>1, <1>2, <1>3, <2>1, <2>2, HandleDecide
<1>4. CASE Go(t, "teardown") /\ UNCHANGED handle
  <2>1. CallsCalm
    BY <1>1, <1>4, GoCalm DEF Go
  <2> QED  BY <1>1, <1>4, <2>1, CallsDecide
<1> QED  BY <1>3, <1>4 DEF Publish

LEMMA CreateAgentDecide == ASSUME SubInv, DecideInv, NEW t \in Threads, CreateAgent(t) PROVE DecideInv'
<1>1. /\ TypedChildren /\ UNCHANGED <<registry, handle, watcher, rel>> /\ call[t] \in Calls
      /\ call \in [Threads -> Calls \cup {Idle}]
  BY CallIs DEF CreateAgent, SubInv, Typed, TypedChildren
<1>2. CASE Return(t) /\ UNCHANGED agent
  <2>1. CallsCalm
    BY <1>1, <1>2, ReturnCalm
  <2> QED  BY <1>1, <1>2, <2>1, CallsDecide
<1>3. ASSUME NEW i \in 1..Len(Ids), res[Ids[i]] = 0,
             agent' = [agent EXCEPT ![Ids[i]] = [Gone EXCEPT !.live = TRUE, !.mode = call[t].mode,
                                                             !.parent = call[t].caller, !.depth = Depth(call[t].caller) + 1]],
             call' = [call EXCEPT ![t].pc = "publish", ![t].obj = <<Ids[i], 1>>]
      PROVE  DecideInv'
  <2> DEFINE k == Ids[i]
             b == [Gone EXCEPT !.live = TRUE, !.mode = call[t].mode, !.parent = call[t].caller, !.depth = Depth(call[t].caller) + 1]
             c == [call[t] EXCEPT !.pc = "publish", !.obj = <<k, 1>>]
  <2>1. k \in Kids
    BY DEF Kids
  <2>2. watcher[k].pc = "idle" /\ rel[k].pc = "idle"
    <3>1. handle[k] = None
      BY <1>3, <2>1 DEF SubInv, Tree, Numbered
    <3> QED  BY <2>1, <3>1 DEF SubInv, Tree, Attended, AttendedBy, Housed
  <2>3. b.live /\ Hands(b)
    BY DEF Gone, Hands, Empty
  <2>4. call' = [call EXCEPT ![t] = c]
    BY <1>1, <1>3
  <2>5. c.pc = "publish"
    BY <1>1 DEF Calls
  <2>6. agent' = [agent EXCEPT ![k] = b]
    BY <1>3
  <2> HIDE DEF b, c, k
  <2>7. CallsCalm
    BY <1>1, <2>4, <2>5, CallToCalm
  <2> QED  BY <1>1, <2>1, <2>2, <2>3, <2>6, <2>7, FreshDecide
<1> QED  BY <1>2, <1>3 DEF CreateAgent

LEMMA ResumeDecide == ASSUME SubInv, DecideInv, NEW t \in Threads, Resume(t) PROVE DecideInv'
<1> DEFINE k == call[t].target
           s == call[t].caller
           g == NewChild(s, "continuable", PoolOf(s), 0, TRUE)
           c == [call[t] EXCEPT !.pc = "reopen", !.pool = PoolOf(s), !.obj = <<k, res[k] + 1>>]
<1>1. /\ TypedChildren /\ UNCHANGED <<registry, agent, watcher, rel>> /\ call[t] \in Calls /\ call[t].pc = "resume"
      /\ call \in [Threads -> Calls \cup {Idle}]
  BY CallIs DEF Resume, SubInv, Typed, TypedChildren
<1>2. CASE (Return(t) \/ Go(t, "deliver")) /\ handle' = handle
  <2>1. CallsCalm
    BY <1>1, <1>2, ReturnCalm, GoCalm DEF Go
  <2> QED  BY <1>1, <1>2, <2>1, CallsDecide
<1>3. CASE /\ InCatalog(s, k) /\ ~Resident(k) /\ handle' = [handle EXCEPT ![k] = g]
           /\ call' = [call EXCEPT ![t].pc = "reopen", ![t].pool = PoolOf(s), ![t].obj = <<k, res[k] + 1>>]
  <2>1. k \in Kids
    <3>1. s \in Pools /\ catalog[s] \subseteq Kids \X Modes
      BY <1>1 DEF Calls, TypedChildren
    <3> QED  BY <1>3, <3>1 DEF InCatalog
  <2>2. watcher[k].pc = "idle" /\ rel[k].pc = "idle"
    BY <1>3, <2>1 DEF SubInv, Tree, Attended, AttendedBy, Housed, Resident
  <2>3. g.closing
    BY DEF NewChild
  <2>4. call' = [call EXCEPT ![t] = c]
    BY <1>1, <1>3
  <2>5. c.pc = "reopen"
    BY <1>1 DEF Calls
  <2> HIDE DEF g, c, k
  <2>6. CallsCalm /\ WatchersCalm
    BY <1>1, <2>4, <2>5, CallToCalm DEF WatchersCalm
  <2>7. \A u \in Threads : Unwatched(call'[u], watcher')
    BY <2>6, CalmUnwatched
  <2> QED  BY <1>1, <1>3, <2>1, <2>2, <2>3, <2>7, HandleDecide
<1> QED  BY <1>2, <1>3 DEF Resume

LEMMA ReopenDecide == ASSUME SubInv, DecideInv, NEW t \in Threads, Reopen(t) PROVE DecideInv'
<1> DEFINE k == call[t].target
           m == IF agent[k].job = "none" THEN "none" ELSE "queued"
           b == [Gone EXCEPT !.live = TRUE, !.mode = "continuable", !.job = m,
                             !.parent = call[t].caller, !.depth = Depth(call[t].caller) + 1]
<1>1. /\ TypedChildren /\ UNCHANGED <<registry, watcher, rel>> /\ call[t].pc = "reopen"
      /\ k \in Kids /\ watcher[k].pc = "idle" /\ rel[k].pc = "idle"
  <2>1. call[t].pc = "reopen" /\ Reopens(call[t])
    BY DEF Reopen, Reopens
  <2> QED  BY <2>1, ReopenIs DEF Reopen, SubInv, Typed
<1>2. CASE agent' = [agent EXCEPT ![k] = b] /\ Go(t, "replace") /\ handle' = handle
  <2>1. b.live /\ Hands(b)
    <3>1. m # "hand"
      OBVIOUS
    <3> HIDE DEF m
    <3> QED  BY <3>1 DEF Gone, Hands, Empty
  <2>2. CallsCalm
    BY <1>1, <1>2, GoCalm DEF Go
  <2> HIDE DEF b, k
  <2> QED  BY <1>1, <1>2, <2>1, <2>2, FreshDecide
<1>3. CASE handle' = [handle EXCEPT ![k] = None] /\ Return(t) /\ agent' = agent
  <2>1. CallsCalm /\ WatchersCalm
    BY <1>1, <1>3, ReturnCalm DEF WatchersCalm
  <2>2. \A u \in Threads : Unwatched(call'[u], watcher')
    BY <2>1, CalmUnwatched
  <2> HIDE DEF k
  <2> QED  BY <1>1, <1>3, <2>2, HandleDecide
<1> QED  BY <1>2, <1>3 DEF Reopen

LEMMA ReplaceDecide == ASSUME SubInv, DecideInv, NEW t \in Threads, Replace(t) PROVE DecideInv'
<1> DEFINE k == call[t].target
           g == NewChild(call[t].caller, "continuable", call[t].pool, Depth(call[t].caller) + 1, FALSE)
<1>1. /\ TypedChildren /\ UNCHANGED <<registry, agent, watcher, rel>> /\ call[t].pc = "replace"
      /\ k \in Kids /\ watcher[k].pc = "idle" /\ rel[k].pc = "idle"
  <2>1. call[t].pc = "replace" /\ Reopens(call[t])
    BY DEF Replace, Reopens
  <2> QED  BY <2>1, ReopenIs DEF Replace, SubInv, Typed
<1>2. CallsCalm /\ WatchersCalm
  <2>1. \E pc \in {"deliver", "teardown"} : Go(t, pc)
    BY DEF Replace
  <2> QED  BY <1>1, <2>1, GoCalm DEF Go, WatchersCalm
<1>3. \A u \in Threads : Unwatched(call'[u], watcher')
  BY <1>2, CalmUnwatched
<1>4. CASE ~IsClosing(call[t].caller) /\ handle' = [handle EXCEPT ![k] = g]
  <2>1. g.parent = call[t].caller
    BY DEF NewChild
  <2> HIDE DEF g, k
  <2> QED  BY <1>1, <1>3, <1>4, <2>1, HandleDecide
<1>5. CASE handle' = [handle EXCEPT ![k] = None]
  <2> HIDE DEF k
  <2> QED  BY <1>1, <1>3, <1>5, HandleDecide
<1> QED  BY <1>4, <1>5 DEF Replace

-----------------------------------------------------------------------------
(* The invariant, and what it says.                                        *)

LEMMA InitDecide == ASSUME Init PROVE DecideInv
<1> USE DEF Init
<1>1. ~Gone.live /\ ~Gone.busy /\ Gone.held = 0 /\ Empty(Gone)
  BY DEF Gone, Empty
<1>2. Idle.pc = "idle"
  BY DEF Idle
<1>3. ASSUME NEW k \in Kids PROVE Decided(handle[k], watcher[k], rel[k], agent[k], registry) /\ Alone(k)
  BY <1>1, <1>2 DEF Decided, Hands, Dead, Looks, Closing, Alone
<1>4. ASSUME NEW t \in Threads PROVE Unwatched(call[t], watcher)
  BY <1>2 DEF Unwatched
<1> QED  BY <1>3, <1>4 DEF DecideInv

SettleInv == SubInv /\ DecideInv

LEMMA DecideStep == ASSUME SubInv, DecideInv, [Next]_vars PROVE DecideInv'
<1>1. ASSUME NEW t \in Threads,
             \/ CreateAgent(t) \/ Publish(t) \/ Catalog(t) \/ Submit(t) \/ Accepted(t) \/ Result(t) \/ CloseChild(t) \/ Teardown(t)
             \/ DeliverUp(t) \/ DeliverDown(t) \/ DeliverElse(t) \/ WaitRelease(t) \/ Resume(t) \/ Reopen(t) \/ Replace(t)
      PROVE  DecideInv'
  BY <1>1, CreateAgentDecide, PublishDecide, SubmitDecide, AcceptedDecide, CloseChildDecide, TeardownDecide,
     DeliverUpDecide, DeliverDownDecide, CallDecide, ResumeDecide, ReopenDecide, ReplaceDecide
<1>2. ASSUME NEW k \in Kids,
             \/ TurnBegin(k) \/ TurnOpens(k) \/ TurnTakes(k) \/ TurnCommits(k) \/ TurnEnd(k) \/ AgentCut(k) \/ AgentExits(k)
             \/ JobNotice(k)
      PROVE  DecideInv'
  BY <1>2, TurnDecide, CutDecide, AgentExitsDecide
<1>3. ASSUME NEW k \in Kids,
             \/ WatchTop(k) \/ WatchIdle(k) \/ WatchEvents(k) \/ WatchStatus(k) \/ WatchDecide(k) \/ WatchParked(k)
             \/ ReleaseInterrupt(k) \/ ReleaseList(k) \/ ReleaseChild(k) \/ ReleaseUnmount(k) \/ ReleaseAgent(k) \/ ReleaseFinish(k)
      PROVE  DecideInv'
  BY <1>3, LookDecide, WatchDecideDecide, ReleaseDecide, ReleaseChildDecide, ReleaseUnmountDecide, ReleaseAgentDecide,
     ReleaseFinishDecide
<1>4. CASE RootCut \/ RegistryStop \/ RegistryStopped \/ Stop \/ StopChild
  BY <1>4, OtherDecide, StopChildDecide
<1>5. ASSUME NEW t \in Threads, NEW s \in Pools,
             \/ \E mode \in Modes, bg \in BOOLEAN : Start(t, s, mode, bg)
             \/ \E target \in Pools : Send(t, s, target)
      PROVE  DecideInv'
  BY <1>5, NewCallDecide
<1>6. ASSUME NEW s \in Pools, NEW k \in Kids, Interrupt(s, k) PROVE DecideInv'
  BY <1>6, CutDecide
<1>7. ASSUME NEW t \in Threads, CancelCall(t) PROVE DecideInv'
  BY <1>7, CallDecide
<1>8. CASE UNCHANGED vars
  <2>1. CallsCalm
    BY <1>8 DEF CallsCalm, vars
  <2> QED  BY <1>8, <2>1, CallsDecide DEF vars
<1>9. CASE CallStep
  BY <1>1, <1>9 DEF CallStep
<1>10. CASE ChildStep
  BY <1>2, <1>3, <1>10 DEF ChildStep
<1>11. CASE Request
  BY <1>2, <1>4, <1>5, <1>6, <1>7, <1>11 DEF Request, Pools
<1> QED  BY <1>4, <1>8, <1>9, <1>10, <1>11 DEF Next, Work

LEMMA StepInv == ASSUME SettleInv, [Next]_vars PROVE SettleInv'
<1>1. \A k \in Kids : Hands(agent[k])
  BY DEF SettleInv, DecideInv, Decided
<1> QED  BY <1>1, StepKept, DecideStep DEF SettleInv

LEMMA SubagentInvariant == Spec => []SettleInv
<1>1. Init => SettleInv
  BY InitInv, InitDecide DEF SettleInv
<1>2. SettleInv /\ [Next]_vars => SettleInv'
  BY StepInv
<1> QED  BY <1>1, <1>2, PTL DEF Spec

\* Only its own decision makes a watcher release its child.
LEMMA OnlyDecideReleases ==
  ASSUME SubInv, Next, NEW k \in Kids, watcher[k].pc = "decide", watcher'[k].pc = "releasing"
  PROVE  WatchDecide(k)
<1>1. watcher \in [Kids -> Watchers \cup {Idle}]
  BY DEF SubInv, Typed, TypedChildren
<1>2. ASSUME NEW j \in Kids, NEW w, w \in [Kids -> Watchers \cup {Idle}], w[k].pc = "decide" \/ w[k].pc = "idle"
      PROVE  Wake(w, j)[k].pc # "releasing"
  <2>1. /\ \A i \in Kids \ {j} : Wake(w, j)[i] = w[i]
        /\ Wake(w, j)[j].pc = w[j].pc
    BY <1>2, WakeIs
  <2> QED  BY <1>2, <2>1
<1>3. ASSUME NEW o \in Objects, CloseNext(o) PROVE FALSE
  <2>1. o[1] \in Kids
    BY DEF Objects
  <2>2. watcher' = watcher \/ watcher' = Wake(watcher, o[1])
    BY <1>3 DEF CloseNext
  <2> QED  BY <1>1, <1>2, <2>1, <2>2
<1>4. watcher' # watcher
  OBVIOUS
<1>5. CASE StopChild
  <2>1. stopTodo.todo \subseteq Objects
    BY DEF SubInv, Typed, TypedRest
  <2>2. \E o \in stopTodo.todo : CloseNext(o)
    BY <1>4, <1>5 DEF StopChild
  <2> QED  BY <1>3, <2>1, <2>2
<1>6. CASE Request \/ RootCut \/ RegistryStopped
  BY <1>4, <1>6, ZenonT(60) DEF Request, Start, Send, Interrupt, CancelCall, JobNotice, RegistryStop, Stop, RootCut, RegistryStopped
<1>7. ASSUME NEW t \in Threads,
             \/ CreateAgent(t) \/ Publish(t) \/ Catalog(t) \/ Submit(t) \/ Accepted(t) \/ Result(t) \/ CloseChild(t) \/ Teardown(t)
             \/ DeliverUp(t) \/ DeliverDown(t) \/ DeliverElse(t) \/ WaitRelease(t) \/ Resume(t) \/ Reopen(t) \/ Replace(t)
      PROVE  FALSE
  <2>1. CallShape(call[t], res) /\ call[t] \in Calls \cup {Idle}
    BY DEF SubInv, CallsKept, Shaped, Typed, TypedChildren
  <2>2. ASSUME NEW j \in Kids, NEW v, v.pc = "top", watcher' = [watcher EXCEPT ![j] = v] PROVE FALSE
    BY <1>1, <2>2
  <2>3. CASE CloseChild(t)
    <3>1. watcher' = Wake(watcher, call[t].obj[1])
      BY <1>4, <2>3 DEF CloseChild
    <3>2. call[t].obj[1] \in Kids
      BY <2>1, <2>3 DEF CloseChild, CallShape, Creates, Creating, Objects
    <3> QED  BY <1>1, <1>2, <3>1, <3>2
  <2>4. CASE Accepted(t)
    <3>1. watcher' = [watcher EXCEPT ![call[t].obj[1]] = [pc |-> "top", stale |-> FALSE, seen |-> 0, held |-> FALSE]]
      BY <1>4, <2>4 DEF Accepted, Accept
    <3>2. call[t].obj[1] \in Kids
      BY <2>1, <2>4 DEF Accepted, CallShape, Creates, Creating, Objects
    <3> QED  BY <2>2, <3>1, <3>2
  <2>5. CASE DeliverUp(t)
    <3>1. watcher' = Wake(watcher, call[t].target) /\ call[t].target # Root
      BY <1>4, <2>5 DEF DeliverUp
    <3>2. call[t].target \in Kids
      BY <2>1, <2>5, <3>1 DEF DeliverUp, CallShape, Calls, Idle, Writing, Delivering, Pools
    <3> QED  BY <1>1, <1>2, <3>1, <3>2
  <2>6. CASE DeliverDown(t)
    <3>1. /\ call[t].target # Root
          /\ \/ watcher' = Wake(watcher, call[t].target)
             \/ watcher' = [watcher EXCEPT ![call[t].target] = [pc |-> "top", stale |-> FALSE, seen |-> 0, held |-> FALSE]]
      BY <1>4, <2>6 DEF DeliverDown
    <3>2. call[t].target \in Kids
      BY <2>1, <2>6, <3>1 DEF DeliverDown, CallShape, Calls, Idle, Writing, Delivering, Pools
    <3> QED  BY <1>1, <1>2, <2>2, <3>1, <3>2
  <2>7. CASE \/ CreateAgent(t) \/ Publish(t) \/ Catalog(t) \/ Submit(t) \/ Result(t) \/ Teardown(t)
             \/ DeliverElse(t) \/ WaitRelease(t) \/ Resume(t) \/ Reopen(t) \/ Replace(t)
    BY <1>4, <2>7 DEF CreateAgent, Publish, Catalog, Submit, Result, Teardown, DeliverElse, WaitRelease, Resume, Reopen, Replace
  <2> QED  BY <1>7, <2>3, <2>4, <2>5, <2>6, <2>7
<1>8. ASSUME NEW j \in Kids,
             \/ TurnBegin(j) \/ TurnOpens(j) \/ TurnTakes(j) \/ TurnCommits(j) \/ TurnEnd(j) \/ AgentCut(j) \/ AgentExits(j)
             \/ WatchTop(j) \/ WatchIdle(j) \/ WatchEvents(j) \/ WatchStatus(j) \/ WatchDecide(j) \/ WatchParked(j)
             \/ ReleaseInterrupt(j) \/ ReleaseList(j) \/ ReleaseChild(j) \/ ReleaseUnmount(j) \/ ReleaseAgent(j) \/ ReleaseFinish(j)
      PROVE  WatchDecide(k)
  <2>1. CASE \/ TurnBegin(j) \/ TurnOpens(j) \/ TurnTakes(j) \/ TurnCommits(j) \/ TurnEnd(j) \/ AgentCut(j) \/ AgentExits(j)
             \/ ReleaseInterrupt(j) \/ ReleaseList(j) \/ ReleaseUnmount(j) \/ ReleaseAgent(j)
    BY <1>4, <2>1 DEF TurnBegin, TurnOpens, TurnTakes, TurnCommits, TurnEnd, AgentCut, AgentExits, ReleaseInterrupt, ReleaseList, ReleaseUnmount, ReleaseAgent
  <2>2. CASE \/ WatchTop(j) \/ WatchIdle(j) \/ WatchEvents(j) \/ WatchStatus(j) \/ WatchParked(j)
    <3>1. j = k => FALSE
      BY <2>2 DEF WatchTop, WatchIdle, WatchEvents, WatchStatus, WatchParked
    <3>2. j # k => watcher'[k] = watcher[k]
      BY <1>1, <2>2 DEF WatchTop, WatchIdle, WatchEvents, WatchStatus, WatchParked
    <3> QED  BY <3>1, <3>2
  <2>3. CASE WatchDecide(j)
    <3>1. j # k => watcher'[k] = watcher[k]
      BY <1>1, <2>3 DEF WatchDecide
    <3> QED  BY <2>3, <3>1
  <2>4. CASE ReleaseChild(j)
    <3>1. rel[j].todo \subseteq Objects
      <4>1. rel[j].pc = "children" /\ rel[j] \in Releases \cup {Idle}
        BY <2>4 DEF ReleaseChild, SubInv, Typed, TypedChildren
      <4> QED  BY <4>1 DEF Releases, Idle
    <3>2. \E o \in rel[j].todo : CloseNext(o)
      BY <1>4, <2>4 DEF ReleaseChild
    <3> QED  BY <1>3, <3>1, <3>2
  <2>5. CASE ReleaseFinish(j)
    <3>1. watcher'[j].pc = "idle" /\ \A i \in Kids \ {j} : watcher'[i].pc = watcher[i].pc
      BY <2>5, FinishIs
    <3> QED  BY <3>1
  <2> QED  BY <1>8, <2>1, <2>2, <2>3, <2>4, <2>5
<1> QED  BY <1>5, <1>6, <1>7, <1>8 DEF Next, Work, CallStep, ChildStep

\* Only its own step ends the wait of a release for the child's agent.
LEMMA OnlyAgentEnds ==
  ASSUME SubInv, Next, NEW k \in Kids, rel[k].pc = "agent", rel'[k].pc = "jobs"
  PROVE  ReleaseAgent(k)
<1>1. rel \in [Kids -> Releases \cup {Idle}] /\ rel[k] \in Releases
  BY ReleaseIs DEF SubInv, Typed, TypedChildren
<1>2. rel' # rel /\ rel'[k] # rel[k]
  OBVIOUS
<1>3. ASSUME NEW j \in Kids, NEW notice, MarkClosing(j, notice) PROVE FALSE
  <2>1. rel' = [rel EXCEPT ![j] = Begun(notice)] /\ Begun(notice).pc = "interrupt"
    BY <1>3 DEF MarkClosing, Begun
  <2> QED  BY <1>1, <2>1
<1>4. ASSUME NEW o \in Objects, NEW r \in [Kids -> Releases \cup {Idle}], r[k].pc = "agent", rel' = Releasing(r, o) PROVE FALSE
  <2>1. o[1] \in Kids /\ Begun(FALSE).pc = "interrupt"
    BY DEF Objects, Begun
  <2>2. rel' = r \/ rel' = [r EXCEPT ![o[1]] = Begun(FALSE)]
    BY <1>4 DEF Releasing
  <2> QED  BY <1>4, <2>1, <2>2
<1>5. ASSUME NEW t \in Threads, CloseChild(t) PROVE FALSE
  <2>1. CallShape(call[t], res)
    BY DEF SubInv, CallsKept, Shaped
  <2>2. MarkClosing(call[t].obj[1], FALSE) /\ call[t].pc \in {"close", "drop"}
    BY <1>2, <1>5 DEF CloseChild
  <2>3. call[t].obj[1] \in Kids
    BY <2>1, <2>2 DEF CallShape, Creates, Creating, Objects
  <2> QED  BY <1>3, <2>2, <2>3
<1>6. CASE CallStep
  <2>1. ASSUME NEW t \in Threads, CreateAgent(t) \/ Publish(t) \/ Catalog(t) \/ Submit(t) PROVE FALSE
    BY <1>2, <2>1 DEF CreateAgent, Publish, Catalog, Submit
  <2>2. ASSUME NEW t \in Threads, Accepted(t) \/ Result(t) \/ Teardown(t) \/ WaitRelease(t) PROVE FALSE
    BY <1>2, <2>2 DEF Accepted, Result, Teardown, WaitRelease
  <2>3. ASSUME NEW t \in Threads, DeliverUp(t) \/ DeliverDown(t) \/ DeliverElse(t) PROVE FALSE
    BY <1>2, <2>3 DEF DeliverUp, DeliverDown, DeliverElse
  <2>4. ASSUME NEW t \in Threads, Resume(t) \/ Reopen(t) \/ Replace(t) PROVE FALSE
    BY <1>2, <2>4 DEF Resume, Reopen, Replace
  <2> QED  BY <1>5, <1>6, <2>1, <2>2, <2>3, <2>4 DEF CallStep
<1>7. ASSUME NEW j \in Kids,
             \/ TurnBegin(j) \/ TurnOpens(j) \/ TurnTakes(j) \/ TurnCommits(j) \/ TurnEnd(j) \/ AgentCut(j) \/ AgentExits(j)
             \/ WatchTop(j) \/ WatchIdle(j) \/ WatchEvents(j) \/ WatchStatus(j) \/ WatchParked(j)
      PROVE  FALSE
  BY <1>2, <1>7 DEF TurnBegin, TurnOpens, TurnTakes, TurnCommits, TurnEnd, AgentCut, AgentExits, WatchTop, WatchIdle, WatchEvents,
                    WatchStatus, WatchParked
<1>8. ASSUME NEW j \in Kids, WatchDecide(j) PROVE FALSE
  <2>1. MarkClosing(j, handle[j].announced)
    BY <1>2, <1>8 DEF WatchDecide
  <2> QED  BY <1>3, <2>1
<1>9. ASSUME NEW j \in Kids, ReleaseInterrupt(j) \/ ReleaseList(j) \/ ReleaseUnmount(j) \/ ReleaseFinish(j) PROVE FALSE
  <2>1. rel[j].pc # "agent" /\ \A i \in Kids \ {j} : rel'[i] = rel[i]
    BY <1>1, <1>9 DEF ReleaseInterrupt, ReleaseList, ReleaseUnmount, ReleaseFinish
  <2> QED  BY <1>2, <2>1
<1>10. ASSUME NEW j \in Kids, ReleaseChild(j) PROVE FALSE
  <2>1. rel[j].pc = "children" /\ rel[j] \in Releases
    BY <1>10, ReleaseIs DEF ReleaseChild
  <2>2. j # k /\ rel[j].todo \subseteq Objects
    BY <2>1 DEF Releases
  <2>3. CASE \E o \in rel[j].todo : rel' = Releasing([rel EXCEPT ![j].cur = o], o)
    <3>1. PICK o \in Objects : rel' = Releasing([rel EXCEPT ![j].cur = o], o)
      BY <2>2, <2>3
    <3> DEFINE q == [rel[j] EXCEPT !.cur = o]
               r == [rel EXCEPT ![j] = q]
    <3>2. q \in Releases
      BY <2>1 DEF Releases
    <3>3. rel' = Releasing(r, o)
      BY <1>1, <3>1
    <3> HIDE DEF q
    <3>4. r \in [Kids -> Releases \cup {Idle}] /\ r[k].pc = "agent"
      BY <1>1, <2>2, <3>2
    <3> HIDE DEF r
    <3> QED  BY <1>4, <3>3, <3>4
  <2>4. CASE \E q : rel' = [rel EXCEPT ![j] = q]
    BY <1>1, <1>2, <2>2, <2>4
  <2>5. \/ rel' = [rel EXCEPT ![j].todo = @ \ {rel[j].cur}, ![j].cur = <<>>] => \E q : rel' = [rel EXCEPT ![j] = q]
    BY <1>1
  <2>6. rel' = [rel EXCEPT ![j].pc = "unmount"] => \E q : rel' = [rel EXCEPT ![j] = q]
    BY <1>1
  <2> QED  BY <1>10, <2>3, <2>4, <2>5, <2>6 DEF ReleaseChild
<1>11. ASSUME NEW j \in Kids, ReleaseAgent(j) PROVE j = k
  BY <1>1, <1>2, <1>11 DEF ReleaseAgent
<1>12. CASE ChildStep
  BY <1>7, <1>8, <1>9, <1>10, <1>11, <1>12 DEF ChildStep
<1>13. CASE StopChild
  <2>1. stopTodo.todo \subseteq Objects
    BY DEF SubInv, Typed, TypedRest
  <2>2. \E o \in stopTodo.todo : rel' = Releasing(rel, o)
    BY <1>2, <1>13 DEF StopChild
  <2> QED  BY <1>1, <1>4, <2>1, <2>2
<1>14. CASE Request \/ RootCut \/ RegistryStopped
  BY <1>2, <1>14, ZenonT(60) DEF Request, Start, Send, Interrupt, CancelCall, JobNotice, RegistryStop, Stop, RootCut, RegistryStopped
<1> QED  BY <1>6, <1>12, <1>13, <1>14 DEF Next, Work

\* Every live child has an owner, the registry's stop among them; while the
\* registry has its agents every child that is not closing has one, and a watcher
\* that will settle it; and the pools stay within their limit (publish, replace,
\* acceptedLocked, reserve).
THEOREM ChildrenAlwaysKept == Spec => []ChildrenKept
<1>1. SettleInv => ChildrenKept
  <2> SUFFICES ASSUME SubInv PROVE ChildrenKept
    BY DEF SettleInv
  <2>1. PoolBounded
    BY DEF SubInv
  <2>2. ChildOwned
    <3> SUFFICES ASSUME NEW k \in Kids
                 PROVE  /\ agent[k].live => \/ Resident(k) /\ ~handle[k].ph
                                            \/ \E t \in Threads : call[t].pc \in {"publish", "replace", "teardown"} /\ call[t].obj[1] = k
                                            \/ registry = "closing"
                        /\ registry = "open" /\ Resident(k) /\ ~handle[k].closing =>
                             agent[k].live /\ (handle[k].announced /\ svc = "active" => watcher[k].pc # "idle")
      BY DEF ChildOwned
    <3>1. OwnedBy(k, handle[k], agent[k], call, registry) /\ Settled(svc, registry, handle[k], agent[k], watcher[k])
      BY DEF SubInv, Tree, Owned, Settling
    <3> QED  BY <3>1 DEF OwnedBy, HeldBy, Holds, Housed, Settled, Resident
  <2> QED  BY <2>1, <2>2 DEF ChildrenKept
<1> QED  BY <1>1, SubagentInvariant, PTL

\* What the service delivered to a resident child whose agent lives is in its
\* inbox, in the hands of its turn, in its log, or was lost with an append that
\* failed, and in one place only (deliveredLocked, claimWake, drainNotices).
THEOREM DeliveriesAlwaysAccounted == Spec => []DeliveredAccounted
<1>1. SettleInv => DeliveredAccounted
  BY DEF SettleInv, SubInv, Settling, Settled, DeliveredAccounted, Resident
<1> QED  BY <1>1, SubagentInvariant, PTL

\* When the log holds at least as many messages as were delivered, the inbox
\* holds none.
LEMMA AllCommitted ==
  ASSUME NEW n \in Nat, NEW d \in Nat, NEW held \in Nat, NEW hand \in Nat, NEW done \in Nat, NEW lost \in Nat,
         ~(n < d), n <= done, d = held + hand + done + lost
  PROVE  held = 0
OBVIOUS

\* Whatever is delivered while a watcher looks, it decides to release only a
\* child with no message of the service in its inbox and no continuable child;
\* and the worker of a child so released exits with every message in its log or
\* lost with a failed append (watch, claimWake, restoreNotice, release).
THEOREM SettlesAlwaysWhenDone == Spec => SettlesOnlyWhenDone
<1> DEFINE Step == \A k \in Kids :
       /\ watcher[k].pc = "decide" /\ watcher'[k].pc = "releasing" => agent[k].held = 0 /\ ~HasContinuable(k)
       /\ watcher[k].pc = "releasing" /\ rel[k].pc = "agent" /\ rel'[k].pc = "jobs" =>
            handle[k].delivered = agent[k].done + agent[k].lost
<1>1. SettleInv /\ [Next]_vars => [Step]_vars
  <2> SUFFICES ASSUME SubInv, DecideInv, Next, NEW k \in Kids
               PROVE  /\ watcher[k].pc = "decide" /\ watcher'[k].pc = "releasing" => agent[k].held = 0 /\ ~HasContinuable(k)
                      /\ watcher[k].pc = "releasing" /\ rel[k].pc = "agent" /\ rel'[k].pc = "jobs" =>
                           handle[k].delivered = agent[k].done + agent[k].lost
    BY DEF SettleInv
  <2>1. agent[k] \in Agents /\ handle[k] \in Child \cup {None} /\ Decided(handle[k], watcher[k], rel[k], agent[k], registry)
    BY DEF SubInv, Typed, TypedChildren, DecideInv
  <2>2. ASSUME watcher[k].pc = "decide", watcher'[k].pc = "releasing" PROVE agent[k].held = 0 /\ ~HasContinuable(k)
    <3>1. WatchDecide(k)
      BY <2>2, OnlyDecideReleases
    <3>2. watcher \in [Kids -> Watchers \cup {Idle}] /\ watcher[k] \in Watchers /\ watcher[k].seen \in Nat
      BY <2>2, WatcherIs, WatcherSeen
    <3>3. ~watcher[k].stale /\ ~HasContinuable(k) /\ ~Queued(k) /\ ~handle[k].closing
      <4>1. ASSUME NEW pc, watcher' = [watcher EXCEPT ![k].pc = pc] PROVE pc = "releasing"
        <5>1. watcher'[k] = [watcher[k] EXCEPT !.pc = pc]
          BY <3>2, <4>1
        <5> QED  BY <2>2, <3>2, <5>1 DEF Watchers
      <4> QED  BY <3>1, <4>1 DEF WatchDecide, MarkClosing
    <3>4. handle[k] # None /\ handle[k] \in Child
      BY <2>1, <2>2 DEF SubInv, Tree, Attended, AttendedBy, Housed
    <3>5. CASE agent[k].live
      <4>1. handle[k].delivered = Received(agent[k])
        BY <3>3, <3>4, <3>5 DEF SubInv, Settling, Settled
      <4>2. watcher[k].seen <= agent[k].done /\ (~watcher[k].held => Clear(agent[k]))
        BY <2>1, <2>2, <3>3, <3>5 DEF Decided, Looks
      <4>3. ~(watcher[k].seen < handle[k].delivered /\ watcher[k].held)
        BY <3>3 DEF Queued
      <4>4. /\ watcher[k].seen \in Nat /\ handle[k].delivered \in Nat
            /\ agent[k].held \in Nat /\ agent[k].hand \in Nat /\ agent[k].done \in Nat /\ agent[k].lost \in Nat
        BY <2>1, <3>2, <3>4 DEF Agents, Child
      <4>5. CASE ~watcher[k].held
        BY <3>3, <4>2, <4>5 DEF Clear
      <4>6. CASE watcher[k].held
        <5>1. ~(watcher[k].seen < handle[k].delivered)
          BY <4>3, <4>6
        <5>2. agent[k].held = 0
          BY <4>1, <4>2, <4>4, <5>1, AllCommitted DEF Received
        <5> QED  BY <3>3, <5>2
      <4> QED  BY <4>5, <4>6
    <3>6. CASE ~agent[k].live
      <4>1. rel[k].pc = "idle"
        BY <3>3 DEF SubInv, Tree, Attended, AttendedBy
      <4> QED  BY <2>1, <3>3, <3>6, <4>1 DEF Decided, Dead
    <3> QED  BY <3>5, <3>6
  <2>3. ASSUME watcher[k].pc = "releasing", rel[k].pc = "agent", rel'[k].pc = "jobs"
        PROVE  handle[k].delivered = agent[k].done + agent[k].lost
    <3>1. ReleaseAgent(k)
      BY <2>3, OnlyAgentEnds
    <3>2. agent[k].hand = 0
      BY <3>1 DEF ReleaseAgent, Empty
    <3>3. handle[k].delivered = Received(agent[k]) /\ agent[k].held = 0
      BY <2>1, <2>3 DEF Decided, Leaves, Clear
    <3>4. agent[k].done \in Nat /\ agent[k].lost \in Nat
      BY <2>1 DEF Agents
    <3> QED  BY <3>2, <3>3, <3>4 DEF Received
  <2> QED  BY <2>2, <2>3
<1>2. Spec => [][Step]_vars
  BY <1>1, SubagentInvariant, PTL DEF Spec
<1> QED  BY <1>2 DEF SettlesOnlyWhenDone

\* Once the calls are over no slot of a pool stays reserved, and once stop has
\* returned too no child's agent or handle is left, also when the registry
\* stopped first (unreserve, close, stop).
THEOREM NothingEverOwed == Spec => []NothingOwed
<1>1. SettleInv /\ StopsInTurn => NothingOwed
  <2> SUFFICES ASSUME SubInv, StopsInTurn, \A t \in Threads : call[t].pc = "idle"
               PROVE  /\ \A p \in Pools : reserved[p] = 0
                      /\ svc = "stopped" => \A k \in Kids : ~agent[k].live /\ ~Resident(k)
    BY DEF SettleInv, NothingOwed, Pools
  <2>1. ASSUME NEW p \in Pools PROVE reserved[p] = 0
    <3>1. {t \in Threads : Reserves(call[t], p)} = {}
      BY DEF Reserves
    <3>2. reserved[p] = Cardinality({t \in Threads : Reserves(call[t], p)})
      BY DEF SubInv, ReservedExact
    <3> QED  BY <3>1, <3>2, FS_EmptySet
  <2>2. ASSUME svc = "stopped", NEW k \in Kids PROVE ~agent[k].live /\ ~Resident(k)
    <3>1. ~Housed(handle[k])
      BY <2>2 DEF SubInv, StopListed, StopKnows
    <3>2. ~HeldBy(k, call) /\ ~ReopenedBy(k, call)
      BY DEF HeldBy, ReopenedBy, Holds, Reopens
    <3>3. ~Resident(k)
      BY <3>1, <3>2 DEF SubInv, Tree, Placeholders, Placeholder, Housed, Vacant, Resident
    <3>4. ~agent[k].live
      <4>1. registry # "closing"
        BY <2>2 DEF StopsInTurn
      <4> QED  BY <3>1, <3>2, <4>1 DEF SubInv, Tree, Owned, OwnedBy
    <3> QED  BY <3>3, <3>4
  <2> QED  BY <2>1, <2>2
<1> QED  BY <1>1, SubagentInvariant, StopOrder, PTL
=============================================================================
