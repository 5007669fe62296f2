-------------------------- MODULE EngineTurnProofs --------------------------
(***************************************************************************)
(* Proofs about EngineTurn for every set of calls, questions and batches,  *)
(* any group limit, any number of turns and steps, and any number of       *)
(* failing appends.                                                        *)
(*                                                                         *)
(* Two inductive invariants.  BatchInv says what the batch's own variables *)
(* know of each call at each control point; it needs nothing of the log.   *)
(* LogInv says what the control point implies of the engine's flags        *)
(* (Control) and, unless a closing record was lost, of the log (LogHeld):  *)
(* from it every record appended is one the log accepts.                   *)
(***************************************************************************)
EXTENDS EngineTurn, FiniteSetTheorems, TLAPS

-----------------------------------------------------------------------------
(* The inductive invariant.                                                *)

\* The points of a turn between two steps, and those inside one.
BetweenPoints == {"opening", "boundary", "head", "compact", "summary", "compactEnd", "compacted",
                  "context", "start", "answered", "turnEnd"}
StepPoints == {"header", "model", "calls", "batch", "results", "stepEnd"}
ClosePoints == {"close", "closeAsks", "closeCalls", "closeStep", "closeTurn"}

\* Where a step or a compaction may lead.
ThenPoints == {"head", "compacted", "boundary", "answered", "max_tokens", "overflow"}

\* The batch's variables, and where the engine goes past it.
BatchTypes ==
    /\ then \in ThenPoints
    /\ batch \in Seq(Calls) /\ IsInjective(batch) /\ status \in [Calls -> Statuses]
    /\ answers \in 0..Len(batch) /\ allowed \subseteq Calls /\ ran \subseteq Calls

\* The others.
Types ==
    /\ order \in Orders /\ pc \in PcStates /\ turn \in Nat /\ step \in Nat /\ faults \in Nat
    /\ turnOpen \in BOOLEAN /\ stepOpen \in BOOLEAN /\ cancelled \in BOOLEAN
    /\ rejected \in BOOLEAN /\ lost \in BOOLEAN
    /\ asks \subseteq Asks /\ calls \subseteq Calls

\* What the control point says of the engine's own flags.
Control ==
    /\ pc \notin {"idle", "open"} => turnOpen
    /\ pc \in BetweenPoints \cup {"open"} => ~stepOpen
    /\ pc = "open" => step = 0
    /\ pc \in StepPoints \cup {"closeAsks", "closeCalls", "closeStep"} => stepOpen
    /\ pc \in {"compact", "summary", "compactEnd"} => then \in {"compacted", "head"}
    /\ pc = "stepEnd" => then \in {"boundary", "answered", "max_tokens", "overflow"}
    /\ manual \in {"checked", "started", "ending"} => pc = "idle"
    /\ lost => faults > 0

\* A call is started in order, by a tool that may run it, and, when gated, runs
\* by an allowed outcome.
BatchHeld ==
    /\ \A c \in Calls : status[c] # "none" => c \in Range(batch)
    /\ pc = "calls" => \A c \in Calls : status[c] \in {"none", "new"}
    /\ pc \in {"batch", "results"} => \A c \in Range(batch) : status[c] # "none"
    /\ pc = "results" => \A c \in Range(batch) : status[c] = "done"
    /\ pc \in {"calls", "batch"} => answers = 0
    /\ \A c \in Calls : Active(c) => ~Refused(c)
    /\ \A c \in Calls : status[c] \in {"ready", "running"} /\ c \in Gated => c \in allowed
    /\ \A c \in ran : ~Refused(c)

\* A call that waits to be started has only waiting calls after it.
StartedInOrder ==
    pc = "batch" =>
        \A i, j \in DOMAIN batch : i < j /\ status[batch[i]] = "new" => status[batch[j]] = "new"

\* With no step open nothing is pending.
Quiet(o) == o.step = 0 /\ o.calls = {}

\* Questions and todo writes are about pending calls.
Tied(o) == (\A q \in o.asked : q[2] \in o.calls) /\ o.todos \subseteq o.calls

\* Each call has one open question at most, while it waits for the decision, or
\* after a decision that could not be recorded.
Questions ==
    /\ \A q \in order.asked : status[q[2]] \in {"asked", "done"}
    /\ faults = 0 => \A q \in order.asked : status[q[2]] = "asked"
    /\ \A p, q \in order.asked : p[2] = q[2] => p = q
    /\ \A c \in order.todos : status[c] = "done"

\* What the control point says of the log.
LogHeld ==
    /\ pc \in {"idle", "open"} => order.turn = 0 /\ Quiet(order)
    /\ pc \notin {"idle", "open"} => order.turn = turn
    /\ pc = "open" => turn = order.lastTurn + 1
    /\ order.compaction # None => pc \in {"summary", "compactEnd"} \/ manual \in {"started", "ending"}
    /\ pc \in BetweenPoints => Quiet(order) /\ order.lastStep = step
    /\ pc \in StepPoints => order.lastStep = step
    /\ pc \in StepPoints \cup {"closeAsks", "closeCalls", "closeStep"} => order.step = step
    /\ pc = "close" => IF stepOpen THEN order.step = step ELSE Quiet(order)
    /\ pc = "closeTurn" => Quiet(order)
    /\ pc \in {"header", "model", "stepEnd"} => order.calls = {}
    /\ pc \in {"header", "model"} => ~order.assistant
    /\ pc = "calls" => order.assistant /\ order.calls = {c \in Calls : status[c] = "new"}
                       /\ order.asked = {} /\ order.todos = {}
    /\ pc = "batch" => order.calls = Range(batch)
    /\ pc = "results" => order.calls = {batch[i] : i \in (answers + 1)..Len(batch)}
    /\ pc \in {"batch", "results"} => Questions
    /\ pc = "stepEnd" /\ then = "max_tokens" => order.assistant
    /\ pc \in ClosePoints /\ outcome = "max_tokens" => order.assistant
    /\ pc = "closeAsks" => asks = {q[1] : q \in order.asked} /\ calls = order.calls
    /\ pc = "closeCalls" => order.asked = {} /\ calls = order.calls
    /\ pc = "closeStep" => order.calls = {}

\* The batch's invariant needs nothing of the log, and the log's needs the batch's.
BatchInv == BatchTypes /\ BatchHeld /\ StartedInOrder /\ CallsControlled

LogInv == Types /\ Control /\ Tied(order) /\ (~lost => LogHeld) /\ NeverRejected

-----------------------------------------------------------------------------
(* The records the engine appends: when the log accepts each, and what the  *)
(* fold knows afterwards.                                                  *)

Place(o) == <<o.turn, o.lastTurn, o.step, o.lastStep>>
Pending(o) == <<o.calls, o.asked, o.todos, o.seen>>

\* turn/start.
LEMMA TurnStartRule ==
    ASSUME NEW o \in Orders, NEW t \in Nat
    PROVE  LET r == Rec("turn/start", t, 0)
               p == Apply(o, r)
           IN  /\ Accepts(o, r) <=> o.turn = 0 /\ t = o.lastTurn + 1
               /\ p \in Orders /\ p.turn = t /\ p.lastTurn = t /\ p.step = o.step /\ p.lastStep = 0
               /\ Pending(p) = Pending(o) /\ p.compaction = o.compaction
<1> DEFINE r == Rec("turn/start", t, 0)
           p == [o EXCEPT !.turn = t, !.lastTurn = t, !.lastStep = 0, !.assistant = FALSE]
<1>1. Apply(o, r) = p
  BY DEF Apply, Rec
<1>2. Accepts(o, r) <=> o.turn = 0 /\ t = o.lastTurn + 1
  BY DEF Accepts, AcceptsTurn, AcceptsStep, AcceptsCall, AcceptsCompaction, Rec
<1>3. /\ p.turn = t /\ p.lastTurn = t /\ p.step = o.step /\ p.lastStep = 0
      /\ Pending(p) = Pending(o) /\ p.compaction = o.compaction
  BY DEF Orders, Pending
<1>4. p \in Orders
  <2> DEFINE u == [o EXCEPT !.turn = t, !.lastTurn = t, !.lastStep = 0]
  <2>1. u \in Orders
    BY DEF Orders
  <2>2. p = [u EXCEPT !.assistant = FALSE]
    OBVIOUS
  <2> HIDE DEF u, p
  <2> QED
    BY <2>1, <2>2 DEF Orders
<1> QED
  BY <1>1, <1>2, <1>3, <1>4

\* turn/end.
LEMMA TurnEndRule ==
    ASSUME NEW o \in Orders, NEW t \in Nat, NEW x
    PROVE  LET r == RecOf("turn/end", t, 0, x)
               p == Apply(o, r)
           IN  /\ Accepts(o, r) <=> /\ t = o.turn /\ o.step = 0 /\ o.compaction = None
                                    /\ x = "max_tokens" => o.assistant
               /\ p \in Orders /\ p.turn = 0 /\ p.lastTurn = o.lastTurn /\ p.step = o.step
               /\ p.lastStep = o.lastStep /\ Pending(p) = Pending(o) /\ p.compaction = o.compaction
  BY DEF Accepts, AcceptsTurn, AcceptsStep, AcceptsCall, AcceptsCompaction, RecOf, InTurn, Between,
         Apply, Orders, Pending

\* The records that only have to be in their place.
LEMMA MessageRule ==
    ASSUME NEW o \in Orders, NEW t \in Nat
    PROVE  /\ Accepts(o, Rec("user/message", t, 0)) <=> t = o.turn
           /\ Apply(o, Rec("user/message", t, 0)) = o
  BY DEF Accepts, AcceptsTurn, AcceptsStep, AcceptsCall, AcceptsCompaction, Rec, InTurn, Apply

LEMMA FactRule ==
    ASSUME NEW o \in Orders, NEW t \in Nat, NEW s \in Nat
    PROVE  /\ Accepts(o, Rec("step/fact", t, s)) <=> t = o.turn /\ s = o.step
           /\ Accepts(o, Rec("llm/retry", t, s)) <=> t = o.turn /\ s = o.step /\ ~o.assistant
           /\ Apply(o, Rec("step/fact", t, s)) = o /\ Apply(o, Rec("llm/retry", t, s)) = o
  BY DEF Accepts, AcceptsTurn, AcceptsStep, AcceptsCall, AcceptsCompaction, Rec, InStep, Apply

LEMMA PruneRule ==
    ASSUME NEW o \in Orders, NEW t \in Nat
    PROVE  /\ Accepts(o, Rec("compaction/prune", t, 0)) <=> t = o.turn /\ o.step = 0 /\ o.compaction = None
           /\ Apply(o, Rec("compaction/prune", t, 0)) = o
  BY DEF Accepts, AcceptsTurn, AcceptsStep, AcceptsCall, AcceptsCompaction, Rec, Between, Apply

LEMMA SummaryRule ==
    ASSUME NEW o \in Orders, NEW t \in Nat
    PROVE  /\ Accepts(o, RecOf("compaction/summary", t, 0, o.compaction))
           /\ Apply(o, RecOf("compaction/summary", t, 0, o.compaction)) = o
  BY DEF Accepts, AcceptsTurn, AcceptsStep, AcceptsCall, AcceptsCompaction, RecOf, Apply

\* A compaction starts and ends.
LEMMA CompactionStartRule ==
    ASSUME NEW o \in Orders, NEW t \in Nat, NEW k \in Compactions
    PROVE  LET r == RecOf("compaction/start", t, 0, k)
               p == Apply(o, r)
           IN  /\ Accepts(o, r) <=> o.compaction = None /\ t \in {0, o.turn}
               /\ p \in Orders /\ Place(p) = Place(o) /\ Pending(p) = Pending(o)
               /\ p.assistant = o.assistant
  BY DEF Accepts, AcceptsTurn, AcceptsStep, AcceptsCall, AcceptsCompaction, RecOf, Apply, Orders,
         Pending, Place

LEMMA CompactionEndRule ==
    ASSUME NEW o \in Orders, NEW t \in Nat
    PROVE  LET r == RecOf("compaction/end", t, 0, o.compaction)
               p == Apply(o, r)
           IN  /\ Accepts(o, r)
               /\ p \in Orders /\ Place(p) = Place(o) /\ Pending(p) = Pending(o)
               /\ p.assistant = o.assistant /\ p.compaction = None
  BY DEF Accepts, AcceptsTurn, AcceptsStep, AcceptsCall, AcceptsCompaction, RecOf, Apply, Orders,
         Pending, Place

\* A change of the plan mode.
LEMMA PlanRule ==
    ASSUME NEW o \in Orders, NEW t \in Nat, NEW y \in {"plan/on", "plan/off"}
    PROVE  LET r == Rec(y, t, 0)
               p == Apply(o, r)
           IN  /\ Accepts(o, r) <=> t = o.turn /\ o.step = 0 /\ (y = "plan/on" <=> ~o.plan)
               /\ p \in Orders /\ Place(p) = Place(o) /\ Pending(p) = Pending(o)
               /\ p.assistant = o.assistant /\ p.compaction = o.compaction
<1>0. o.plan \in BOOLEAN
  BY DEF Orders
<1>1. CASE y = "plan/on"
  BY <1>0, <1>1 DEF Accepts, AcceptsTurn, AcceptsStep, AcceptsCall, AcceptsCompaction, Rec, Between, Apply,
         Orders, Pending, Place
<1>2. CASE y = "plan/off"
  BY <1>0, <1>2 DEF Accepts, AcceptsTurn, AcceptsStep, AcceptsCall, AcceptsCompaction, Rec, Between, Apply,
         Orders, Pending, Place
<1> QED
  BY <1>1, <1>2

\* A step starts and ends.
LEMMA StepStartRule ==
    ASSUME NEW o \in Orders, NEW t \in Nat, NEW s \in Nat
    PROVE  LET r == Rec("step/start", t, s)
               p == Apply(o, r)
           IN  /\ Accepts(o, r) <=> t = o.turn /\ o.step = 0 /\ s = o.lastStep + 1
               /\ p \in Orders /\ p.turn = o.turn /\ p.lastTurn = o.lastTurn /\ p.step = s
               /\ p.lastStep = s /\ Pending(p) = Pending(o) /\ p.compaction = o.compaction
               /\ ~p.assistant
<1> DEFINE r == Rec("step/start", t, s)
           p == [o EXCEPT !.step = s, !.lastStep = s, !.assistant = FALSE]
<1>1. Apply(o, r) = p
  BY DEF Apply, Rec
<1>2. Accepts(o, r) <=> t = o.turn /\ o.step = 0 /\ s = o.lastStep + 1
  BY DEF Accepts, AcceptsTurn, AcceptsStep, AcceptsCall, AcceptsCompaction, Rec, Between
<1>3. /\ p.turn = o.turn /\ p.lastTurn = o.lastTurn /\ p.step = s /\ p.lastStep = s
      /\ Pending(p) = Pending(o) /\ p.compaction = o.compaction /\ ~p.assistant
  BY DEF Orders, Pending
<1>4. p \in Orders
  <2> DEFINE u == [o EXCEPT !.step = s, !.lastStep = s]
  <2>1. u \in Orders
    BY DEF Orders
  <2>2. p = [u EXCEPT !.assistant = FALSE]
    OBVIOUS
  <2> HIDE DEF u, p
  <2> QED
    BY <2>1, <2>2 DEF Orders
<1> QED
  BY <1>1, <1>2, <1>3, <1>4

LEMMA StepEndRule ==
    ASSUME NEW o \in Orders, NEW t \in Nat, NEW s \in Nat
    PROVE  LET r == Rec("step/end", t, s)
               p == Apply(o, r)
           IN  /\ Accepts(o, r) <=> /\ t = o.turn /\ s = o.step
                                    /\ o.calls = {} /\ o.asked = {} /\ o.compaction = None
               /\ p \in Orders /\ p.turn = o.turn /\ p.lastTurn = o.lastTurn /\ p.step = 0
               /\ p.lastStep = o.lastStep /\ Pending(p) = Pending(o) /\ p.compaction = o.compaction
               /\ p.assistant = o.assistant
  BY DEF Accepts, AcceptsTurn, AcceptsStep, AcceptsCall, AcceptsCompaction, Rec, InStep, StepMayEnd,
         Apply, Orders, Pending

LEMMA AssistantRule ==
    ASSUME NEW o \in Orders, NEW t \in Nat, NEW s \in Nat
    PROVE  LET r == Rec("assistant/message", t, s)
               p == Apply(o, r)
           IN  /\ Accepts(o, r) <=> t = o.turn /\ s = o.step /\ ~o.assistant
               /\ p \in Orders /\ Place(p) = Place(o) /\ Pending(p) = Pending(o)
               /\ p.compaction = o.compaction /\ p.assistant
  BY DEF Accepts, AcceptsTurn, AcceptsStep, AcceptsCall, AcceptsCompaction, Rec, InStep,
         Apply, Orders, Pending, Place

\* A call is recorded, and answered by an error or a success.
LEMMA CallRule ==
    ASSUME NEW o \in Orders, NEW t \in Nat, NEW s \in Nat, NEW c \in Calls
    PROVE  LET r == RecOf("tool/call", t, s, c)
               p == Apply(o, r)
           IN  /\ Accepts(o, r) <=> t = o.turn /\ s = o.step /\ o.assistant /\ c \notin o.calls
               /\ p \in Orders /\ Place(p) = Place(o) /\ p.compaction = o.compaction
               /\ p.assistant = o.assistant /\ p.calls = o.calls \cup {c}
               /\ p.asked = o.asked /\ p.todos = o.todos
  BY DEF Accepts, AcceptsTurn, AcceptsStep, AcceptsCall, AcceptsCompaction, RecOf, InStep,
         Apply, Orders, Place

LEMMA AnswerRule ==
    ASSUME NEW o \in Orders, NEW t \in Nat, NEW s \in Nat, NEW c \in Calls
    PROVE  LET r == RecOf("tool/result", t, s, c)
               p == Apply(o, r)
           IN  /\ Accepts(o, r) <=> /\ t = o.turn /\ s = o.step /\ c \in o.calls
                                    /\ \A q \in o.asked : q[2] # c
               /\ p \in Orders /\ Place(p) = Place(o) /\ p.compaction = o.compaction
               /\ p.assistant = o.assistant /\ p.calls = o.calls \ {c}
               /\ p.asked = o.asked /\ p.todos = o.todos \ {c}
  BY DEF Accepts, AcceptsTurn, AcceptsStep, AcceptsCall, AcceptsCompaction, RecOf, InStep,
         ResultMayFollow, Apply, Orders, Place

LEMMA SuccessRule ==
    ASSUME NEW o \in Orders, NEW t \in Nat, NEW s \in Nat, NEW c \in Calls
    PROVE  LET r == RecOf("tool/success", t, s, c)
               p == Apply(o, r)
           IN  /\ Accepts(o, r) <=> /\ t = o.turn /\ s = o.step /\ c \in o.calls \ Omitted
                                    /\ \A q \in o.asked : q[2] # c
               /\ p \in Orders /\ Place(p) = Place(o) /\ p.compaction = o.compaction
               /\ p.assistant = o.assistant /\ p.calls = o.calls \ {c}
               /\ p.asked = o.asked /\ p.todos = o.todos \ {c}
  BY DEF Accepts, AcceptsTurn, AcceptsStep, AcceptsCall, AcceptsCompaction, RecOf, InStep,
         ResultMayFollow, Apply, Orders, Place

LEMMA TodoRule ==
    ASSUME NEW o \in Orders, NEW t \in Nat, NEW s \in Nat, NEW c \in Calls
    PROVE  LET r == RecOf("todo/write", t, s, c)
               p == Apply(o, r)
           IN  /\ Accepts(o, r) <=> /\ t = o.turn /\ s = o.step
                                    /\ c \in (o.calls \cap TodoCalls) \ Omitted /\ c \notin o.todos
               /\ p \in Orders /\ Place(p) = Place(o) /\ p.compaction = o.compaction
               /\ p.assistant = o.assistant /\ p.calls = o.calls
               /\ p.asked = o.asked /\ p.todos = o.todos \cup {c}
  BY DEF Accepts, AcceptsTurn, AcceptsStep, AcceptsCall, AcceptsCompaction, RecOf, InStep,
         Apply, Orders, Place

\* A question is asked and decided.
LEMMA AskRule ==
    ASSUME NEW o \in Orders, NEW t \in Nat, NEW s \in Nat, NEW a \in Asks, NEW c \in Calls
    PROVE  LET r == AskOf(t, s, a, c)
               p == Apply(o, r)
           IN  /\ Accepts(o, r) <=> /\ t = o.turn /\ s = o.step /\ c \in o.calls \ Omitted
                                    /\ a \notin o.seen
               /\ p \in Orders /\ Place(p) = Place(o) /\ p.compaction = o.compaction
               /\ p.assistant = o.assistant /\ p.calls = o.calls
               /\ p.asked = o.asked \cup {<<a, c>>} /\ p.todos = o.todos
<1> DEFINE r == AskOf(t, s, a, c)
           p == [o EXCEPT !.asked = @ \cup {<<a, c>>}, !.seen = @ \cup {a}]
<1>1. Apply(o, r) = p
  BY DEF Apply, AskOf
<1>2. Accepts(o, r) <=> t = o.turn /\ s = o.step /\ c \in o.calls \ Omitted /\ a \notin o.seen
  BY DEF Accepts, AcceptsTurn, AcceptsStep, AcceptsCall, AcceptsCompaction, AskOf, InStep
<1>3. o.asked \cup {<<a, c>>} \in SUBSET (Asks \X Calls) /\ o.seen \cup {a} \in SUBSET Asks
  BY DEF Orders
<1>4. /\ p \in Orders /\ Place(p) = Place(o) /\ p.compaction = o.compaction
      /\ p.assistant = o.assistant /\ p.calls = o.calls
      /\ p.asked = o.asked \cup {<<a, c>>} /\ p.todos = o.todos
  BY <1>3 DEF Orders, Place
<1> QED
  BY <1>1, <1>2, <1>4

LEMMA DecideRule ==
    ASSUME NEW o \in Orders, NEW t \in Nat, NEW s \in Nat, NEW a \in Asks
    PROVE  LET r == RecOf("approval/decided", t, s, a)
               p == Apply(o, r)
           IN  /\ Accepts(o, r) <=> t = o.turn /\ s = o.step /\ \E q \in o.asked : q[1] = a
               /\ p \in Orders /\ Place(p) = Place(o) /\ p.compaction = o.compaction
               /\ p.assistant = o.assistant /\ p.calls = o.calls
               /\ p.asked = {q \in o.asked : q[1] # a} /\ p.todos = o.todos
  BY DEF Accepts, AcceptsTurn, AcceptsStep, AcceptsCall, AcceptsCompaction, RecOf, InStep,
         Apply, Orders, Place

-----------------------------------------------------------------------------
(* The batch.                                                              *)

LEMMA LeastIndex ==
    ASSUME NEW S \in SUBSET Nat, S # {}
    PROVE  \E x \in S : \A y \in S : x <= y
<1>1. PICK x \in S : \A y \in S : ~(<<y, x>> \in OpToRel(<, Nat))
  BY NatLessThanWellFounded, WFMin, Zenon
<1>2. \A y \in S : ~(y < x)
  BY <1>1 DEF OpToRel
<1> QED
  BY <1>2

\* Steps that leave the batch alone.
LEMMA BatchAside ==
    ASSUME BatchInv, UNCHANGED tools, then' \in ThenPoints,
           pc' = pc \/ pc' \notin {"calls", "batch", "results"}
    PROVE  BatchInv'
  BY DEF BatchInv, BatchTypes, BatchHeld, StartedInOrder, CallsControlled, RunsOnlyAllowed,
         BarrierExclusive, Active, tools

\* A batch without calls, or whose calls are not recorded yet, has nothing to keep.
LEMMA BatchCleared ==
    ASSUME then' \in ThenPoints, batch' \in Seq(Calls), IsInjective(batch'), status' = [c \in Calls |-> "none"],
           answers' = 0, allowed' = {}, ran' = {}, pc' \notin {"batch", "results"}
    PROVE  BatchInv'
<1>1. BatchTypes'
  BY DEF BatchTypes, Statuses
<1> QED
  BY <1>1 DEF BatchInv, BatchHeld, StartedInOrder, CallsControlled, RunsOnlyAllowed,
         BarrierExclusive, Active

\* A call that started moves on, allowed if it is gated.
LEMMA BatchProgress ==
    ASSUME BatchInv, pc = "batch", pc' = "batch", NEW c \in Calls, Active(c),
           NEW x \in {"asked", "ready", "running", "done"}, status' = [status EXCEPT ![c] = x],
           UNCHANGED <<batch, answers, then>>,
           allowed \subseteq allowed', allowed' \subseteq Calls,
           x \in {"ready", "running"} /\ c \in Gated => c \in allowed',
           ran' = ran \/ (x = "running" /\ ran' = ran \cup {c})
    PROVE  BatchInv'
<1> USE DEF BatchInv
<1>1. BatchTypes'
  BY DEF BatchTypes, Statuses
<1>2. \A d \in Calls : d # c => status'[d] = status[d]
  BY DEF BatchTypes
<1>3. status'[c] = x
  BY DEF BatchTypes
<1>4. \A d \in Calls : Active(d)' => Active(d)
  BY <1>2 DEF Active
<1>5. Range(batch) \subseteq Calls
  BY DEF BatchTypes, Range
<1>6. BatchHeld'
  BY <1>2, <1>3, <1>4, <1>5 DEF BatchHeld, Active
<1>7. StartedInOrder'
  <2> SUFFICES ASSUME NEW i \in DOMAIN batch, NEW j \in DOMAIN batch, i < j,
                      status'[batch[i]] = "new"
               PROVE  status'[batch[j]] = "new"
    BY DEF StartedInOrder
  <2>1. batch[i] \in Calls /\ batch[j] \in Calls
    BY DEF BatchTypes
  <2>2. status[batch[j]] = "new"
    BY <1>2, <1>3, <2>1 DEF StartedInOrder
  <2>3. batch[j] # c
    BY <2>2 DEF Active
  <2> QED
    BY <1>2, <2>1, <2>2, <2>3
<1>8. RunsOnlyAllowed'
  BY DEF CallsControlled, RunsOnlyAllowed
<1>9. BarrierExclusive'
  <2> DEFINE A == {d \in Range(batch) : Active(d)}
             B == {d \in Range(batch) : Active(d)'}
  <2>1. B \subseteq A
    BY <1>4, <1>5
  <2>2. IsFiniteSet(A)
    BY <1>5, FS_Subset, OrderAssumption
  <2>3. Cardinality(B) <= Cardinality(A) /\ Cardinality(B) \in Nat /\ Cardinality(A) \in Nat
    BY <2>1, <2>2, FS_Subset, FS_CardinalityType
  <2>4. Cardinality(A) <= MaxConcurrent
    BY DEF CallsControlled, BarrierExclusive
  <2> HIDE DEF A, B
  <2>5. Cardinality(B) <= MaxConcurrent
    BY <2>3, <2>4, TurnAssumption
  <2>6. \A e, d \in Range(batch) :
           e # d /\ Active(e)' /\ Active(d)' => Classified(e) /\ Classified(d)
    BY <1>4, <1>5 DEF CallsControlled, BarrierExclusive
  <2> QED
    BY <2>5, <2>6 DEF BarrierExclusive, B, Active
<1> QED
  BY <1>1, <1>6, <1>7, <1>8, <1>9 DEF CallsControlled

LEMMA PositionOf ==
    ASSUME BatchTypes, NEW c \in Range(batch)
    PROVE  Position(c) \in DOMAIN batch /\ batch[Position(c)] = c
  BY DEF Position, Range

\* ExecuteBatch starts a call after the calls before it, or beside them in one group.
LEMMA BatchDispatch ==
    ASSUME BatchInv, NEW c \in Calls, Dispatch(c)
    PROVE  BatchInv'
<1> USE DEF BatchInv
<1>0. pc = "batch" /\ pc' = "batch" /\ status[c] = "new" /\ MayStart(c)
      /\ UNCHANGED <<batch, answers, allowed, ran, then>>
  BY DEF Dispatch, inBatch, engine
<1>1. PICK x \in {"check", "ready", "done"} :
           /\ status' = [status EXCEPT ![c] = x]
           /\ x # "done" => ~Refused(c)
           /\ x = "ready" => c \notin Gated
  BY DEF Dispatch, Finishes
<1>2. \A d \in Calls : d # c => status'[d] = status[d]
  BY <1>1 DEF BatchTypes
<1>3. status'[c] = x
  BY <1>1 DEF BatchTypes
<1>4. BatchTypes'
  BY <1>0, <1>1 DEF BatchTypes, Statuses
<1>5. Range(batch) \subseteq Calls
  BY DEF BatchTypes, Range
<1>6. c \in Range(batch)
  BY <1>0 DEF BatchHeld
<1>7. Position(c) \in DOMAIN batch /\ batch[Position(c)] = c
  BY <1>6, PositionOf
<1>8. DOMAIN batch \subseteq Nat /\ \A i \in DOMAIN batch : batch[i] \in Range(batch)
  BY DEF BatchTypes, Range
<1>9. \A i \in DOMAIN batch : i < Position(c) =>
           \/ status[batch[i]] = "done"
           \/ status[batch[i]] # "new" /\ Classified(batch[i]) /\ Classified(c)
  <2> SUFFICES ASSUME NEW i \in DOMAIN batch, i < Position(c), status[batch[i]] # "done"
               PROVE  status[batch[i]] # "new" /\ Classified(batch[i]) /\ Classified(c)
    OBVIOUS
  <2>1. DOMAIN batch = 1..Len(batch) /\ Len(batch) \in Nat
    BY DEF BatchTypes
  <2>2. i \in 1..(Position(c) - 1) /\ i \in i..Position(c) /\ Position(c) \in i..Position(c)
    BY <1>7, <2>1
  <2>3. status[batch[i]] # "new" /\ \A k \in i..Position(c) : Classified(batch[k])
    BY <1>0, <2>2 DEF MayStart
  <2> QED
    BY <1>7, <2>2, <2>3
<1>10. BatchHeld'
  BY <1>0, <1>1, <1>2, <1>3, <1>5, <1>6 DEF BatchHeld, Active
<1>11. StartedInOrder'
  <2> SUFFICES ASSUME NEW i \in DOMAIN batch, NEW j \in DOMAIN batch, i < j,
                      status'[batch[i]] = "new"
               PROVE  status'[batch[j]] = "new"
    BY <1>0 DEF StartedInOrder
  <2>1. batch[i] \in Calls /\ batch[j] \in Calls
    BY <1>5, <1>8
  <2>2. status[batch[i]] = "new" /\ status[batch[j]] = "new"
    BY <1>0, <1>2, <1>3, <2>1 DEF StartedInOrder
  <2>3. j # Position(c)
    BY <1>9, <2>2
  <2>4. batch[j] # c
    BY <1>7, <2>3 DEF BatchTypes, IsInjective
  <2> QED
    BY <1>2, <2>1, <2>2, <2>4
<1>12. RunsOnlyAllowed'
  BY <1>0 DEF CallsControlled, RunsOnlyAllowed
<1>13. BarrierExclusive'
  <2> DEFINE A == {d \in Range(batch) : Active(d)}
             B == {d \in Range(batch) : Active(d)'}
  <2>1. B \subseteq A \cup {c} /\ c \notin A
    BY <1>0, <1>2, <1>5 DEF Active
  <2>2. IsFiniteSet(A) /\ IsFiniteSet(A \cup {c})
    BY <1>5, FS_Subset, FS_AddElement, OrderAssumption
  <2>3. Cardinality(A) < MaxConcurrent
    BY <1>0 DEF MayStart
  <2> HIDE DEF A, B
  <2>4. /\ Cardinality(A \cup {c}) = Cardinality(A) + 1 /\ Cardinality(A) \in Nat
        /\ Cardinality(B) <= Cardinality(A \cup {c}) /\ Cardinality(B) \in Nat
    BY <2>1, <2>2, FS_AddElement, FS_Subset, FS_CardinalityType
  <2>5. Cardinality(B) <= MaxConcurrent
    BY <2>3, <2>4, TurnAssumption
  <2>6. \A d \in Range(batch) : d # c /\ Active(d) => Classified(d) /\ Classified(c)
    <3> SUFFICES ASSUME NEW d \in Range(batch), d # c, Active(d)
                 PROVE  Classified(d) /\ Classified(c)
      OBVIOUS
    <3>1. Position(d) \in DOMAIN batch /\ batch[Position(d)] = d
      BY PositionOf
    <3>2. ~(Position(c) < Position(d))
      BY <1>0, <1>7, <3>1 DEF StartedInOrder, Active
    <3>3. Position(d) < Position(c)
      BY <1>7, <1>8, <3>1, <3>2
    <3> QED
      BY <1>9, <3>1, <3>3 DEF Active
  <2>7. \A e, d \in Range(batch) :
           e # d /\ Active(e)' /\ Active(d)' => Classified(e) /\ Classified(d)
    <3> SUFFICES ASSUME NEW e \in Range(batch), NEW d \in Range(batch), e # d,
                        Active(e)', Active(d)'
                 PROVE  Classified(e) /\ Classified(d)
      OBVIOUS
    <3>1. (e # c => Active(e)) /\ (d # c => Active(d))
      BY <1>2, <1>5 DEF Active
    <3> QED
      BY <1>0, <2>6, <3>1 DEF CallsControlled, BarrierExclusive
  <2> QED
    BY <1>0, <2>5, <2>7 DEF BarrierExclusive, B, Active
<1> QED
  BY <1>4, <1>10, <1>11, <1>12, <1>13 DEF CallsControlled

\* Every call of the completion is recorded, the first one left first.
LEMMA BatchRecord ==
    ASSUME BatchInv, RecordCall
    PROVE  BatchInv'
<1> USE DEF BatchInv
<1> DEFINE left == {i \in DOMAIN batch : status[batch[i]] = "none"}
           i == CHOOSE x \in left : \A y \in left : x <= y
<1>0. pc = "calls" /\ UNCHANGED <<batch, answers, allowed, ran, then>>
  BY DEF RecordCall, Goes, Returns, engine
<1>1. DOMAIN batch = 1..Len(batch) /\ Len(batch) \in Nat /\ left \in SUBSET Nat
  BY DEF BatchTypes
<1>2. left # {} => i \in left
  BY <1>1, LeastIndex
<1>3. \/ left = {} /\ pc' = "batch" /\ UNCHANGED status
      \/ left # {} /\ pc' = "calls" /\ status' = [status EXCEPT ![batch[i]] = "new"]
      \/ left # {} /\ pc' = "close" /\ UNCHANGED status
  <2>1. \/ left = {} /\ Goes("batch") /\ UNCHANGED status
        \/ left # {} /\ status' = [status EXCEPT ![batch[i]] = "new"] /\ UNCHANGED engine
        \/ left # {} /\ Returns("error") /\ UNCHANGED status
    BY Zenon DEF RecordCall
  <2> HIDE DEF left, i
  <2> QED
    BY <1>0, <2>1 DEF Goes, Returns, engine
<1>4. Range(batch) \subseteq Calls /\ \A k \in DOMAIN batch : batch[k] \in Range(batch)
  BY DEF BatchTypes, Range
<1>5. \A c \in Calls : ~Active(c) /\ status[c] \in {"none", "new"}
  BY <1>0 DEF BatchHeld, Active
<1>6. CASE left = {}
  <2>1. pc' = "batch" /\ UNCHANGED <<status, batch, answers, allowed, ran>>
    BY <1>0, <1>3, <1>6
  <2>2. \A k \in DOMAIN batch : status[batch[k]] = "new"
    BY <1>4, <1>5, <1>6
  <2>3. \A c \in Range(batch) : status[c] = "new"
    BY <2>2 DEF Range
  <2>4. {c \in Range(batch) : Active(c)}' = {} /\ Cardinality({}) = 0
    BY <1>4, <1>5, <2>1, FS_EmptySet DEF Active
  <2>a. \A c \in Range(batch) : ~Active(c)'
    BY <2>1, <1>4, <1>5 DEF Active
  <2>b. 0 <= MaxConcurrent
    BY TurnAssumption
  <2>5. BarrierExclusive'
    BY <2>1, <2>4, <2>a, <2>b DEF BarrierExclusive
  <2>6. BatchHeld'
    BY <2>1, <2>3, <1>0 DEF BatchHeld, Active
  <2>7. StartedInOrder'
    BY <2>1, <2>2 DEF StartedInOrder
  <2> QED
    BY <1>0, <2>1, <2>5, <2>6, <2>7 DEF BatchTypes, CallsControlled, RunsOnlyAllowed
<1>7. CASE left # {}
  <2> DEFINE b == batch[i]
  <2>1. b \in Range(batch) /\ b \in Calls /\ i \in DOMAIN batch
    BY <1>2, <1>4, <1>7
  <2>2. \/ status' = [status EXCEPT ![b] = "new"] /\ pc' = "calls"
        \/ status' = status /\ pc' = "close"
    BY <1>3, <1>7
  <2> HIDE DEF b, i, left
  <2>3. \A c \in Calls : status'[c] = status[c] \/ (c = b /\ status'[c] = "new")
    BY <2>1, <2>2 DEF BatchTypes
  <2>4. BatchHeld'
    BY <1>0, <1>5, <2>1, <2>2, <2>3 DEF BatchHeld, Active
  <2>5. BatchTypes'
    BY <1>0, <2>1, <2>2 DEF BatchTypes, Statuses
  <2> QED
    BY <1>0, <2>2, <2>4, <2>5 DEF StartedInOrder, CallsControlled, RunsOnlyAllowed, BarrierExclusive
<1> QED
  BY <1>6, <1>7

\* The results of a batch are appended after it, which leaves its calls as they are.
LEMMA BatchResults ==
    ASSUME BatchInv, Results
    PROVE  BatchInv'
<1>1. /\ pc = "results" /\ pc' \in {"results", "stepEnd", "close"}
      /\ UNCHANGED <<batch, status, allowed, ran>>
      /\ then' \in {then, "boundary"}
      /\ answers' = answers \/ (answers < Len(batch) /\ answers' = answers + 1)
  BY DEF Results, Returns, engine
<1>2. Len(batch) \in Nat
  BY DEF BatchInv, BatchTypes
<1>3. BatchTypes'
  BY <1>1, <1>2 DEF BatchInv, BatchTypes, ThenPoints
<1> QED
  BY <1>1, <1>3 DEF BatchInv, BatchHeld, StartedInOrder, CallsControlled, RunsOnlyAllowed,
         BarrierExclusive, Active

\* A new completion brings a new batch.
LEMMA BatchModel ==
    ASSUME BatchInv, Model
    PROVE  BatchInv'
<1>1. /\ status' = [c \in Calls |-> "none"] /\ answers' = 0 /\ allowed' = {} /\ ran' = {}
      /\ batch' = batch \/ batch' \in Batches
      /\ pc = "model"
  BY DEF Model
<1>2. batch' \in Seq(Calls) /\ IsInjective(batch')
  BY <1>1, TurnAssumption DEF BatchInv, BatchTypes
<1>3. pc' \notin {"batch", "results"} /\ then' \in ThenPoints
  <2>1. then \in ThenPoints
    BY DEF BatchInv, BatchTypes
  <2>2. pc' \in {"model", "close", "stepEnd", "calls"} /\ then' \in {then, "overflow", "max_tokens", "answered"}
    BY <1>1 DEF Model, Returns, Goes
  <2> QED
    BY <2>1, <2>2 DEF ThenPoints
<1> QED
  BY <1>1, <1>2, <1>3, BatchCleared

LEMMA BatchBegin ==
    ASSUME BatchInv, Begin
    PROVE  BatchInv'
<1>1. <<>> \in Seq(Calls) /\ IsInjective(<<>>)
  BY DEF IsInjective
<1> QED
  BY <1>1, BatchCleared DEF Begin, BatchInv, BatchTypes

THEOREM BatchStep == BatchInv /\ [Next]_vars => BatchInv'
<1> SUFFICES ASSUME BatchInv, [Next]_vars
             PROVE  BatchInv'
  OBVIOUS
<1>1. CASE Begin
  BY <1>1, BatchBegin
<1>2. CASE RecordCall
  BY <1>2, BatchRecord
<1>3. CASE Results
  BY <1>3, BatchResults
<1>4. CASE Model
  BY <1>4, BatchModel
<1>5. CASE \E c \in Calls : Dispatch(c)
  BY <1>5, BatchDispatch
<1>6. ASSUME NEW c \in Calls, Ask(c) \/ Decide(c) \/ Execute(c) \/ Finish(c)
      PROVE  BatchInv'
  <2>1. /\ pc = "batch" /\ pc' = "batch" /\ UNCHANGED <<batch, answers, then>>
        /\ Active(c)
    BY <1>6 DEF Ask, Decide, Execute, Finish, inBatch, engine, Active
  <2>2. allowed \subseteq Calls /\ (status[c] = "ready" /\ c \in Gated => c \in allowed)
    BY DEF BatchInv, BatchTypes, BatchHeld
  <2>3. CASE Ask(c)
    <3>1. /\ UNCHANGED <<allowed, ran>>
          /\ \E x \in {"asked", "done"} : status' = [status EXCEPT ![c] = x]
      BY <2>3 DEF Ask, Finishes
    <3> QED
      BY <2>1, <2>2, <3>1, BatchProgress
  <2>4. CASE Decide(c)
    <3>1. \/ status' = [status EXCEPT ![c] = "ready"] /\ allowed' = allowed \cup {c}
          \/ status' = [status EXCEPT ![c] = "done"] /\ allowed' = allowed
      BY <2>4 DEF Decide, Finishes
    <3>2. ran' = ran
      BY <2>4 DEF Decide
    <3> QED
      BY <2>1, <2>2, <3>1, <3>2, BatchProgress
  <2>5. CASE Execute(c)
    <3>1. \/ status' = [status EXCEPT ![c] = "running"] /\ ran' = ran \cup {c}
          \/ status' = [status EXCEPT ![c] = "done"] /\ ran' = ran
      BY <2>5 DEF Execute, Finishes
    <3>2. allowed' = allowed /\ status[c] = "ready"
      BY <2>5 DEF Execute
    <3> QED
      BY <2>1, <2>2, <3>1, <3>2, BatchProgress
  <2>6. CASE Finish(c)
    <3>1. status' = [status EXCEPT ![c] = "done"] /\ UNCHANGED <<allowed, ran>>
      BY <2>6 DEF Finish, Finishes
    <3> QED
      BY <2>1, <2>2, <3>1, BatchProgress
  <2> QED
    BY <1>6, <2>3, <2>4, <2>5, <2>6
<1>7. CASE BatchDone
  <2>1. /\ pc = "batch" /\ pc' = "results" /\ \A c \in Range(batch) : status[c] = "done"
        /\ UNCHANGED <<tools, then>>
    BY <1>7 DEF BatchDone, Goes
  <2> QED
    BY <2>1 DEF BatchInv, BatchTypes, BatchHeld, StartedInOrder, CallsControlled, RunsOnlyAllowed,
         BarrierExclusive, Active, tools
<1>8. CASE \/ Cancel \/ ManualStep \/ UNCHANGED vars
  <2>1. UNCHANGED tools /\ pc' = pc /\ then' = then
    BY <1>8 DEF Cancel, ManualStep, ManualCheck, ManualStart, ManualSummary, ManualEnd, vars, engine
  <2> QED
    BY <2>1, BatchAside DEF BatchInv, BatchTypes
<1>9. CASE \/ Open \/ Opening \/ Boundary \/ LoopHead \/ Compact \/ Summary \/ CompactEnd
           \/ PlanBoundary \/ StepContext \/ StepStart \/ Header \/ StepEnd \/ Answered \/ TurnEnd
           \/ Closeout \/ CloseAsks \/ CloseCalls \/ CloseStep \/ CloseTurn
  <2>1. UNCHANGED tools
    BY <1>9 DEF Open, Opening, Boundary, LoopHead, Compact, Summary, CompactEnd, PlanBoundary,
         StepContext, StepStart, Header, StepEnd, Answered, TurnEnd, Closeout, CloseAsks,
         CloseCalls, CloseStep, CloseTurn, idleTools
  <2>2. then \in ThenPoints
    BY DEF BatchInv, BatchTypes
  <2>3. then' \in ThenPoints /\ (pc' \in PcStates \ {"calls", "batch", "results"} \/ pc' = then)
    <3>1. CASE Open \/ Opening \/ Boundary \/ LoopHead
      BY <2>2, <3>1 DEF Open, Opening, Boundary, LoopHead, Goes, Returns, ThenPoints, PcStates
    <3>2. CASE Compact \/ Summary \/ CompactEnd
      BY <2>2, <3>2 DEF Compact, Summary, CompactEnd, Goes, Returns, ThenPoints, PcStates, engine
    <3>3. CASE PlanBoundary \/ StepContext \/ StepStart \/ Header
      BY <2>2, <3>3 DEF PlanBoundary, StepContext, StepStart, Header, Goes, Returns, ThenPoints, PcStates
    <3>4. CASE StepEnd
      BY <2>2, <3>4 DEF StepEnd, Goes, Returns, ThenPoints, PcStates
    <3>5. CASE Answered \/ TurnEnd \/ Closeout
      BY <2>2, <3>5 DEF Answered, TurnEnd, Closeout, Goes, Returns, ThenPoints, PcStates
    <3>6. CASE CloseAsks \/ CloseCalls \/ CloseStep \/ CloseTurn
      BY <2>2, <3>6 DEF CloseAsks, CloseCalls, CloseStep, CloseTurn, Goes, Returns, ThenPoints, PcStates, engine
    <3> QED
      BY <1>9, <3>1, <3>2, <3>3, <3>4, <3>5, <3>6
  <2>4. pc' \notin {"calls", "batch", "results"}
    BY <2>2, <2>3 DEF ThenPoints
  <2> QED
    BY <2>1, <2>3, <2>4, BatchAside
<1> QED
  BY <1>1, <1>2, <1>3, <1>4, <1>5, <1>6, <1>7, <1>8, <1>9 DEF Next, EngineStep

-----------------------------------------------------------------------------
(* An append, accepted or missed.                                          *)

\* What an append leaves of the histories.
Written ==
    /\ faults' \in Nat /\ faults <= faults' /\ rejected' \in BOOLEAN /\ NeverRejected'

\* A record the log accepts unless something failed before.
LEMMA WriteRule ==
    ASSUME LogInv, NEW r, faults = 0 => Accepts(order, r), Logs(r) \/ MissesLive(r)
    PROVE  Written /\ (order' = order \/ (Logs(r) /\ order' = Apply(order, r)))
<1>0. faults \in Nat /\ rejected \in BOOLEAN /\ (faults = 0 => ~rejected)
  BY DEF LogInv, Types, NeverRejected
<1>1. CASE Logs(r)
  BY <1>0, <1>1 DEF Logs, Written, NeverRejected
<1>2. CASE MissesLive(r)
  <2>1. /\ order' = order
        /\ \/ UNCHANGED <<faults, rejected>>
           \/ ~Accepts(order, r) /\ rejected' = TRUE /\ UNCHANGED faults
           \/ faults' = faults + 1 /\ UNCHANGED rejected
    BY <1>2 DEF MissesLive, Misses
  <2>2. CASE UNCHANGED <<faults, rejected>>
    BY <1>0, <2>1, <2>2 DEF Written, NeverRejected
  <2>3. CASE ~Accepts(order, r) /\ rejected' = TRUE /\ UNCHANGED faults
    <3>1. faults # 0
      BY <2>3
    <3> QED
      BY <1>0, <2>1, <2>3, <3>1 DEF Written, NeverRejected
  <2>4. CASE faults' = faults + 1 /\ UNCHANGED rejected
    BY <1>0, <2>1, <2>4 DEF Written, NeverRejected
  <2> QED
    BY <2>1, <2>2, <2>3, <2>4
<1> QED
  BY <1>1, <1>2

LEMMA QuietWritten ==
    ASSUME LogInv, UNCHANGED <<faults, rejected>>
    PROVE  Written
  BY DEF LogInv, Types, NeverRejected, Written

LEMMA LiveWrite ==
    ASSUME NEW r
    PROVE  (LogsLive(r) => Logs(r)) /\ (Misses(r) => MissesLive(r))
  BY DEF LogsLive, MissesLive

\* A closing record the log accepts: it is missed only by a failure.
LEMMA TryRule ==
    ASSUME LogInv, NEW r, ~lost => Accepts(order, r), Tries(r)
    PROVE  /\ Written /\ lost' \in BOOLEAN /\ (lost' => faults' > 0)
           /\ ~lost' => ~lost /\ Logs(r) /\ order' = Apply(order, r)
           /\ order' = order \/ (Logs(r) /\ order' = Apply(order, r))
<1>0. faults \in Nat /\ lost \in BOOLEAN /\ (lost => faults > 0)
  BY DEF LogInv, Types, Control
<1>1. Written /\ (order' = order \/ (Logs(r) /\ order' = Apply(order, r)))
  BY <1>0, WriteRule, LiveWrite DEF Tries
<1>2. CASE Logs(r) /\ UNCHANGED lost
  BY <1>0, <1>1, <1>2 DEF Logs
<1>3. CASE Misses(r) /\ lost' = (lost \/ faults' # faults)
  <2>1. ~lost => faults' = faults + 1
    BY <1>3 DEF Misses
  <2>2. faults' \in Nat /\ faults <= faults'
    BY <1>1 DEF Written
  <2>a. ~lost => faults' # faults
    BY <1>0, <2>1
  <2>3. lost' = TRUE
    BY <1>0, <1>3, <2>a
  <2>4. faults' > 0
    BY <1>0, <2>1, <2>2
  <2> QED
    BY <1>1, <2>3, <2>4
<1> QED
  BY <1>2, <1>3 DEF Tries

\* What the steps of runTurn leave alone.
engineFrame == <<turn, turnOpen, manual, lost, asks, calls, cancelled>>

\* Between two steps, a step that leaves the log as it is.
LEMMA BetweenStays ==
    ASSUME LogInv, Written, UNCHANGED <<engineFrame, order, step, stepOpen>>,
           pc \in BetweenPoints \ {"summary", "compactEnd"},
           \/ pc' \in BetweenPoints /\ (pc' \in {"compact", "summary", "compactEnd"} => then' \in {"compacted", "head"})
           \/ pc' = "close" /\ outcome' # "max_tokens"
    PROVE  LogInv'
<1>1. Types'
  BY DEF LogInv, Types, Written, engineFrame, BetweenPoints, PcStates
<1>2. Control' /\ Tied(order)'
  BY DEF LogInv, Types, Control, Written, engineFrame, BetweenPoints, StepPoints, Tied
<1>3. ~lost' => LogHeld'
  BY DEF LogInv, Types, Control, LogHeld, Quiet, engineFrame, BetweenPoints, StepPoints, ClosePoints
<1> QED
  BY <1>1, <1>2, <1>3 DEF LogInv, Written

\* Inside a step, a failure leaves the closeout what the log has.
LEMMA InsideReturns ==
    ASSUME LogInv, Written, UNCHANGED <<engineFrame, order, step, stepOpen>>,
           pc \in StepPoints, pc' = "close", outcome' # "max_tokens"
    PROVE  LogInv'
<1>1. Types'
  BY DEF LogInv, Types, Written, engineFrame, PcStates
<1>2. Control' /\ Tied(order)'
  BY DEF LogInv, Types, Control, Written, engineFrame, BetweenPoints, StepPoints, Tied
<1>3. ~lost' => LogHeld'
  BY DEF LogInv, Types, Control, LogHeld, Quiet, engineFrame, BetweenPoints, StepPoints, ClosePoints
<1> QED
  BY <1>1, <1>2, <1>3 DEF LogInv, Written

-----------------------------------------------------------------------------
(* The turn between its steps.                                             *)

LEMMA Placed ==
    ASSUME LogInv
    PROVE  /\ order \in Orders /\ turn \in Nat /\ step \in Nat
           /\ faults = 0 => ~lost
           /\ ~lost => LogHeld
  BY DEF LogInv, Types, Control

\* The records of a turn that change nothing in the fold.
LEMMA OpeningStep ==
    ASSUME LogInv, Opening \/ Boundary \/ StepContext \/ Answered
    PROVE  LogInv'
<1> DEFINE r == InTurnRec("user/message")
<1>1. pc \in {"opening", "boundary", "context", "answered"}
  BY DEF Opening, Boundary, StepContext, Answered
<1>2. ~lost => Accepts(order, r)
  BY <1>1, Placed, MessageRule DEF InTurnRec, LogHeld
<1>3. Apply(order, r) = order
  BY Placed, MessageRule DEF InTurnRec
<1> HIDE DEF r
<1>4. /\ \/ UNCHANGED <<order, faults, rejected>>
         \/ Logs(r) \/ MissesLive(r)
      /\ pc' \in {"boundary", "head", "start", "turnEnd"} \/ (pc' = "close" /\ outcome' # "max_tokens")
      /\ UNCHANGED <<engineFrame, step, stepOpen>>
  BY LiveWrite DEF Opening, Boundary, StepContext, Answered, Goes, Returns, idleTools, closing,
     engineFrame, r
<1>5. Written /\ order' = order
  BY <1>2, <1>3, <1>4, Placed, QuietWritten, WriteRule
<1> QED
  BY <1>1, <1>4, <1>5, BetweenStays DEF BetweenPoints

LEMMA LoopHeadStep ==
    ASSUME LogInv, LoopHead
    PROVE  LogInv'
<1>1. /\ pc = "head" /\ UNCHANGED <<engineFrame, step, stepOpen, order>>
      /\ \/ pc' = "compact" /\ then' = "compacted"
         \/ pc' = "close" /\ outcome' # "max_tokens"
  BY DEF LoopHead, Returns, idleTools, closing, engineFrame
<1>2. Written
  BY QuietWritten DEF LoopHead
<1> QED
  BY <1>1, <1>2, BetweenStays DEF BetweenPoints

\* compaction.Maybe.
LEMMA CompactStep ==
    ASSUME LogInv, Compact
    PROVE  LogInv'
<1>0. /\ pc = "compact" /\ UNCHANGED <<engineFrame, step, stepOpen>> /\ then \in {"compacted", "head"}
      /\ then' = then
  BY DEF Compact, Goes, Returns, idleTools, closing, engineFrame, engine, LogInv, Control
<1>1. CASE (Returns("error") \/ Goes(then)) /\ UNCHANGED <<order, faults, rejected>>
  BY <1>0, <1>1, QuietWritten, BetweenStays DEF BetweenPoints, Goes, Returns
<1>2. CASE \/ LogsLive(InTurnRec("compaction/prune")) /\ UNCHANGED engine
           \/ MissesLive(InTurnRec("compaction/prune")) /\ Returns("error")
  <2> DEFINE r == InTurnRec("compaction/prune")
  <2>1. ~lost => Accepts(order, r)
    BY <1>0, Placed, PruneRule DEF InTurnRec, LogHeld, Quiet, BetweenPoints, LogInv, Control
  <2>2. Apply(order, r) = order
    BY Placed, PruneRule DEF InTurnRec
  <2> HIDE DEF r
  <2>3. Logs(r) \/ MissesLive(r)
    BY <1>2, LiveWrite DEF r
  <2>4. Written /\ order' = order
    BY <2>1, <2>2, <2>3, Placed, WriteRule
  <2>5. pc' = "compact" \/ (pc' = "close" /\ outcome' = "error")
    BY <1>0, <1>2 DEF Returns, engine
  <2> QED
    BY <1>0, <2>4, <2>5, BetweenStays DEF BetweenPoints
<1>3. ASSUME NEW k \in Compactions,
             \/ LogsLive(RecOf("compaction/start", turn, 0, k)) /\ Goes("summary")
             \/ MissesLive(RecOf("compaction/start", turn, 0, k)) /\ Returns("error")
      PROVE  LogInv'
  <2> DEFINE r == RecOf("compaction/start", turn, 0, k)
  <2>1. ~lost => Accepts(order, r)
    BY <1>0, Placed, CompactionStartRule DEF LogHeld, LogInv, Control
  <2>2. LET p == Apply(order, r) IN
           p \in Orders /\ Place(p) = Place(order) /\ Pending(p) = Pending(order)
    BY Placed, CompactionStartRule
  <2> HIDE DEF r
  <2>3. Logs(r) \/ MissesLive(r)
    BY <1>3, LiveWrite DEF r
  <2>4. Written /\ (order' = order \/ order' = Apply(order, r))
    BY <2>1, <2>3, Placed, WriteRule
  <2>5. CASE MissesLive(r) /\ Returns("error")
    <3>1. order' = order
      BY <2>5 DEF MissesLive, Misses
    <3> QED
      BY <1>0, <2>4, <2>5, <3>1, BetweenStays DEF BetweenPoints, Returns
  <2>6. CASE LogsLive(r) /\ Goes("summary")
    <3>1. order' = Apply(order, r) /\ pc' = "summary"
      BY <2>6 DEF LogsLive, Logs, Goes
    <3>2. order' \in Orders /\ Place(order') = Place(order) /\ Pending(order') = Pending(order)
      BY <2>2, <3>1
    <3> QED
      BY <1>0, <2>4, <3>1, <3>2 DEF LogInv, Types, Control, LogHeld, Quiet, Tied, Written, engineFrame,
         BetweenPoints, StepPoints, ClosePoints, PcStates, Place, Pending
  <2> QED
    BY <1>3, <2>5, <2>6 DEF r
<1> QED
  BY <1>1, <1>2, <1>3 DEF Compact

LEMMA SummaryStep ==
    ASSUME LogInv, Summary
    PROVE  LogInv'
<1> DEFINE r == RecOf("compaction/summary", turn, 0, order.compaction)
<1>1. Accepts(order, r) /\ Apply(order, r) = order
  BY Placed, SummaryRule
<1> HIDE DEF r
<1>2. /\ pc = "summary" /\ pc' = "compactEnd" /\ UNCHANGED <<engineFrame, step, stepOpen, then>>
      /\ Logs(r) \/ MissesLive(r) \/ UNCHANGED <<order, faults, rejected>>
  BY LiveWrite DEF Summary, Goes, idleTools, closing, engineFrame, r
<1>3. Written /\ order' = order
  BY <1>1, <1>2, QuietWritten, WriteRule
<1> QED
  BY <1>2, <1>3 DEF LogInv, Types, Control, LogHeld, Quiet, Tied, Written, engineFrame,
     BetweenPoints, StepPoints, ClosePoints, PcStates

LEMMA CompactEndStep ==
    ASSUME LogInv, CompactEnd
    PROVE  LogInv'
<1> DEFINE r == RecOf("compaction/end", turn, 0, order.compaction)
<1>1. Accepts(order, r)
  BY Placed, CompactionEndRule
<1>2. LET p == Apply(order, r) IN
         /\ p \in Orders /\ Place(p) = Place(order) /\ Pending(p) = Pending(order)
         /\ p.compaction = None
  BY Placed, CompactionEndRule
<1> HIDE DEF r
<1>3. /\ pc = "compactEnd" /\ UNCHANGED <<turn, step, turnOpen, stepOpen, manual, asks, calls, cancelled, then>>
      /\ Tries(r)
      /\ (pc' = then /\ then \in {"compacted", "head"}) \/ (pc' = "close" /\ outcome' = "error")
  BY DEF CompactEnd, Tries, Goes, Returns, closing, r, LogInv, Control
<1>4. /\ Written /\ lost' \in BOOLEAN /\ (lost' => faults' > 0)
      /\ ~lost' => ~lost /\ order' = Apply(order, r)
      /\ order' = order \/ order' = Apply(order, r)
  BY <1>1, <1>3, TryRule
<1>5. order' \in Orders /\ Place(order') = Place(order) /\ Pending(order') = Pending(order)
      /\ (~lost' => ~lost /\ order'.compaction = None)
  BY <1>2, <1>4, Placed
<1>6. Types' /\ Control' /\ Tied(order)'
  BY <1>3, <1>4, <1>5 DEF LogInv, Types, Control, Tied, Written,
     BetweenPoints, StepPoints, PcStates, Pending
<1>7. ~lost' => LogHeld'
  BY <1>3, <1>4, <1>5 DEF LogInv, Types, Control, LogHeld, Quiet, Written,
     BetweenPoints, StepPoints, ClosePoints, Place, Pending
<1> QED
  BY <1>4, <1>6, <1>7 DEF LogInv, Written

\* The log between turns, and the record that opens one.
LEMMA BeginStep ==
    ASSUME LogInv, Overlap = FALSE, Begin
    PROVE  LogInv'
<1>1. Written /\ order' = order
  BY QuietWritten DEF Begin
<1>2. order.lastTurn \in Nat
  BY Placed DEF Orders
<1>3. /\ pc = "idle" /\ pc' = "open" /\ turn' = order.lastTurn + 1 /\ step' = 0
      /\ turnOpen' = FALSE /\ stepOpen' = FALSE /\ cancelled' = FALSE
      /\ UNCHANGED <<manual, lost, asks, calls>> /\ manual \notin {"checked", "started", "ending"}
  BY DEF Begin, closing
<1>b. order' \in Orders /\ pc' \in PcStates /\ turn' \in Nat /\ step' \in Nat
  BY <1>1, <1>2, <1>3, Placed DEF PcStates
<1>c. faults' \in Nat /\ rejected' \in BOOLEAN /\ lost' \in BOOLEAN /\ asks' \subseteq Asks
      /\ calls' \subseteq Calls /\ turnOpen' \in BOOLEAN /\ stepOpen' \in BOOLEAN /\ cancelled' \in BOOLEAN
  BY <1>1, <1>3 DEF LogInv, Types, Written
<1>4. Types'
  BY <1>b, <1>c DEF Types
<1>a. Control' /\ Tied(order)'
  BY <1>1, <1>3 DEF LogInv, Types, Control, Tied, Written, BetweenPoints, StepPoints
<1>5. ~lost' => LogHeld'
  BY <1>1, <1>3 DEF LogInv, LogHeld, Quiet, BetweenPoints, StepPoints, ClosePoints
<1> QED
  BY <1>1, <1>4, <1>a, <1>5 DEF LogInv, Written

LEMMA OpenStep ==
    ASSUME LogInv, Open
    PROVE  LogInv'
<1> DEFINE r == InTurnRec("turn/start")
<1>1. pc = "open" /\ UNCHANGED <<turn, step, stepOpen, manual, lost, asks, calls, cancelled>>
  BY DEF Open, idleTools, closing
<1>2. ~lost => Accepts(order, r)
  BY <1>1, Placed, TurnStartRule DEF InTurnRec, LogHeld
<1>3. LET p == Apply(order, r) IN
         /\ p \in Orders /\ p.turn = turn /\ p.step = order.step /\ p.lastStep = 0
         /\ Pending(p) = Pending(order) /\ p.compaction = order.compaction
  BY Placed, TurnStartRule DEF InTurnRec
<1> HIDE DEF r
<1>4. \/ LogsLive(r) /\ turnOpen' = TRUE /\ pc' = "opening"
      \/ MissesLive(r) /\ pc' = "idle" /\ UNCHANGED turnOpen
  BY DEF Open, r
<1>5. Written
  BY <1>2, <1>4, LiveWrite, Placed, WriteRule
<1>6. CASE LogsLive(r) /\ turnOpen' = TRUE /\ pc' = "opening"
  <2>1. order' = Apply(order, r)
    BY <1>6 DEF LogsLive, Logs
  <2>2. /\ order' \in Orders /\ order'.turn = turn /\ order'.step = order.step /\ order'.lastStep = 0
        /\ Pending(order') = Pending(order) /\ order'.compaction = order.compaction
    BY <1>3, <2>1
  <2>3. Types' /\ Control' /\ Tied(order)'
    BY <1>1, <1>5, <1>6, <2>2 DEF LogInv, Types, Control, Tied, Written,
       BetweenPoints, StepPoints, PcStates, Pending
  <2>4. step = 0
    BY <1>1 DEF LogInv, Control
  <2>5. ~lost' => LogHeld'
    BY <1>1, <1>5, <1>6, <2>2, <2>4 DEF LogInv, Types, Control, LogHeld, Quiet, Written,
       BetweenPoints, StepPoints, ClosePoints, Pending
  <2> QED
    BY <1>5, <2>3, <2>5 DEF LogInv, Written
<1>7. CASE MissesLive(r) /\ pc' = "idle" /\ UNCHANGED turnOpen
  <2>1. order' = order
    BY <1>7 DEF MissesLive, Misses
  <2> QED
    BY <1>1, <1>5, <1>7, <2>1 DEF LogInv, Types, Control, LogHeld, Quiet, Tied, Written,
       BetweenPoints, StepPoints, ClosePoints, PcStates
<1> QED
  BY <1>4, <1>6, <1>7

\* plan.Step.
LEMMA PlanStep ==
    ASSUME LogInv, PlanBoundary
    PROVE  LogInv'
<1>0. /\ pc = "compacted" /\ UNCHANGED <<engineFrame, step, stepOpen>> /\ then' = then
      /\ pc' = "context" \/ (pc' = "close" /\ outcome' = "error")
  BY DEF PlanBoundary, Goes, Returns, idleTools, closing, engineFrame
<1>1. CASE UNCHANGED <<order, faults, rejected>>
  BY <1>0, <1>1, QuietWritten, BetweenStays DEF BetweenPoints
<1>2. ASSUME NEW y \in {"plan/on", "plan/off"}, y = "plan/on" <=> ~order.plan,
             LogsLive(InTurnRec(y)) \/ MissesLive(InTurnRec(y))
      PROVE  LogInv'
  <2> DEFINE r == InTurnRec(y)
  <2>1. ~lost => Accepts(order, r)
    BY <1>0, <1>2, Placed, PlanRule DEF InTurnRec, LogHeld, Quiet, BetweenPoints
  <2>2. LET p == Apply(order, r) IN
           /\ p \in Orders /\ Place(p) = Place(order) /\ Pending(p) = Pending(order)
           /\ p.assistant = order.assistant /\ p.compaction = order.compaction
    <3>1. order \in Orders /\ turn \in Nat
      BY Placed
    <3>2. r = Rec(y, turn, 0)
      BY DEF InTurnRec
    <3> HIDE DEF r
    <3> QED
      BY <3>1, <3>2, PlanRule, SMTT(30)
  <2> HIDE DEF r
  <2>3. Written /\ (order' = order \/ order' = Apply(order, r))
    BY <1>2, <2>1, LiveWrite, Placed, WriteRule DEF r
  <2>4. /\ order' \in Orders /\ Place(order') = Place(order) /\ Pending(order') = Pending(order)
        /\ order'.assistant = order.assistant /\ order'.compaction = order.compaction
    BY <2>2, <2>3, Placed
  <2>5. Types' /\ Control' /\ Tied(order)'
    BY <1>0, <2>3, <2>4 DEF LogInv, Types, Control, Tied, Written, engineFrame,
       BetweenPoints, StepPoints, PcStates, Pending
  <2>6. ~lost' => LogHeld'
    BY <1>0, <2>4 DEF LogInv, Types, Control, LogHeld, Quiet, engineFrame,
       BetweenPoints, StepPoints, ClosePoints, Place, Pending
  <2> QED
    BY <2>3, <2>5, <2>6 DEF LogInv, Written
<1> QED
  BY <1>1, <1>2 DEF PlanBoundary

LEMMA StepStartStep ==
    ASSUME LogInv, StepStart
    PROVE  LogInv'
<1> DEFINE r == Rec("step/start", turn, step + 1)
<1>0. pc = "start" /\ UNCHANGED <<engineFrame, then>>
  BY DEF StepStart, Returns, idleTools, closing, engineFrame
<1>1. CASE cancelled /\ Returns("canceled") /\ UNCHANGED <<order, faults, rejected>>
  BY <1>0, <1>1, QuietWritten, BetweenStays DEF BetweenPoints, Returns
<1> DEFINE s == step + 1
<1>2. s \in Nat
  BY Placed
<1>a. r = Rec("step/start", turn, s)
  OBVIOUS
<1>3. ~lost => Accepts(order, r)
  BY <1>0, <1>2, Placed, StepStartRule, ZenonT(60) DEF LogHeld, Quiet, BetweenPoints
<1>4. LET p == Apply(order, r) IN
         /\ p \in Orders /\ p.turn = order.turn /\ p.step = s /\ p.lastStep = s
         /\ Pending(p) = Pending(order) /\ p.compaction = order.compaction /\ ~p.assistant
  <2>1. order \in Orders /\ turn \in Nat
    BY Placed
  <2> HIDE DEF s
  <2>2. LET p == Apply(order, Rec("step/start", turn, s)) IN
           /\ p \in Orders /\ p.turn = order.turn /\ p.step = s /\ p.lastStep = s
           /\ Pending(p) = Pending(order) /\ p.compaction = order.compaction /\ ~p.assistant
    BY <1>2, <2>1, StepStartRule
  <2> QED
    BY <2>2 DEF s
<1> HIDE DEF r
<1>5. CASE LogsLive(r) /\ step' = step + 1 /\ stepOpen' = TRUE /\ pc' = "header" /\ outcome' = outcome
  <2>1. Written /\ order' = Apply(order, r)
    BY <1>3, <1>5, LiveWrite, Placed, WriteRule DEF LogsLive, Logs
  <2>2. /\ order' \in Orders /\ order'.turn = order.turn /\ order'.step = step + 1
        /\ order'.lastStep = step + 1
        /\ Pending(order') = Pending(order) /\ order'.compaction = order.compaction /\ ~order'.assistant
    BY <1>4, <2>1
  <2>3. Types' /\ Control' /\ Tied(order)'
    BY <1>0, <1>2, <1>5, <2>1, <2>2 DEF LogInv, Types, Control, Tied, Written, engineFrame,
       BetweenPoints, StepPoints, PcStates, Pending
  <2>4. ~lost' => LogHeld'
    BY <1>0, <1>5, <2>2 DEF LogInv, Types, Control, LogHeld, Quiet, engineFrame,
       BetweenPoints, StepPoints, ClosePoints, Pending
  <2> QED
    BY <2>1, <2>3, <2>4 DEF LogInv, Written
<1>6. CASE MissesLive(r) /\ pc' = "close" /\ outcome' = "error" /\ step' = step + 1 /\ stepOpen' = stepOpen
  <2>1. Written /\ order' = order
    BY <1>3, <1>6, Placed, WriteRule DEF MissesLive, Misses
  <2> QED
    BY <1>0, <1>2, <1>6, <2>1 DEF LogInv, Types, Control, LogHeld, Quiet, Tied, Written, engineFrame,
       BetweenPoints, StepPoints, ClosePoints, PcStates
<1> QED
  BY <1>1, <1>5, <1>6 DEF StepStart, r

-----------------------------------------------------------------------------
(* A step.                                                                 *)

LEMMA HeaderStep ==
    ASSUME LogInv, Header
    PROVE  LogInv'
<1> DEFINE r == Here("step/fact")
<1>0. /\ pc = "header" /\ UNCHANGED <<engineFrame, step, stepOpen>>
      /\ (pc' = "model" \/ (pc' = "close" /\ outcome' = "error"))
  BY DEF Header, Goes, Returns, idleTools, closing, engineFrame
<1>1. (~lost => Accepts(order, r)) /\ Apply(order, r) = order
  BY <1>0, Placed, FactRule DEF Here, LogHeld, StepPoints
<1> HIDE DEF r
<1>2. Logs(r) \/ MissesLive(r) \/ UNCHANGED <<order, faults, rejected>>
  BY LiveWrite DEF Header, r
<1>3. Written /\ order' = order
  BY <1>1, <1>2, Placed, QuietWritten, WriteRule
<1>4. CASE pc' = "close" /\ outcome' = "error"
  BY <1>0, <1>3, <1>4, InsideReturns DEF StepPoints
<1>5. CASE pc' = "model"
  BY <1>0, <1>3, <1>5 DEF LogInv, Types, Control, LogHeld, Quiet, Tied, Written, engineFrame,
     BetweenPoints, StepPoints, ClosePoints, PcStates
<1> QED
  BY <1>0, <1>4, <1>5

\* retry.Do: the facts of a stream, then the completion.
LEMMA ModelStep ==
    ASSUME LogInv, Model
    PROVE  LogInv'
<1>0. /\ pc = "model" /\ UNCHANGED <<engineFrame, step, stepOpen>>
      /\ status' = [c \in Calls |-> "none"]
  BY DEF Model, Goes, Returns, closing, engineFrame
<1>1. \A y \in {"llm/retry", "step/fact", "assistant/message"} : ~lost => Accepts(order, Here(y))
  BY <1>0, Placed, FactRule, AssistantRule DEF Here, LogHeld, StepPoints
<1>2. \A y \in {"llm/retry", "step/fact"} : Apply(order, Here(y)) = order
  BY Placed, FactRule DEF Here
<1>3. LET p == Apply(order, Here("assistant/message")) IN
         /\ p \in Orders /\ Place(p) = Place(order) /\ Pending(p) = Pending(order)
         /\ p.compaction = order.compaction /\ p.assistant
  BY Placed, AssistantRule, ZenonT(60) DEF Here
<1>4. CASE UNCHANGED <<order, faults, rejected>> /\ (Returns("error") \/ (pc' = "stepEnd" /\ then' = "overflow"))
  <2>1. Written /\ order' = order
    BY <1>4, QuietWritten
  <2>2. CASE Returns("error")
    BY <1>0, <2>1, <2>2, InsideReturns DEF StepPoints, Returns
  <2>3. CASE pc' = "stepEnd" /\ then' = "overflow"
    BY <1>0, <2>1, <2>3 DEF LogInv, Types, Control, LogHeld, Quiet, Tied, Written, engineFrame,
       BetweenPoints, StepPoints, ClosePoints, PcStates
  <2> QED
    BY <1>4, <2>2, <2>3
<1>5. ASSUME NEW y \in {"llm/retry", "step/fact"}, LogsLive(Here(y)), Goes("model")
      PROVE  LogInv'
  <2>1. Written /\ order' = order
    BY <1>1, <1>2, <1>5, LiveWrite, Placed, WriteRule
  <2> QED
    BY <1>0, <1>5, <2>1 DEF LogInv, Types, Control, LogHeld, Quiet, Tied, Written, engineFrame,
       BetweenPoints, StepPoints, ClosePoints, PcStates, Goes
<1>6. ASSUME NEW y \in {"llm/retry", "step/fact", "assistant/message"}, MissesLive(Here(y)), Returns("error")
      PROVE  LogInv'
  <2>1. Written
    BY <1>1, <1>6, Placed, WriteRule
  <2>2. order' = order /\ pc' = "close" /\ outcome' = "error"
    BY <1>6 DEF MissesLive, Misses, Returns
  <2> QED
    BY <1>0, <2>1, <2>2, InsideReturns DEF StepPoints
<1>7. CASE /\ LogsLive(Here("assistant/message"))
           /\ pc' = "calls" \/ (pc' = "stepEnd" /\ then' \in {"max_tokens", "answered"})
           /\ UNCHANGED outcome
  <2>1. Written /\ order' = Apply(order, Here("assistant/message"))
    BY <1>1, <1>7, LiveWrite, Placed, WriteRule DEF LogsLive, Logs
  <2>2. /\ order' \in Orders /\ Place(order') = Place(order) /\ Pending(order') = Pending(order)
        /\ order'.compaction = order.compaction /\ order'.assistant
    BY <1>3, <2>1
  <2>3. Types' /\ Control' /\ Tied(order)'
    BY <1>0, <1>7, <2>1, <2>2 DEF LogInv, Types, Control, Tied, Written, engineFrame,
       BetweenPoints, StepPoints, PcStates, Pending
  <2>4. {c \in Calls : status'[c] = "new"} = {}
    BY <1>0
  <2>5. ~lost => order.calls = {} /\ order.asked = {} /\ order.todos = {}
    BY <1>0, Placed DEF LogInv, Tied, LogHeld
  <2>6. ~lost' => LogHeld'
    BY <1>0, <1>7, <2>2, <2>4, <2>5 DEF LogInv, Types, Control, LogHeld, Quiet, engineFrame,
       BetweenPoints, StepPoints, ClosePoints, Place, Pending
  <2> QED
    BY <2>1, <2>3, <2>6 DEF LogInv, Written
<1>8. \/ UNCHANGED <<order, faults, rejected>> /\ (Returns("error") \/ (pc' = "stepEnd" /\ then' = "overflow"))
      \/ \E y \in {"llm/retry", "step/fact"} : LogsLive(Here(y)) /\ Goes("model")
      \/ \E y \in {"llm/retry", "step/fact", "assistant/message"} : MissesLive(Here(y)) /\ Returns("error")
      \/ /\ LogsLive(Here("assistant/message")) /\ UNCHANGED outcome
         /\ pc' = "calls" \/ (pc' = "stepEnd" /\ then' \in {"max_tokens", "answered"})
  BY DEF Model
<1> QED
  BY <1>4, <1>5, <1>6, <1>7, <1>8

\* The calls of a completion.
LEMMA RecordCallStep ==
    ASSUME BatchInv, LogInv, RecordCall
    PROVE  LogInv'
<1> DEFINE left == {i \in DOMAIN batch : status[batch[i]] = "none"}
           i == CHOOSE x \in left : \A y \in left : x <= y
           r == RecOf("tool/call", turn, step, batch[i])
<1>0. /\ pc = "calls" /\ UNCHANGED <<engineFrame, step, stepOpen, batch>>
  BY DEF RecordCall, Goes, Returns, closing, engineFrame, engine
<1>1. \/ left = {} /\ Goes("batch") /\ UNCHANGED <<order, faults, rejected, status>>
      \/ left # {} /\ Logs(r) /\ status' = [status EXCEPT ![batch[i]] = "new"] /\ UNCHANGED engine
      \/ left # {} /\ Misses(r) /\ Returns("error") /\ UNCHANGED status
  BY Zenon DEF RecordCall
<1>2. DOMAIN batch = 1..Len(batch) /\ Len(batch) \in Nat /\ left \in SUBSET Nat
  BY DEF BatchInv, BatchTypes
<1>3. left # {} => i \in left
  BY <1>2, LeastIndex
<1>4. \A c \in Calls : status[c] \in {"none", "new"} /\ (status[c] = "new" => c \in Range(batch))
  BY <1>0 DEF BatchInv, BatchHeld
<1>5. CASE left = {} /\ Goes("batch") /\ UNCHANGED <<order, faults, rejected, status>>
  <2>1. Written /\ order' = order
    BY <1>5, QuietWritten
  <2>2. {c \in Calls : status[c] = "new"} = Range(batch)
    <3>1. \A k \in DOMAIN batch : batch[k] \in Calls
      BY DEF BatchInv, BatchTypes
    <3>2. \A k \in DOMAIN batch : status[batch[k]] # "none"
      BY <1>5
    <3>3. \A k \in DOMAIN batch : status[batch[k]] = "new"
      BY <1>4, <3>1, <3>2
    <3> HIDE DEF left
    <3> QED
      BY <1>4, <3>1, <3>3 DEF Range
  <2>3. ~lost => order.calls = Range(batch) /\ order.asked = {} /\ order.todos = {}
    BY <1>0, <2>2, Placed DEF LogHeld
  <2> HIDE DEF left, i, r
  <2>4. Types' /\ Control' /\ Tied(order)'
    BY <1>0, <1>5, <2>1 DEF LogInv, Types, Control, Tied, Written, engineFrame,
       BetweenPoints, StepPoints, PcStates, Goes
  <2>5. ~lost' => LogHeld'
    BY <1>0, <1>5, <2>1, <2>3 DEF LogInv, Types, Control, LogHeld, Quiet, engineFrame,
       BetweenPoints, StepPoints, ClosePoints, Questions, Goes
  <2> QED
    BY <2>1, <2>4, <2>5 DEF LogInv, Written
<1>6. CASE left # {} /\ (Logs(r) \/ Misses(r))
  <2> DEFINE b == batch[i]
  <2>1. b \in Calls /\ status[b] = "none"
    BY <1>3, <1>6 DEF BatchInv, BatchTypes
  <2>2. r = RecOf("tool/call", turn, step, b)
    OBVIOUS
  <2>3. status' = [status EXCEPT ![b] = "new"] \/ status' = status
    BY <1>1
  <2>6. \/ Logs(r) /\ status' = [status EXCEPT ![b] = "new"] /\ UNCHANGED engine
        \/ Misses(r) /\ pc' = "close" /\ outcome' = "error"
    BY <1>1, <1>6 DEF Returns
  <2> HIDE DEF b, left, i, r
  <2>4. ~lost => Accepts(order, r)
    BY <1>0, <2>1, <2>2, Placed, CallRule DEF LogHeld, StepPoints
  <2>5. LET p == Apply(order, r) IN
           /\ p \in Orders /\ Place(p) = Place(order) /\ p.compaction = order.compaction
           /\ p.assistant = order.assistant /\ p.calls = order.calls \cup {b}
           /\ p.asked = order.asked /\ p.todos = order.todos
    BY <2>1, <2>2, Placed, CallRule
  <2>7. Written
    BY <1>6, <2>4, LiveWrite, Placed, WriteRule
  <2>8. CASE Misses(r) /\ pc' = "close" /\ outcome' = "error"
    <3>1. order' = order
      BY <2>8 DEF Misses
    <3> QED
      BY <1>0, <2>7, <2>8, <3>1, InsideReturns DEF StepPoints
  <2>9. CASE Logs(r) /\ status' = [status EXCEPT ![b] = "new"] /\ UNCHANGED engine
    <3>1. order' = Apply(order, r)
      BY <2>9 DEF Logs
    <3>2. /\ order' \in Orders /\ Place(order') = Place(order) /\ order'.compaction = order.compaction
          /\ order'.assistant = order.assistant /\ order'.calls = order.calls \cup {b}
          /\ order'.asked = order.asked /\ order'.todos = order.todos
      BY <2>5, <3>1
    <3>3. {c \in Calls : status'[c] = "new"} = {c \in Calls : status[c] = "new"} \cup {b}
      BY <2>1, <2>9 DEF BatchInv, BatchTypes
    <3>4. pc' = pc /\ then' = then /\ outcome' = outcome
      BY <2>9 DEF engine
    <3>5. Types' /\ Control' /\ Tied(order)'
      BY <1>0, <2>7, <3>2, <3>4 DEF LogInv, Types, Control, Tied, Written, engineFrame,
         BetweenPoints, StepPoints, PcStates
    <3>6. ~lost' => LogHeld'
      BY <1>0, <3>2, <3>3, <3>4 DEF LogInv, Types, Control, LogHeld, Quiet, engineFrame,
         BetweenPoints, StepPoints, ClosePoints, Place
    <3> QED
      BY <2>7, <3>5, <3>6 DEF LogInv, Written
  <2> QED
    BY <2>6, <2>8, <2>9
<1> QED
  BY <1>1, <1>5, <1>6

\* The results of a batch, in call order.
LEMMA ResultsStep ==
    ASSUME BatchInv, LogInv, Results
    PROVE  LogInv'
<1> DEFINE c == batch[answers + 1]
<1>0. pc = "results" /\ UNCHANGED <<engineFrame, step, stepOpen, batch, status, ran>>
  BY DEF Results, Returns, closing, engineFrame, engine
<1>1. Len(batch) \in Nat /\ answers \in Nat /\ answers <= Len(batch) /\ DOMAIN batch = 1..Len(batch)
  BY DEF BatchInv, BatchTypes
<1>2. CASE answers = Len(batch) /\ pc' = "stepEnd" /\ then' = "boundary" /\ UNCHANGED <<order, faults, rejected, outcome>>
  <2>1. Written /\ order' = order
    BY <1>2, QuietWritten
  <2>2. ~lost => order.calls = {}
    BY <1>0, <1>1, <1>2, Placed DEF LogHeld
  <2> HIDE DEF c
  <2>3. Types' /\ Control' /\ Tied(order)'
    BY <1>0, <1>2, <2>1 DEF LogInv, Types, Control, Tied, Written, engineFrame,
       BetweenPoints, StepPoints, PcStates
  <2>4. ~lost' => LogHeld'
    BY <1>0, <1>2, <2>1, <2>2 DEF LogInv, Types, Control, LogHeld, Quiet, engineFrame,
       BetweenPoints, StepPoints, ClosePoints
  <2> QED
    BY <2>1, <2>3, <2>4 DEF LogInv, Written
<1>3. ASSUME answers < Len(batch), NEW y \in {"tool/result", "tool/success"},
             y = "tool/success" => c \in ran,
             \/ Logs(RecOf(y, turn, step, c)) /\ answers' = answers + 1 /\ UNCHANGED engine
             \/ Misses(RecOf(y, turn, step, c)) /\ Returns("error")
      PROVE  LogInv'
  <2> DEFINE r == RecOf(y, turn, step, c)
  <2>1. answers + 1 \in DOMAIN batch /\ c \in Calls /\ c \in Range(batch)
    BY <1>1, <1>3 DEF BatchInv, BatchTypes, Range
  <2>2. {batch[i] : i \in (answers + 1)..Len(batch)} \ {c} = {batch[i] : i \in (answers + 2)..Len(batch)}
    <3>1. \A i \in (answers + 1)..Len(batch) : i \in DOMAIN batch
      BY <1>1
    <3>2. \A i \in (answers + 1)..Len(batch) : batch[i] = c <=> i = answers + 1
      BY <2>1, <3>1 DEF BatchInv, BatchTypes, IsInjective
    <3>3. \A i : i \in (answers + 2)..Len(batch) <=> i \in (answers + 1)..Len(batch) /\ i # answers + 1
      BY <1>1
    <3> HIDE DEF c
    <3> QED
      BY <3>2, <3>3
  <2>3. ~lost => c \in order.calls
    BY <1>0, <1>1, <1>3, Placed DEF LogHeld
  <2>4. y = "tool/success" => c \notin Omitted
    BY <1>3 DEF BatchInv, BatchHeld, Refused
  <2>5. faults = 0 => \A q \in order.asked : q[2] # c
    <3>1. status[c] = "done"
      BY <1>0, <2>1 DEF BatchInv, BatchHeld
    <3> HIDE DEF c
    <3> QED
      BY <1>0, <3>1, Placed DEF LogHeld, Questions
  <2> HIDE DEF c
  <2>6. faults = 0 => Accepts(order, r)
    <3>1. ~lost => turn = order.turn /\ step = order.step
      BY <1>0, Placed DEF LogHeld, StepPoints
    <3>2. turn \in Nat /\ step \in Nat /\ order \in Orders
      BY Placed
    <3>3. Accepts(order, r) <=>
             /\ turn = order.turn /\ step = order.step /\ c \in order.calls
             /\ \A q \in order.asked : q[2] # c
             /\ y = "tool/success" => c \notin Omitted
      <4>1. CASE y = "tool/result"
        BY <2>1, <3>2, <4>1, AnswerRule
      <4>2. CASE y = "tool/success"
        BY <2>1, <3>2, <4>2, SuccessRule
      <4> QED
        BY <4>1, <4>2
    <3> HIDE DEF r
    <3> QED
      BY <2>3, <2>4, <2>5, <3>1, <3>3, Placed
  <2>7. LET p == Apply(order, r) IN
           /\ p \in Orders /\ Place(p) = Place(order) /\ p.compaction = order.compaction
           /\ p.assistant = order.assistant /\ p.calls = order.calls \ {c}
           /\ p.asked = order.asked /\ p.todos = order.todos \ {c}
           /\ Accepts(order, r) => \A q \in order.asked : q[2] # c
    <3>1. order \in Orders /\ turn \in Nat /\ step \in Nat /\ c \in Calls
      BY <2>1, Placed
    <3>2. CASE y = "tool/result"
      <4> DEFINE x == RecOf("tool/result", turn, step, c)
      <4>1. LET p == Apply(order, x) IN
               /\ p \in Orders /\ Place(p) = Place(order) /\ p.compaction = order.compaction
               /\ p.assistant = order.assistant /\ p.calls = order.calls \ {c}
               /\ p.asked = order.asked /\ p.todos = order.todos \ {c}
        BY <3>1, AnswerRule
      <4>2. Accepts(order, x) => \A q \in order.asked : q[2] # c
        BY <3>1, AnswerRule, SMTT(30)
      <4>3. r = x
        BY <3>2
      <4> HIDE DEF x, r
      <4> QED
        BY <4>1, <4>2, <4>3
    <3>3. CASE y = "tool/success"
      <4> DEFINE x == RecOf("tool/success", turn, step, c)
      <4>1. LET p == Apply(order, x) IN
               /\ p \in Orders /\ Place(p) = Place(order) /\ p.compaction = order.compaction
               /\ p.assistant = order.assistant /\ p.calls = order.calls \ {c}
               /\ p.asked = order.asked /\ p.todos = order.todos \ {c}
        BY <3>1, SuccessRule
      <4>2. Accepts(order, x) => \A q \in order.asked : q[2] # c
        BY <3>1, SuccessRule, SMTT(30)
      <4>3. r = x
        BY <3>3
      <4> HIDE DEF x, r
      <4> QED
        BY <4>1, <4>2, <4>3
    <3> QED
      BY <3>2, <3>3
  <2>8. \/ Logs(r) /\ answers' = answers + 1 /\ UNCHANGED engine
        \/ Misses(r) /\ Returns("error")
    BY <1>3
  <2> HIDE DEF r
  <2>9. Written
    BY <2>6, <2>8, LiveWrite, WriteRule
  <2>10. CASE Misses(r) /\ Returns("error")
    BY <1>0, <2>9, <2>10, InsideReturns DEF StepPoints, Returns, Misses
  <2>11. CASE Logs(r) /\ answers' = answers + 1 /\ UNCHANGED engine
    <3>1. order' = Apply(order, r) /\ faults' = faults
      BY <2>11 DEF Logs
    <3>2. /\ order' \in Orders /\ Place(order') = Place(order) /\ order'.compaction = order.compaction
          /\ order'.assistant = order.assistant /\ order'.calls = order.calls \ {c}
          /\ order'.asked = order.asked /\ order'.todos = order.todos \ {c}
          /\ \A q \in order.asked : q[2] # c
      BY <2>7, <2>11, <3>1 DEF Logs
    <3>3. pc' = pc /\ then' = then /\ outcome' = outcome
      BY <2>11 DEF engine
    <3>4. Types' /\ Control' /\ Tied(order)'
      BY <1>0, <2>9, <3>2, <3>3 DEF LogInv, Types, Control, Tied, Written, engineFrame,
         BetweenPoints, StepPoints, PcStates
    <3>5. ~lost => order.calls = {batch[i] : i \in (answers + 1)..Len(batch)}
      BY <1>0, Placed DEF LogHeld
    <3>6. ~lost => order'.calls = {batch[i] : i \in (answers + 2)..Len(batch)}
      BY <2>2, <3>2, <3>5
    <3>a. (answers' + 1)..Len(batch') = (answers + 2)..Len(batch)
      BY <1>0, <1>1, <2>11
    <3>b. ~lost => order'.calls = {batch'[i] : i \in (answers' + 1)..Len(batch')}
      BY <1>0, <3>6, <3>a
    <3>7. ~lost => Questions'
      BY <1>0, <3>1, <3>2, Placed DEF LogHeld, Questions
    <3>8. ~lost' => LogHeld'
      BY <1>0, <3>2, <3>3, <3>b, <3>7 DEF LogInv, Types, Control, LogHeld, Quiet, engineFrame,
         BetweenPoints, StepPoints, ClosePoints, Place
    <3> QED
      BY <2>9, <3>4, <3>8 DEF LogInv, Written
  <2> QED
    BY <2>8, <2>10, <2>11
<1>4. \/ answers = Len(batch) /\ pc' = "stepEnd" /\ then' = "boundary" /\ UNCHANGED <<order, faults, rejected, outcome>>
      \/ answers < Len(batch) /\ \E y \in {"tool/result", "tool/success"} :
            /\ y = "tool/success" => c \in ran
            /\ \/ Logs(RecOf(y, turn, step, c)) /\ answers' = answers + 1 /\ UNCHANGED engine
               \/ Misses(RecOf(y, turn, step, c)) /\ Returns("error")
  BY DEF Results
<1> QED
  BY <1>2, <1>3, <1>4

\* step/end.
LEMMA StepEndStep ==
    ASSUME LogInv, StepEnd
    PROVE  LogInv'
<1> DEFINE r == Here("step/end")
<1>0. pc = "stepEnd" /\ UNCHANGED <<engineFrame, step>>
      /\ then \in {"boundary", "answered", "max_tokens", "overflow"}
  BY DEF StepEnd, Returns, idleTools, closing, engineFrame, LogInv, Control
<1>1. ~lost => order.asked = {} /\ order.compaction = None /\ order.calls = {}
  BY <1>0, Placed DEF LogInv, Tied, LogHeld, Control
<1>2. ~lost => Accepts(order, r)
  BY <1>0, <1>1, Placed, StepEndRule DEF Here, LogHeld, StepPoints
<1>3. LET p == Apply(order, r) IN
         /\ p \in Orders /\ p.turn = order.turn /\ p.step = 0 /\ p.lastStep = order.lastStep
         /\ Pending(p) = Pending(order) /\ p.compaction = order.compaction
         /\ p.assistant = order.assistant
         /\ Logs(r) => step = order.step
  BY Placed, StepEndRule DEF Here, Logs
<1> HIDE DEF r
<1>4. \/ /\ Logs(r) /\ stepOpen' = FALSE
         /\ \/ then \in {"boundary", "answered"} /\ pc' = then /\ UNCHANGED <<then, outcome>>
            \/ then = "max_tokens" /\ pc' = "close"
            \/ then = "overflow" /\ pc' = "close" /\ outcome' = "error"
            \/ then = "overflow" /\ pc' = "compact" /\ then' = "head"
      \/ Misses(r) /\ Returns("error")
  BY DEF StepEnd, r
<1>5. Written
  BY <1>2, <1>4, LiveWrite, Placed, WriteRule
<1>6. CASE Misses(r) /\ Returns("error")
  BY <1>0, <1>5, <1>6, InsideReturns DEF StepPoints, Returns, Misses
<1>7. CASE /\ Logs(r) /\ stepOpen' = FALSE
           /\ \/ then \in {"boundary", "answered"} /\ pc' = then /\ UNCHANGED <<then, outcome>>
              \/ then = "max_tokens" /\ pc' = "close"
              \/ then = "overflow" /\ pc' = "close" /\ outcome' = "error"
              \/ then = "overflow" /\ pc' = "compact" /\ then' = "head"
  <2>1. order' = Apply(order, r)
    BY <1>7 DEF Logs
  <2>2. /\ order' \in Orders /\ order'.turn = order.turn /\ order'.step = 0
        /\ order'.lastStep = order.lastStep
        /\ Pending(order') = Pending(order) /\ order'.compaction = order.compaction
        /\ order'.assistant = order.assistant
    BY <1>3, <1>7, <2>1
  <2>a. Types'
    BY <1>0, <1>5, <1>7, <2>2 DEF LogInv, Types, Written, engineFrame, PcStates
  <2>b. Control'
    BY <1>0, <1>5, <1>7 DEF LogInv, Types, Control, Written, engineFrame, BetweenPoints, StepPoints
  <2>c. Tied(order)'
    BY <2>2 DEF LogInv, Tied, Pending
  <2>4. ~lost => order.lastStep = step
    BY <1>0, Placed DEF LogHeld, StepPoints
  <2>5. ~lost' => LogHeld'
    BY <1>0, <1>1, <1>7, <2>2, <2>4 DEF LogInv, Types, Control, LogHeld, Quiet, engineFrame,
       BetweenPoints, StepPoints, ClosePoints, Pending
  <2> QED
    BY <1>5, <2>a, <2>b, <2>c, <2>5 DEF LogInv, Written
<1> QED
  BY <1>4, <1>6, <1>7

\* turn/end of a turn that completed.
LEMMA TurnEndStep ==
    ASSUME LogInv, TurnEnd
    PROVE  LogInv'
<1> DEFINE r == RecOf("turn/end", turn, 0, "other")
<1>0. pc = "turnEnd" /\ UNCHANGED <<turn, step, stepOpen, manual, lost, asks, calls, cancelled>>
  BY DEF TurnEnd, Returns, idleTools, closing
<1>1. ~lost => order.compaction = None /\ Quiet(order) /\ order.turn = turn
  BY <1>0, Placed DEF LogInv, LogHeld, Control, BetweenPoints
<1>2. ~lost => Accepts(order, r)
  BY <1>1, Placed, TurnEndRule DEF Quiet
<1>3. LET p == Apply(order, r) IN
         /\ p \in Orders /\ p.turn = 0 /\ p.step = order.step
         /\ Pending(p) = Pending(order) /\ p.compaction = order.compaction
  BY Placed, TurnEndRule
<1> HIDE DEF r
<1>4. \/ Logs(r) /\ turnOpen' = FALSE /\ pc' = "idle"
      \/ Misses(r) /\ Returns("error")
  BY DEF TurnEnd, r
<1>5. Written
  BY <1>2, <1>4, LiveWrite, Placed, WriteRule
<1>6. CASE Misses(r) /\ Returns("error")
  BY <1>0, <1>5, <1>6, BetweenStays DEF BetweenPoints, Returns, Misses, engineFrame
<1>7. CASE Logs(r) /\ turnOpen' = FALSE /\ pc' = "idle"
  <2>1. order' = Apply(order, r)
    BY <1>7 DEF Logs
  <2>2. /\ order' \in Orders /\ order'.turn = 0 /\ order'.step = order.step
        /\ Pending(order') = Pending(order) /\ order'.compaction = order.compaction
    BY <1>3, <2>1
  <2>3. Types'
    BY <1>0, <1>5, <1>7, <2>2 DEF LogInv, Types, Written, PcStates
  <2>4. Control' /\ Tied(order)'
    BY <1>0, <1>5, <1>7, <2>2 DEF LogInv, Types, Control, Tied, Written, BetweenPoints, StepPoints, Pending
  <2>5. ~lost' => LogHeld'
    BY <1>0, <1>1, <1>7, <2>2 DEF LogInv, LogHeld, Quiet, BetweenPoints, StepPoints, ClosePoints, Pending
  <2> QED
    BY <1>5, <2>3, <2>4, <2>5 DEF LogInv, Written
<1> QED
  BY <1>4, <1>6, <1>7

-----------------------------------------------------------------------------
(* The deferred closeout.                                                  *)

LEMMA CloseoutStep ==
    ASSUME LogInv, Closeout
    PROVE  LogInv'
<1>0. /\ pc = "close" /\ UNCHANGED <<turn, step, turnOpen, stepOpen, outcome, manual, lost, cancelled, order>>
      /\ \/ ~stepOpen /\ pc' = "closeTurn" /\ UNCHANGED <<asks, calls>>
         \/ stepOpen /\ pc' = "closeAsks" /\ asks' = {q[1] : q \in order.asked} /\ calls' = order.calls
  BY DEF Closeout, Goes, closing, Unresolved
<1>1. Written
  BY QuietWritten DEF Closeout
<1>2. order.asked \in SUBSET (Asks \X Calls) /\ order.calls \subseteq Calls
  BY Placed DEF Orders
<1>3. {q[1] : q \in order.asked} \subseteq Asks
  BY <1>2
<1>4. Types'
  BY <1>0, <1>1, <1>2, <1>3 DEF LogInv, Types, Written, PcStates
<1>5. Control' /\ Tied(order)'
  BY <1>0, <1>1 DEF LogInv, Types, Control, Tied, Written, BetweenPoints, StepPoints
<1>6. ~lost' => LogHeld'
  BY <1>0 DEF LogInv, LogHeld, Quiet, BetweenPoints, StepPoints, ClosePoints
<1> QED
  BY <1>1, <1>4, <1>5, <1>6 DEF LogInv, Written

\* Every question the closeout found is decided.
LEMMA CloseAsksStep ==
    ASSUME LogInv, CloseAsks
    PROVE  LogInv'
<1>0. /\ pc = "closeAsks"
      /\ UNCHANGED <<turn, step, turnOpen, stepOpen, outcome, manual, calls, cancelled>>
  BY DEF CloseAsks, Goes, closing, engine
<1>1. CASE asks = {} /\ pc' = "closeCalls" /\ UNCHANGED <<order, faults, rejected, lost, asks>>
  <2>1. Written
    BY <1>1, QuietWritten
  <2>2. ~lost => order.asked = {} /\ calls = order.calls
    <3>1. ~lost => {q[1] : q \in order.asked} = {} /\ calls = order.calls
      BY <1>0, <1>1, Placed DEF LogHeld
    <3>2. {q[1] : q \in order.asked} = {} => order.asked = {}
      OBVIOUS
    <3> QED
      BY <3>1, <3>2
  <2>3. Types'
    BY <1>0, <1>1, <2>1 DEF LogInv, Types, Written, PcStates
  <2>4. Control' /\ Tied(order)'
    BY <1>0, <1>1, <2>1 DEF LogInv, Types, Control, Tied, Written, BetweenPoints, StepPoints
  <2>5. ~lost' => LogHeld'
    BY <1>0, <1>1, <2>2 DEF LogInv, LogHeld, Quiet, BetweenPoints, StepPoints, ClosePoints
  <2> QED
    BY <2>1, <2>3, <2>4, <2>5 DEF LogInv, Written
<1>2. ASSUME NEW a \in asks, Tries(RecOf("approval/decided", turn, step, a)), asks' = asks \ {a},
             pc' = pc
      PROVE  LogInv'
  <2> DEFINE r == RecOf("approval/decided", turn, step, a)
  <2>1. a \in Asks
    BY DEF LogInv, Types
  <2>2. ~lost => asks = {q[1] : q \in order.asked} /\ calls = order.calls /\ order.turn = turn
                 /\ order.step = step
    BY <1>0, Placed DEF LogHeld
  <2>3. ~lost => Accepts(order, r)
    <3>1. ~lost => \E q \in order.asked : q[1] = a
      BY <2>2
    <3> QED
      BY <2>1, <2>2, <3>1, Placed, DecideRule
  <2>4. LET p == Apply(order, r) IN
           /\ p \in Orders /\ Place(p) = Place(order) /\ p.compaction = order.compaction
           /\ p.assistant = order.assistant /\ p.calls = order.calls
           /\ p.asked = {q \in order.asked : q[1] # a} /\ p.todos = order.todos
    BY <2>1, Placed, DecideRule
  <2> HIDE DEF r
  <2>5. /\ Written /\ lost' \in BOOLEAN /\ (lost' => faults' > 0)
        /\ ~lost' => ~lost /\ order' = Apply(order, r)
        /\ order' = order \/ order' = Apply(order, r)
    BY <1>2, <2>3, TryRule DEF r
  <2>6. order' \in Orders /\ Tied(order)'
    BY <2>4, <2>5, Placed DEF Tied, LogInv
  <2>7. Types'
    BY <1>0, <1>2, <2>5, <2>6 DEF LogInv, Types, Written, PcStates
  <2>8. Control'
    BY <1>0, <1>2, <2>5 DEF LogInv, Types, Control, Written, BetweenPoints, StepPoints
  <2>9. ~lost' => asks' = {q[1] : q \in order'.asked}
    <3>1. ~lost' => order'.asked = {q \in order.asked : q[1] # a}
      BY <2>4, <2>5
    <3>2. {q[1] : q \in {q \in order.asked : q[1] # a}} = {q[1] : q \in order.asked} \ {a}
      OBVIOUS
    <3> QED
      BY <1>2, <2>2, <2>5, <3>1, <3>2
  <2>10. ~lost' => LogHeld'
    <3>1. ~lost' => /\ ~lost /\ Place(order') = Place(order) /\ order'.compaction = order.compaction
                    /\ order'.assistant = order.assistant /\ order'.calls = order.calls
      BY <2>4, <2>5
    <3> QED
      BY <1>0, <1>2, <2>9, <3>1 DEF LogInv, LogHeld, Quiet, BetweenPoints, StepPoints, ClosePoints, Place
  <2> QED
    BY <2>5, <2>6, <2>7, <2>8, <2>10 DEF LogInv, Written
<1>3. \/ asks = {} /\ pc' = "closeCalls" /\ UNCHANGED <<order, faults, rejected, lost, asks>>
      \/ \E a \in asks : Tries(RecOf("approval/decided", turn, step, a)) /\ asks' = asks \ {a} /\ pc' = pc
  BY DEF CloseAsks, Goes, closing, engine
<1> QED
  BY <1>1, <1>2, <1>3

\* Every call the closeout found is answered.
LEMMA CloseCallsStep ==
    ASSUME LogInv, CloseCalls
    PROVE  LogInv'
<1>0. /\ pc = "closeCalls"
      /\ UNCHANGED <<turn, step, turnOpen, stepOpen, outcome, manual, asks, cancelled>>
  BY DEF CloseCalls, Goes, closing, engine
<1>1. CASE calls = {} /\ pc' = "closeStep" /\ UNCHANGED <<order, faults, rejected, lost, calls>>
  <2>1. Written
    BY <1>1, QuietWritten
  <2>2. ~lost => order.calls = {}
    BY <1>0, <1>1, Placed DEF LogHeld
  <2>3. Types'
    BY <1>0, <1>1, <2>1 DEF LogInv, Types, Written, PcStates
  <2>4. Control' /\ Tied(order)'
    BY <1>0, <1>1, <2>1 DEF LogInv, Types, Control, Tied, Written, BetweenPoints, StepPoints
  <2>5. ~lost' => LogHeld'
    BY <1>0, <1>1, <2>2 DEF LogInv, LogHeld, Quiet, BetweenPoints, StepPoints, ClosePoints
  <2> QED
    BY <2>1, <2>3, <2>4, <2>5 DEF LogInv, Written
<1>2. ASSUME NEW c \in calls, Tries(RecOf("tool/result", turn, step, c)), calls' = calls \ {c},
             pc' = pc
      PROVE  LogInv'
  <2> DEFINE r == RecOf("tool/result", turn, step, c)
  <2>1. c \in Calls
    BY DEF LogInv, Types
  <2>2. ~lost => order.asked = {} /\ calls = order.calls /\ order.turn = turn /\ order.step = step
    BY <1>0, Placed DEF LogHeld
  <2>a. order \in Orders /\ turn \in Nat /\ step \in Nat
    BY Placed
  <2>b. Accepts(order, r) <=> /\ turn = order.turn /\ step = order.step /\ c \in order.calls
                              /\ \A q \in order.asked : q[2] # c
    BY <2>1, <2>a, AnswerRule
  <2>3. ~lost => Accepts(order, r)
    BY <2>2, <2>b
  <2>4. LET p == Apply(order, r) IN
           /\ p \in Orders /\ Place(p) = Place(order) /\ p.compaction = order.compaction
           /\ p.assistant = order.assistant /\ p.calls = order.calls \ {c}
           /\ p.asked = order.asked /\ p.todos = order.todos \ {c}
    BY <2>1, <2>a, AnswerRule
  <2>c. Logs(r) => \A q \in order.asked : q[2] # c
    BY <2>b DEF Logs
  <2> HIDE DEF r
  <2>5. /\ Written /\ lost' \in BOOLEAN /\ (lost' => faults' > 0)
        /\ ~lost' => ~lost /\ order' = Apply(order, r)
        /\ order' = order \/ (Logs(r) /\ order' = Apply(order, r))
    BY <1>2, <2>3, TryRule DEF r
  <2>6. order' \in Orders /\ Tied(order)'
    BY <2>4, <2>5, <2>c, Placed DEF Tied, LogInv
  <2>7. Types'
    BY <1>0, <1>2, <2>5, <2>6 DEF LogInv, Types, Written, PcStates
  <2>8. Control'
    BY <1>0, <1>2, <2>5 DEF LogInv, Types, Control, Written, BetweenPoints, StepPoints
  <2>9. ~lost' => LogHeld'
    <3>1. ~lost' => /\ ~lost /\ Place(order') = Place(order) /\ order'.compaction = order.compaction
                    /\ order'.assistant = order.assistant /\ order'.calls = order.calls \ {c}
                    /\ order'.asked = order.asked
      BY <2>4, <2>5
    <3>2. ~lost' => calls' = order'.calls
      BY <1>2, <2>2, <3>1
    <3> QED
      BY <1>0, <1>2, <3>1, <3>2 DEF LogInv, LogHeld, Quiet, BetweenPoints, StepPoints, ClosePoints, Place
  <2> QED
    BY <2>5, <2>6, <2>7, <2>8, <2>9 DEF LogInv, Written
<1>3. \/ calls = {} /\ pc' = "closeStep" /\ UNCHANGED <<order, faults, rejected, lost, calls>>
      \/ \E c \in calls : Tries(RecOf("tool/result", turn, step, c)) /\ calls' = calls \ {c} /\ pc' = pc
  BY DEF CloseCalls, Goes, closing, engine
<1> QED
  BY <1>1, <1>2, <1>3

LEMMA CloseStepStep ==
    ASSUME LogInv, CloseStep
    PROVE  LogInv'
<1> DEFINE r == Here("step/end")
<1>0. /\ pc = "closeStep" /\ pc' = "closeTurn" /\ Tries(r)
      /\ UNCHANGED <<turn, step, turnOpen, stepOpen, outcome, manual, asks, calls, cancelled>>
  BY DEF CloseStep, Goes, closing
<1>1. ~lost => /\ order.asked = {} /\ order.calls = {} /\ order.turn = turn /\ order.step = step
               /\ order.compaction = None
  BY <1>0, Placed DEF LogInv, Tied, LogHeld, Control
<1>2. ~lost => Accepts(order, r)
  BY <1>1, Placed, StepEndRule DEF Here
<1>3. LET p == Apply(order, r) IN
         /\ p \in Orders /\ p.turn = order.turn /\ p.step = 0
         /\ Pending(p) = Pending(order) /\ p.compaction = order.compaction
         /\ p.assistant = order.assistant
  BY Placed, StepEndRule, ZenonT(60) DEF Here
<1> HIDE DEF r
<1>4. /\ Written /\ lost' \in BOOLEAN /\ (lost' => faults' > 0)
      /\ ~lost' => ~lost /\ order' = Apply(order, r)
      /\ order' = order \/ order' = Apply(order, r)
  BY <1>0, <1>2, TryRule
<1>5. order' \in Orders /\ Tied(order)'
  BY <1>3, <1>4, Placed DEF Tied, LogInv, Pending
<1>6. Types'
  BY <1>0, <1>4, <1>5 DEF LogInv, Types, Written, PcStates
<1>7. Control'
  BY <1>0, <1>4 DEF LogInv, Types, Control, Written, BetweenPoints, StepPoints
<1>8. ~lost' => LogHeld'
  <2>1. ~lost' => /\ ~lost /\ order'.turn = order.turn /\ order'.step = 0 /\ order'.calls = {}
                  /\ order'.compaction = order.compaction /\ order'.assistant = order.assistant
    BY <1>1, <1>3, <1>4 DEF Pending
  <2> QED
    BY <1>0, <2>1 DEF LogInv, LogHeld, Quiet, BetweenPoints, StepPoints, ClosePoints
<1> QED
  BY <1>4, <1>5, <1>6, <1>7, <1>8 DEF LogInv, Written

LEMMA CloseTurnStep ==
    ASSUME LogInv, CloseTurn
    PROVE  LogInv'
<1> DEFINE o == IF outcome = "error" /\ cancelled THEN "canceled" ELSE outcome
           x == IF o = "max_tokens" THEN o ELSE "other"
           r == RecOf("turn/end", turn, 0, x)
<1>0. /\ pc = "closeTurn" /\ pc' = "idle"
      /\ UNCHANGED <<turn, step, turnOpen, stepOpen, manual, asks, calls, cancelled>>
      /\ turnOpen
  BY DEF CloseTurn, closing, LogInv, Control
<1>a. Tries(r)
  BY <1>0 DEF CloseTurn
<1>1. ~lost => /\ order.turn = turn /\ Quiet(order) /\ order.compaction = None
               /\ x = "max_tokens" => order.assistant
  BY <1>0, Placed DEF LogInv, LogHeld, Control, ClosePoints
<1> HIDE DEF x, o
<1>2. ~lost => Accepts(order, r)
  BY <1>1, Placed, TurnEndRule DEF Quiet
<1>3. LET p == Apply(order, r) IN
         /\ p \in Orders /\ p.turn = 0 /\ p.step = order.step
         /\ Pending(p) = Pending(order) /\ p.compaction = order.compaction
  BY Placed, TurnEndRule
<1> HIDE DEF r
<1>4. /\ Written /\ lost' \in BOOLEAN /\ (lost' => faults' > 0)
      /\ ~lost' => ~lost /\ order' = Apply(order, r)
      /\ order' = order \/ order' = Apply(order, r)
  BY <1>a, <1>2, TryRule
<1>5. order' \in Orders /\ Tied(order)'
  BY <1>3, <1>4, Placed DEF Tied, LogInv, Pending
<1>6. Types'
  BY <1>0, <1>4, <1>5 DEF LogInv, Types, Written, PcStates
<1>7. Control'
  BY <1>0, <1>4 DEF LogInv, Types, Control, Written, BetweenPoints, StepPoints
<1>8. ~lost' => LogHeld'
  <2>1. ~lost' => ~lost /\ order'.turn = 0 /\ Quiet(order') /\ order'.compaction = None
    BY <1>1, <1>3, <1>4 DEF Pending, Quiet
  <2> QED
    BY <1>0, <2>1 DEF LogInv, LogHeld, BetweenPoints, StepPoints, ClosePoints
<1> QED
  BY <1>4, <1>5, <1>6, <1>7, <1>8 DEF LogInv, Written

-----------------------------------------------------------------------------
(* The batch's appends.                                                    *)

\* What the log holds of a running batch.
LEMMA BatchLog ==
    ASSUME LogInv, pc = "batch", ~lost
    PROVE  /\ order.turn = turn /\ order.step = step /\ order.lastStep = step
           /\ order.calls = Range(batch) /\ Questions
           /\ order.compaction = None
  BY Placed DEF LogHeld, LogInv, Control, StepPoints

\* A step of the batch keeps its place: the questions and the todo writes are what
\* it may disturb.
LEMMA BatchStays ==
    ASSUME LogInv, pc = "batch", Written, UNCHANGED <<engine, engineFrame, batch>>,
           order' \in Orders, Place(order') = Place(order), order'.calls = order.calls,
           order'.compaction = order.compaction, Tied(order)', ~lost => Questions'
    PROVE  LogInv'
<1>0. UNCHANGED <<pc, then, turn, step, turnOpen, stepOpen, outcome, manual, lost, asks, calls, cancelled, batch>>
  BY DEF engine, engineFrame
<1>1. Types'
  BY <1>0 DEF LogInv, Types, Written
<1>2. Control'
  BY <1>0 DEF LogInv, Types, Control, Written
<1>3. ~lost' => LogHeld'
  BY <1>0 DEF LogInv, LogHeld, Quiet, BetweenPoints, StepPoints, ClosePoints, Place
<1> QED
  BY <1>1, <1>2, <1>3 DEF LogInv, Written

LEMMA DispatchStep ==
    ASSUME BatchInv, LogInv, NEW c \in Calls, Dispatch(c) \/ Execute(c)
    PROVE  LogInv'
<1>0. /\ pc = "batch" /\ status[c] \in {"new", "ready"}
      /\ UNCHANGED <<engine, engineFrame, batch, order>>
  BY DEF Dispatch, Execute, inBatch, closing, engineFrame, engine
<1>a. \E x \in {"check", "ready", "running", "done"} : status' = [status EXCEPT ![c] = x]
  BY DEF Dispatch, Execute, Finishes
<1>1. Written
  BY QuietWritten DEF Dispatch, Execute
<1>2. faults' = faults
  BY DEF Dispatch, Execute
<1>3. \A d \in Calls : d # c => status'[d] = status[d]
  BY <1>a DEF BatchInv, BatchTypes
<1>4. \A q \in order.asked : q[2] \in Calls
  BY Placed DEF Orders
<1>5. ~lost => Questions'
  <2> SUFFICES ASSUME ~lost
               PROVE  Questions'
    OBVIOUS
  <2>1. Questions
    BY <1>0, BatchLog
  <2>2. \A q \in order.asked : q[2] # c
    BY <1>0, <2>1 DEF Questions
  <2>3. c \notin order.todos /\ order.todos \subseteq Calls
    BY <1>0, <2>1, Placed DEF Questions, Orders
  <2> QED
    BY <1>0, <1>2, <1>3, <1>4, <2>1, <2>2, <2>3 DEF Questions
<1>6. Tied(order)'
  BY <1>0 DEF LogInv, Tied
<1> QED
  BY <1>0, <1>1, <1>5, <1>6, BatchStays, Placed

\* approval/asked.
LEMMA AskStep ==
    ASSUME BatchInv, LogInv, NEW c \in Calls, Ask(c)
    PROVE  LogInv'
<1>0. /\ pc = "batch" /\ status[c] = "check" /\ UNCHANGED <<engine, engineFrame, batch>>
  BY DEF Ask, inBatch, closing, engineFrame, engine
<1>1. PICK a \in Asks \ order.seen :
         \/ LogsLive(AskOf(turn, step, a, c)) /\ status' = [status EXCEPT ![c] = "asked"]
         \/ MissesLive(AskOf(turn, step, a, c)) /\ status' = [status EXCEPT ![c] = "done"]
  BY DEF Ask, Finishes
<1> DEFINE r == AskOf(turn, step, a, c)
<1>2. c \in Range(batch) /\ c \notin Omitted
  BY <1>0 DEF BatchInv, BatchHeld, Active, Refused
<1>3. ~lost => Accepts(order, r)
  BY <1>0, <1>1, <1>2, Placed, BatchLog, AskRule
<1>4. LET p == Apply(order, r) IN
         /\ p \in Orders /\ Place(p) = Place(order) /\ p.compaction = order.compaction
         /\ p.calls = order.calls /\ p.asked = order.asked \cup {<<a, c>>} /\ p.todos = order.todos
         /\ Logs(r) => c \in order.calls
  BY <1>1, Placed, AskRule DEF Logs
<1>5. /\ \A d \in Calls : d # c => status'[d] = status[d]
      /\ status'[c] \in {"asked", "done"}
  BY <1>1 DEF BatchInv, BatchTypes
<1>6. /\ \A q \in order.asked : q[2] \in Calls
      /\ order.todos \subseteq Calls
  BY Placed DEF Orders
<1> DEFINE e == <<a, c>>
<1>7. e[2] = c
  OBVIOUS
<1>8. ~lost => (\A q \in order.asked : q[2] # c) /\ c \notin order.todos
  BY <1>0, BatchLog DEF Questions
<1>9. \/ Logs(r) /\ status'[c] = "asked"
      \/ MissesLive(r) /\ status'[c] = "done"
  BY <1>1, LiveWrite DEF BatchInv, BatchTypes
<1>10. Written
  BY <1>3, <1>9, Placed, WriteRule
<1> HIDE DEF r, e
<1>11. CASE MissesLive(r)
  <2>1. order' = order /\ faults <= faults' /\ faults' \in Nat /\ faults \in Nat
    BY <1>10, <1>11 DEF MissesLive, Misses, Written, LogInv, Types
  <2>2. ~lost => Questions'
    <3> SUFFICES ASSUME ~lost
                 PROVE  Questions'
      OBVIOUS
    <3>1. Questions
      BY <1>0, BatchLog
    <3>2. faults' = 0 => faults = 0
      BY <2>1
    <3> QED
      BY <1>5, <1>6, <1>8, <2>1, <3>1, <3>2 DEF Questions
  <2>3. Tied(order)'
    BY <2>1 DEF LogInv, Tied
  <2> QED
    BY <1>0, <1>10, <2>1, <2>2, <2>3, BatchStays, Placed
<1>12. CASE Logs(r) /\ status'[c] = "asked"
  <2>1. order' = Apply(order, r) /\ faults' = faults
    BY <1>12 DEF Logs
  <2>2. /\ order' \in Orders /\ Place(order') = Place(order) /\ order'.compaction = order.compaction
        /\ order'.calls = order.calls /\ order'.asked = order.asked \cup {e} /\ order'.todos = order.todos
        /\ c \in order.calls
    BY <1>4, <1>12, <2>1 DEF e
  <2>3. ~lost => Questions'
    <3> SUFFICES ASSUME ~lost
                 PROVE  Questions'
      OBVIOUS
    <3>1. Questions
      BY <1>0, BatchLog
    <3>2. \A q \in order'.asked : q = e \/ (q \in order.asked /\ q[2] # c)
      BY <1>8, <2>2
    <3> QED
      BY <1>5, <1>6, <1>7, <1>8, <1>12, <2>1, <2>2, <3>1, <3>2 DEF Questions
  <2>4. Tied(order)'
    BY <1>7, <2>2 DEF LogInv, Tied
  <2> QED
    BY <1>0, <1>10, <2>2, <2>3, <2>4, BatchStays
<1> QED
  BY <1>9, <1>11, <1>12

\* approval/decided.
LEMMA DecideStep ==
    ASSUME BatchInv, LogInv, NEW c \in Calls, Decide(c)
    PROVE  LogInv'
<1>0. /\ pc = "batch" /\ status[c] = "asked" /\ UNCHANGED <<engine, engineFrame, batch>>
  BY DEF Decide, inBatch, closing, engineFrame, engine
<1>1. PICK q \in order.asked :
         /\ q[2] = c
         /\ \/ Logs(RecOf("approval/decided", turn, step, q[1])) /\ status' = [status EXCEPT ![c] = "ready"]
            \/ Logs(RecOf("approval/decided", turn, step, q[1])) /\ status' = [status EXCEPT ![c] = "done"]
            \/ Misses(RecOf("approval/decided", turn, step, q[1])) /\ status' = [status EXCEPT ![c] = "done"]
  BY DEF Decide, Finishes
<1> DEFINE a == q[1]
           r == RecOf("approval/decided", turn, step, a)
<1>2. a \in Asks
  BY Placed DEF Orders
<1>b. \E x \in order.asked : x[1] = a
  OBVIOUS
<1>c. Accepts(order, r) <=> turn = order.turn /\ step = order.step /\ \E x \in order.asked : x[1] = a
  <2>1. order \in Orders /\ turn \in Nat /\ step \in Nat
    BY Placed
  <2> HIDE DEF a
  <2> QED
    BY <1>2, <2>1, DecideRule
<1>3. ~lost => Accepts(order, r)
  BY <1>0, <1>b, <1>c, BatchLog
<1>4. LET p == Apply(order, r) IN
         /\ p \in Orders /\ Place(p) = Place(order) /\ p.compaction = order.compaction
         /\ p.calls = order.calls /\ p.asked = {x \in order.asked : x[1] # a} /\ p.todos = order.todos
  BY <1>2, Placed, DecideRule
<1>5. /\ \A d \in Calls : d # c => status'[d] = status[d]
      /\ status'[c] \in {"ready", "done"}
      /\ Logs(r) \/ (Misses(r) /\ status'[c] = "done")
  BY <1>1 DEF BatchInv, BatchTypes
<1>6. /\ \A x \in order.asked : x[2] \in Calls
      /\ order.todos \subseteq Calls
  BY Placed DEF Orders
<1>7. ~lost => (\A x \in order.asked : x[2] = c => x = q) /\ c \notin order.todos
  BY <1>0, <1>1, BatchLog DEF Questions
<1>8. Written
  BY <1>3, <1>5, LiveWrite, Placed, WriteRule
<1> HIDE DEF r
<1>9. CASE Logs(r)
  <2>1. order' = Apply(order, r) /\ faults' = faults
    BY <1>9 DEF Logs
  <2>2. /\ order' \in Orders /\ Place(order') = Place(order) /\ order'.compaction = order.compaction
        /\ order'.calls = order.calls /\ order'.asked = {x \in order.asked : x[1] # a}
        /\ order'.todos = order.todos
    BY <1>4, <2>1
  <2>3. ~lost => Questions'
    <3> SUFFICES ASSUME ~lost
                 PROVE  Questions'
      OBVIOUS
    <3>1. Questions
      BY <1>0, BatchLog
    <3>2. \A x \in order'.asked : x \in order.asked /\ x[2] # c
      BY <1>7, <2>2
    <3> QED
      BY <1>5, <1>6, <1>7, <2>1, <2>2, <3>1, <3>2 DEF Questions
  <2>4. Tied(order)'
    BY <2>2 DEF LogInv, Tied
  <2> QED
    BY <1>0, <1>8, <2>2, <2>3, <2>4, BatchStays
<1>10. CASE Misses(r) /\ status'[c] = "done"
  <2>1. order' = order /\ faults' \in Nat /\ faults \in Nat /\ faults <= faults'
    BY <1>8, <1>10 DEF Misses, Written, LogInv, Types
  <2>2. ~lost => Questions'
    <3> SUFFICES ASSUME ~lost
                 PROVE  Questions'
      OBVIOUS
    <3>1. Questions
      BY <1>0, BatchLog
    <3>2. faults' > 0
      <4>1. faults' = faults + 1
        BY <1>3, <1>10 DEF Misses
      <4> QED
        BY <2>1, <4>1
    <3>3. faults' # 0
      BY <2>1, <3>2
    <3> QED
      BY <1>5, <1>6, <1>7, <1>10, <2>1, <3>1, <3>3 DEF Questions
  <2>3. Tied(order)'
    BY <2>1 DEF LogInv, Tied
  <2> QED
    BY <1>0, <1>8, <2>1, <2>2, <2>3, BatchStays, Placed
<1> QED
  BY <1>5, <1>9, <1>10

\* The body returns, after its todo/write if it has one.
LEMMA FinishStep ==
    ASSUME BatchInv, LogInv, NEW c \in Calls, Finish(c)
    PROVE  LogInv'
<1> DEFINE r == RecOf("todo/write", turn, step, c)
<1>0. /\ pc = "batch" /\ status[c] = "running" /\ UNCHANGED <<engine, engineFrame, batch>>
      /\ status' = [status EXCEPT ![c] = "done"]
      /\ \/ UNCHANGED <<order, faults, rejected>>
         \/ c \in TodoCalls /\ (Logs(r) \/ MissesLive(r))
  BY LiveWrite DEF Finish, Finishes, inBatch, closing, engineFrame, engine
<1>1. c \in Range(batch) /\ c \notin Omitted
  BY <1>0 DEF BatchInv, BatchHeld, Active, Refused
<1>2. ~lost => (\A x \in order.asked : x[2] # c) /\ c \notin order.todos
  BY <1>0, BatchLog DEF Questions
<1>3. c \in TodoCalls /\ ~lost => Accepts(order, r)
  BY <1>0, <1>1, <1>2, Placed, BatchLog, TodoRule
<1>4. LET p == Apply(order, r) IN
         /\ p \in Orders /\ Place(p) = Place(order) /\ p.compaction = order.compaction
         /\ p.calls = order.calls /\ p.asked = order.asked /\ p.todos = order.todos \cup {c}
         /\ Logs(r) => c \in order.calls
  BY Placed, TodoRule DEF Logs
<1>5. /\ \A d \in Calls : d # c => status'[d] = status[d]
      /\ status'[c] = "done"
  BY <1>0 DEF BatchInv, BatchTypes
<1>6. /\ \A x \in order.asked : x[2] \in Calls
      /\ order.todos \subseteq Calls
  BY Placed DEF Orders
<1> HIDE DEF r
<1>7. Written /\ (order' = order \/ (Logs(r) /\ order' = Apply(order, r)))
  BY <1>0, <1>3, Placed, QuietWritten, WriteRule
<1>8. /\ order' \in Orders /\ Place(order') = Place(order) /\ order'.compaction = order.compaction
      /\ order'.calls = order.calls /\ order'.asked = order.asked
      /\ order'.todos = order.todos \/ (order'.todos = order.todos \cup {c} /\ c \in order.calls)
  BY <1>4, <1>7, Placed
<1>9. faults' = 0 => faults = 0
  BY <1>7 DEF Written, LogInv, Types
<1>10. ~lost => Questions'
  <2> SUFFICES ASSUME ~lost
               PROVE  Questions'
    OBVIOUS
  <2>1. Questions
    BY <1>0, BatchLog
  <2> QED
    BY <1>2, <1>5, <1>6, <1>8, <1>9, <2>1 DEF Questions
<1>11. Tied(order)'
  BY <1>8 DEF LogInv, Tied
<1> QED
  BY <1>0, <1>7, <1>8, <1>10, <1>11, BatchStays

LEMMA BatchDoneStep ==
    ASSUME BatchInv, LogInv, BatchDone
    PROVE  LogInv'
<1>0. /\ pc = "batch" /\ pc' = "results" /\ \A c \in Range(batch) : status[c] = "done"
      /\ UNCHANGED <<engineFrame, order, step, stepOpen, then, outcome, batch, status, answers, faults>>
  BY DEF BatchDone, Goes, tools, closing, engineFrame
<1>1. Written
  BY QuietWritten DEF BatchDone
<1>2. (answers + 1)..Len(batch) = DOMAIN batch
  BY <1>0 DEF BatchInv, BatchHeld, BatchTypes
<1>3. Range(batch) = {batch[i] : i \in (answers + 1)..Len(batch)}
  BY <1>2 DEF Range
<1>4. ~lost => /\ order.calls = {batch[i] : i \in (answers + 1)..Len(batch)} /\ Questions
               /\ order.turn = turn /\ order.step = step /\ order.lastStep = step
               /\ order.compaction = None
  BY <1>0, <1>3, BatchLog
<1>5. Types'
  BY <1>0, <1>1 DEF LogInv, Types, Written, engineFrame, PcStates
<1>6. Control' /\ Tied(order)'
  BY <1>0, <1>1 DEF LogInv, Types, Control, Tied, Written, engineFrame, BetweenPoints, StepPoints
<1>7. ~lost => Questions'
  BY <1>0, <1>4 DEF Questions
<1>8. ~lost' => LogHeld'
  BY <1>0, <1>4, <1>7 DEF LogHeld, engineFrame, BetweenPoints, StepPoints, ClosePoints
<1> QED
  BY <1>1, <1>5, <1>6, <1>8 DEF LogInv, Written

-----------------------------------------------------------------------------
(* The manual compaction, with no turn beside it.                          *)

LEMMA ManualSteps ==
    ASSUME LogInv, ManualStep
    PROVE  LogInv'
<1>0. UNCHANGED <<pc, then, turn, step, turnOpen, stepOpen, outcome, cancelled, tools, asks, calls>>
      /\ pc = "idle"
  BY DEF ManualStep, ManualCheck, ManualStart, ManualSummary, ManualEnd, engine, closing, LogInv, Control
<1> DEFINE idleLog == order'.turn = order.turn /\ Pending(order') = Pending(order) /\ order'.step = order.step
<1>1. ASSUME Written, order' \in Orders, Place(order') = Place(order), Pending(order') = Pending(order),
             lost' \in BOOLEAN, lost' => faults' > 0, ~lost' => ~lost,
             ~lost' /\ order'.compaction # None => manual' \in {"started", "ending"}
      PROVE  LogInv'
  <2>1. Types'
    BY <1>0, <1>1 DEF LogInv, Types, Written
  <2>2. Control' /\ Tied(order)'
    BY <1>0, <1>1 DEF LogInv, Types, Control, Tied, Written, Pending, BetweenPoints, StepPoints
  <2>3. ~lost' => LogHeld'
    BY <1>0, <1>1 DEF LogInv, LogHeld, Quiet, Place, Pending, BetweenPoints, StepPoints, ClosePoints
  <2> QED
    BY <1>1, <2>1, <2>2, <2>3 DEF LogInv, Written
<1>2. /\ order \in Orders /\ faults \in Nat /\ lost \in BOOLEAN /\ (lost => faults > 0)
      /\ ~lost => LogHeld
  BY DEF LogInv, Types, Control
<1>3. CASE ManualCheck
  <2>1. Written /\ order' = order /\ lost' = lost /\ faults' = faults /\ manual = "new"
    BY <1>3, QuietWritten DEF ManualCheck
  <2> QED
    BY <1>0, <1>1, <1>2, <2>1 DEF LogHeld
<1>4. CASE ManualStart
  <2>0. manual = "checked" /\ lost' = lost
    BY <1>4 DEF ManualStart
  <2>1. PICK k \in Compactions :
           \/ Logs(RecOf("compaction/start", 0, 0, k)) /\ manual' = "started"
           \/ Misses(RecOf("compaction/start", 0, 0, k)) /\ manual' = "done"
    BY <1>4 DEF ManualStart
  <2> DEFINE r == RecOf("compaction/start", 0, 0, k)
  <2>2. ~lost => order.compaction = None
    BY <1>0, <1>2, <2>0 DEF LogHeld
  <2>3. ~lost => Accepts(order, r)
    BY <1>2, <2>2, CompactionStartRule
  <2>4. LET p == Apply(order, r) IN
           p \in Orders /\ Place(p) = Place(order) /\ Pending(p) = Pending(order)
    BY <1>2, CompactionStartRule
  <2> HIDE DEF r
  <2>5. Written
    BY <1>2, <2>1, <2>3, LiveWrite, WriteRule DEF r
  <2>6. \/ order' = Apply(order, r) /\ manual' = "started"
        \/ order' = order
    BY <2>1 DEF Logs, Misses, r
  <2>7. lost' => faults' > 0
    BY <1>2, <2>0, <2>5 DEF Written
  <2> QED
    BY <1>1, <1>2, <2>0, <2>2, <2>4, <2>5, <2>6, <2>7
<1>5. CASE ManualSummary
  <2> DEFINE r == RecOf("compaction/summary", 0, 0, order.compaction)
  <2>0. manual = "started" /\ manual' = "ending" /\ lost' = lost
        /\ (Logs(r) \/ Misses(r) \/ UNCHANGED <<order, faults, rejected>>)
    BY <1>5 DEF ManualSummary
  <2>1. Accepts(order, r) /\ Apply(order, r) = order
    BY <1>2, SummaryRule
  <2> HIDE DEF r
  <2>2. Written /\ order' = order
    BY <2>0, <2>1, LiveWrite, QuietWritten, WriteRule
  <2>3. lost' => faults' > 0
    BY <1>2, <2>0, <2>2 DEF Written
  <2> QED
    BY <1>1, <1>2, <2>0, <2>2, <2>3
<1>6. CASE ManualEnd
  <2> DEFINE r == RecOf("compaction/end", 0, 0, order.compaction)
  <2>0. manual = "ending" /\ manual' = "done" /\ Tries(r)
    BY <1>6 DEF ManualEnd
  <2>1. Accepts(order, r)
    BY <1>2, CompactionEndRule
  <2>2. LET p == Apply(order, r) IN
           p \in Orders /\ Place(p) = Place(order) /\ Pending(p) = Pending(order) /\ p.compaction = None
    BY <1>2, CompactionEndRule
  <2> HIDE DEF r
  <2>3. /\ Written /\ lost' \in BOOLEAN /\ (lost' => faults' > 0)
        /\ ~lost' => ~lost /\ order' = Apply(order, r)
        /\ order' = order \/ order' = Apply(order, r)
    BY <2>0, <2>1, TryRule
  <2> QED
    BY <1>1, <1>2, <2>2, <2>3
<1> QED
  BY <1>3, <1>4, <1>5, <1>6 DEF ManualStep

-----------------------------------------------------------------------------
(* The invariants hold.                                                    *)

THEOREM LogStep == Overlap = FALSE /\ BatchInv /\ LogInv /\ [Next]_vars => LogInv'
<1> SUFFICES ASSUME Overlap = FALSE, BatchInv, LogInv, [Next]_vars
             PROVE  LogInv'
  OBVIOUS
<1>1. CASE Begin \/ ManualStep
  BY <1>1, BeginStep, ManualSteps
<1>2. CASE Cancel \/ UNCHANGED vars
  <2>1. /\ UNCHANGED <<order, engine, tools, closing, manual, faults, rejected, lost>>
        /\ cancelled' = TRUE \/ cancelled' = cancelled
    BY <1>2 DEF Cancel, vars
  <2>2. UNCHANGED <<order, pc, then, turn, step, turnOpen, stepOpen, outcome, batch, status, answers,
                    asks, calls, manual, faults, rejected, lost>>
    BY <2>1 DEF engine, tools, closing
  <2>3. Types'
    BY <2>1, <2>2 DEF LogInv, Types
  <2>4. Control' /\ Tied(order)' /\ NeverRejected'
    BY <2>2 DEF LogInv, Control, Tied, NeverRejected
  <2>5. (~lost => LogHeld)'
    BY <2>2 DEF LogInv, LogHeld, Questions, Quiet
  <2> QED
    BY <2>3, <2>4, <2>5 DEF LogInv
<1>3. CASE Open \/ Opening \/ Boundary \/ LoopHead \/ Compact \/ Summary \/ CompactEnd
  BY <1>3, OpenStep, OpeningStep, LoopHeadStep, CompactStep, SummaryStep, CompactEndStep
<1>4. CASE PlanBoundary \/ StepContext \/ StepStart \/ Header \/ Model \/ RecordCall
  BY <1>4, PlanStep, OpeningStep, StepStartStep, HeaderStep, ModelStep, RecordCallStep
<1>5. CASE Results \/ StepEnd \/ Answered \/ TurnEnd \/ BatchDone
  BY <1>5, ResultsStep, StepEndStep, OpeningStep, TurnEndStep, BatchDoneStep
<1>6. CASE Closeout \/ CloseAsks \/ CloseCalls \/ CloseStep \/ CloseTurn
  BY <1>6, CloseoutStep, CloseAsksStep, CloseCallsStep, CloseStepStep, CloseTurnStep
<1>7. CASE \E c \in Calls : Dispatch(c) \/ Ask(c) \/ Decide(c) \/ Execute(c) \/ Finish(c)
  BY <1>7, DispatchStep, AskStep, DecideStep, FinishStep
<1> QED
  BY <1>1, <1>2, <1>3, <1>4, <1>5, <1>6, <1>7 DEF Next, EngineStep

LEMMA BatchInit == Init => BatchInv
<1> SUFFICES ASSUME Init
             PROVE  BatchInv
  OBVIOUS
<1>1. /\ then = "head" /\ batch = <<>> /\ status = [c \in Calls |-> "none"] /\ answers = 0
      /\ allowed = {} /\ ran = {} /\ pc = "idle"
  BY DEF Init
<1>2. <<>> \in Seq(Calls) /\ IsInjective(<<>>) /\ Len(<<>>) = 0
  BY DEF IsInjective
<1>3. BatchTypes
  BY <1>1, <1>2 DEF BatchTypes, ThenPoints, Statuses
<1> QED
  BY <1>1, <1>3 DEF BatchInv, BatchHeld, StartedInOrder, CallsControlled, RunsOnlyAllowed,
     BarrierExclusive, Active

LEMMA LogInit == Init => LogInv
<1> SUFFICES ASSUME Init
             PROVE  LogInv
  OBVIOUS
<1>1. Empty \in Orders
  BY DEF Empty, Orders
<1>2. /\ Empty.turn = 0 /\ Empty.step = 0 /\ Empty.calls = {} /\ Empty.asked = {} /\ Empty.todos = {}
      /\ Empty.compaction = None
  BY DEF Empty
<1>3. Types
  BY <1>1 DEF Init, Types, PcStates
<1>4. Control /\ Tied(order) /\ NeverRejected
  BY <1>2 DEF Init, Control, Tied, NeverRejected, BetweenPoints, StepPoints
<1>5. LogHeld
  BY <1>2 DEF Init, LogHeld, Quiet, BetweenPoints, StepPoints, ClosePoints
<1> QED
  BY <1>3, <1>4, <1>5 DEF LogInv

\* The batch runs what Decide allowed, in the groups ExecuteBatch makes: a gated
\* body only after its allowed outcome is durable, an exclusive call alone, a group
\* within its limit, however approvals, cancellations and failed appends fall, a
\* manual compaction beside the turn or not.
THEOREM CallsAlwaysControlled == Spec => []CallsControlled
<1>1. BatchInv => CallsControlled
  BY DEF BatchInv
<1> QED
  BY <1>1, BatchInit, BatchStep, PTL DEF Spec

LEMMA LogAlwaysHeld == ASSUME Overlap = FALSE PROVE Spec => [](BatchInv /\ LogInv)
<1>1. Init => BatchInv /\ LogInv
  BY BatchInit, LogInit
<1>2. BatchInv /\ LogInv /\ [Next]_vars => (BatchInv /\ LogInv)'
  BY BatchStep, LogStep
<1> QED
  BY <1>1, <1>2, PTL DEF Spec

\* No append of a turn, its batch, its closeout or a compaction ever meets an order
\* error of the log by itself, as long as no manual compaction runs beside a turn.
THEOREM EngineNeverRejected == ASSUME Overlap = FALSE PROVE Spec => []NeverRejected
<1>1. LogInv => NeverRejected
  BY DEF LogInv
<1> QED
  BY <1>1, LogAlwaysHeld, PTL

\* Between turns the log is closed, whatever was cancelled and however many appends
\* failed, unless one of the closing appends was among them.
THEOREM AlwaysClosedBetweenTurns == ASSUME Overlap = FALSE PROVE Spec => []ClosedBetweenTurns
<1>1. LogInv => ClosedBetweenTurns
  BY DEF LogInv, LogHeld, ClosedBetweenTurns, Closed
<1> QED
  BY <1>1, LogAlwaysHeld, PTL

=============================================================================
