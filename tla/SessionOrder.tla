---------------------------- MODULE SessionOrder ----------------------------
(***************************************************************************)
(* What a session log accepts: validateOrder of                            *)
(* internal/adapter/session/jsonl/order.go as a fold.  An order state is   *)
(* what the fold knows after a prefix of the log; Accepts says whether the *)
(* next record may follow it and Apply what the fold knows afterwards.     *)
(* A record is reduced to its type, its place (turn, step) and the         *)
(* identities it names; the shapes Record.Validate requires (a positive    *)
(* turn, a step or none) are part of the record's type below.  Notices are *)
(* modelled in AgentWorker; goal changes, the surface fold, the order of   *)
(* web/search-request indices and the positions of sandbox and descriptor  *)
(* records are left out.                                                   *)
(***************************************************************************)
EXTENDS Naturals, FiniteSets

CONSTANTS
    Calls,        \* tool call identities
    Asks,         \* approval identities
    Compactions,  \* compaction identities
    Children,     \* child session identities
    TodoCalls,    \* the calls of todo_write
    Omitted,      \* the calls recorded with omitted arguments
    MaxTurn,      \* bound: turns in a log
    MaxStep       \* bound: steps in a turn

ASSUME OrderAssumption ==
    /\ MaxTurn \in Nat \ {0} /\ MaxStep \in Nat \ {0}
    /\ TodoCalls \subseteq Calls /\ Omitted \subseteq Calls
    /\ IsFiniteSet(Calls) /\ IsFiniteSet(Asks)

None == "none"

ASSUME NamesAssumption == None \notin Compactions

\* orderState and the maps validateOrder keeps beside it.  asked holds the open
\* questions with the call each is about, seen every approval identity used.
Empty == [lastTurn |-> 0, turn |-> 0, step |-> 0, lastStep |-> 0, assistant |-> FALSE,
          calls |-> {}, asked |-> {}, seen |-> {}, todos |-> {}, compaction |-> None,
          plan |-> FALSE, children |-> {}]

Orders == [lastTurn : Nat, turn : Nat, step : Nat, lastStep : Nat, assistant : BOOLEAN,
           calls : SUBSET Calls, asked : SUBSET (Asks \X Calls), seen : SUBSET Asks,
           todos : SUBSET Calls, compaction : Compactions \cup {None},
           plan : BOOLEAN, children : SUBSET Children]

Rec(type, turn, step) == [type |-> type, turn |-> turn, step |-> step]
RecOf(type, turn, step, id) == [type |-> type, turn |-> turn, step |-> step, id |-> id]
AskOf(turn, step, ask, call) ==
    [type |-> "approval/asked", turn |-> turn, step |-> step, id |-> ask, call |-> call]

\* The records Record.Validate lets through, by the place each type needs.
TurnRecords(turns) ==
    {Rec("turn/start", t, 0) : t \in turns}
        \cup {RecOf("turn/end", t, 0, o) : t \in turns, o \in {"max_tokens", "other"}}
BareRecords(turns, steps) ==
    {Rec(y, t, s) : y \in {"step/start", "step/end", "step/fact", "assistant/message", "llm/retry"},
                    t \in turns, s \in steps}
        \cup {Rec("user/message", t, s) : t \in turns, s \in steps \cup {0}}
CallRecords(turns, steps) ==
    {RecOf(y, t, s, c) : y \in {"tool/call", "tool/result", "tool/success", "todo/write"},
                         t \in turns, s \in steps, c \in Calls}
        \cup {AskOf(t, s, a, c) : t \in turns, s \in steps, a \in Asks, c \in Calls}
        \cup {RecOf("approval/decided", t, s, a) : t \in turns, s \in steps, a \in Asks}
        \cup {RecOf("subagent/catalog", t, s, c) : t \in turns, s \in steps, c \in Children}
SurfaceRecords(turns) ==
    {RecOf(y, t, 0, c) : y \in {"compaction/start", "compaction/summary", "compaction/end"},
                         t \in turns \cup {0}, c \in Compactions}
        \cup {Rec(y, t, 0) : y \in {"compaction/prune", "plan/on", "plan/off"}, t \in turns \cup {0}}
Records == TurnRecords(1..MaxTurn) \cup BareRecords(1..MaxTurn, 1..MaxStep)
               \cup CallRecords(1..MaxTurn, 1..MaxStep) \cup SurfaceRecords(1..MaxTurn)

-----------------------------------------------------------------------------
(* Which record may follow.                                                *)

InTurn(o, r) == r.turn = o.turn
InStep(o, r) == r.turn = o.turn /\ r.step = o.step
Between(o, r) == r.turn = o.turn /\ o.step = 0

\* Mutant: a step may end over calls that have no result.
StepMayEndLoose(o) == o.asked = {} /\ o.compaction = None

\* step/end: no pending call, open question or compaction.
StepMayEnd(o) == o.calls = {} /\ o.asked = {} /\ o.compaction = None

\* tool/result: the call is pending and its questions are decided.
ResultMayFollow(o, c) == c \in o.calls /\ \A q \in o.asked : q[2] # c

AcceptsTurn(o, r) ==
    \/ r.type = "turn/start" /\ o.turn = 0 /\ r.turn = o.lastTurn + 1
    \/ r.type = "user/message" /\ InTurn(o, r) /\ r.step \in {0, o.step}
    \/ r.type = "turn/end" /\ Between(o, r) /\ o.compaction = None
                           /\ (r.id = "max_tokens" => o.assistant)
    \/ r.type = "plan/on" /\ Between(o, r) /\ ~o.plan       \* plan/mode, a real change
    \/ r.type = "plan/off" /\ Between(o, r) /\ o.plan

AcceptsStep(o, r) ==
    \/ r.type = "step/start" /\ Between(o, r) /\ r.step = o.lastStep + 1
    \/ r.type = "step/fact" /\ InStep(o, r)                \* request/header, assistant/chunk
    \/ r.type \in {"assistant/message", "llm/retry"} /\ InStep(o, r) /\ ~o.assistant
    \/ r.type = "step/end" /\ InStep(o, r) /\ StepMayEnd(o)
    \/ r.type = "subagent/catalog" /\ InStep(o, r) /\ r.id \notin o.children

AcceptsCall(o, r) ==
    \/ r.type = "tool/call" /\ InStep(o, r) /\ o.assistant /\ r.id \notin o.calls
    \/ r.type = "approval/asked" /\ InStep(o, r) /\ r.call \in o.calls \ Omitted
                                 /\ r.id \notin o.seen
    \/ r.type = "approval/decided" /\ InStep(o, r) /\ \E q \in o.asked : q[1] = r.id
    \/ r.type = "tool/result" /\ InStep(o, r) /\ ResultMayFollow(o, r.id)
    \/ r.type = "tool/success" /\ InStep(o, r) /\ ResultMayFollow(o, r.id) /\ r.id \notin Omitted
    \/ r.type = "todo/write" /\ InStep(o, r) /\ r.id \in (o.calls \cap TodoCalls) \ Omitted
                             /\ r.id \notin o.todos

AcceptsCompaction(o, r) ==
    \/ r.type = "compaction/start" /\ o.compaction = None /\ r.turn \in {0, o.turn}
    \/ r.type \in {"compaction/summary", "compaction/end"} /\ r.id = o.compaction
    \/ r.type = "compaction/prune" /\ Between(o, r) /\ o.compaction = None

\* One iteration of validateOrder's switch returns no error.
Accepts(o, r) == AcceptsTurn(o, r) \/ AcceptsStep(o, r) \/ AcceptsCall(o, r)
                     \/ AcceptsCompaction(o, r)

-----------------------------------------------------------------------------
(* What the fold knows afterwards.                                         *)

Apply(o, r) ==
    CASE r.type = "turn/start" ->
            [o EXCEPT !.turn = r.turn, !.lastTurn = r.turn, !.lastStep = 0, !.assistant = FALSE]
      [] r.type = "turn/end" -> [o EXCEPT !.turn = 0]
      [] r.type = "step/start" ->
            [o EXCEPT !.step = r.step, !.lastStep = r.step, !.assistant = FALSE]
      [] r.type = "step/end" -> [o EXCEPT !.step = 0]
      [] r.type = "assistant/message" -> [o EXCEPT !.assistant = TRUE]
      [] r.type = "tool/call" -> [o EXCEPT !.calls = @ \cup {r.id}]
      [] r.type \in {"tool/result", "tool/success"} ->
            [o EXCEPT !.calls = @ \ {r.id}, !.todos = @ \ {r.id}]
      [] r.type = "approval/asked" ->
            [o EXCEPT !.asked = @ \cup {<<r.id, r.call>>}, !.seen = @ \cup {r.id}]
      [] r.type = "approval/decided" -> [o EXCEPT !.asked = {q \in @ : q[1] # r.id}]
      [] r.type = "todo/write" -> [o EXCEPT !.todos = @ \cup {r.id}]
      [] r.type = "subagent/catalog" -> [o EXCEPT !.children = @ \cup {r.id}]
      [] r.type = "compaction/start" -> [o EXCEPT !.compaction = r.id]
      [] r.type = "compaction/end" -> [o EXCEPT !.compaction = None]
      [] r.type \in {"plan/on", "plan/off"} -> [o EXCEPT !.plan = r.type = "plan/on"]
      [] OTHER -> o

\* requireClosed: no interrupted tail.
Closed(o) == o.turn = 0 /\ o.compaction = None

-----------------------------------------------------------------------------
(* repairInterrupted: what Open appends to close an interrupted tail, in    *)
(* the order of its loops.                                                  *)

\* Mutant: calls are answered before their questions are decided.
RepairRecordsUnordered(o) ==
    IF o.calls # {} THEN {RecOf("tool/result", o.turn, o.step, c) : c \in o.calls}
    ELSE IF o.asked # {} THEN {RecOf("approval/decided", o.turn, o.step, q[1]) : q \in o.asked}
    ELSE IF o.compaction # None THEN {RecOf("compaction/end", o.turn, 0, o.compaction)}
    ELSE IF o.step # 0 THEN {Rec("step/end", o.turn, o.step)}
    ELSE IF o.turn # 0 THEN {RecOf("turn/end", o.turn, 0, "other")}
    ELSE {}

\* The records that may come next; the order among the questions, and among the
\* calls, is left open.
RepairRecords(o) ==
    IF o.asked # {} THEN {RecOf("approval/decided", o.turn, o.step, q[1]) : q \in o.asked}
    ELSE IF o.calls # {} THEN {RecOf("tool/result", o.turn, o.step, c) : c \in o.calls}
    ELSE IF o.compaction # None THEN {RecOf("compaction/end", o.turn, 0, o.compaction)}
    ELSE IF o.step # 0 THEN {Rec("step/end", o.turn, o.step)}
    ELSE IF o.turn # 0 THEN {RecOf("turn/end", o.turn, 0, "other")}
    ELSE {}

-----------------------------------------------------------------------------
(* What every accepted log satisfies.                                      *)

\* A step belongs to the open turn, calls and questions to the open step, and
\* every open question is about a pending call: with the turn closed nothing
\* of it is left open.
Coherent(o) ==
    /\ o.turn \in {0, o.lastTurn} /\ o.step \in {0, o.lastStep}
    /\ o.step # 0 => o.turn # 0
    /\ o.calls # {} => o.step # 0
    /\ \A q \in o.asked : q[2] \in o.calls /\ q[1] \in o.seen
    /\ o.todos \subseteq o.calls
=============================================================================
