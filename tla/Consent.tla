------------------------------- MODULE Consent ------------------------------
(***************************************************************************)
(* What a person decides while a session runs: plan mode (app/plan), the    *)
(* plan review of exit_plan_mode (adapter/tool/plan), and the broker that   *)
(* asks (app/question; app/approval registers its broker the same way).     *)
(*                                                                          *)
(* One session.  A call of the plan service is admitted in one step and     *)
(* runs under the session's lock in another, so that stop can come between. *)
(***************************************************************************)
EXTENDS Naturals, Sequences, FiniteSets

CONSTANTS
  Fronts,      \* frontends that may register a broker, one scope each
  Questions,   \* the ids of the questions of one request, a sequence
  Batches,     \* the answer batches a broker may return
  MaxSelects, MaxTurns, MaxFaults, MaxRestarts

VARIABLES
  plog,     \* the log's projection: mode, whether a request exists, the mode it showed
  ps,       \* the service's state of the session
  service,  \* "running", "stopping", "stopped"
  user,     \* the selection of the person under way
  turn,     \* the engine's turn
  asks,     \* the question service: active, its broker, the scopes already closed
  wanted,   \* history: the last choice accepted, who made it, and who changed the log's mode
  shown,    \* history: the mode the log last told the model, by request or notice
  left      \* what remains of the bounds

vars == <<plog, ps, service, user, turn, asks, wanted, shown, left>>

NoState == [known |-> FALSE, active |-> FALSE, pending |-> FALSE, target |-> FALSE, notify |-> FALSE]
NoFront == "none"

Init ==
  /\ plog = [active |-> FALSE, requested |-> FALSE, told |-> FALSE]
  /\ ps = NoState
  /\ service = "running"
  /\ user = [pc |-> "idle", want |-> FALSE, inTurn |-> FALSE]
  /\ turn = [pc |-> "idle", cut |-> FALSE, front |-> NoFront]
  /\ asks = [active |-> TRUE, broker |-> NoFront, closed |-> {}]
  /\ wanted = [mode |-> FALSE, by |-> "user", cause |-> "user"]
  /\ shown = FALSE
  /\ left = [selects |-> MaxSelects, turns |-> MaxTurns, faults |-> MaxFaults, restarts |-> MaxRestarts]

Spend(b) == left[b] > 0 /\ left' = [left EXCEPT ![b] = @ - 1]

\* A journal append fails: its context was cancelled (a turn's, or every call
\* in flight by stop) or the disk fails.
Fails(cut) == IF cut \/ service # "running" THEN UNCHANGED left ELSE Spend("faults")

\* A call admitted before stop still holds the session state it was given,
\* which stop has already dropped from the map.
Kept(new) == IF service = "running" THEN new ELSE ps

-----------------------------------------------------------------------------
(* Select: the person enters or leaves plan mode.  The caller holds the     *)
(* agent's lock, so no turn starts or ends before it returns.               *)

SelectBegin(want) ==
  /\ user.pc = "idle" /\ Spend("selects")
  /\ service = "running"
  /\ user' = [pc |-> "admitted", want |-> want, inTurn |-> turn.pc # "idle"]
  /\ ps' = [ps EXCEPT !.known = TRUE]
  /\ UNCHANGED <<plog, service, turn, asks, wanted, shown>>

SelectBody ==
  /\ user.pc = "admitted" /\ user' = [user EXCEPT !.pc = "idle"]
  /\ LET now == [ps EXCEPT !.active = plog.active]
         target == IF ps.pending THEN ps.target ELSE plog.active IN
     \/ /\ user.want = target                                        \* Unchanged
        /\ ps' = Kept(now) /\ UNCHANGED <<plog, left>>
     \/ /\ user.want # target /\ user.want = plog.active             \* Cancelled
        /\ ps' = Kept([now EXCEPT !.pending = FALSE]) /\ UNCHANGED <<plog, left>>
     \/ /\ user.want # target /\ user.want # plog.active /\ user.inTurn     \* Queued
        /\ ps' = Kept([now EXCEPT !.pending = TRUE, !.target = user.want, !.notify = TRUE])
        /\ UNCHANGED <<plog, left>>
     \/ /\ user.want # target /\ user.want # plog.active /\ ~user.inTurn    \* Committed
        /\ plog' = [plog EXCEPT !.active = user.want]
        /\ ps' = Kept([now EXCEPT !.active = user.want, !.pending = FALSE, !.notify = TRUE])
        /\ UNCHANGED left
  /\ wanted' = [wanted EXCEPT !.mode = user.want, !.by = IF user.want = wanted.mode THEN @ ELSE "user",
                              !.cause = IF plog' = plog THEN @ ELSE "user"]
  /\ UNCHANGED <<service, turn, asks, shown>>

\* The log cannot be read, or the commit fails: nothing changes.
SelectFails ==
  /\ user.pc = "admitted" /\ user' = [user EXCEPT !.pc = "idle"] /\ Fails(FALSE)
  /\ UNCHANGED <<plog, ps, service, turn, asks, wanted, shown>>

-----------------------------------------------------------------------------
(* The engine's turn: a boundary, the request, its tools, the next boundary. *)

TurnStart ==
  /\ turn.pc = "idle" /\ user.pc = "idle" /\ Spend("turns")
  /\ turn' = [pc |-> "boundary", cut |-> FALSE, front |-> NoFront]
  /\ UNCHANGED <<plog, ps, service, user, asks, wanted, shown>>

TurnEnd ==
  /\ turn.pc = "tools" /\ user.pc = "idle" /\ turn' = [turn EXCEPT !.pc = "idle"]
  /\ UNCHANGED <<plog, ps, service, user, asks, wanted, shown, left>>

Interrupt ==
  /\ turn.pc # "idle" /\ ~turn.cut /\ turn' = [turn EXCEPT !.cut = TRUE]
  /\ UNCHANGED <<plog, ps, service, user, asks, wanted, shown, left>>

StepBegin ==
  /\ turn.pc = "boundary"
  /\ IF service = "running"
     THEN turn' = [turn EXCEPT !.pc = "step"] /\ ps' = [ps EXCEPT !.known = TRUE]
     ELSE user.pc = "idle" /\ turn' = [turn EXCEPT !.pc = "idle"] /\ UNCHANGED ps
  /\ UNCHANGED <<plog, service, user, asks, wanted, shown, left>>

\* Step: commit the pending selection, then tell the model of a switch when
\* its last request described the other mode.
Moves == ps.pending /\ ps.target # plog.active
After == IF Moves THEN ps.target ELSE plog.active
Caused == [wanted EXCEPT !.cause = IF Moves THEN wanted.by ELSE @]

\* Mutant: the mode before the move is compared with what the model was told.
NotifiesStale == ps.notify /\ plog.requested /\ plog.told # plog.active

Notifies == ps.notify /\ plog.requested /\ plog.told # After

StepBody ==
  /\ turn.pc = "step"
  /\ turn' = [turn EXCEPT !.pc = "request"]
  /\ plog' = [plog EXCEPT !.active = After]
  /\ ps' = Kept([ps EXCEPT !.active = After, !.pending = FALSE, !.notify = FALSE])
  /\ shown' = IF Notifies THEN After ELSE shown
  /\ wanted' = Caused
  /\ UNCHANGED <<service, user, asks, left>>

\* The read or the first append fails and the selection stays pending; or the
\* mode is committed and the notice fails, which the next boundary repeats.
StepFails ==
  /\ turn.pc = "step" /\ user.pc = "idle" /\ Fails(turn.cut)
  /\ turn' = [turn EXCEPT !.pc = "idle"]
  /\ \/ UNCHANGED <<plog, ps, wanted>>
     \/ /\ Notifies /\ plog' = [plog EXCEPT !.active = After] /\ wanted' = Caused
        /\ ps' = Kept([ps EXCEPT !.active = After, !.pending = FALSE])
  /\ UNCHANGED <<service, user, asks, shown>>

\* The engine writes request/header and runs the model; or it is cut short.
Request ==
  /\ turn.pc = "request"
  /\ \/ /\ ~turn.cut /\ turn' = [turn EXCEPT !.pc = "tools"]
        /\ plog' = [plog EXCEPT !.requested = TRUE, !.told = plog.active] /\ shown' = plog.active
     \/ turn.cut /\ user.pc = "idle" /\ turn' = [turn EXCEPT !.pc = "idle"] /\ UNCHANGED <<plog, shown>>
  /\ UNCHANGED <<ps, service, user, asks, wanted, left>>

NextStep ==
  /\ turn.pc = "tools" /\ ~turn.cut /\ turn' = [turn EXCEPT !.pc = "boundary"] /\ Spend("turns")
  /\ UNCHANGED <<plog, ps, service, user, asks, wanted, shown>>

-----------------------------------------------------------------------------
(* exit_plan_mode: the review, then Exit.                                    *)

\* The tool runs only when the session's state says plan mode; the question
\* goes to the broker registered now, or to nobody.
Review ==
  /\ turn.pc = "tools" /\ ~turn.cut /\ service = "running" /\ ps.known /\ ps.active
  /\ turn' = IF asks.active /\ asks.broker # NoFront
             THEN [turn EXCEPT !.pc = "review", !.front = asks.broker] ELSE turn
  /\ UNCHANGED <<plog, ps, service, user, asks, wanted, shown, left>>

\* orderAnswers: exactly one well-formed answer per question, whatever their order.
Accepts(batch) ==
  /\ Len(batch) = Len(Questions)
  /\ \A i, j \in 1..Len(batch) : i # j => batch[i].id # batch[j].id
  /\ \A q \in 1..Len(Questions) : \E i \in 1..Len(batch) :
       batch[i].id = Questions[q] /\ ~(batch[i].custom /\ Cardinality(batch[i].selected) > 0) /\ Cardinality(batch[i].selected) <= 1
Ordered(batch) == [q \in 1..Len(Questions) |-> batch[CHOOSE i \in 1..Len(batch) : batch[i].id = Questions[q]]]
Approves(batch) == Ordered(batch)[1].selected = {"Approve"} /\ ~Ordered(batch)[1].custom

\* The broker answers, is dismissed or fails (a scope that closed makes it
\* fail); a cancelled caller takes no answer, however good.
Answered ==
  /\ turn.pc = "review"
  /\ \E batch \in Batches \cup {<<>>} :
       LET ok == ~turn.cut /\ batch # <<>> /\ Accepts(batch) IN
       turn' = [turn EXCEPT !.pc = IF ok /\ Approves(batch) THEN "approved" ELSE "tools", !.front = NoFront]
  /\ UNCHANGED <<plog, ps, service, user, asks, wanted, shown, left>>

ExitBegin ==
  /\ turn.pc = "approved"
  /\ turn' = [turn EXCEPT !.pc = IF service = "running" /\ ps.known THEN "exit" ELSE "tools"]
  /\ UNCHANGED <<plog, ps, service, user, asks, wanted, shown, left>>

\* Cancellation is checked under the session's lock.
ExitBody ==
  /\ turn.pc = "exit" /\ turn' = [turn EXCEPT !.pc = "tools"]
  /\ IF turn.cut \/ service # "running" \/ ~ps.active
     THEN UNCHANGED <<ps, wanted>>
     ELSE /\ ps' = [ps EXCEPT !.pending = TRUE, !.target = FALSE, !.notify = FALSE]
          /\ wanted' = [wanted EXCEPT !.mode = FALSE, !.by = "review"]
  /\ UNCHANGED <<plog, service, user, asks, shown, left>>

-----------------------------------------------------------------------------
(* Brokers and shutdown.                                                     *)

\* RegisterBroker, including the cleanup it leaves in the frontend's scope; a
\* scope already closed withdraws it at once.
RegisterBroker(f) ==
  /\ asks.active /\ asks.broker = NoFront
  /\ asks' = IF f \in asks.closed THEN asks ELSE [asks EXCEPT !.broker = f]
  /\ UNCHANGED <<plog, ps, service, user, turn, wanted, shown, left>>

\* The scope's cleanup withdraws its own registration only.
CloseFront(f) ==
  /\ f \notin asks.closed
  /\ asks' = [asks EXCEPT !.closed = @ \cup {f}, !.broker = IF @ = f THEN NoFront ELSE @]
  /\ UNCHANGED <<plog, ps, service, user, turn, wanted, shown, left>>

\* Cleanup of plan mode: refuse, forget, cancel; it returns once every call in
\* flight has (plugin.Calls).  The question service just forgets its broker.
Stop ==
  /\ service = "running" /\ service' = "stopping"
  /\ ps' = NoState
  /\ asks' = [asks EXCEPT !.active = FALSE, !.broker = NoFront]
  /\ UNCHANGED <<plog, user, turn, wanted, shown, left>>

InFlight == user.pc = "admitted" \/ turn.pc \in {"step", "exit"}

StopReturns ==
  /\ service = "stopping" /\ ~InFlight /\ service' = "stopped"
  /\ UNCHANGED <<plog, ps, user, turn, asks, wanted, shown, left>>

\* The next process opens the session's log with nothing pending.
Restart ==
  /\ service = "stopped" /\ turn.pc = "idle" /\ Spend("restarts")
  /\ service' = "running"
  /\ asks' = [active |-> TRUE, broker |-> NoFront, closed |-> {}]
  /\ wanted' = [mode |-> plog.active, by |-> "restart", cause |-> "restart"]
  /\ UNCHANGED <<plog, ps, user, turn, shown>>

Next ==
  \/ \E want \in BOOLEAN : SelectBegin(want)
  \/ SelectBody \/ SelectFails
  \/ TurnStart \/ TurnEnd \/ Interrupt \/ StepBegin \/ StepBody \/ StepFails \/ Request \/ NextStep
  \/ Review \/ Answered \/ ExitBegin \/ ExitBody
  \/ \E f \in Fronts : RegisterBroker(f) \/ CloseFront(f)
  \/ Stop \/ StopReturns \/ Restart

-----------------------------------------------------------------------------
\* The last choice the person made and the service accepted, a selection or an
\* approved review, is what the session is in or is about to be in, whatever
\* appends failed and however selection, boundary and exit interleaved.
LastChoiceWins ==
  service = "running" /\ user.pc = "idle" =>
    (IF ps.pending THEN ps.target ELSE plog.active) = wanted.mode

\* When a request shows the model another mode than its last request did, a
\* notice says so, unless the exit tool's result told it or the process was
\* restarted in between (Step, Exit): failed notices and cut turns included.
SwitchAnnounced ==
  turn.pc = "request" /\ service = "running" /\ plog.requested /\ plog.told # plog.active /\ wanted.cause = "user" => shown = plog.active

\* Plan mode is what the person chose last, and the model learns of it.
ConsentKept == LastChoiceWins /\ SwitchAnnounced
=============================================================================
