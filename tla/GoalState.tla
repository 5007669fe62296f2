------------------------------ MODULE GoalState ------------------------------
(***************************************************************************)
(* The facts of a session's goal: the strict replay fold of                *)
(* internal/core/session/goal.go (AcceptsChange, ApplyChange), the changes *)
(* internal/app/goal/goal.go builds (Builds), and what the ended turns of  *)
(* a log imply for continuation (settle, as Settlement).  Objectives and   *)
(* explanations are left out; an edit chooses a round cap.                 *)
(***************************************************************************)
EXTENDS Integers, Sequences

CONSTANTS
    Ids,      \* goal identities
    Caps,     \* round caps people and models choose
    Clock     \* readings of the wall clock, in milliseconds

ASSUME CapsAssumption == Caps \subseteq Nat \ {0} /\ Clock \subseteq Int

None == "none"
NoRef == [id |-> None, rev |-> 0]

ASSUME IdsAssumption == None \notin Ids

Refs == [id : Ids, rev : Nat \ {0}] \cup {NoRef}
Phases == {"active", "paused", "blocked", "complete"}
Codes == {"round-limit", "queue-failed", "prompt-rejected", "model-reported"}

\* The zero value of session.GoalState.
NoGoal == [id |-> None, rev |-> 0, phase |-> None, reason |-> None, cap |-> 0, rounds |-> 0,
           updated |-> 0, seen |-> {}]

GoalStates ==
    [id : Ids \cup {None}, rev : Nat, phase : Phases \cup {None}, reason : Codes \cup {None},
     cap : Nat, rounds : Nat, updated : Int, seen : SUBSET Ids]

Ref(s) == [id |-> s.id, rev |-> s.rev]

Later(a, b) == IF a >= b THEN a ELSE b

-----------------------------------------------------------------------------
(* session.GoalState.Apply.                                                *)

\* checkTransition by operation.
Transition(s, c) ==
    \/ c.op = "edit" /\ c.phase = s.phase /\ c.reason = s.reason
    \/ /\ c.op \in {"pause", "resume", "complete", "block"} /\ c.cap = s.cap
       /\ \/ c.op = "pause" /\ s.phase = "active" /\ c.phase = "paused"
          \/ c.op = "resume" /\ s.phase # "complete" /\ c.phase = "active" /\ s.rounds < c.cap
          \/ c.op = "complete" /\ s.phase # "complete" /\ c.phase = "complete"
          \/ c.op = "block" /\ s.phase = "active" /\ c.phase = "blocked"

\* requireGoalSnapshot: a reason exactly while blocked, a positive cap and time.
ValidSnapshot(c) ==
    /\ c.phase \in Phases /\ (c.phase = "blocked" <=> c.reason \in Codes)
    /\ c.cap > 0 /\ c.updated > 0 /\ c.rev > 0

\* applyChange returns no error.
AcceptsChange(s, c) ==
    \/ /\ c.op = "clear" /\ s.id # None /\ c.id = s.id /\ c.rev = s.rev + 1
       /\ c.updated >= s.updated /\ c.updated > 0
    \/ /\ c.op = "create" /\ ValidSnapshot(c)
       /\ c.rev = 1 /\ c.phase = "active" /\ c.rounds = 0 /\ c.id \notin s.seen
       /\ s.id = None \/ s.phase = "complete"
    \/ /\ c.op \notin {"create", "clear"} /\ ValidSnapshot(c)
       /\ s.id # None /\ c.id = s.id /\ c.rev = s.rev + 1
       /\ c.updated >= s.updated /\ c.rounds = s.rounds /\ Transition(s, c)

\* Mutant: a resumed goal starts its rounds anew.
ApplyChangeFresh(s, c) ==
    IF c.op = "clear" THEN [NoGoal EXCEPT !.seen = s.seen]
    ELSE [id |-> c.id, rev |-> c.rev, phase |-> c.phase, reason |-> c.reason, cap |-> c.cap,
          rounds |-> IF c.op = "resume" THEN 0 ELSE c.rounds, updated |-> c.updated,
          seen |-> s.seen \cup {c.id}]

\* The state after an accepted change.
ApplyChange(s, c) ==
    IF c.op = "clear" THEN [NoGoal EXCEPT !.seen = s.seen]
    ELSE [id |-> c.id, rev |-> c.rev, phase |-> c.phase, reason |-> c.reason, cap |-> c.cap,
          rounds |-> c.rounds, updated |-> c.updated, seen |-> s.seen \cup {c.id}]

\* A goal-sourced user/message is the next round of the active goal.
AcceptsRound(s, ref, round) ==
    s.phase = "active" /\ ref = Ref(s) /\ round = s.rounds + 1 /\ round <= s.cap

-----------------------------------------------------------------------------
(* What the goal service builds from the current state.                    *)

Change(op, id, rev, phase, reason, cap, rounds, updated) ==
    [op |-> op, id |-> id, rev |-> rev, phase |-> phase, reason |-> reason, cap |-> cap,
     rounds |-> rounds, updated |-> updated]

\* Mutant: the wall clock is not clamped.
StampRaw(s, now) == now

\* timestamp: never before the goal's last update.
Stamp(s, now) == Later(now, s.updated)

\* advance and successor: the next revision with the current counters.
Successor(s, op, phase, reason, cap, now) ==
    Change(op, s.id, s.rev + 1, phase, reason, cap, s.rounds, Stamp(s, now))

Creates(s, now) ==
    {Change("create", i, 1, "active", None, k, 0, Later(now, 1)) : i \in Ids \ s.seen, k \in Caps}

When(permitted, changes) == IF permitted THEN changes ELSE {}

\* The changes one operation may commit; none when it is rejected.  armed is
\* whether the session is armed, code the blocker's code.
Builds(s, op, armed, code, now) ==
    IF op = "create" THEN When(s.id = None \/ s.phase = "complete", Creates(s, now))
    ELSE IF s.id = None THEN {}
    ELSE CASE op = "edit" -> {Successor(s, op, s.phase, s.reason, k, now) : k \in Caps}
           [] op = "pause" ->
                 When(s.phase = "active", {Successor(s, op, "paused", None, s.cap, now)})
           [] op = "resume" ->
                 When(s.phase # "complete" /\ ~(s.phase = "active" /\ armed) /\ s.rounds < s.cap,
                      {Successor(s, op, "active", None, s.cap, now)})
           [] op = "complete" ->
                 When(s.phase # "complete", {Successor(s, op, "complete", None, s.cap, now)})
           [] op = "block" ->
                 When(s.phase = "active", {Successor(s, op, "blocked", code, s.cap, now)})
           [] op = "clear" -> {Change(op, s.id, s.rev + 1, None, None, 0, 0, Stamp(s, now))}
           [] OTHER -> {}

Operations == {"create", "edit", "pause", "resume", "complete", "block", "clear"}

\* Whether the committed operation leaves the goal armed.
Arms(op, armed) == op \in {"create", "resume"} \/ (op = "edit" /\ armed)

-----------------------------------------------------------------------------
(* settle.  A log is reduced to goal changes (with the reference they leave *)
(* current), turn openings (with the round they belong to, if any) and turn *)
(* endings.                                                                 *)

ChangeEvent(op, ref) == [event |-> "change", op |-> op, ref |-> ref]
OpenEvent(ref) == [event |-> "open", ref |-> ref]
EndEvent(outcome) == [event |-> "end", outcome |-> outcome]

Stops == {"canceled", "error", "max_tokens"}

Unsettled == [current |-> NoRef, round |-> NoRef, pause |-> NoRef, disarm |-> {}]

\* The revision a stop ends: the round's, or the one current at the ending.
Stopped(f) == IF f.round # NoRef THEN f.round ELSE f.current

\* A create or resume clears what earlier stops implied.
SettleChange(f, e, counted) ==
    IF counted /\ e.op \in {"create", "resume"} THEN [Unsettled EXCEPT !.current = e.ref, !.round = f.round]
    ELSE [f EXCEPT !.current = e.ref]

\* A cancelled round asks for a pause of its revision; other stops disarm
\* theirs, and a failure drops a pause asked for before.
SettleEnd(f, outcome) ==
    IF outcome = "canceled" /\ f.round # NoRef THEN [f EXCEPT !.pause = f.round]
    ELSE IF outcome \in Stops /\ Stopped(f) # NoRef
    THEN [f EXCEPT !.pause = IF outcome # "canceled" /\ @ = Stopped(f) THEN NoRef ELSE @,
                   !.disarm = @ \cup {Stopped(f)}]
    ELSE f

\* One event of the scan; counted says whether it lies after the checkpoint.
SettleEvent(f, e, counted) ==
    CASE e.event = "change" -> SettleChange(f, e, counted)
      [] e.event = "open" -> [f EXCEPT !.round = e.ref]
      [] e.event = "end" -> IF counted THEN SettleEnd(f, e.outcome) ELSE f

\* The scan after each prefix of the log.
Scan(log, after) ==
    LET scan[n \in 0..Len(log)] ==
            IF n = 0 THEN Unsettled ELSE SettleEvent(scan[n - 1], log[n], n > after)
    IN  scan

Settlement(log, after) == Scan(log, after)[Len(log)]

Revoked(f, ref) == f.pause = ref \/ ref \in f.disarm
=============================================================================
