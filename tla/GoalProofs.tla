----------------------------- MODULE GoalProofs -----------------------------
(***************************************************************************)
(* Proofs about Goal, for every set of goal identities, round caps and     *)
(* clock readings, and every bound: continuation is bound to the current   *)
(* active revision, the changes the service builds are changes the replay  *)
(* fold accepts, and a stopped driver leaves no round behind.  Only Commit *)
(* and Open change the goal; every other step keeps it and at most forgets *)
(* the activation.                                                         *)
(*                                                                         *)
(* Of its rounds: the rounds a goal counts are the rounds its log opened,  *)
(* no round of a revision opens after a turn that stopped it, and no race  *)
(* makes the driver block a goal because a round was refused.  The scan of *)
(* the log is a recursive function of the position.  What is said of it    *)
(* for every position is proved from the least position at which it would  *)
(* be false.                                                               *)
(***************************************************************************)
EXTENDS Goal, FiniteSetTheorems, WellFoundedInduction, TLAPS

\* The goal states the fold can produce.
GoodState(s) ==
    /\ s \in GoalStates
    /\ s.id = None => s.phase = None /\ s.rev = 0
    /\ s.id # None =>
          /\ s.rev > 0 /\ s.phase \in Phases /\ s.cap > 0 /\ s.updated > 0 /\ s.id \in s.seen
          /\ IF s.phase = "blocked" THEN s.reason \in Codes ELSE s.reason = None

Inv == GoodState(state) /\ ArmedIsCurrent

-----------------------------------------------------------------------------
(* What the service builds.                                                *)

\* The records Change makes, by field.
LEMMA ChangeFields ==
    ASSUME NEW op, NEW id, NEW rev, NEW phase, NEW reason, NEW cap, NEW rounds, NEW updated
    PROVE  LET c == Change(op, id, rev, phase, reason, cap, rounds, updated) IN
           /\ c.op = op /\ c.id = id /\ c.rev = rev /\ c.phase = phase /\ c.reason = reason
           /\ c.cap = cap /\ c.rounds = rounds /\ c.updated = updated
  BY DEF Change

\* The changes built from a good state are well formed, carry the operation, and
\* are accepted when a blocker has a code.
LEMMA BuildsGood ==
    ASSUME NEW s, GoodState(s), NEW op \in Operations, NEW a, NEW code,
           NEW now \in Int, NEW c \in Builds(s, op, a, code, now)
    PROVE  /\ c.op = op /\ c.id \in Ids /\ c.rev \in Nat \ {0} /\ c.updated \in Int /\ c.updated > 0
           /\ op # "clear" => /\ c.phase \in Phases /\ c.cap \in Nat \ {0} /\ c.rounds \in Nat
                              /\ IF c.phase = "blocked" THEN c.reason \in Codes \cup {code}
                                 ELSE c.reason = None
           /\ op \in {"create", "resume"} => c.phase = "active"
           /\ op = "edit" => c.phase = s.phase
           /\ code \in Codes => AcceptsChange(s, c)
  <1> USE CapsAssumption, IdsAssumption
  <1>1. now \in Int
    OBVIOUS
  <1>2. CASE op = "create"
    <2>1. (s.id = None \/ s.phase = "complete") /\ c \in Creates(s, now)
      BY <1>2 DEF Builds, When
    <2>2. PICK i \in Ids \ s.seen, k \in Caps :
             c = Change("create", i, 1, "active", None, k, 0, Later(now, 1))
      BY <2>1 DEF Creates
    <2>3. Later(now, 1) \in Int /\ Later(now, 1) > 0
      BY <1>1 DEF Later
    <2>4. /\ c.op = "create" /\ c.id = i /\ c.rev = 1 /\ c.phase = "active" /\ c.reason = None
          /\ c.cap = k /\ c.rounds = 0 /\ c.updated = Later(now, 1)
      BY <2>2, ChangeFields
    <2>5. None \notin Codes /\ "active" \in Phases /\ k \in Nat \ {0}
      BY DEF None, Codes, Phases
    <2>6. ValidSnapshot(c)
      BY <2>3, <2>4, <2>5 DEF ValidSnapshot
    <2>7. AcceptsChange(s, c)
      BY <2>1, <2>4, <2>6 DEF AcceptsChange
    <2> QED
      BY <1>2, <2>3, <2>4, <2>5, <2>7
  <1>3. CASE op # "create"
    <2>1. s.id # None
      BY <1>3 DEF Builds
    <2>2. /\ s.id \in Ids /\ s.rev \in Nat /\ s.rev > 0 /\ s.phase \in Phases /\ s.cap \in Nat
          /\ s.cap > 0 /\ s.updated \in Int /\ s.updated > 0 /\ s.rounds \in Nat
          /\ IF s.phase = "blocked" THEN s.reason \in Codes ELSE s.reason = None
      BY <2>1 DEF GoodState, GoalStates
    <2> DEFINE t == Stamp(s, now)
    <2>3. t \in Int /\ t >= s.updated /\ t > 0
      BY <1>1, <2>2 DEF Stamp, Later
    <2>4. CASE op = "clear"
      <3>1. c = Change(op, s.id, s.rev + 1, None, None, 0, 0, t)
        BY <2>1, <2>4 DEF Builds
      <3>2. c.op = op /\ c.id = s.id /\ c.rev = s.rev + 1 /\ c.updated = t
        BY <3>1, ChangeFields
      <3> QED
        BY <2>1, <2>2, <2>3, <2>4, <3>2 DEF AcceptsChange
    <2>5. CASE op # "clear"
      <3>1. \E phase \in Phases, reason \in Codes \cup {None, code}, cap \in Nat \ {0} :
               /\ c = Successor(s, op, phase, reason, cap, now)
               /\ IF phase = "blocked" THEN reason \in Codes \cup {code} ELSE reason = None
               /\ \/ op = "edit" /\ phase = s.phase /\ reason = s.reason
                  \/ /\ cap = s.cap
                     /\ \/ op = "pause" /\ s.phase = "active" /\ phase = "paused"
                        \/ op = "complete" /\ s.phase # "complete" /\ phase = "complete"
                        \/ op = "resume" /\ s.phase # "complete" /\ phase = "active" /\ s.rounds < cap
                        \/ op = "block" /\ s.phase = "active" /\ phase = "blocked"
        <4>1. CASE op = "edit"
          <5>1. PICK k \in Caps : c = Successor(s, op, s.phase, s.reason, k, now)
            BY <4>1, <2>1 DEF Builds
          <5> QED
            BY <4>1, <5>1, <2>2
        <4>2. CASE op = "pause"
          <5>1. s.phase = "active" /\ c = Successor(s, op, "paused", None, s.cap, now)
            BY <4>2, <2>1 DEF Builds, When
          <5>2. "paused" \in Phases
            BY DEF Phases
          <5> QED
            BY <4>2, <5>1, <5>2, <2>2
        <4>3. CASE op = "complete"
          <5>1. s.phase # "complete" /\ c = Successor(s, op, "complete", None, s.cap, now)
            BY <4>3, <2>1 DEF Builds, When
          <5>2. "complete" \in Phases
            BY DEF Phases
          <5> QED
            BY <4>3, <5>1, <5>2, <2>2
        <4>4. CASE op = "resume"
          <5>1. s.phase # "complete" /\ s.rounds < s.cap /\ c = Successor(s, op, "active", None, s.cap, now)
            BY <4>4, <2>1 DEF Builds, When
          <5>2. "active" \in Phases
            BY DEF Phases
          <5> QED
            BY <4>4, <5>1, <5>2, <2>2
        <4>5. CASE op = "block"
          <5>1. s.phase = "active" /\ c = Successor(s, op, "blocked", code, s.cap, now)
            BY <4>5, <2>1 DEF Builds, When
          <5>2. "blocked" \in Phases
            BY DEF Phases
          <5> QED
            BY <4>5, <5>1, <5>2, <2>2
        <4> QED
          BY <1>3, <2>5, <4>1, <4>2, <4>3, <4>4, <4>5 DEF Operations
      <3>2. PICK phase \in Phases, reason \in Codes \cup {None, code}, cap \in Nat \ {0} :
               /\ c = Successor(s, op, phase, reason, cap, now)
               /\ IF phase = "blocked" THEN reason \in Codes \cup {code} ELSE reason = None
               /\ \/ op = "edit" /\ phase = s.phase /\ reason = s.reason
                  \/ /\ cap = s.cap
                     /\ \/ op = "pause" /\ s.phase = "active" /\ phase = "paused"
                        \/ op = "complete" /\ s.phase # "complete" /\ phase = "complete"
                        \/ op = "resume" /\ s.phase # "complete" /\ phase = "active" /\ s.rounds < cap
                        \/ op = "block" /\ s.phase = "active" /\ phase = "blocked"
        BY <3>1
      <3>3. /\ c.op = op /\ c.id = s.id /\ c.rev = s.rev + 1 /\ c.phase = phase /\ c.reason = reason
            /\ c.cap = cap /\ c.rounds = s.rounds /\ c.updated = t
        BY <3>2, ChangeFields DEF Successor
      <3>4. ASSUME code \in Codes
            PROVE  AcceptsChange(s, c)
        <4>1. ValidSnapshot(c)
          BY <2>2, <2>3, <3>2, <3>3, <3>4 DEF ValidSnapshot, None, Codes
        <4>2. Transition(s, c)
          BY <3>2, <3>3 DEF Transition
        <4> QED
          BY <1>3, <2>1, <2>2, <2>3, <2>5, <3>3, <4>1, <4>2 DEF AcceptsChange
      <3> HIDE DEF t
      <3>5. c.rev \in Nat \ {0}
        BY <2>2, <3>3
      <3> QED
        BY <1>3, <2>2, <2>3, <2>5, <3>2, <3>3, <3>4, <3>5
    <2> QED
      BY <2>4, <2>5
  <1> QED
    BY <1>2, <1>3

\* An accepted change leads from a good state to a good state, whose reference is
\* the change's own.
LEMMA ApplyGood ==
    ASSUME NEW s, GoodState(s), NEW op \in Operations, NEW a, NEW code,
           NEW now \in Int, NEW c \in Builds(s, op, a, code, now), AcceptsChange(s, c)
    PROVE  /\ GoodState(ApplyChange(s, c))
           /\ op # "clear" => /\ Ref(ApplyChange(s, c)) = Ref(c)
                              /\ ApplyChange(s, c).phase = c.phase
  <1> USE IdsAssumption
  <1>1. /\ c.op = op /\ c.id \in Ids /\ c.rev \in Nat \ {0} /\ c.updated \in Int /\ c.updated > 0
        /\ op # "clear" => /\ c.phase \in Phases /\ c.cap \in Nat \ {0} /\ c.rounds \in Nat
                           /\ IF c.phase = "blocked" THEN c.reason \in Codes \cup {code}
                              ELSE c.reason = None
    BY BuildsGood
  <1>2. s.seen \in SUBSET Ids
    BY DEF GoodState, GoalStates
  <1>3. CASE op = "clear"
    <2>1. ApplyChange(s, c) = [NoGoal EXCEPT !.seen = s.seen]
      BY <1>1, <1>3 DEF ApplyChange
    <2> QED
      BY <1>2, <1>3, <2>1 DEF NoGoal, GoodState, GoalStates
  <1>4. CASE op # "clear"
    <2>1. ValidSnapshot(c)
      BY <1>1, <1>4 DEF AcceptsChange
    <2>2. IF c.phase = "blocked" THEN c.reason \in Codes ELSE c.reason = None
      BY <1>1, <1>4, <2>1 DEF ValidSnapshot
    <2>3. ApplyChange(s, c) = [id |-> c.id, rev |-> c.rev, phase |-> c.phase, reason |-> c.reason,
                               cap |-> c.cap, rounds |-> c.rounds, updated |-> c.updated,
                               seen |-> s.seen \cup {c.id}]
      BY <1>1, <1>4 DEF ApplyChange
    <2>4. s.seen \cup {c.id} \in SUBSET Ids
      BY <1>1, <1>2
    <2>5. ApplyChange(s, c) \in GoalStates
      BY <1>1, <1>4, <2>2, <2>3, <2>4 DEF GoalStates
    <2> QED
      BY <1>1, <1>4, <2>2, <2>3, <2>5 DEF GoodState, Ref
  <1> QED
    BY <1>3, <1>4

-----------------------------------------------------------------------------
(* The invariant.                                                          *)

\* A session without a goal satisfies the invariant.
LEMMA InvInit == Init => Inv
  BY DEF Init, Inv, GoodState, ArmedIsCurrent, NoGoal, GoalStates, None

\* A step that keeps the goal and at most forgets the activation.
LEMMA Forgets ==
    ASSUME Inv, state' = state, armed' \in {armed, NoRef}
    PROVE  Inv'
  BY DEF Inv, GoodState, ArmedIsCurrent

\* A committed operation.
LEMMA MutateStep ==
    ASSUME Inv, NEW op \in Operations, NEW ref, NEW code, Mutate(op, ref, code)
    PROVE  Inv'
  <1>1. PICK c \in Mutations(op, ref, code) : Commit(c)
    BY DEF Mutate
  <1>2. PICK now \in Int : c \in Builds(state, op, armed # NoRef, code, now) /\ AcceptsChange(state, c)
    BY CapsAssumption DEF Mutations
  <1>3. GoodState(state)
    BY DEF Inv
  <1>4. /\ GoodState(ApplyChange(state, c))
        /\ op # "clear" => Ref(ApplyChange(state, c)) = Ref(c) /\ ApplyChange(state, c).phase = c.phase
    BY <1>2, <1>3, ApplyGood
  <1>5. /\ c.op = op
        /\ op \in {"create", "resume"} => c.phase = "active"
        /\ op = "edit" => c.phase = state.phase
    BY <1>2, <1>3, BuildsGood
  <1>6. state' = ApplyChange(state, c)
    BY <1>1 DEF Commit
  <1>7. armed' = IF Arms(op, armed # NoRef) THEN (IF op = "clear" THEN NoRef ELSE Ref(c)) ELSE NoRef
    BY <1>1, <1>5 DEF Commit
  <1>8. Arms(op, armed # NoRef) => op # "clear" /\ c.phase = "active"
    BY <1>5 DEF Arms, Inv, ArmedIsCurrent
  <1>9. ArmedIsCurrent'
    BY <1>4, <1>6, <1>7, <1>8 DEF ArmedIsCurrent, Ref
  <1> QED
    BY <1>4, <1>6, <1>9 DEF Inv

\* An opened turn counts one more round of the same revision.
LEMMA OpenStep ==
    ASSUME Inv, Open
    PROVE  Inv'
  <1>1. CASE turn.from = Human
    BY <1>1, Forgets DEF Open
  <1>2. CASE turn.from # Human
    <2>1. state' = [state EXCEPT !.rounds = @ + 1] /\ armed' = armed
      BY <1>2 DEF Open
    <2>2. state \in GoalStates /\ state.rounds + 1 \in Nat
      BY DEF Inv, GoodState, GoalStates
    <2>3. state' \in GoalStates
      BY <2>1, <2>2 DEF GoalStates
    <2>4. /\ state'.id = state.id /\ state'.rev = state.rev /\ state'.phase = state.phase
          /\ state'.reason = state.reason /\ state'.cap = state.cap /\ state'.updated = state.updated
          /\ state'.seen = state.seen
      BY <2>1, <2>2 DEF GoalStates
    <2> QED
      BY <2>1, <2>3, <2>4 DEF Inv, GoodState, ArmedIsCurrent, Ref
  <1> QED
    BY <1>1, <1>2

\* Every step preserves the invariant.
LEMMA InvStep == Inv /\ [Next]_vars => Inv'
  <1> SUFFICES ASSUME Inv, [Next]_vars PROVE Inv'
    OBVIOUS
  <1> DEFINE Quiet == state' = state /\ armed' \in {armed, NoRef}
  <1>1. ASSUME NEW op \in Operations \ {"complete", "block"}, Command(op) PROVE Inv'
    BY <1>1, MutateStep DEF Command
  <1>2. CASE Submit \/ Steer \/ Interrupt \/ \E a \in {"host", "model"} : Notified(a)
    BY <1>2, Forgets DEF Submit, Steer, Interrupt, Notified, goalVars
  <1>3. CASE Worker
    <2>1. CASE Open
      BY <2>1, OpenStep
    <2>2. CASE Begin \/ Refuse \/ OpenNothing \/ EndLost
      BY <2>2, Forgets DEF Begin, Refuse, OpenNothing, EndLost, goalVars
    <2>3. CASE OpenHalf \/ Ends
      BY <2>3, Forgets DEF OpenHalf, Ends, EndTurn
    <2> QED
      BY <1>3, <2>1, <2>2, <2>3 DEF Worker
  <1>4. CASE (\E op \in Operations : Call(op)) \/ ToolRejected
    BY <1>4, Forgets DEF Call, ToolRejected, goalVars
  <1>5. CASE ToolMutates
    <2>1. PICK op, ref, code : op = tool.op /\ Mutate(op, ref, code)
      BY <1>5 DEF ToolMutates
    <2>2. op \in Operations
      BY <2>1 DEF Mutate, Mutations, Builds, Operations
    <2> QED
      BY <2>1, <2>2, MutateStep
  <1>6. CASE Driver
    <2>1. CASE SettlePauses
      <3>1. "pause" \in Operations
        BY DEF Operations
      <3> QED
        BY <2>1, <3>1, MutateStep DEF SettlePauses
    <2>2. CASE Block
      <3>1. "block" \in Operations
        BY DEF Operations
      <3>2. CASE Mutate("block", view.from.ref, view.code)
        BY <3>1, <3>2, MutateStep
      <3>3. CASE UNCHANGED goalVars
        BY <3>3, Forgets DEF goalVars
      <3> QED
        BY <2>2, <3>2, <3>3 DEF Block, goalVars
    <2>3. CASE SettleAbandons \/ SettleDisarms \/ RoundFails
      BY <2>3, Forgets DEF SettleAbandons, SettleDisarms, RoundFails, Disarmed
    <2>4. CASE WhenIdle \/ Settle \/ IsArmed \/ SettlePauseFails \/ Get
      BY <2>4, Forgets DEF WhenIdle, Settle, IsArmed, SettlePauseFails, Get, goalVars
    <2>5. CASE Followup \/ FollowupFails \/ RoundEnds \/ RoundInterrupted \/ RoundDrains \/ Wait
      BY <2>5, Forgets DEF Followup, FollowupFails, RoundEnds, RoundInterrupted, RoundDrains, Wait, goalVars
    <2> QED
      BY <1>6, <2>1, <2>2, <2>3, <2>4, <2>5 DEF Driver
  <1>7. CASE Stop \/ Restart
    BY <1>7, Forgets DEF Stop, Restart
  <1>8. CASE UNCHANGED vars
    BY <1>8, Forgets DEF vars, goalVars
  <1> QED
    BY <1>1, <1>2, <1>3, <1>4, <1>5, <1>6, <1>7, <1>8 DEF Next

\* Continuation is bound to the current revision of an active goal in every
\* reachable state, through every interleaving of commands, tool calls, the
\* driver, shutdown and crashes.
THEOREM ArmedAlwaysCurrent == Spec => []ArmedIsCurrent
  <1>1. Inv => ArmedIsCurrent
    BY DEF Inv
  <1> QED
    BY InvInit, InvStep, <1>1, PTL DEF Spec

\* Whatever the service builds from a reachable goal is accepted by the fold.
THEOREM BuildsAlwaysAccepted == Spec => []BuildsAccepted
  <1>1. Inv => BuildsAccepted
    <2> SUFFICES ASSUME Inv, NEW op \in Operations, NEW code \in Codes, NEW now \in Int,
                        NEW c \in Builds(state, op, armed # NoRef, code, now)
                 PROVE  AcceptsChange(state, c)
      BY CapsAssumption DEF BuildsAccepted, BlockCodes, Codes
    <2> QED
      BY BuildsGood DEF Inv
  <1> QED
    BY InvInit, InvStep, <1>1, PTL DEF Spec

-----------------------------------------------------------------------------
(* One round at a time.  The driver owes itself one result from Followup   *)
(* until it arrives: while it awaits one, exactly one round is queued or   *)
(* running, and otherwise none is.                                         *)

AllHuman(q) == \A i \in 1..Len(q) : q[i] = Human

OneRound(q) == \E i \in 1..Len(q) : q[i] # Human /\ \A j \in 1..Len(q) : j # i => q[j] = Human

Quiet == turn.from = Human /\ AllHuman(queue)

Pending == (turn.from # Human /\ AllHuman(queue)) \/ (turn.from = Human /\ OneRound(queue))

TurnShaped ==
    turn \in [stage : {None, "begun", "open"}, from : Sources, human : {TRUE, FALSE},
              cancelled : {TRUE, FALSE}]

Rounds ==
    /\ queue \in Seq(Sources) /\ TurnShaped /\ view.from \in Sources
    /\ turn.stage = None => turn.from = Human
    /\ dpc = "queue" => view.from # Human
    /\ reply # None => dpc \in {"await", "drain"}
    /\ IF dpc \in {"await", "drain"} /\ reply = None THEN Pending ELSE Quiet

\* A person is not a round, and every round of a goal is a source.
LEMMA HumanSource == Human \in Sources /\ Human = [ref |-> NoRef, round |-> 0]
  BY DEF Human, Source, Sources, Refs

\* Queueing and taking requests.
LEMMA QueueHuman ==
    ASSUME NEW q \in Seq(Sources)
    PROVE  /\ Append(q, Human) \in Seq(Sources)
           /\ AllHuman(q) => AllHuman(Append(q, Human))
           /\ OneRound(q) => OneRound(Append(q, Human))
  <1>1. Append(q, Human) \in Seq(Sources)
    BY HumanSource
  <1>2. Len(Append(q, Human)) = Len(q) + 1 /\ Len(q) \in Nat
    BY HumanSource
  <1>3. \A i \in 1..Len(q) : Append(q, Human)[i] = q[i]
    BY HumanSource
  <1>4. Append(q, Human)[Len(q) + 1] = Human
    BY HumanSource
  <1>5. \A i \in 1..Len(q) + 1 : i \in 1..Len(q) \/ i = Len(q) + 1
    BY <1>2
  <1>6. ASSUME AllHuman(q) PROVE AllHuman(Append(q, Human))
    BY <1>2, <1>3, <1>4, <1>5, <1>6 DEF AllHuman
  <1>7. ASSUME OneRound(q) PROVE OneRound(Append(q, Human))
    <2>1. PICK i \in 1..Len(q) : q[i] # Human /\ \A j \in 1..Len(q) : j # i => q[j] = Human
      BY <1>7 DEF OneRound
    <2>2. i \in 1..Len(q) + 1 /\ Append(q, Human)[i] # Human
      BY <1>2, <1>3, <2>1
    <2>3. \A j \in 1..Len(q) + 1 : j # i => Append(q, Human)[j] = Human
      BY <1>3, <1>4, <1>5, <2>1
    <2> QED
      BY <1>2, <2>2, <2>3 DEF OneRound
  <1> QED
    BY <1>1, <1>6, <1>7

\* Queueing a round among human requests leaves exactly one round.
LEMMA QueueRound ==
    ASSUME NEW q \in Seq(Sources), NEW m \in Sources, m # Human, AllHuman(q)
    PROVE  Append(q, m) \in Seq(Sources) /\ OneRound(Append(q, m))
  <1>1. Len(Append(q, m)) = Len(q) + 1 /\ Len(q) \in Nat
    OBVIOUS
  <1>2. Append(q, m)[Len(q) + 1] = m /\ \A i \in 1..Len(q) : Append(q, m)[i] = q[i]
    OBVIOUS
  <1>3. Len(q) + 1 \in 1..Len(q) + 1
    BY <1>1
  <1>4. \A j \in 1..Len(q) + 1 : j # Len(q) + 1 => Append(q, m)[j] = Human
    BY <1>1, <1>2 DEF AllHuman
  <1> QED
    BY <1>1, <1>2, <1>3, <1>4 DEF OneRound

\* Taking the head moves at most the one round out of the queue.
LEMMA TakeHead ==
    ASSUME NEW q \in Seq(Sources), q # <<>>
    PROVE  /\ Head(q) \in Sources /\ Tail(q) \in Seq(Sources)
           /\ AllHuman(q) => Head(q) = Human /\ AllHuman(Tail(q))
           /\ OneRound(q) => \/ Head(q) # Human /\ AllHuman(Tail(q))
                             \/ Head(q) = Human /\ OneRound(Tail(q))
  <1>1. /\ Len(q) \in Nat /\ Len(q) > 0 /\ Head(q) = q[1] /\ Head(q) \in Sources
        /\ Tail(q) \in Seq(Sources) /\ Len(Tail(q)) = Len(q) - 1
    OBVIOUS
  <1>2. \A i \in 1..Len(Tail(q)) : Tail(q)[i] = q[i + 1] /\ i + 1 \in 1..Len(q)
    BY <1>1
  <1>3. AllHuman(q) => Head(q) = Human /\ AllHuman(Tail(q))
    BY <1>1, <1>2 DEF AllHuman
  <1>4. ASSUME OneRound(q)
        PROVE  \/ Head(q) # Human /\ AllHuman(Tail(q))
               \/ Head(q) = Human /\ OneRound(Tail(q))
    <2>1. PICK i \in 1..Len(q) : q[i] # Human /\ \A j \in 1..Len(q) : j # i => q[j] = Human
      BY <1>4 DEF OneRound
    <2>2. CASE i = 1
      <3>1. \A j \in 1..Len(Tail(q)) : j + 1 # i
        BY <1>1, <2>2
      <3> QED
        BY <1>1, <1>2, <2>1, <2>2, <3>1 DEF AllHuman
    <2>3. CASE i # 1
      <3>1. i - 1 \in 1..Len(Tail(q)) /\ (i - 1) + 1 = i /\ 1 \in 1..Len(q)
        BY <1>1, <2>3
      <3>2. Tail(q)[i - 1] # Human
        BY <1>2, <2>1, <3>1
      <3>3. \A j \in 1..Len(Tail(q)) : j # i - 1 => Tail(q)[j] = Human
        BY <1>1, <1>2, <2>1
      <3> QED
        BY <1>1, <2>1, <2>3, <3>1, <3>2, <3>3 DEF OneRound
    <2> QED
      BY <2>2, <2>3
  <1> QED
    BY <1>1, <1>3, <1>4

\* Nothing is queued when the driver starts.
LEMMA RoundsInit == Init => Rounds
  <1> SUFFICES ASSUME Init PROVE Rounds
    OBVIOUS
  <1>1. queue = <<>> /\ turn = NoTurn /\ reply = None /\ dpc = "idle" /\ view = NoView
    BY DEF Init
  <1>2. queue \in Seq(Sources) /\ AllHuman(queue)
    BY <1>1 DEF AllHuman
  <1>3. TurnShaped /\ turn.from = Human /\ view.from = Human
    BY <1>1, HumanSource DEF TurnShaped, NoTurn, NoView
  <1> QED
    BY <1>1, <1>2, <1>3, HumanSource DEF Rounds, Quiet

\* A step that leaves the requests and what the driver awaits alone.
LEMMA RoundsPreserved ==
    ASSUME Rounds, UNCHANGED <<queue, reply>>, TurnShaped', turn'.from = turn.from,
           turn'.stage = None => turn.stage = None,
           view'.from \in Sources, dpc' = "queue" => view'.from # Human,
           dpc' \in {"await", "drain"} <=> dpc \in {"await", "drain"}
    PROVE  Rounds'
  BY DEF Rounds, Pending, Quiet

\* A finished turn delivers its result if it was a round.
LEMMA RoundsFinish ==
    ASSUME Rounds, NEW result, result # None, Finish(result), turn.stage # None
    PROVE  Rounds'
  <1>1. turn' = NoTurn /\ queue' = queue /\ dpc' = dpc /\ view' = view
    BY DEF Finish, driverVars
  <1>2. reply' = IF turn.from = Human THEN reply ELSE result
    BY DEF Finish
  <1>3. TurnShaped' /\ turn'.from = Human
    BY <1>1, HumanSource DEF TurnShaped, NoTurn
  <1> QED
    BY <1>1, <1>2, <1>3 DEF Rounds, Pending, Quiet

\* Interrupting or steering a turn keeps its request.
LEMMA TurnEdited ==
    ASSUME TurnShaped
    PROVE  /\ Interrupted(turn) \in [stage : {None, "begun", "open"}, from : Sources,
                                     human : {TRUE, FALSE}, cancelled : {TRUE, FALSE}]
           /\ Interrupted(turn).from = turn.from /\ Interrupted(turn).stage = turn.stage
  BY DEF TurnShaped, Interrupted

\* The people and the tools.
LEMMA RoundsPeople ==
    ASSUME Rounds,
           \/ \E op \in Operations : Command(op) \/ Call(op)
           \/ Submit \/ Steer \/ Interrupt \/ ToolMutates \/ ToolRejected
           \/ \E a \in {"host", "model"} : Notified(a)
    PROVE  Rounds'
  <1>1. CASE \/ \E op \in Operations : Command(op) \/ Call(op)
             \/ ToolMutates \/ ToolRejected
    <2>1. UNCHANGED <<queue, turn, reply, dpc, view>>
      BY <1>1 DEF Command, Call, ToolMutates, ToolRejected, agentVars, driverVars
    <2> QED
      BY <2>1, RoundsPreserved DEF Rounds, TurnShaped
  <1>2. CASE Submit
    <2>1. queue' = Append(queue, Human) /\ UNCHANGED <<turn, reply, dpc, view>>
      BY <1>2 DEF Submit, driverVars
    <2>2. /\ queue' \in Seq(Sources)
          /\ AllHuman(queue) => AllHuman(queue')
          /\ OneRound(queue) => OneRound(queue')
      BY <2>1, QueueHuman DEF Rounds
    <2>3. (Pending => Pending') /\ (Quiet => Quiet') /\ TurnShaped'
      BY <2>1, <2>2 DEF Pending, Quiet, AllHuman, OneRound, TurnShaped, Rounds
    <2> QED
      BY <2>1, <2>2, <2>3 DEF Rounds
  <1>3. CASE Steer
    <2>1. turn' = [turn EXCEPT !.human = TRUE] /\ UNCHANGED <<queue, reply, dpc, view>>
      BY <1>3 DEF Steer, driverVars
    <2>2. TurnShaped' /\ turn'.from = turn.from /\ turn'.stage = turn.stage
      BY <2>1 DEF Rounds, TurnShaped
    <2> QED
      BY <2>1, <2>2, RoundsPreserved DEF Rounds
  <1>4. CASE Interrupt \/ \E a \in {"host", "model"} : Notified(a)
    <2>1. (turn' = Interrupted(turn) \/ turn' = turn) /\ UNCHANGED <<queue, reply, dpc, view>>
      BY <1>4 DEF Interrupt, Notified, driverVars
    <2>2. TurnShaped' /\ turn'.from = turn.from /\ turn'.stage = turn.stage
      BY <2>1, TurnEdited DEF Rounds, TurnShaped
    <2> QED
      BY <2>1, <2>2, RoundsPreserved DEF Rounds
  <1> QED
    BY <1>1, <1>2, <1>3, <1>4

\* The agent worker.
LEMMA RoundsWorker ==
    ASSUME Rounds, Worker
    PROVE  Rounds'
  <1>1. CASE Begin
    <2>1. /\ turn = NoTurn /\ queue # <<>> /\ queue' = Tail(queue)
          /\ turn' = [stage |-> "begun", from |-> Head(queue), human |-> Head(queue) = Human,
                      cancelled |-> FALSE]
          /\ UNCHANGED <<reply, dpc, view>>
      BY <1>1 DEF Begin, driverVars
    <2>2. turn.from = Human /\ turn'.from = Head(queue) /\ turn'.stage = "begun"
      BY <2>1 DEF NoTurn
    <2>3. /\ Head(queue) \in Sources /\ queue' \in Seq(Sources)
          /\ AllHuman(queue) => Head(queue) = Human /\ AllHuman(queue')
          /\ OneRound(queue) => \/ Head(queue) # Human /\ AllHuman(queue')
                                \/ Head(queue) = Human /\ OneRound(queue')
      BY <2>1, TakeHead DEF Rounds
    <2>4. (Head(queue) = Human) \in {TRUE, FALSE}
      OBVIOUS
    <2>5. TurnShaped'
      BY <2>1, <2>3, <2>4, Zenon DEF TurnShaped
    <2>6. (Pending => Pending') /\ (Quiet => Quiet')
      BY <2>2, <2>3 DEF Pending, Quiet, AllHuman, OneRound
    <2> QED
      BY <2>1, <2>2, <2>3, <2>5, <2>6 DEF Rounds, None
  <1>2. CASE Open
    <2>1. turn' = [turn EXCEPT !.stage = "open"] /\ UNCHANGED <<queue, reply, dpc, view>>
      BY <1>2 DEF Open, driverVars
    <2>2. TurnShaped' /\ turn'.from = turn.from /\ turn'.stage = "open"
      BY <2>1 DEF Rounds, TurnShaped
    <2> QED
      BY <2>1, <2>2, RoundsPreserved DEF Rounds, None
  <1>3. CASE Refuse \/ OpenNothing \/ OpenHalf \/ Ends \/ EndLost
    <2>1. \E result \in {"refused", "err", "ok"} : Finish(result)
      BY <1>3 DEF Refuse, OpenNothing, OpenHalf, Ends, EndTurn, EndLost
    <2>2. turn.stage \in {"begun", "open"}
      BY <1>3 DEF Refuse, OpenNothing, OpenHalf, Ends, EndTurn, EndLost, Admitted
    <2> QED
      BY <2>1, <2>2, RoundsFinish DEF None
  <1> QED
    BY <1>1, <1>2, <1>3 DEF Worker

\* The driver.
LEMMA RoundsDriver ==
    ASSUME Inv, Rounds, Driver
    PROVE  Rounds'
  <1>1. CASE Get
    <2>1. UNCHANGED <<queue, turn, reply>> /\ dpc = "get" /\ dpc' \in {"queue", "block", "wait"}
      BY <1>1 DEF Get, Goes, agentVars
    <2>2. CASE ~Cancelled /\ state.phase = "active" /\ armed = Ref(state)
      <3>1. view'.from = Source(Ref(state), state.rounds + 1)
        BY <1>1, <2>2 DEF Get
      <3>2. state.id # None /\ state \in GoalStates /\ state.rev > 0
        BY <2>2 DEF Inv, GoodState, None
      <3>3. Ref(state) \in Refs /\ state.rounds + 1 \in Nat /\ state.rounds + 1 # 0
        BY <3>2 DEF GoalStates, Ref, Refs
      <3>4. view'.from \in Sources /\ view'.from # Human
        BY <3>1, <3>3, HumanSource DEF Source, Sources
      <3> QED
        BY <2>1, <3>4, RoundsPreserved DEF Rounds, TurnShaped
    <2>3. CASE ~(~Cancelled /\ state.phase = "active" /\ armed = Ref(state))
      <3>1. view' = view /\ dpc' = "wait"
        BY <1>1, <2>3 DEF Get, Goes
      <3> QED
        BY <2>1, <3>1, RoundsPreserved DEF Rounds, TurnShaped
    <2> QED
      BY <2>2, <2>3
  <1>2. CASE \/ WhenIdle \/ Settle \/ IsArmed \/ SettlePauses \/ SettlePauseFails
             \/ SettleAbandons \/ SettleDisarms
    <2>1. /\ UNCHANGED <<queue, turn, reply, view>> /\ dpc \notin {"queue", "await", "drain"}
          /\ dpc' \notin {"queue", "await", "drain"}
      BY <1>2 DEF WhenIdle, Settle, IsArmed, SettlePauses, SettlePauseFails, SettleAbandons,
         SettleDisarms, Goes, agentVars
    <2> QED
      BY <2>1, RoundsPreserved DEF Rounds, TurnShaped
  <1>3. CASE Block \/ RoundFails \/ FollowupFails \/ Wait
    <2>1. /\ UNCHANGED <<queue, turn, reply>> /\ dpc \notin {"await", "drain"}
          /\ dpc' \notin {"queue", "await", "drain"}
      BY <1>3 DEF Block, RoundFails, FollowupFails, Wait, Goes, agentVars
    <2>2. view'.from = Human \/ view' = view \/ view' = [from |-> view.from, code |-> "queue-failed"]
      BY <1>3 DEF Block, RoundFails, FollowupFails, Wait, NoView
    <2>3. view'.from \in Sources
      BY <2>2, HumanSource DEF Rounds
    <2> QED
      BY <2>1, <2>3, RoundsPreserved DEF Rounds, TurnShaped
  <1>4. CASE Followup
    <2>1. /\ queue' = Append(queue, view.from) /\ dpc = "queue" /\ dpc' = "await"
          /\ UNCHANGED <<turn, reply, view>>
      BY <1>4 DEF Followup, Goes
    <2>2. reply = None /\ Quiet /\ view.from # Human /\ view.from \in Sources
      BY <2>1 DEF Rounds
    <2>3. queue' \in Seq(Sources) /\ OneRound(queue')
      BY <2>1, <2>2, QueueRound DEF Quiet, Rounds
    <2>4. Pending' /\ TurnShaped'
      BY <2>1, <2>2, <2>3 DEF Pending, Quiet, OneRound, TurnShaped, Rounds
    <2> QED
      BY <2>1, <2>2, <2>3, <2>4 DEF Rounds
  <1>5. CASE RoundEnds \/ RoundDrains
    <2>1. /\ dpc \in {"await", "drain"} /\ reply # None /\ reply' = None
          /\ dpc' \in {"fail", "idle", "stopped"} /\ UNCHANGED <<queue, turn>>
      BY <1>5 DEF RoundEnds, RoundDrains, Goes
    <2>2. view' = view \/ view'.from = Human
      BY <1>5 DEF RoundEnds, RoundDrains, NoView
    <2>3. Quiet /\ Quiet' /\ TurnShaped' /\ view'.from \in Sources
      BY <2>1, <2>2, HumanSource DEF Rounds, Quiet, AllHuman, TurnShaped
    <2> QED
      BY <2>1, <2>3 DEF Rounds
  <1>6. CASE RoundInterrupted
    <2>1. /\ turn' = Interrupted(turn) /\ dpc = "await" /\ dpc' = "drain"
          /\ UNCHANGED <<queue, reply, view>>
      BY <1>6 DEF RoundInterrupted, Goes
    <2>2. TurnShaped' /\ turn'.from = turn.from /\ turn'.stage = turn.stage
      BY <2>1, TurnEdited DEF Rounds, TurnShaped
    <2> QED
      BY <2>1, <2>2, RoundsPreserved DEF Rounds
  <1> QED
    BY <1>1, <1>2, <1>3, <1>4, <1>5, <1>6 DEF Driver

\* Every step keeps the rounds and the result the driver awaits in step.
LEMMA RoundsStep == Inv /\ Rounds /\ [Next]_vars => Rounds'
  <1> SUFFICES ASSUME Inv, Rounds, [Next]_vars PROVE Rounds'
    OBVIOUS
  <1>1. CASE Worker
    BY <1>1, RoundsWorker
  <1>2. CASE Driver
    BY <1>2, RoundsDriver
  <1>3. CASE Stop \/ UNCHANGED vars
    <2>1. UNCHANGED <<queue, turn, reply, dpc, view>>
      BY <1>3 DEF Stop, vars, agentVars, driverVars
    <2> QED
      BY <2>1, RoundsPreserved DEF Rounds, TurnShaped
  <1>4. CASE Restart
    <2>1. queue' = <<>> /\ turn' = NoTurn /\ reply' = None /\ dpc' = "idle" /\ view' = NoView
      BY <1>4 DEF Restart
    <2>2. queue' \in Seq(Sources) /\ AllHuman(queue')
      BY <2>1 DEF AllHuman
    <2>3. TurnShaped' /\ turn'.from = Human /\ view'.from = Human
      BY <2>1, HumanSource DEF TurnShaped, NoTurn, NoView
    <2>4. Quiet'
      BY <2>2, <2>3 DEF Quiet, AllHuman
    <2> QED
      BY <2>1, <2>2, <2>3, <2>4, HumanSource DEF Rounds
  <1>5. CASE \/ \E op \in Operations : Command(op) \/ Call(op)
             \/ Submit \/ Steer \/ Interrupt \/ ToolMutates \/ ToolRejected
             \/ \E a \in {"host", "model"} : Notified(a)
    BY <1>5, RoundsPeople
  <1> QED
    BY <1>1, <1>2, <1>3, <1>4, <1>5 DEF Next

\* A stopped driver leaves no goal round queued or running, whichever of
\* shutdown, interrupt, refusal or failure ended its loop.
THEOREM StoppedAlwaysQuiet == Spec => []StoppedIsQuiet
  <1>1. Rounds => StoppedIsQuiet
    <2> SUFFICES ASSUME Rounds, dpc = "stopped" PROVE Quiet /\ DOMAIN queue = 1..Len(queue)
      BY DEF StoppedIsQuiet, Quiet, AllHuman
    <2> QED
      BY DEF Rounds
  <1> QED
    BY InvInit, InvStep, RoundsInit, RoundsStep, <1>1, PTL DEF Spec

-----------------------------------------------------------------------------
(* The rounds.                                                             *)

Outcomes == {"completed", "canceled", "error", "max_tokens", "interrupted"}

Events ==
    [event : {"change"}, op : Operations, ref : Refs] \cup [event : {"open"}, ref : Refs]
        \cup [event : {"end"}, outcome : Outcomes]

\* A revision that was current once and never is again, and one that was or is.
Old(s, r) == r.id \in s.seen /\ ~(r.id = s.id /\ r.rev >= s.rev)
Past(s, r) == Old(s, r) \/ (r = Ref(s) /\ r # NoRef)

\* The revision the ending at i stopped.
IsStop(l, i) == l[i].event = "end" /\ l[i].outcome \in Stops
StoppedAt(l, i) == Stopped(Scan(l, 0)[i - 1])

IsOpened(l, i) == l[i].event = "open" /\ l[i].ref # NoRef

\* Rounds are opened for goals that were created.
OpenedKnown(s, l) == \A i \in DOMAIN l : IsOpened(l, i) => l[i].ref.id \in s.seen

\* The rounds of a goal, and the current goal's count of them.
OpenedFor(id, l) == {i \in DOMAIN l : l[i].event = "open" /\ l[i].ref.id = id}
Counts(s, l) == s.id # None => s.rounds = Cardinality(OpenedFor(s.id, l))

\* Every stop of a revision that could still be current is remembered by the scan;
\* a pause that was asked for is overtaken by another round only when it is old.
Remembered(s, f) ==
    /\ f.current = Ref(s)
    /\ f.round # NoRef => Past(s, f.round)
    /\ f.pause # NoRef => Past(s, f.pause)
    /\ \A r \in f.disarm : Past(s, r)
    /\ f.round # NoRef /\ f.pause \notin {NoRef, f.round} => Old(s, f.pause)

StopsRemembered(s, l) ==
    \A i \in DOMAIN l : IsStop(l, i) =>
        StoppedAt(l, i) = NoRef \/ Old(s, StoppedAt(l, i)) \/ Revoked(Settlement(l, 0), StoppedAt(l, i))

NoneAfterStop(l) ==
    \A i, j \in DOMAIN l : i < j /\ IsOpened(l, j) /\ IsStop(l, i) => StoppedAt(l, i) # l[j].ref

LogKept(s, l) ==
    /\ l \in Seq(Events) /\ OpenedKnown(s, l) /\ Counts(s, l)
    /\ Remembered(s, Settlement(l, 0)) /\ StopsRemembered(s, l) /\ NoneAfterStop(l)

\* The driver cannot try the round m again: its revision is not armed, or it is counted.
Gone(s, a, m) == a # m.ref \/ s.rounds >= m.round

\* Admission refused the round m: it is gone, or the log revokes its revision.
Hopeless(s, l, a, m) == Past(s, m.ref) /\ (Gone(s, a, m) \/ Revoked(Settlement(l, 0), m.ref))

\* The settlement under way will disarm r.
Due(pc, p, r) ==
    IF pc = "disarm" THEN r \in p.disarm
    ELSE r = p.pause \/ (p.pause = NoRef /\ r \in p.disarm)

\* The armed revision is revoked by the whole log only if the scan from the position
\* after revokes it too, or it is done with.
RevokedSince(l, r, after, done) ==
    /\ Settlement(l, 0).pause = r => Settlement(l, after).pause = r \/ done
    /\ r \in Settlement(l, 0).disarm => r \in Settlement(l, after).disarm \/ done

Plans == [pause : Refs, disarm : SUBSET Refs, last : Nat]

Settling == {"pause", "pausing", "disarm", "abandon"}

\* What the driver has settled, and settles.
Settles ==
    /\ plan \in Plans
    /\ seen \in 0..Len(log)
    /\ armed # NoRef => RevokedSince(log, armed, seen, FALSE)
    /\ dpc \in Settling =>
          /\ plan.last \in 0..Len(log)
          /\ armed # NoRef => RevokedSince(log, armed, plan.last, Due(dpc, plan, armed))
    /\ dpc \in {"pausing", "abandon"} => plan.pause # NoRef

\* The round the driver queued, awaits or is told of.
Queued ==
    /\ turn.from \in {Human, view.from} /\ \A i \in 1..Len(queue) : queue[i] \in {Human, view.from}
    /\ dpc \in {"queue", "await", "drain"} =>
          /\ Past(state, view.from.ref)
          /\ armed = view.from.ref =>
                view.from.round <= state.rounds + 1 /\ view.from.round <= state.cap
    /\ reply = "refused" => Hopeless(state, log, armed, view.from)
    /\ stopping = "down" => dpc = "stopped"

\* The round that was refused last.
RefusedGone ==
    /\ refused \in Sources
    /\ refused # Human =>
        /\ dpc # "fail" /\ Past(state, refused.ref)
        /\ dpc \in {"idle", "settle", "wait"} => Hopeless(state, log, armed, refused)
        /\ dpc \in Settling => Gone(state, armed, refused) \/ Due(dpc, plan, refused.ref)
        /\ dpc = "get" => Gone(state, armed, refused)

DriverKept == Settles /\ Queued /\ RefusedGone /\ RefusalExplained

RoundsInv == LogKept(state, log) /\ DriverKept

-----------------------------------------------------------------------------
(* The scan.                                                               *)

\* A set of positions that is not empty has a least one.
LEMMA LeastPosition ==
    ASSUME NEW S \in SUBSET Nat, S # {}
    PROVE  \E x \in S : \A y \in S : x <= y
  <1>1. PICK x \in S : \A y \in S : ~(<<y, x>> \in OpToRel(<, Nat))
    BY NatLessThanWellFounded, WFMin, Zenon
  <1>2. \A y \in S : ~(y < x)
    BY <1>1 DEF OpToRel
  <1> QED
    BY <1>2

\* The scan's equation.
Scanned(events, after, f, n) ==
    IF n = 0 THEN Unsettled ELSE SettleEvent(f[n - 1], events[n], n > after)

\* A function satisfies the scan's equation up to every position.
LEMMA ScanExists ==
    ASSUME NEW events, NEW after, NEW k \in Nat
    PROVE  \E f : f = [n \in 0..k |-> Scanned(events, after, f, n)]
  <1> DEFINE Exists(m) == \E f : f = [n \in 0..m |-> Scanned(events, after, f, n)]
             None0 == {m \in Nat : ~Exists(m)}
  <1> SUFFICES ASSUME None0 # {} PROVE FALSE
    OBVIOUS
  <1>1. PICK m \in None0 : \A y \in None0 : m <= y
    BY LeastPosition
  <1>2. m # 0
    <2> DEFINE f == [n \in 0..0 |-> Unsettled]
    <2>1. f = [n \in 0..0 |-> Scanned(events, after, f, n)]
      BY DEF Scanned
    <2>2. Exists(0)
      BY <2>1
    <2> QED
      BY <2>2
  <1>3. m \in Nat /\ m - 1 \in Nat /\ Exists(m - 1)
    BY <1>1, <1>2
  <1>4. PICK f : f = [n \in 0..(m - 1) |-> Scanned(events, after, f, n)]
    BY <1>3
  <1> DEFINE g == [n \in 0..m |-> IF n = m THEN SettleEvent(f[m - 1], events[m], m > after) ELSE f[n]]
  <1>5. ASSUME NEW n \in 0..m
        PROVE  g[n] = Scanned(events, after, g, n)
    <2>1. CASE n = m
      <3>1. g[m - 1] = f[m - 1]
        BY <1>3
      <3> QED
        BY <1>2, <2>1, <3>1 DEF Scanned
    <2>2. CASE n # m
      <3>1. n \in 0..(m - 1) /\ g[n] = f[n]
        BY <1>3, <2>2
      <3>2. f[n] = Scanned(events, after, f, n)
        BY <1>4, <3>1
      <3>3. n # 0 => g[n - 1] = f[n - 1]
        BY <1>3, <3>1
      <3> QED
        BY <3>1, <3>2, <3>3 DEF Scanned
    <2> QED
      BY <2>1, <2>2
  <1>6. g = [n \in 0..m |-> g[n]]
    OBVIOUS
  <1>7. g = [n \in 0..m |-> Scanned(events, after, g, n)]
    <2> HIDE DEF g
    <2> QED
      BY <1>5, <1>6
  <1>8. Exists(m)
    <2> HIDE DEF g
    <2> QED
      BY <1>7
  <1> QED
    BY <1>1, <1>8

\* What the scan is after each prefix.
LEMMA ScanIs ==
    ASSUME NEW events, Len(events) \in Nat, NEW after
    PROVE  /\ Scan(events, after)[0] = Unsettled
           /\ \A n \in 1..Len(events) :
                 Scan(events, after)[n] = SettleEvent(Scan(events, after)[n - 1], events[n], n > after)
  <1>1. PICK f : f = [n \in 0..Len(events) |-> Scanned(events, after, f, n)]
    BY ScanExists
  <1> DEFINE s == Scan(events, after)
  <1>2. s = [n \in 0..Len(events) |-> IF n = 0 THEN Unsettled ELSE SettleEvent(s[n - 1], events[n], n > after)]
    BY <1>1 DEF Scan, Scanned
  <1> HIDE DEF s
  <1>3. s[0] = Unsettled
    BY <1>2
  <1>4. ASSUME NEW n \in 1..Len(events)
        PROVE  s[n] = SettleEvent(s[n - 1], events[n], n > after)
    BY <1>2
  <1> QED
    BY <1>3, <1>4 DEF s
Folded == [current : Refs, round : Refs, pause : Refs, disarm : SUBSET Refs]

\* The ending of a turn that asks for a pause, and one that disarms.
Pauses(f, outcome) == outcome = "canceled" /\ f.round # NoRef
Disarms(f, outcome) == outcome \in Stops /\ ~Pauses(f, outcome) /\ Stopped(f) # NoRef

\* One event, by field.
LEMMA EventChange ==
    ASSUME NEW f \in Folded, NEW e \in Events, e.event = "change", NEW counted \in BOOLEAN
    PROVE  LET g == SettleEvent(f, e, counted) IN
           /\ g \in Folded /\ g.current = e.ref /\ g.round = f.round
           /\ IF counted /\ e.op \in {"create", "resume"} THEN g.pause = NoRef /\ g.disarm = {}
              ELSE g.pause = f.pause /\ g.disarm = f.disarm
  <1>1. e.ref \in Refs /\ NoRef \in Refs
    BY DEF Events, Refs
  <1>2. SettleEvent(f, e, counted) = SettleChange(f, e, counted)
    BY DEF SettleEvent
  <1>3. CASE counted /\ e.op \in {"create", "resume"}
    <2>1. SettleChange(f, e, counted) = [Unsettled EXCEPT !.current = e.ref, !.round = f.round]
      BY <1>3 DEF SettleChange
    <2>2. SettleChange(f, e, counted) = [current |-> e.ref, round |-> f.round, pause |-> NoRef, disarm |-> {}]
      BY <2>1 DEF Unsettled
    <2>3. {} \in SUBSET Refs /\ f.round \in Refs
      BY DEF Folded
    <2>4. SettleChange(f, e, counted) \in Folded
      BY <1>1, <2>2, <2>3 DEF Folded
    <2> DEFINE g == SettleEvent(f, e, counted)
    <2>5. g = [current |-> e.ref, round |-> f.round, pause |-> NoRef, disarm |-> {}]
      BY <1>2, <2>2
    <2>6. g \in Folded
      BY <1>2, <2>4
    <2>7. g.current = e.ref /\ g.round = f.round /\ g.pause = NoRef /\ g.disarm = {}
      BY <2>5
    <2> HIDE DEF g
    <2>8. /\ g \in Folded /\ g.current = e.ref /\ g.round = f.round
          /\ IF counted /\ e.op \in {"create", "resume"} THEN g.pause = NoRef /\ g.disarm = {}
             ELSE g.pause = f.pause /\ g.disarm = f.disarm
      BY <1>3, <2>6, <2>7
    <2> QED
      BY <2>8 DEF g
  <1>4. CASE ~(counted /\ e.op \in {"create", "resume"})
    <2>1. SettleChange(f, e, counted) = [f EXCEPT !.current = e.ref]
      BY <1>4 DEF SettleChange
    <2> QED
      BY <1>1, <1>2, <1>4, <2>1 DEF Folded
  <1> QED
    BY <1>3, <1>4

LEMMA EventOpen ==
    ASSUME NEW f \in Folded, NEW e \in Events, e.event = "open", NEW counted \in BOOLEAN
    PROVE  LET g == SettleEvent(f, e, counted) IN
           /\ g \in Folded /\ g.current = f.current /\ g.round = e.ref
           /\ g.pause = f.pause /\ g.disarm = f.disarm
  <1>1. e.ref \in Refs
    BY DEF Events
  <1>2. SettleEvent(f, e, counted) = [f EXCEPT !.round = e.ref]
    BY DEF SettleEvent
  <1> QED
    BY <1>1, <1>2 DEF Folded

LEMMA EventEnd ==
    ASSUME NEW f \in Folded, NEW e \in Events, e.event = "end", NEW counted \in BOOLEAN
    PROVE  LET g == SettleEvent(f, e, counted) IN
           /\ g \in Folded /\ g.current = f.current /\ g.round = f.round
           /\ counted /\ Pauses(f, e.outcome) => g.pause = f.round /\ g.disarm = f.disarm
           /\ counted /\ Disarms(f, e.outcome) =>
                 /\ g.disarm = f.disarm \cup {Stopped(f)}
                 /\ g.pause = IF e.outcome # "canceled" /\ f.pause = Stopped(f) THEN NoRef ELSE f.pause
           /\ ~counted \/ ~(Pauses(f, e.outcome) \/ Disarms(f, e.outcome)) =>
                 g.pause = f.pause /\ g.disarm = f.disarm
  <1>1. f.round \in Refs /\ NoRef \in Refs /\ Stopped(f) \in Refs
    BY DEF Folded, Refs, Stopped
  <1>2. SettleEvent(f, e, counted) = IF counted THEN SettleEnd(f, e.outcome) ELSE f
    BY DEF SettleEvent
  <1>3. CASE counted /\ Pauses(f, e.outcome)
    <2>1. SettleEvent(f, e, counted) = [f EXCEPT !.pause = f.round]
      BY <1>2, <1>3 DEF SettleEnd, Pauses
    <2> QED
      BY <1>1, <1>3, <2>1 DEF Folded, Disarms
  <1>4. CASE counted /\ Disarms(f, e.outcome)
    <2> DEFINE p == IF e.outcome # "canceled" /\ f.pause = Stopped(f) THEN NoRef ELSE f.pause
    <2>1. SettleEvent(f, e, counted) = [f EXCEPT !.pause = p, !.disarm = f.disarm \cup {Stopped(f)}]
      BY <1>2, <1>4 DEF SettleEnd, Disarms, Pauses, Folded
    <2>2. p \in Refs
      BY <1>1 DEF Folded
    <2> HIDE DEF p
    <2>3. f.disarm \cup {Stopped(f)} \in SUBSET Refs
      BY <1>1 DEF Folded
    <2>4. LET g == SettleEvent(f, e, counted) IN
          /\ g \in Folded /\ g.current = f.current /\ g.round = f.round
          /\ g.pause = p /\ g.disarm = f.disarm \cup {Stopped(f)}
      BY <2>1, <2>2, <2>3 DEF Folded
    <2> QED
      BY <1>4, <2>4 DEF p, Disarms
  <1>5. CASE ~counted \/ ~(Pauses(f, e.outcome) \/ Disarms(f, e.outcome))
    <2>1. SettleEvent(f, e, counted) = f
      BY <1>2, <1>5 DEF SettleEnd, Pauses, Disarms
    <2> QED
      BY <1>5, <2>1
  <1> QED
    BY <1>3, <1>4, <1>5

LEMMA EventFolded ==
    ASSUME NEW f \in Folded, NEW e \in Events, NEW counted \in BOOLEAN
    PROVE  SettleEvent(f, e, counted) \in Folded
  <1>1. e.event \in {"change", "open", "end"}
    BY DEF Events
  <1> QED
    BY <1>1, EventChange, EventOpen, EventEnd

\* What is current and open does not depend on what is counted, and an event
\* that is not counted asks for nothing.
LEMMA EventPair ==
    ASSUME NEW f \in Folded, NEW g \in Folded, NEW e \in Events, NEW c \in BOOLEAN, NEW d \in BOOLEAN,
           f.current = g.current, f.round = g.round
    PROVE  /\ SettleEvent(f, e, c).current = SettleEvent(g, e, d).current
           /\ SettleEvent(f, e, c).round = SettleEvent(g, e, d).round
  <1>1. e.event \in {"change", "open", "end"}
    BY DEF Events
  <1>2. CASE e.event = "change"
    BY <1>2, EventChange
  <1>3. CASE e.event = "open"
    BY <1>3, EventOpen
  <1>4. CASE e.event = "end"
    BY <1>4, EventEnd
  <1> QED
    BY <1>1, <1>2, <1>3, <1>4

LEMMA EventUncounted ==
    ASSUME NEW f \in Folded, NEW e \in Events, NEW c \in BOOLEAN, ~c
    PROVE  SettleEvent(f, e, c).pause = f.pause /\ SettleEvent(f, e, c).disarm = f.disarm
  <1>1. e.event \in {"change", "open", "end"}
    BY DEF Events
  <1>2. CASE e.event = "change"
    BY <1>2, EventChange
  <1>3. CASE e.event = "open"
    BY <1>3, EventOpen
  <1>4. CASE e.event = "end"
    BY <1>4, EventEnd
  <1> QED
    BY <1>1, <1>2, <1>3, <1>4

\* The scan is a fold state after every prefix.
LEMMA ScanFolded ==
    ASSUME NEW events \in Seq(Events), NEW after \in Nat, NEW k \in 0..Len(events)
    PROVE  Scan(events, after)[k] \in Folded
  <1> DEFINE bad == {n \in 0..Len(events) : Scan(events, after)[n] \notin Folded}
  <1> SUFFICES ASSUME bad # {} PROVE FALSE
    OBVIOUS
  <1>1. Len(events) \in Nat
    OBVIOUS
  <1>a. bad \in SUBSET Nat
    BY <1>1
  <1>2. PICK m \in bad : \A y \in bad : m <= y
    BY <1>a, LeastPosition
  <1>3. Unsettled \in Folded
    BY DEF Unsettled, Folded, Refs
  <1>4. m # 0
    BY <1>1, <1>3, ScanIs
  <1>5. m \in 1..Len(events) /\ m - 1 \in 0..Len(events) /\ m - 1 \notin bad
    BY <1>1, <1>2, <1>4
  <1>6. Scan(events, after)[m - 1] \in Folded /\ events[m] \in Events /\ (m > after) \in BOOLEAN
    BY <1>5
  <1>7. Scan(events, after)[m] = SettleEvent(Scan(events, after)[m - 1], events[m], m > after)
    BY <1>1, <1>5, ScanIs
  <1> HIDE DEF bad
  <1>8. Scan(events, after)[m] \in Folded
    BY <1>6, <1>7, EventFolded
  <1> QED
    BY <1>2, <1>8 DEF bad

\* A longer log does not change what was scanned.
LEMMA ScanAppend ==
    ASSUME NEW events \in Seq(Events), NEW e \in Events, NEW after \in 0..Len(events)
    PROVE  /\ \A k \in 0..Len(events) : Scan(Append(events, e), after)[k] = Scan(events, after)[k]
           /\ Settlement(Append(events, e), after) = SettleEvent(Settlement(events, after), e, TRUE)
  <1> DEFINE more == Append(events, e)
             s == Scan(events, after)
             t == Scan(more, after)
             bad == {n \in 0..Len(events) : t[n] # s[n]}
  <1>1. /\ Len(events) \in Nat /\ Len(more) = Len(events) + 1 /\ more[Len(events) + 1] = e
        /\ \A i \in 1..Len(events) : more[i] = events[i]
    OBVIOUS
  <1> HIDE DEF more
  <1>2. /\ s[0] = Unsettled /\ t[0] = Unsettled
        /\ \A n \in 1..Len(events) : s[n] = SettleEvent(s[n - 1], events[n], n > after)
        /\ \A n \in 1..Len(events) + 1 : t[n] = SettleEvent(t[n - 1], more[n], n > after)
    BY <1>1, ScanIs, SMTT(30)
  <1> HIDE DEF s, t
  <1>3. ASSUME bad # {} PROVE FALSE
    <2>a. bad \in SUBSET Nat
      BY <1>1
    <2>1. PICK m \in bad : \A y \in bad : m <= y
      BY <2>a, <1>3, LeastPosition
    <2>2. m \in 1..Len(events) /\ m - 1 \in 0..Len(events) /\ m - 1 \notin bad
      BY <1>1, <1>2, <2>1
    <2>3. t[m - 1] = s[m - 1] /\ t[m] # s[m]
      BY <2>1, <2>2
    <2>4. m \in 1..Len(events) + 1
      BY <1>1, <2>2
    <2> QED
      BY <1>1, <1>2, <2>2, <2>3, <2>4
  <1>4. \A k \in 0..Len(events) : t[k] = s[k]
    BY <1>3
  <1>5. /\ Len(events) + 1 \in 1..Len(events) + 1 /\ (Len(events) + 1) - 1 = Len(events)
        /\ (Len(events) + 1 > after) = TRUE /\ Len(events) \in 0..Len(events)
    BY <1>1
  <1>6. t[Len(events) + 1] = SettleEvent(t[Len(events)], e, TRUE)
    BY <1>1, <1>2, <1>5
  <1>7. t[Len(more)] = SettleEvent(s[Len(events)], e, TRUE)
    BY <1>1, <1>4, <1>5, <1>6
  <1> QED
    BY <1>4, <1>7 DEF more, s, t, Settlement

\* The checkpoint does not change what is current and which round is open, and
\* nothing is asked for up to the checkpoint.
LEMMA ScanCheckpoint ==
    ASSUME NEW events \in Seq(Events), NEW after \in 0..Len(events)
    PROVE  /\ Settlement(events, after).current = Settlement(events, 0).current
           /\ Settlement(events, after).round = Settlement(events, 0).round
           /\ after = Len(events) => Settlement(events, after).pause = NoRef /\ Settlement(events, after).disarm = {}
  <1> DEFINE s == Scan(events, 0)
             t == Scan(events, after)
             Good(n) == /\ t[n].current = s[n].current /\ t[n].round = s[n].round
                        /\ n <= after => t[n].pause = NoRef /\ t[n].disarm = {}
             bad == {n \in 0..Len(events) : ~Good(n)}
  <1>1. Len(events) \in Nat /\ after \in Nat /\ 0 \in Nat
    OBVIOUS
  <1>2. /\ s[0] = Unsettled /\ t[0] = Unsettled
        /\ \A n \in 1..Len(events) : s[n] = SettleEvent(s[n - 1], events[n], n > 0)
        /\ \A n \in 1..Len(events) : t[n] = SettleEvent(t[n - 1], events[n], n > after)
    BY <1>1, ScanIs
  <1>3. \A n \in 0..Len(events) : s[n] \in Folded /\ t[n] \in Folded
    BY <1>1, ScanFolded
  <1> HIDE DEF s, t
  <1>4. ASSUME bad # {} PROVE FALSE
    <2>a. bad \in SUBSET Nat
      BY <1>1
    <2>1. PICK m \in bad : \A y \in bad : m <= y
      BY <2>a, <1>4, LeastPosition
    <2>2. m # 0
      BY <1>2, <2>1 DEF Unsettled
    <2>3. m \in 1..Len(events) /\ m - 1 \in 0..Len(events) /\ m - 1 \notin bad /\ m - 1 <= m
      BY <1>1, <2>1, <2>2
    <2>4. Good(m - 1) /\ ~Good(m)
      BY <2>1, <2>3
    <2>5. s[m - 1] \in Folded /\ t[m - 1] \in Folded /\ events[m] \in Events
      BY <1>3, <2>3
    <2>6. PICK c \in BOOLEAN : s[m] = SettleEvent(s[m - 1], events[m], c)
      <3>1. (m > 0) \in BOOLEAN
        BY <1>1, <2>3
      <3>2. s[m] = SettleEvent(s[m - 1], events[m], m > 0)
        BY <1>2, <2>3
      <3> QED
        BY <3>1, <3>2, Zenon
    <2>7. PICK d \in BOOLEAN : t[m] = SettleEvent(t[m - 1], events[m], d) /\ (m <= after => ~d)
      <3>1. (m > after) \in BOOLEAN
        BY <1>1, <2>3
      <3>2. t[m] = SettleEvent(t[m - 1], events[m], m > after)
        BY <1>2, <2>3
      <3>3. m <= after => ~(m > after)
        BY <1>1, <2>3
      <3> QED
        BY <3>1, <3>2, <3>3, Zenon
    <2>8. s[m - 1].current = t[m - 1].current /\ s[m - 1].round = t[m - 1].round
      BY <2>4
    <2>9. t[m].current = s[m].current /\ t[m].round = s[m].round
      BY <2>5, <2>6, <2>7, <2>8, EventPair
    <2>10. ASSUME m <= after PROVE t[m].pause = NoRef /\ t[m].disarm = {}
      <3>1. t[m - 1].pause = NoRef /\ t[m - 1].disarm = {} /\ ~d
        BY <2>3, <2>4, <2>7, <2>10
      <3> QED
        BY <2>5, <2>7, <3>1, EventUncounted
    <2> QED
      BY <2>4, <2>9, <2>10
  <1>5. Good(Len(events))
    BY <1>1, <1>4
  <1> QED
    BY <1>5 DEF s, t, Settlement
-----------------------------------------------------------------------------
(* What one event does to what the log is known to hold.                   *)

\* A log with one more event.
LEMMA Longer ==
    ASSUME NEW l \in Seq(Events), NEW e \in Events
    PROVE  LET more == Append(l, e) n == Len(l) + 1 IN
           /\ more \in Seq(Events) /\ DOMAIN l = 1..Len(l) /\ DOMAIN more = 1..n
           /\ Len(l) \in Nat /\ n \notin DOMAIN l /\ more[n] = e
           /\ \A i \in DOMAIN more : i = n \/ i \in DOMAIN l
           /\ \A i \in DOMAIN l : more[i] = l[i] /\ StoppedAt(more, i) = StoppedAt(l, i)
           /\ StoppedAt(more, n) = Stopped(Settlement(l, 0))
           /\ Settlement(l, 0) \in Folded
           /\ Settlement(more, 0) = SettleEvent(Settlement(l, 0), e, TRUE)
  <1> DEFINE more == Append(l, e)
  <1>1. /\ more \in Seq(Events) /\ DOMAIN l = 1..Len(l) /\ DOMAIN more = 1..Len(l) + 1
        /\ Len(l) \in Nat /\ more[Len(l) + 1] = e /\ \A i \in 1..Len(l) : more[i] = l[i]
    OBVIOUS
  <1>2. 0 \in 0..Len(l) /\ Len(l) \in 0..Len(l)
    BY <1>1
  <1>3. /\ \A k \in 0..Len(l) : Scan(more, 0)[k] = Scan(l, 0)[k]
        /\ Settlement(more, 0) = SettleEvent(Settlement(l, 0), e, TRUE)
    BY <1>2, ScanAppend
  <1> HIDE DEF more
  <1>4. \A i \in 1..Len(l) : i - 1 \in 0..Len(l)
    BY <1>1
  <1>5. \A i \in 1..Len(l) : StoppedAt(more, i) = StoppedAt(l, i)
    BY <1>3, <1>4 DEF StoppedAt
  <1>6. (Len(l) + 1) - 1 = Len(l)
    BY <1>1
  <1>7. StoppedAt(more, Len(l) + 1) = Stopped(Settlement(l, 0))
    BY <1>2, <1>3, <1>6 DEF StoppedAt, Settlement
  <1>8. Settlement(l, 0) \in Folded
    BY <1>2, ScanFolded DEF Settlement
  <1>9. Len(l) + 1 \notin DOMAIN l /\ \A i \in 1..Len(l) + 1 : i = Len(l) + 1 \/ i \in DOMAIN l
    BY <1>1
  <1> QED
    BY <1>1, <1>3, <1>5, <1>7, <1>8, <1>9 DEF more

\* What an ending stopped is a reference.
LEMMA StoppedRef ==
    ASSUME NEW l \in Seq(Events), NEW i \in DOMAIN l
    PROVE  StoppedAt(l, i) \in Refs
  <1>1. i - 1 \in 0..Len(l) /\ 0 \in Nat
    OBVIOUS
  <1>2. Scan(l, 0)[i - 1] \in Folded
    BY <1>1, ScanFolded
  <1> QED
    BY <1>2 DEF StoppedAt, Stopped, Folded

\* The rounds opened for a goal are a finite set that one more opening enlarges.
LEMMA OpenedMore ==
    ASSUME NEW l \in Seq(Events), NEW e \in Events, NEW id
    PROVE  /\ IsFiniteSet(OpenedFor(id, l)) /\ Cardinality(OpenedFor(id, l)) \in Nat
           /\ OpenedFor(id, Append(l, e)) =
                 IF e.event = "open" /\ e.ref.id = id THEN OpenedFor(id, l) \cup {Len(l) + 1}
                 ELSE OpenedFor(id, l)
           /\ e.event = "open" /\ e.ref.id = id =>
                 Cardinality(OpenedFor(id, Append(l, e))) = Cardinality(OpenedFor(id, l)) + 1
  <1>1. OpenedFor(id, l) \subseteq 1..Len(l)
    BY DEF OpenedFor
  <1>2. IsFiniteSet(1..Len(l))
    BY FS_Interval
  <1>3. IsFiniteSet(OpenedFor(id, l)) /\ Cardinality(OpenedFor(id, l)) \in Nat
    BY <1>1, <1>2, FS_Subset, FS_CardinalityType
  <1> DEFINE more == Append(l, e)
             n == Len(l) + 1
  <1>4. /\ DOMAIN more = 1..n /\ n \notin DOMAIN l /\ more[n] = e /\ DOMAIN l \subseteq DOMAIN more
        /\ n \in DOMAIN more
        /\ \A i \in DOMAIN more : i = n \/ i \in DOMAIN l
        /\ \A i \in DOMAIN l : more[i] = l[i]
    BY Longer
  <1> HIDE DEF more, n
  <1>5. OpenedFor(id, more) = IF e.event = "open" /\ e.ref.id = id THEN OpenedFor(id, l) \cup {n}
                              ELSE OpenedFor(id, l)
    BY <1>4 DEF OpenedFor
  <1>6. n \notin OpenedFor(id, l)
    BY <1>4 DEF OpenedFor
  <1>7. e.event = "open" /\ e.ref.id = id => Cardinality(OpenedFor(id, more)) = Cardinality(OpenedFor(id, l)) + 1
    BY <1>3, <1>5, <1>6, FS_AddElement
  <1> QED
    BY <1>3, <1>5, <1>7 DEF more, n
\* The end of a turn: what it stopped is remembered.
LEMMA KeepEnd ==
    ASSUME NEW s, GoodState(s), NEW l, LogKept(s, l), NEW e \in Events, e.event = "end"
    PROVE  LogKept(s, Append(l, e))
  <1> DEFINE more == Append(l, e)
             n == Len(l) + 1
             f == Settlement(l, 0)
             g == Settlement(more, 0)
  <1>0. l \in Seq(Events)
    BY DEF LogKept
  <1>1. /\ more \in Seq(Events) /\ n \notin DOMAIN l /\ more[n] = e
        /\ \A i \in DOMAIN more : i = n \/ i \in DOMAIN l
        /\ \A i \in DOMAIN l : more[i] = l[i] /\ StoppedAt(more, i) = StoppedAt(l, i)
        /\ StoppedAt(more, n) = Stopped(f)
        /\ f \in Folded /\ g = SettleEvent(f, e, TRUE)
    BY <1>0, Longer
  <1>2. /\ g.current = f.current /\ g.round = f.round
        /\ Pauses(f, e.outcome) => g.pause = f.round /\ g.disarm = f.disarm
        /\ Disarms(f, e.outcome) =>
              /\ g.disarm = f.disarm \cup {Stopped(f)}
              /\ g.pause = IF e.outcome # "canceled" /\ f.pause = Stopped(f) THEN NoRef ELSE f.pause
        /\ ~(Pauses(f, e.outcome) \/ Disarms(f, e.outcome)) => g.pause = f.pause /\ g.disarm = f.disarm
    <2>1. PICK c \in BOOLEAN : c /\ g = SettleEvent(f, e, c)
      BY <1>1, Zenon
    <2>2. f \in Folded
      BY <1>1
    <2> HIDE DEF f, g, more, n
    <2> QED
      BY <2>1, <2>2, EventEnd
  <1>3. \A id : OpenedFor(id, more) = OpenedFor(id, l)
    BY <1>0, OpenedMore
  <1>4. /\ OpenedKnown(s, l) /\ Counts(s, l) /\ Remembered(s, f) /\ StopsRemembered(s, l) /\ NoneAfterStop(l)
    BY DEF LogKept
  <1> HIDE DEF more, n, f, g
  <1>5. OpenedKnown(s, more) /\ Counts(s, more)
    BY <1>1, <1>3, <1>4 DEF OpenedKnown, Counts, IsOpened
  <1>6. Stopped(f) # NoRef => Past(s, Stopped(f))
    BY <1>4 DEF Remembered, Stopped, Past
  <1>7. Remembered(s, g)
    <2>1. CASE Pauses(f, e.outcome)
      BY <1>2, <1>4, <2>1 DEF Remembered
    <2>2. CASE Disarms(f, e.outcome)
      BY <1>2, <1>4, <1>6, <2>2 DEF Remembered, Disarms
    <2>3. CASE ~(Pauses(f, e.outcome) \/ Disarms(f, e.outcome))
      BY <1>2, <1>4, <2>3 DEF Remembered
    <2> QED
      BY <2>1, <2>2, <2>3
  <1>8. ASSUME NEW r, r = NoRef \/ Old(s, r) \/ Revoked(f, r)
        PROVE  r = NoRef \/ Old(s, r) \/ Revoked(g, r)
    <2>1. CASE Pauses(f, e.outcome)
      BY <1>2, <1>4, <1>8, <2>1 DEF Remembered, Pauses, Revoked
    <2>2. CASE Disarms(f, e.outcome)
      BY <1>2, <1>8, <2>2 DEF Revoked
    <2>3. CASE ~(Pauses(f, e.outcome) \/ Disarms(f, e.outcome))
      BY <1>2, <1>8, <2>3 DEF Revoked
    <2> QED
      BY <2>1, <2>2, <2>3
  <1>9. e.outcome \in Stops => Stopped(f) = NoRef \/ Revoked(g, Stopped(f))
    <2>1. CASE Pauses(f, e.outcome)
      BY <1>2, <2>1 DEF Pauses, Revoked, Stopped
    <2>2. CASE Disarms(f, e.outcome)
      BY <1>2, <2>2 DEF Revoked
    <2>3. CASE ~(Pauses(f, e.outcome) \/ Disarms(f, e.outcome))
      BY <2>3 DEF Disarms
    <2> QED
      BY <2>1, <2>2, <2>3
  <1>10. StopsRemembered(s, more)
    <2> SUFFICES ASSUME NEW i \in DOMAIN more, IsStop(more, i)
                 PROVE  \/ StoppedAt(more, i) = NoRef \/ Old(s, StoppedAt(more, i))
                        \/ Revoked(g, StoppedAt(more, i))
      BY DEF StopsRemembered, g
    <2>1. CASE i = n
      BY <1>1, <1>9, <2>1 DEF IsStop
    <2>2. CASE i \in DOMAIN l
      <3>1. IsStop(l, i)
        BY <1>1, <2>2 DEF IsStop
      <3>2. StoppedAt(l, i) = NoRef \/ Old(s, StoppedAt(l, i)) \/ Revoked(f, StoppedAt(l, i))
        BY <1>4, <2>2, <3>1 DEF StopsRemembered, f
      <3> QED
        BY <1>1, <1>8, <2>2, <3>2
    <2> QED
      BY <1>1, <2>1, <2>2
  <1>11. NoneAfterStop(more)
    <2> SUFFICES ASSUME NEW i \in DOMAIN more, NEW j \in DOMAIN more, i < j, IsOpened(more, j), IsStop(more, i)
                 PROVE  StoppedAt(more, i) # more[j].ref
      BY DEF NoneAfterStop
    <2>1. j # n /\ j \in DOMAIN l
      BY <1>1 DEF IsOpened
    <2>2. i # n
      BY <1>0, <2>1 DEF n
    <2>3. i \in DOMAIN l /\ IsStop(l, i) /\ IsOpened(l, j)
      BY <1>1, <2>1, <2>2 DEF IsStop, IsOpened
    <2> QED
      BY <1>1, <1>4, <2>1, <2>3 DEF NoneAfterStop
  <1> QED
    BY <1>1, <1>5, <1>7, <1>10, <1>11 DEF LogKept, more, g

\* The opening of a turn, of a person or of a round of a revision that nothing revokes.
LEMMA KeepOpen ==
    ASSUME NEW s, GoodState(s), NEW t, NEW l, LogKept(s, l), NEW ref \in Refs,
           ref # NoRef => ref = Ref(s) /\ ~Revoked(Settlement(l, 0), ref),
           t.id = s.id, t.rev = s.rev, t.seen = s.seen,
           t.rounds = IF ref = NoRef THEN s.rounds ELSE s.rounds + 1
    PROVE  LogKept(t, Append(l, OpenEvent(ref)))
  <1> DEFINE e == OpenEvent(ref)
             more == Append(l, e)
             n == Len(l) + 1
             f == Settlement(l, 0)
             g == Settlement(more, 0)
  <1>0. l \in Seq(Events) /\ e \in Events /\ e.event = "open" /\ e.ref = ref
    BY DEF LogKept, OpenEvent, Events
  <1> HIDE DEF e
  <1>1. /\ more \in Seq(Events) /\ n \notin DOMAIN l /\ more[n] = e
        /\ \A i \in DOMAIN more : i = n \/ i \in DOMAIN l
        /\ \A i \in DOMAIN l : more[i] = l[i] /\ StoppedAt(more, i) = StoppedAt(l, i)
        /\ f \in Folded /\ g = SettleEvent(f, e, TRUE)
    BY <1>0, Longer
  <1>2. g.current = f.current /\ g.round = ref /\ g.pause = f.pause /\ g.disarm = f.disarm
    <2>1. PICK c \in BOOLEAN : c /\ g = SettleEvent(f, e, c)
      BY <1>1, Zenon
    <2>2. f \in Folded /\ e \in Events /\ e.event = "open" /\ e.ref = ref
      BY <1>0, <1>1
    <2> HIDE DEF f, g, more, n
    <2> QED
      BY <2>1, <2>2, EventOpen
  <1>3. /\ ref.id # s.id => OpenedFor(s.id, more) = OpenedFor(s.id, l)
        /\ ref.id = s.id => Cardinality(OpenedFor(s.id, more)) = Cardinality(OpenedFor(s.id, l)) + 1
    BY <1>0, OpenedMore
  <1>4. /\ OpenedKnown(s, l) /\ Counts(s, l) /\ Remembered(s, f) /\ StopsRemembered(s, l) /\ NoneAfterStop(l)
    BY DEF LogKept
  <1>5. Ref(t) = Ref(s) /\ \A r : (Old(t, r) <=> Old(s, r)) /\ (Past(t, r) <=> Past(s, r))
    BY DEF Ref, Old, Past
  <1>6. ref # NoRef => s.id # None /\ ref.id = s.id /\ s.id \in s.seen /\ s.rev \in Nat /\ ref.rev = s.rev
    BY DEF GoodState, GoalStates, Ref, NoRef
  <1>7. ref # NoRef => Past(s, ref) /\ ~Old(s, ref)
    BY <1>6 DEF Past, Old
  <1> HIDE DEF more, n, f, g
  <1>8. OpenedKnown(t, more)
    <2> SUFFICES ASSUME NEW i \in DOMAIN more, IsOpened(more, i) PROVE more[i].ref.id \in s.seen
      BY DEF OpenedKnown
    <2>1. CASE i = n
      BY <1>0, <1>1, <1>6, <2>1 DEF IsOpened
    <2>2. CASE i \in DOMAIN l
      BY <1>1, <1>4, <2>2 DEF OpenedKnown, IsOpened
    <2> QED
      BY <1>1, <2>1, <2>2
  <1>9. Counts(t, more)
    <2>1. CASE ref = NoRef
      <3>1. s.id # None => ref.id # s.id
        BY <2>1 DEF NoRef
      <3> QED
        BY <1>3, <1>4, <2>1, <3>1 DEF Counts
    <2>2. CASE ref # NoRef
      BY <1>3, <1>4, <1>6, <2>2 DEF Counts
    <2> QED
      BY <2>1, <2>2
  <1>10. Remembered(t, g)
    <2>1. Remembered(s, g)
      <3>1. g.round # NoRef /\ g.pause \notin {NoRef, g.round} => Old(s, g.pause)
        BY <1>2, <1>4 DEF Remembered, Past
      <3> QED
        BY <1>2, <1>4, <1>7, <3>1 DEF Remembered
    <2> QED
      BY <1>5, <2>1 DEF Remembered
  <1>11. StopsRemembered(t, more)
    <2> SUFFICES ASSUME NEW i \in DOMAIN more, IsStop(more, i)
                 PROVE  \/ StoppedAt(more, i) = NoRef \/ Old(s, StoppedAt(more, i))
                        \/ Revoked(g, StoppedAt(more, i))
      BY <1>5 DEF StopsRemembered, g
    <2>1. i # n /\ i \in DOMAIN l /\ IsStop(l, i)
      BY <1>0, <1>1 DEF IsStop
    <2>2. StoppedAt(l, i) = NoRef \/ Old(s, StoppedAt(l, i)) \/ Revoked(f, StoppedAt(l, i))
      BY <1>4, <2>1 DEF StopsRemembered, f
    <2> QED
      BY <1>1, <1>2, <2>1, <2>2 DEF Revoked
  <1>12. NoneAfterStop(more)
    <2> SUFFICES ASSUME NEW i \in DOMAIN more, NEW j \in DOMAIN more, i < j, IsOpened(more, j), IsStop(more, i)
                 PROVE  StoppedAt(more, i) # more[j].ref
      BY DEF NoneAfterStop
    <2>1. i # n /\ i \in DOMAIN l /\ IsStop(l, i)
      BY <1>0, <1>1 DEF IsStop
    <2>2. CASE j = n
      <3>1. ref # NoRef /\ more[j].ref = ref
        BY <1>0, <1>1, <2>2 DEF IsOpened
      <3>2. StoppedAt(l, i) = NoRef \/ Old(s, StoppedAt(l, i)) \/ Revoked(f, StoppedAt(l, i))
        BY <1>4, <2>1 DEF StopsRemembered, f
      <3>3. ~Revoked(f, ref)
        BY <3>1 DEF f
      <3> QED
        BY <1>1, <1>7, <2>1, <3>1, <3>2, <3>3
    <2>3. CASE j \in DOMAIN l
      BY <1>1, <1>4, <2>1, <2>3 DEF NoneAfterStop, IsOpened
    <2> QED
      BY <1>1, <2>2, <2>3
  <1> QED
    BY <1>1, <1>8, <1>9, <1>10, <1>11, <1>12 DEF LogKept, more, g, e

\* A change of the goal: every revision of before is old after it.
LEMMA KeepChange ==
    ASSUME NEW s, NEW t, NEW l, LogKept(s, l), NEW e \in Events, e.event = "change", e.ref = Ref(t),
           \A r \in Refs : Past(s, r) => Old(t, r),
           s.seen \subseteq t.seen,
           t.id # None => (t.id = s.id /\ t.rounds = s.rounds) \/ (t.id \notin s.seen /\ t.rounds = 0),
           NoRef.id \notin t.seen
    PROVE  LogKept(t, Append(l, e))
  <1> DEFINE more == Append(l, e)
             n == Len(l) + 1
             f == Settlement(l, 0)
             g == Settlement(more, 0)
  <1>0. l \in Seq(Events)
    BY DEF LogKept
  <1>1. /\ more \in Seq(Events) /\ n \notin DOMAIN l /\ more[n] = e
        /\ \A i \in DOMAIN more : i = n \/ i \in DOMAIN l
        /\ \A i \in DOMAIN l : more[i] = l[i] /\ StoppedAt(more, i) = StoppedAt(l, i)
        /\ f \in Folded /\ g = SettleEvent(f, e, TRUE)
    BY <1>0, Longer
  <1>2. /\ g.current = Ref(t) /\ g.round = f.round
        /\ (g.pause = NoRef /\ g.disarm = {}) \/ (g.pause = f.pause /\ g.disarm = f.disarm)
    <2>1. PICK c \in BOOLEAN : c /\ g = SettleEvent(f, e, c)
      BY <1>1, Zenon
    <2>2. f \in Folded
      BY <1>1
    <2> HIDE DEF f, g, more, n
    <2> QED
      BY <2>1, <2>2, EventChange, ZenonT(60)
  <1>3. \A id : OpenedFor(id, more) = OpenedFor(id, l)
    BY <1>0, OpenedMore
  <1>4. /\ OpenedKnown(s, l) /\ Counts(s, l) /\ Remembered(s, f) /\ StopsRemembered(s, l) /\ NoneAfterStop(l)
    BY DEF LogKept
  <1> HIDE DEF more, n, f, g
  <1>5. OpenedKnown(t, more)
    BY <1>1, <1>4 DEF OpenedKnown, IsOpened
  <1>6. Counts(t, more)
    <2> SUFFICES ASSUME t.id # None PROVE t.rounds = Cardinality(OpenedFor(t.id, l))
      BY <1>3 DEF Counts
    <2>1. CASE t.id = s.id /\ t.rounds = s.rounds
      BY <1>4, <2>1 DEF Counts
    <2>2. CASE t.id \notin s.seen /\ t.rounds = 0
      <3>1. \A i \in DOMAIN l : ~(l[i].event = "open" /\ l[i].ref.id = t.id)
        BY <1>4, <2>2 DEF OpenedKnown, IsOpened, NoRef
      <3>2. OpenedFor(t.id, l) = {}
        BY <3>1 DEF OpenedFor
      <3> QED
        BY <2>2, <3>2, FS_EmptySet
    <2> QED
      BY <2>1, <2>2
  <1>7. /\ f.round \in Refs /\ f.pause \in Refs /\ f.disarm \subseteq Refs
    BY <1>1 DEF Folded
  <1>8. Remembered(t, g)
    <2>1. /\ f.round # NoRef => Old(t, f.round)
          /\ f.pause # NoRef => Old(t, f.pause)
          /\ \A r \in f.disarm : Old(t, r)
      BY <1>4, <1>7 DEF Remembered
    <2> QED
      BY <1>2, <2>1 DEF Remembered, Past
  <1>9. StopsRemembered(t, more)
    <2> SUFFICES ASSUME NEW i \in DOMAIN more, IsStop(more, i)
                 PROVE  StoppedAt(more, i) = NoRef \/ Old(t, StoppedAt(more, i))
      BY DEF StopsRemembered
    <2>1. i # n /\ i \in DOMAIN l /\ IsStop(l, i)
      BY <1>1 DEF IsStop
    <2>2. StoppedAt(l, i) = NoRef \/ Old(s, StoppedAt(l, i)) \/ Revoked(f, StoppedAt(l, i))
      BY <1>4, <2>1 DEF StopsRemembered, f
    <2>3. StoppedAt(l, i) \in Refs
      BY <1>0, <2>1, StoppedRef
    <2>4. StoppedAt(l, i) = NoRef \/ Past(s, StoppedAt(l, i))
      BY <1>4, <2>2 DEF Remembered, Revoked, Past
    <2> QED
      BY <1>1, <2>1, <2>3, <2>4
  <1>10. NoneAfterStop(more)
    <2> SUFFICES ASSUME NEW i \in DOMAIN more, NEW j \in DOMAIN more, i < j, IsOpened(more, j), IsStop(more, i)
                 PROVE  StoppedAt(more, i) # more[j].ref
      BY DEF NoneAfterStop
    <2>1. i # n /\ i \in DOMAIN l /\ IsStop(l, i) /\ j # n /\ j \in DOMAIN l /\ IsOpened(l, j)
      BY <1>1 DEF IsStop, IsOpened
    <2> QED
      BY <1>1, <1>4, <2>1 DEF NoneAfterStop
  <1> QED
    BY <1>1, <1>5, <1>6, <1>8, <1>9, <1>10 DEF LogKept, more, g
-----------------------------------------------------------------------------
(* The log through the steps of the system.                                *)

\* A committed operation appends one change, which makes every revision of before old.
LEMMA Committed ==
    ASSUME Inv, NEW op \in Operations, NEW ref, NEW code, Mutate(op, ref, code)
    PROVE  /\ \E e \in Events : e.event = "change" /\ e.ref = Ref(state') /\ log' = Append(log, e)
           /\ \A r \in Refs : Past(state, r) => Old(state', r)
           /\ state.seen \subseteq state'.seen /\ NoRef.id \notin state'.seen
           /\ state'.id # None => \/ state'.id = state.id /\ state'.rounds = state.rounds
                                  \/ state'.id \notin state.seen /\ state'.rounds = 0
           /\ armed' \in {NoRef, Ref(state')} /\ (op = "pause" => armed' = NoRef)
  <1>1. PICK c \in Mutations(op, ref, code) : Commit(c)
    BY DEF Mutate
  <1>2. PICK now \in Int : c \in Builds(state, op, armed # NoRef, code, now) /\ AcceptsChange(state, c)
    BY CapsAssumption DEF Mutations
  <1>3. GoodState(state)
    BY DEF Inv
  <1>4. c.op = op /\ c.id \in Ids /\ c.rev \in Nat \ {0}
    BY <1>2, <1>3, BuildsGood
  <1>5. /\ state' = ApplyChange(state, c)
        /\ log' = Append(log, ChangeEvent(op, IF op = "clear" THEN NoRef ELSE Ref(c)))
        /\ armed' \in {NoRef, IF op = "clear" THEN NoRef ELSE Ref(c)} /\ (op = "pause" => armed' = NoRef)
    BY <1>1, <1>4 DEF Commit, Arms
  <1>6. GoodState(state')
    BY <1>2, <1>3, <1>5, ApplyGood
  <1>7. /\ op = "clear" => Ref(state') = NoRef /\ state'.id = None /\ state'.seen = state.seen
        /\ op # "clear" => /\ Ref(state') = Ref(c) /\ state'.id = c.id /\ state'.rev = c.rev
                           /\ state'.rounds = c.rounds /\ state'.seen = state.seen \cup {c.id}
    BY <1>4, <1>5 DEF ApplyChange, NoGoal, Ref, NoRef
  <1>8. /\ op = "create" => c.id \notin state.seen /\ c.rounds = 0
        /\ op \notin {"create", "clear"} => c.id = state.id /\ c.rev = state.rev + 1 /\ c.rounds = state.rounds
    BY <1>2, <1>4 DEF AcceptsChange
  <1>9. state.seen \subseteq Ids /\ state.rev \in Nat /\ (state.id # None => state.id \in state.seen)
        /\ (state.id = None => state.rev = 0)
    BY <1>3 DEF GoodState, GoalStates
  <1>10. \E e \in Events : e.event = "change" /\ e.ref = Ref(state') /\ log' = Append(log, e)
    <2>1. Ref(state') \in Refs
      BY <1>4, <1>7 DEF Refs, Ref
    <2>2. ChangeEvent(op, Ref(state')) \in Events
      BY <2>1 DEF ChangeEvent, Events
    <2>3. log' = Append(log, ChangeEvent(op, Ref(state')))
      BY <1>5, <1>7
    <2> QED
      BY <2>2, <2>3 DEF ChangeEvent
  <1>11. ASSUME NEW r \in Refs, Past(state, r) PROVE Old(state', r)
    <2>1. r.rev \in Nat
      BY DEF Refs, NoRef
    <2>2. r.id \in state.seen /\ (r.id = state.id => r.rev <= state.rev)
      BY <1>9, <1>11, <2>1 DEF Past, Old, Ref, NoRef
    <2>3. r.id # None
      BY <1>9, <2>2, IdsAssumption
    <2>4. CASE op = "clear"
      BY <1>7, <2>2, <2>3, <2>4 DEF Old
    <2>5. CASE op = "create"
      BY <1>7, <1>8, <2>2, <2>5 DEF Old
    <2>6. CASE op \notin {"create", "clear"}
      BY <1>7, <1>8, <1>9, <2>1, <2>2, <2>6 DEF Old
    <2> QED
      BY <2>4, <2>5, <2>6
  <1>12. NoRef.id \notin state'.seen
    BY <1>4, <1>7, <1>9, IdsAssumption DEF NoRef
  <1> QED
    BY <1>5, <1>7, <1>8, <1>10, <1>11, <1>12

\* What is armed after a commit was not current before it.
LEMMA ArmsNew ==
    ASSUME Inv, NEW op \in Operations, NEW ref, NEW code, Mutate(op, ref, code),
           NEW r \in Refs, Past(state, r)
    PROVE  armed' # r
  <1>1. Inv'
    BY MutateStep
  <1>2. Old(state', r) /\ armed' \in {NoRef, Ref(state')}
    BY Committed
  <1>3. state'.rev \in Nat /\ NoRef.id \notin state'.seen
    BY <1>1, Committed DEF Inv, GoodState, GoalStates
  <1>4. ~Old(state', Ref(state')) /\ ~Old(state', NoRef)
    BY <1>3 DEF Old, Ref
  <1> QED
    BY <1>2, <1>4

\* A committed operation.
LEMMA LogMutate ==
    ASSUME Inv, LogKept(state, log), NEW op \in Operations, NEW ref, NEW code, Mutate(op, ref, code)
    PROVE  LogKept(state', log')
  <1>1. PICK e \in Events : e.event = "change" /\ e.ref = Ref(state') /\ log' = Append(log, e)
    BY Committed
  <1>2. /\ \A r \in Refs : Past(state, r) => Old(state', r)
        /\ state.seen \subseteq state'.seen /\ NoRef.id \notin state'.seen
        /\ state'.id # None => \/ state'.id = state.id /\ state'.rounds = state.rounds
                               \/ state'.id \notin state.seen /\ state'.rounds = 0
    BY Committed
  <1>3. LogKept(state', Append(log, e))
    BY <1>1, <1>2, KeepChange
  <1> QED
    BY <1>1, <1>3

\* What an open, half or ended turn appends.
LEMMA EndEvents ==
    ASSUME NEW outcome \in Outcomes
    PROVE  EndEvent(outcome) \in Events /\ EndEvent(outcome).event = "end"
  BY DEF EndEvent, Events

\* The references of the sources.
LEMMA SourceRefs ==
    ASSUME NEW m \in Sources
    PROVE  m.ref \in Refs /\ m.round \in Nat
  BY DEF Sources

LEMMA LogOpen ==
    ASSUME Inv, Rounds, LogKept(state, log), Open
    PROVE  LogKept(state', log')
  <1>1. turn.from \in Sources /\ turn.from.ref \in Refs
    BY SourceRefs DEF Rounds, TurnShaped
  <1>2. GoodState(state) /\ state \in GoalStates
    BY DEF Inv, GoodState
  <1>3. log' = Append(log, OpenEvent(turn.from.ref))
    BY DEF Open
  <1>4. CASE turn.from = Human
    <2>1. state' = state /\ turn.from.ref = NoRef
      BY <1>4, HumanSource DEF Open
    <2> QED
      BY <1>1, <1>2, <1>3, <2>1, KeepOpen
  <1>5. CASE turn.from # Human
    <2>1. Admits(turn.from) /\ state' = [state EXCEPT !.rounds = @ + 1]
      BY <1>5 DEF Open, Admitted
    <2>2. turn.from.ref = Ref(state) /\ ~Revoked(Settlement(log, 0), turn.from.ref) /\ Ref(state) # NoRef
      BY <2>1 DEF Admits, AcceptsRound
    <2>3. state'.id = state.id /\ state'.rev = state.rev /\ state'.seen = state.seen /\ state'.rounds = state.rounds + 1
      BY <1>2, <2>1 DEF GoalStates
    <2> QED
      BY <1>1, <1>2, <1>3, <2>2, <2>3, KeepOpen
  <1> QED
    BY <1>4, <1>5

LEMMA LogOpenHalf ==
    ASSUME Inv, LogKept(state, log), OpenHalf
    PROVE  LogKept(state', log')
  <1>1. state' = state /\ GoodState(state) /\ log \in Seq(Events)
    BY DEF OpenHalf, Inv, LogKept
  <1>2. PICK outcome \in {"error", "canceled"} : log' = log \o <<OpenEvent(NoRef), EndEvent(outcome)>>
    BY DEF OpenHalf
  <1>3. NoRef \in Refs /\ outcome \in Outcomes
    BY DEF Refs, Outcomes
  <1>4. LogKept(state, Append(log, OpenEvent(NoRef)))
    BY <1>1, <1>3, KeepOpen
  <1>5. EndEvent(outcome) \in Events /\ EndEvent(outcome).event = "end" /\ OpenEvent(NoRef) \in Events
    BY <1>3, EndEvents DEF OpenEvent, Events
  <1>6. LogKept(state, Append(Append(log, OpenEvent(NoRef)), EndEvent(outcome)))
    BY <1>1, <1>4, <1>5, KeepEnd
  <1>7. log' = Append(Append(log, OpenEvent(NoRef)), EndEvent(outcome))
    BY <1>1, <1>2, <1>5
  <1> QED
    BY <1>1, <1>6, <1>7

\* A turn that ends.
LEMMA LogEnd ==
    ASSUME Inv, LogKept(state, log), state' = state, NEW outcome \in Outcomes, log' = Append(log, EndEvent(outcome))
    PROVE  LogKept(state', log')
  BY EndEvents, KeepEnd DEF Inv

LEMMA LogInit == Init => LogKept(state, log)
  <1> SUFFICES ASSUME Init PROVE LogKept(state, log)
    OBVIOUS
  <1>1. log = <<>> /\ state = NoGoal
    BY DEF Init
  <1>2. log \in Seq(Events) /\ DOMAIN log = {} /\ Len(log) = 0
    BY <1>1
  <1>3. Settlement(log, 0) = Unsettled
    BY <1>2, ScanIs DEF Settlement
  <1>4. Remembered(state, Unsettled)
    BY <1>1 DEF Remembered, Unsettled, NoGoal, Ref, NoRef
  <1>5. state.id = None
    BY <1>1 DEF NoGoal
  <1> QED
    BY <1>2, <1>3, <1>4, <1>5 DEF LogKept, OpenedKnown, Counts, StopsRemembered, NoneAfterStop

\* The log after every step.
LEMMA LogKeptStep == Inv /\ Rounds /\ LogKept(state, log) /\ [Next]_vars => LogKept(state, log)'
  <1> SUFFICES ASSUME Inv, Rounds, LogKept(state, log), [Next]_vars PROVE LogKept(state', log')
    OBVIOUS
  <1>0. CASE UNCHANGED <<state, log>>
    BY <1>0
  <1>1. CASE \E op \in Operations \ {"complete", "block"} : Command(op)
    BY <1>1, LogMutate DEF Command
  <1>2. CASE \/ Submit \/ Steer \/ Interrupt \/ ToolRejected \/ \E a \in {"host", "model"} : Notified(a)
             \/ \E op \in Operations : Call(op)
    BY <1>0, <1>2 DEF Submit, Steer, Interrupt, Notified, ToolRejected, Call, goalVars
  <1>3. CASE Worker
    <2>1. CASE Open
      BY <2>1, LogOpen
    <2>2. CASE Begin \/ Refuse \/ OpenNothing \/ EndLost
      BY <1>0, <2>2 DEF Begin, Refuse, OpenNothing, EndLost, goalVars
    <2>3. CASE OpenHalf
      BY <2>3, LogOpenHalf
    <2>4. CASE Ends
      <3>1. PICK outcome \in {"completed", "canceled", "error", "max_tokens"} : EndTurn(outcome)
        BY <2>4 DEF Ends
      <3>2. outcome \in Outcomes /\ state' = state /\ log' = Append(log, EndEvent(outcome))
        BY <3>1 DEF EndTurn, Outcomes
      <3> QED
        BY <3>2, LogEnd
    <2> QED
      BY <1>3, <2>1, <2>2, <2>3, <2>4 DEF Worker
  <1>4. CASE ToolMutates
    <2>1. PICK op, ref, code : op = tool.op /\ Mutate(op, ref, code)
      BY <1>4 DEF ToolMutates
    <2>2. op \in Operations
      BY <2>1 DEF Mutate, Mutations, Builds, Operations
    <2> QED
      BY <2>1, <2>2, LogMutate
  <1>5. CASE Driver
    <2>0. "pause" \in Operations /\ "block" \in Operations
      BY DEF Operations
    <2>1. CASE SettlePauses
      BY <2>0, <2>1, LogMutate DEF SettlePauses
    <2>2. CASE Block
      BY <1>0, <2>0, <2>2, LogMutate DEF Block, goalVars
    <2>3. CASE SettleAbandons \/ SettleDisarms \/ RoundFails
      BY <1>0, <2>3 DEF SettleAbandons, SettleDisarms, RoundFails
    <2>4. CASE WhenIdle \/ Settle \/ IsArmed \/ SettlePauseFails \/ Get
      BY <1>0, <2>4 DEF WhenIdle, Settle, IsArmed, SettlePauseFails, Get, goalVars
    <2>5. CASE Followup \/ FollowupFails \/ RoundEnds \/ RoundInterrupted \/ RoundDrains \/ Wait
      BY <1>0, <2>5 DEF Followup, FollowupFails, RoundEnds, RoundInterrupted, RoundDrains, Wait, goalVars
    <2> QED
      BY <1>5, <2>1, <2>2, <2>3, <2>4, <2>5 DEF Driver
  <1>6. CASE Stop
    BY <1>0, <1>6 DEF Stop
  <1>7. CASE Restart
    <2>1. state' = state /\ (log' = log \/ log' = Append(log, EndEvent("interrupted")))
      BY <1>7 DEF Restart
    <2>2. "interrupted" \in Outcomes
      BY DEF Outcomes
    <2> QED
      BY <1>0, <2>1, <2>2, LogEnd
  <1>8. CASE UNCHANGED vars
    BY <1>0, <1>8 DEF vars, goalVars
  <1> QED
    BY <1>1, <1>2, <1>3, <1>4, <1>5, <1>6, <1>7, <1>8 DEF Next

\* The rounds a goal counts are the rounds opened for it, and no round of a revision
\* opens after a turn that stopped it, through every interleaving of people, tools,
\* the driver, failures, shutdown and crashes (Admit, Apply of turn records, Settle).
THEOREM RoundsAlwaysKept == Spec => []RoundsKept
  <1>1. LogKept(state, log) => RoundsKept
    BY DEF LogKept, RoundsKept, RoundsCounted, NoRoundAfterStop, Counts, OpenedFor, NoneAfterStop,
       IsOpened, IsStop, StoppedAt
  <1> QED
    BY InvInit, InvStep, RoundsInit, RoundsStep, LogInit, LogKeptStep, <1>1, PTL DEF Spec
-----------------------------------------------------------------------------
(* What a step does to the revisions a log revokes.                        *)

\* A turn record leaves what the two scans say of a revision in step.
LEMMA SinceEvent ==
    ASSUME NEW l \in Seq(Events), NEW e \in Events, e.event \in {"open", "end"},
           NEW r, NEW after \in 0..Len(l), NEW done \in BOOLEAN, RevokedSince(l, r, after, done), r # NoRef
    PROVE  RevokedSince(Append(l, e), r, after, done)
  <1> DEFINE f == Settlement(l, 0)
             g == Settlement(l, after)
             m == Settlement(Append(l, e), 0)
             n == Settlement(Append(l, e), after)
  <1>1. 0 \in 0..Len(l) /\ Len(l) \in 0..Len(l) /\ after \in Nat /\ 0 \in Nat
    OBVIOUS
  <1>2. f \in Folded /\ g \in Folded
    BY <1>1, ScanFolded DEF Settlement
  <1>3. f.current = g.current /\ f.round = g.round
    BY ScanCheckpoint
  <1>4. m = SettleEvent(f, e, TRUE) /\ n = SettleEvent(g, e, TRUE)
    BY <1>1, ScanAppend
  <1>5. /\ f.pause = r => g.pause = r \/ done
        /\ r \in f.disarm => r \in g.disarm \/ done
    BY DEF RevokedSince
  <1> HIDE DEF f, g, m, n
  <1>6. PICK c \in BOOLEAN : c /\ m = SettleEvent(f, e, c) /\ n = SettleEvent(g, e, c)
    BY <1>4, Zenon
  <1>7. CASE e.event = "open"
    <2>1. m.pause = f.pause /\ m.disarm = f.disarm /\ n.pause = g.pause /\ n.disarm = g.disarm
      BY <1>2, <1>6, <1>7, EventOpen
    <2> QED
      BY <1>5, <2>1 DEF RevokedSince, f, g, m, n
  <1>8. CASE e.event = "end"
    <2>1. /\ Stopped(f) = Stopped(g)
          /\ Pauses(f, e.outcome) <=> Pauses(g, e.outcome)
          /\ Disarms(f, e.outcome) <=> Disarms(g, e.outcome)
      BY <1>3 DEF Stopped, Pauses, Disarms
    <2>2. CASE Pauses(f, e.outcome)
      <3>1. m.pause = f.round /\ n.pause = f.round /\ m.disarm = f.disarm /\ n.disarm = g.disarm
        BY <1>2, <1>3, <1>6, <1>8, <2>1, <2>2, EventEnd
      <3> QED
        BY <1>5, <3>1 DEF RevokedSince, m, n
    <2>3. CASE Disarms(f, e.outcome)
      <3>1. /\ m.disarm = f.disarm \cup {Stopped(f)} /\ n.disarm = g.disarm \cup {Stopped(f)}
            /\ m.pause = IF e.outcome # "canceled" /\ f.pause = Stopped(f) THEN NoRef ELSE f.pause
            /\ n.pause = IF e.outcome # "canceled" /\ g.pause = Stopped(f) THEN NoRef ELSE g.pause
        <4>1. Disarms(g, e.outcome) /\ Stopped(g) = Stopped(f)
          BY <2>1, <2>3
        <4>2. /\ m.disarm = f.disarm \cup {Stopped(f)}
              /\ m.pause = IF e.outcome # "canceled" /\ f.pause = Stopped(f) THEN NoRef ELSE f.pause
          BY <1>2, <1>6, <1>8, <2>3, EventEnd
        <4>3. /\ n.disarm = g.disarm \cup {Stopped(g)}
              /\ n.pause = IF e.outcome # "canceled" /\ g.pause = Stopped(g) THEN NoRef ELSE g.pause
          BY <1>2, <1>6, <1>8, <4>1, EventEnd
        <4> QED
          BY <4>1, <4>2, <4>3
      <3>2. m.pause = r => f.pause = r /\ ~(e.outcome # "canceled" /\ r = Stopped(f))
        BY <3>1
      <3>3. m.pause = r => n.pause = r \/ done
        BY <1>5, <3>1, <3>2
      <3>4. r \in m.disarm => r \in n.disarm \/ done
        BY <1>5, <3>1
      <3> QED
        BY <3>3, <3>4 DEF RevokedSince, m, n
    <2>4. CASE ~(Pauses(f, e.outcome) \/ Disarms(f, e.outcome))
      <3>1. m.pause = f.pause /\ m.disarm = f.disarm /\ n.pause = g.pause /\ n.disarm = g.disarm
        BY <1>2, <1>6, <1>8, <2>1, <2>4, EventEnd
      <3> QED
        BY <1>5, <3>1 DEF RevokedSince, f, g, m, n
    <2> QED
      BY <2>2, <2>3, <2>4
  <1> QED
    BY <1>7, <1>8

\* A turn record leaves the current revision revoked if it was.
LEMMA RevokedEvent ==
    ASSUME NEW s, GoodState(s), NEW l, LogKept(s, l), NEW e \in Events, e.event \in {"open", "end"},
           NEW r, Revoked(Settlement(l, 0), r), r # NoRef, ~Old(s, r)
    PROVE  Revoked(Settlement(Append(l, e), 0), r)
  <1> DEFINE f == Settlement(l, 0)
             g == Settlement(Append(l, e), 0)
  <1>1. l \in Seq(Events) /\ Remembered(s, f)
    BY DEF LogKept
  <1>2. f \in Folded /\ g = SettleEvent(f, e, TRUE)
    BY <1>1, Longer
  <1>3. Revoked(f, r)
    OBVIOUS
  <1> HIDE DEF f, g
  <1>4. PICK c \in BOOLEAN : c /\ g = SettleEvent(f, e, c)
    BY <1>2, Zenon
  <1>5. CASE e.event = "open"
    <2>0. f \in Folded
      BY <1>2
    <2>1. g.pause = f.pause /\ g.disarm = f.disarm
      BY <1>4, <1>5, <2>0, EventOpen
    <2> QED
      BY <1>3, <2>1 DEF Revoked, g
  <1>6. CASE e.event = "end"
    <2>0. f \in Folded
      BY <1>2
    <2>1. /\ Pauses(f, e.outcome) => g.pause = f.round /\ g.disarm = f.disarm
          /\ Disarms(f, e.outcome) =>
                /\ g.disarm = f.disarm \cup {Stopped(f)}
                /\ g.pause = IF e.outcome # "canceled" /\ f.pause = Stopped(f) THEN NoRef ELSE f.pause
          /\ ~(Pauses(f, e.outcome) \/ Disarms(f, e.outcome)) => g.pause = f.pause /\ g.disarm = f.disarm
      BY <1>4, <1>6, <2>0, EventEnd
    <2>2. CASE Pauses(f, e.outcome)
      BY <1>1, <1>3, <2>1, <2>2 DEF Remembered, Pauses, Revoked, g
    <2>3. CASE Disarms(f, e.outcome)
      BY <1>3, <2>1, <2>3 DEF Revoked, g
    <2>4. CASE ~(Pauses(f, e.outcome) \/ Disarms(f, e.outcome))
      BY <1>3, <2>1, <2>4 DEF Revoked, g
    <2> QED
      BY <2>2, <2>3, <2>4
  <1> QED
    BY <1>5, <1>6

\* A step that keeps the goal, up to one more round, and at most forgets the
\* activation; the turn records it appends keep the scans in step.
Calm ==
    /\ armed' \in {armed, NoRef}
    /\ state'.id = state.id /\ state'.rev = state.rev /\ state'.seen = state.seen
    /\ state'.cap = state.cap /\ state'.rounds \in {state.rounds, state.rounds + 1}
    /\ Len(log') \in Nat /\ Len(log') >= Len(log)
    /\ \A after \in 0..Len(log), done \in BOOLEAN : armed # NoRef =>
          (RevokedSince(log, armed, after, done) => RevokedSince(log', armed, after, done))
    /\ armed # NoRef /\ Revoked(Settlement(log, 0), armed) => Revoked(Settlement(log', 0), armed)

\* A step that commits a change: what is armed after it is new, and nothing revokes it.
Commits ==
    /\ \A r \in Refs : Past(state, r) => Past(state', r) /\ armed' # r
    /\ Len(log') \in Nat /\ Len(log') >= Len(log)
    /\ armed' # NoRef => ~Revoked(Settlement(log', 0), armed')

LEMMA MutateCommits ==
    ASSUME Inv, LogKept(state, log), NEW op \in Operations, NEW ref, NEW code, Mutate(op, ref, code)
    PROVE  Commits
  <1>1. PICK e \in Events : e.event = "change" /\ e.ref = Ref(state') /\ log' = Append(log, e)
    BY Committed
  <1>2. \A r \in Refs : Past(state, r) => Past(state', r) /\ armed' # r
    BY Committed, ArmsNew DEF Past
  <1> DEFINE f == Settlement(log, 0)
             g == Settlement(log', 0)
  <1>3. log \in Seq(Events) /\ Remembered(state, f)
    BY DEF LogKept
  <1>4. f \in Folded /\ g = SettleEvent(f, e, TRUE)
    BY <1>1, <1>3, Longer
  <1>5. Len(log') = Len(log) + 1 /\ Len(log) \in Nat
    BY <1>1, <1>3
  <1> HIDE DEF f, g
  <1>6. PICK c \in BOOLEAN : c /\ g = SettleEvent(f, e, c)
    BY <1>4, Zenon
  <1>7. (g.pause = NoRef /\ g.disarm = {}) \/ (g.pause = f.pause /\ g.disarm = f.disarm)
    <2>1. IF c /\ e.op \in {"create", "resume"}
          THEN SettleEvent(f, e, c).pause = NoRef /\ SettleEvent(f, e, c).disarm = {}
          ELSE SettleEvent(f, e, c).pause = f.pause /\ SettleEvent(f, e, c).disarm = f.disarm
      BY <1>1, <1>4, EventChange
    <2> QED
      BY <1>6, <2>1
  <1>8. f.pause \in Refs /\ f.disarm \subseteq Refs
    BY <1>4 DEF Folded
  <1>9. armed' # NoRef => ~Revoked(g, armed')
    BY <1>2, <1>3, <1>7, <1>8 DEF Remembered, Revoked
  <1> QED
    BY <1>2, <1>5, <1>9 DEF Commits, g

\* A step that keeps the goal and the log.
LEMMA KeepsCalm ==
    ASSUME Inv, LogKept(state, log), UNCHANGED <<state, log>>, armed' \in {armed, NoRef}
    PROVE  Calm
  <1>1. Len(log) \in Nat
    BY DEF LogKept
  <1> QED
    BY <1>1 DEF Calm

\* A step that appends one turn record.
LEMMA RecordCalm ==
    ASSUME Inv, LogKept(state, log), NEW e \in Events, e.event \in {"open", "end"}, log' = Append(log, e),
           armed' \in {armed, NoRef},
           state'.id = state.id, state'.rev = state.rev, state'.seen = state.seen,
           state'.cap = state.cap, state'.rounds \in {state.rounds, state.rounds + 1}
    PROVE  Calm
  <1>1. log \in Seq(Events) /\ GoodState(state) /\ state.rev \in Nat
    BY DEF LogKept, Inv, GoodState, GoalStates
  <1>2. Len(log') = Len(log) + 1 /\ Len(log) \in Nat
    BY <1>1
  <1>3. armed # NoRef => ~Old(state, armed)
    BY <1>1 DEF Inv, ArmedIsCurrent, Old, Ref
  <1>4. armed # NoRef /\ Revoked(Settlement(log, 0), armed) => Revoked(Settlement(log', 0), armed)
    BY <1>1, <1>3, RevokedEvent
  <1>5. ASSUME NEW after \in 0..Len(log), NEW done \in BOOLEAN, armed # NoRef,
               RevokedSince(log, armed, after, done)
        PROVE  RevokedSince(log', armed, after, done)
    BY <1>1, <1>5, SinceEvent
  <1> QED
    BY <1>2, <1>4, <1>5 DEF Calm

\* The half-opened turn appends two.
LEMMA HalfCalm ==
    ASSUME Inv, LogKept(state, log), OpenHalf
    PROVE  Calm
  <1>1. state' = state /\ armed' = armed /\ GoodState(state) /\ log \in Seq(Events) /\ state.rev \in Nat
    BY DEF OpenHalf, Inv, LogKept, GoodState, GoalStates
  <1>2. PICK outcome \in {"error", "canceled"} : log' = log \o <<OpenEvent(NoRef), EndEvent(outcome)>>
    BY DEF OpenHalf
  <1>3. NoRef \in Refs /\ outcome \in Outcomes
    BY DEF Refs, Outcomes
  <1> DEFINE d == OpenEvent(NoRef)
             e == EndEvent(outcome)
             half == Append(log, d)
  <1>4. d \in Events /\ d.event = "open" /\ e \in Events /\ e.event = "end"
    BY <1>3, EndEvents DEF OpenEvent, Events
  <1>5. LogKept(state, half)
    BY <1>1, <1>3, KeepOpen
  <1> HIDE DEF d, e
  <1>6. log' = Append(half, e) /\ half \in Seq(Events) /\ Len(half) = Len(log) + 1 /\ Len(log) \in Nat
    BY <1>1, <1>2, <1>4 DEF d, e
  <1>7. Len(log') = Len(log) + 2
    BY <1>4, <1>6
  <1>8. armed # NoRef => ~Old(state, armed)
    BY <1>1 DEF Inv, ArmedIsCurrent, Old, Ref
  <1>9. ASSUME armed # NoRef, Revoked(Settlement(log, 0), armed)
        PROVE  Revoked(Settlement(log', 0), armed)
    <2>1. Revoked(Settlement(half, 0), armed)
      BY <1>1, <1>4, <1>8, <1>9, RevokedEvent
    <2> HIDE DEF half
    <2> QED
      BY <1>1, <1>4, <1>5, <1>6, <1>8, <1>9, <2>1, RevokedEvent
  <1>10. ASSUME NEW after \in 0..Len(log), NEW done \in BOOLEAN, armed # NoRef,
                RevokedSince(log, armed, after, done)
         PROVE  RevokedSince(log', armed, after, done)
    <2>1. RevokedSince(half, armed, after, done)
      BY <1>1, <1>4, <1>10, SinceEvent
    <2>2. after \in 0..Len(half)
      BY <1>6
    <2> HIDE DEF half
    <2> QED
      BY <1>4, <1>6, <1>10, <2>1, <2>2, SinceEvent
  <1> QED
    BY <1>1, <1>6, <1>7, <1>9, <1>10 DEF Calm
Moves == Calm \/ Commits

\* Every step keeps the goal and at most forgets the activation, or commits a change.
LEMMA StepMoves ==
    ASSUME Inv, Rounds, LogKept(state, log), [Next]_vars
    PROVE  Moves
  <1>0. ASSUME UNCHANGED <<state, log>>, armed' \in {armed, NoRef} PROVE Moves
    BY <1>0, KeepsCalm DEF Moves
  <1>1. CASE \E op \in Operations \ {"complete", "block"} : Command(op)
    BY <1>1, MutateCommits DEF Command, Moves
  <1>2. CASE \/ Submit \/ Steer \/ Interrupt \/ ToolRejected \/ \E a \in {"host", "model"} : Notified(a)
             \/ \E op \in Operations : Call(op)
    BY <1>0, <1>2 DEF Submit, Steer, Interrupt, Notified, ToolRejected, Call, goalVars
  <1>3. CASE Worker
    <2>1. CASE Open
      <3>1. turn.from.ref \in Refs
        BY SourceRefs DEF Rounds, TurnShaped
      <3>2. OpenEvent(turn.from.ref) \in Events /\ OpenEvent(turn.from.ref).event = "open"
        BY <3>1 DEF OpenEvent, Events
      <3>3. log' = Append(log, OpenEvent(turn.from.ref)) /\ armed' = armed
        BY <2>1 DEF Open
      <3>4. state' = state \/ state' = [state EXCEPT !.rounds = @ + 1]
        BY <2>1 DEF Open
      <3>5. /\ state'.id = state.id /\ state'.rev = state.rev /\ state'.seen = state.seen
            /\ state'.cap = state.cap /\ state'.rounds \in {state.rounds, state.rounds + 1}
        BY <3>4 DEF Inv, GoodState, GoalStates
      <3> QED
        BY <3>2, <3>3, <3>5, RecordCalm DEF Moves
    <2>2. CASE Begin \/ Refuse \/ OpenNothing \/ EndLost
      BY <1>0, <2>2 DEF Begin, Refuse, OpenNothing, EndLost, goalVars
    <2>3. CASE OpenHalf
      BY <2>3, HalfCalm DEF Moves
    <2>4. CASE Ends
      <3>1. PICK outcome \in {"completed", "canceled", "error", "max_tokens"} : EndTurn(outcome)
        BY <2>4 DEF Ends
      <3>2. /\ outcome \in Outcomes /\ state' = state /\ armed' = armed
            /\ log' = Append(log, EndEvent(outcome))
        BY <3>1 DEF EndTurn, Outcomes
      <3>3. EndEvent(outcome) \in Events /\ EndEvent(outcome).event = "end"
        BY <3>2, EndEvents
      <3> QED
        BY <3>2, <3>3, RecordCalm DEF Moves
    <2> QED
      BY <1>3, <2>1, <2>2, <2>3, <2>4 DEF Worker
  <1>4. CASE ToolMutates
    <2>1. PICK op, ref, code : op = tool.op /\ Mutate(op, ref, code)
      BY <1>4 DEF ToolMutates
    <2>2. op \in Operations
      BY <2>1 DEF Mutate, Mutations, Builds, Operations
    <2> QED
      BY <2>1, <2>2, MutateCommits DEF Moves
  <1>5. CASE Driver
    <2>0. "pause" \in Operations /\ "block" \in Operations
      BY DEF Operations
    <2>1. CASE SettlePauses
      BY <2>0, <2>1, MutateCommits DEF SettlePauses, Moves
    <2>2. CASE Block
      <3>1. Mutate("block", view.from.ref, view.code) \/ UNCHANGED goalVars
        BY <2>2 DEF Block
      <3> QED
        BY <1>0, <2>0, <3>1, MutateCommits DEF goalVars, Moves
    <2>3. CASE SettleAbandons \/ SettleDisarms \/ RoundFails
      BY <1>0, <2>3 DEF SettleAbandons, SettleDisarms, RoundFails, Disarmed
    <2>4. CASE WhenIdle \/ Settle \/ IsArmed \/ SettlePauseFails \/ Get
      BY <1>0, <2>4 DEF WhenIdle, Settle, IsArmed, SettlePauseFails, Get, goalVars
    <2>5. CASE Followup \/ FollowupFails \/ RoundEnds \/ RoundInterrupted \/ RoundDrains \/ Wait
      BY <1>0, <2>5 DEF Followup, FollowupFails, RoundEnds, RoundInterrupted, RoundDrains, Wait, goalVars
    <2> QED
      BY <1>5, <2>1, <2>2, <2>3, <2>4, <2>5 DEF Driver
  <1>6. CASE Stop
    BY <1>0, <1>6 DEF Stop
  <1>7. CASE Restart
    <2>1. state' = state /\ armed' = NoRef /\ (log' = log \/ log' = Append(log, EndEvent("interrupted")))
      BY <1>7 DEF Restart
    <2>2. EndEvent("interrupted") \in Events /\ EndEvent("interrupted").event = "end"
      BY EndEvents DEF Outcomes
    <2>3. CASE log' = log
      BY <1>0, <2>1, <2>3
    <2>4. CASE log' = Append(log, EndEvent("interrupted"))
      BY <2>1, <2>2, <2>4, RecordCalm DEF Moves
    <2> QED
      BY <2>1, <2>3, <2>4
  <1>8. CASE UNCHANGED vars
    BY <1>0, <1>8 DEF vars, goalVars
  <1> QED
    BY <1>1, <1>2, <1>3, <1>4, <1>5, <1>6, <1>7, <1>8 DEF Next

\* What is true of a revision or of a round stays true.
LEMMA PastStays ==
    ASSUME Moves, NEW r \in Refs, Past(state, r)
    PROVE  Past(state', r)
  BY DEF Moves, Calm, Commits, Past, Old, Ref

LEMMA PastNotNone ==
    ASSUME Inv, NEW r, Past(state, r)
    PROVE  r # NoRef
  BY IdsAssumption DEF Inv, GoodState, GoalStates, Past, Old, NoRef

LEMMA GoneStays ==
    ASSUME Inv, Moves, NEW m \in Sources, Past(state, m.ref), Gone(state, armed, m)
    PROVE  Gone(state', armed', m)
  <1>1. m.ref \in Refs /\ m.round \in Nat /\ m.ref # NoRef /\ state.rounds \in Nat
    BY SourceRefs, PastNotNone DEF Inv, GoodState, GoalStates
  <1>2. CASE Calm
    BY <1>1, <1>2 DEF Calm, Gone
  <1>3. CASE Commits
    BY <1>1, <1>3 DEF Commits, Gone
  <1> QED
    BY <1>2, <1>3 DEF Moves

LEMMA HopelessStays ==
    ASSUME Inv, Moves, NEW m \in Sources, Hopeless(state, log, armed, m)
    PROVE  Hopeless(state', log', armed', m)
  <1>1. m.ref \in Refs /\ m.ref # NoRef /\ Past(state, m.ref) /\ Past(state', m.ref)
    BY SourceRefs, PastNotNone, PastStays DEF Hopeless
  <1>2. CASE Gone(state, armed, m)
    BY <1>1, <1>2, GoneStays DEF Hopeless
  <1>3. CASE ~Gone(state, armed, m) /\ Calm
    <2>1. armed = m.ref /\ Revoked(Settlement(log, 0), m.ref)
      BY <1>3 DEF Hopeless, Gone
    <2>2. Revoked(Settlement(log', 0), m.ref)
      BY <1>1, <1>3, <2>1 DEF Calm
    <2> QED
      BY <1>1, <2>2 DEF Hopeless
  <1>4. CASE Commits
    BY <1>1, <1>4 DEF Commits, Hopeless, Gone
  <1> QED
    BY <1>2, <1>3, <1>4 DEF Moves

Within(s, a, m) == a = m.ref => m.round <= s.rounds + 1 /\ m.round <= s.cap

LEMMA WithinStays ==
    ASSUME Inv, Moves, NEW m \in Sources, Past(state, m.ref), Within(state, armed, m)
    PROVE  Within(state', armed', m)
  <1>1. m.ref \in Refs /\ m.round \in Nat /\ m.ref # NoRef /\ state.rounds \in Nat
    BY SourceRefs, PastNotNone DEF Inv, GoodState, GoalStates
  <1>2. CASE Calm
    BY <1>1, <1>2 DEF Calm, Within
  <1>3. CASE Commits
    BY <1>1, <1>3 DEF Commits, Within
  <1> QED
    BY <1>2, <1>3 DEF Moves

Since(after, done) == armed # NoRef => RevokedSince(log, armed, after, done)

LEMMA SinceStays ==
    ASSUME Inv, LogKept(state, log), Moves, NEW after \in 0..Len(log), NEW done \in BOOLEAN, Since(after, done)
    PROVE  after \in 0..Len(log') /\ (armed' # NoRef => RevokedSince(log', armed', after, done))
  <1>1. Len(log) \in Nat
    BY DEF LogKept
  <1>2. CASE Calm
    BY <1>1, <1>2 DEF Calm, Since
  <1>3. CASE Commits
    BY <1>1, <1>3 DEF Commits, RevokedSince, Revoked
  <1> QED
    BY <1>2, <1>3 DEF Moves
-----------------------------------------------------------------------------
(* The driver and what it was refused.                                     *)

\* What the driver has settled stays settled while it holds the same checkpoint,
\* and what it is about to disarm stays due.
LEMMA SettlesStays ==
    ASSUME Inv, LogKept(state, log), Moves, Settles, UNCHANGED <<seen, plan, dpc>>
    PROVE  Settles'
  <1>1. /\ seen \in 0..Len(log) /\ Since(seen, FALSE)
        /\ dpc \in Settling => plan.last \in 0..Len(log) /\ Since(plan.last, Due(dpc, plan, armed))
    BY DEF Settles, Since
  <1>2. seen \in 0..Len(log') /\ (armed' # NoRef => RevokedSince(log', armed', seen, FALSE))
    BY <1>1, SinceStays
  <1>3. ASSUME dpc \in Settling
        PROVE  /\ plan.last \in 0..Len(log')
               /\ armed' # NoRef => RevokedSince(log', armed', plan.last, Due(dpc, plan, armed'))
    <2>0. \E done \in BOOLEAN : done <=> Due(dpc, plan, armed)
      <3>1. CASE Due(dpc, plan, armed)
        BY <3>1
      <3>2. CASE ~Due(dpc, plan, armed)
        BY <3>2
      <3> QED
        BY <3>1, <3>2
    <2>1. PICK done \in BOOLEAN : done <=> Due(dpc, plan, armed)
      BY <2>0
    <2>a. plan.last \in 0..Len(log) /\ Since(plan.last, done)
      BY <1>1, <1>3, <2>1 DEF Since, RevokedSince
    <2>b. plan.last \in 0..Len(log') /\ (armed' # NoRef => RevokedSince(log', armed', plan.last, done))
      BY <2>a, SinceStays
    <2>2. plan.last \in 0..Len(log') /\ (armed' # NoRef => RevokedSince(log', armed', plan.last, Due(dpc, plan, armed)))
      BY <2>1, <2>b DEF RevokedSince
    <2>3. CASE armed' = armed
      BY <2>2, <2>3
    <2>4. CASE armed' # armed
      <3>1. armed' # NoRef => ~Revoked(Settlement(log', 0), armed')
        BY <2>4 DEF Moves, Calm, Commits
      <3> QED
        BY <2>2, <3>1 DEF RevokedSince, Revoked
    <2> QED
      BY <2>3, <2>4
  <1> QED
    BY <1>2, <1>3 DEF Settles, Due

\* The last refusal while the driver does not move.
LEMMA RefusedStays ==
    ASSUME Inv, Moves, RefusedGone, UNCHANGED <<refused, dpc, plan>>
    PROVE  RefusedGone'
  <1>1. CASE refused = Human
    BY <1>1 DEF RefusedGone
  <1>2. CASE refused # Human
    <2>1. refused \in Sources /\ Past(state, refused.ref) /\ refused.ref \in Refs
      BY <1>2, SourceRefs DEF RefusedGone
    <2>2. /\ Past(state', refused.ref)
          /\ Gone(state, armed, refused) => Gone(state', armed', refused)
          /\ Hopeless(state, log, armed, refused) => Hopeless(state', log', armed', refused)
      BY <2>1, PastStays, GoneStays, HopelessStays
    <2>3. \A r : Due(dpc', plan', r) <=> Due(dpc, plan, r)
      BY DEF Due
    <2> QED
      BY <1>2, <2>1, <2>2, <2>3 DEF RefusedGone
  <1> QED
    BY <1>1, <1>2

\* The queued round while the driver does not move.
LEMMA QueuedStays ==
    ASSUME Inv, Rounds, Moves, Queued, UNCHANGED <<dpc, view>>,
           turn'.from \in {Human, view.from}, \A i \in 1..Len(queue') : queue'[i] \in {Human, view.from},
           reply' = "refused" => reply = "refused" \/ Hopeless(state, log, armed, view.from),
           stopping' = "down" => dpc = "stopped"
    PROVE  Queued'
  <1>1. view.from \in Sources /\ view.from.ref \in Refs
    BY SourceRefs DEF Rounds
  <1>2. ASSUME dpc \in {"queue", "await", "drain"}
        PROVE  Past(state', view.from.ref) /\ Within(state', armed', view.from)
    <2>1. Past(state, view.from.ref) /\ Within(state, armed, view.from)
      BY <1>2 DEF Queued, Within
    <2> QED
      BY <1>1, <2>1, PastStays, WithinStays
  <1>3. reply' = "refused" => Hopeless(state', log', armed', view.from)
    <2>1. reply' = "refused" => Hopeless(state, log, armed, view.from)
      BY DEF Queued
    <2> QED
      BY <1>1, <2>1, HopelessStays
  <1> QED
    BY <1>2, <1>3 DEF Queued, Within, Hopeless, Gone

\* Steps of everyone but the driver.
LEMMA AsideStays ==
    ASSUME Inv, Rounds, LogKept(state, log), Moves, DriverKept, UNCHANGED driverVars,
           turn'.from \in {Human, view.from}, \A i \in 1..Len(queue') : queue'[i] \in {Human, view.from},
           reply' = "refused" => reply = "refused" \/ Hopeless(state, log, armed, view.from),
           stopping' = "down" => dpc = "stopped"
    PROVE  DriverKept'
  <1>1. UNCHANGED <<seen, plan, dpc, view, refused>>
    BY DEF driverVars
  <1>2. Settles'
    BY <1>1, SettlesStays DEF DriverKept
  <1>3. RefusedGone'
    BY <1>1, RefusedStays DEF DriverKept
  <1>4. Queued'
    BY <1>1, QueuedStays DEF DriverKept
  <1> QED
    BY <1>1, <1>2, <1>3, <1>4 DEF DriverKept, RefusalExplained

\* Admission refuses a round only when it is gone or its revision is revoked.
LEMMA RefuseStays ==
    ASSUME Inv, Rounds, LogKept(state, log), Moves, DriverKept, Refuse
    PROVE  DriverKept'
  <1>1. /\ turn.from # Human /\ ~Admits(turn.from) /\ turn' = NoTurn /\ reply' = "refused"
        /\ queue' = queue /\ UNCHANGED <<driverVars, stopping>>
    BY DEF Refuse, Finish
  <1>2. dpc \in {"await", "drain"}
    BY <1>1 DEF Rounds, Quiet
  <1>3. turn.from = view.from /\ view.from \in Sources
    BY <1>1 DEF DriverKept, Queued, Rounds
  <1>4. Past(state, view.from.ref) /\ Within(state, armed, view.from) /\ stopping # "down"
    BY <1>2 DEF DriverKept, Queued, Within
  <1>5. Hopeless(state, log, armed, view.from)
    <2> SUFFICES ASSUME ~Gone(state, armed, view.from) PROVE Revoked(Settlement(log, 0), view.from.ref)
      BY <1>4 DEF Hopeless
    <2>1. armed = view.from.ref /\ ~(state.rounds >= view.from.round) /\ armed # NoRef
      BY <1>4, PastNotNone DEF Gone
    <2>2. armed = Ref(state) /\ state.phase = "active" /\ state.rounds \in Nat
      BY <2>1 DEF Inv, ArmedIsCurrent, GoodState, GoalStates
    <2>3. view.from.round = state.rounds + 1 /\ view.from.round <= state.cap
      BY <1>3, <1>4, <2>1, <2>2, SourceRefs DEF Within
    <2>4. AcceptsRound(state, view.from.ref, view.from.round)
      BY <2>1, <2>2, <2>3 DEF AcceptsRound
    <2> QED
      BY <1>1, <1>3, <1>4, <2>1, <2>2, <2>4 DEF Admits, Running
  <1>6. turn'.from = Human /\ \A i \in 1..Len(queue') : queue'[i] \in {Human, view.from}
    BY <1>1 DEF NoTurn, DriverKept, Queued
  <1> QED
    BY <1>1, <1>4, <1>5, <1>6, AsideStays DEF DriverKept, Queued

\* People, tools, the worker, shutdown.
LEMMA OthersStay ==
    ASSUME Inv, Rounds, LogKept(state, log), Moves, DriverKept,
           \/ \E op \in Operations : Command(op) \/ Call(op)
           \/ Submit \/ Steer \/ Interrupt \/ ToolMutates \/ ToolRejected \/ Worker \/ Stop
           \/ UNCHANGED vars
           \/ \E a \in {"host", "model"} : Notified(a)
    PROVE  DriverKept'
  <1>0. /\ turn.from \in {Human, view.from} /\ \A i \in 1..Len(queue) : queue[i] \in {Human, view.from}
        /\ stopping = "down" => dpc = "stopped"
    BY DEF DriverKept, Queued
  <1>1. CASE (\E op \in Operations : Command(op) \/ Call(op)) \/ ToolMutates \/ ToolRejected
    <2>1. UNCHANGED <<driverVars, queue, turn, reply, stopping>>
      BY <1>1 DEF Command, Call, ToolMutates, ToolRejected, agentVars
    <2> QED
      BY <1>0, <2>1, AsideStays
  <1>2. CASE Submit
    <2>1. queue' = Append(queue, Human) /\ UNCHANGED <<driverVars, turn, reply, stopping>>
      BY <1>2 DEF Submit
    <2>2. queue \in Seq(Sources)
      BY DEF Rounds
    <2>3. \A i \in 1..Len(queue') : queue'[i] \in {Human, view.from}
      BY <1>0, <2>1, <2>2
    <2> QED
      BY <1>0, <2>1, <2>3, AsideStays
  <1>3. CASE Steer \/ Interrupt \/ \E a \in {"host", "model"} : Notified(a)
    <2>1. UNCHANGED <<driverVars, queue, reply, stopping>> /\ turn'.from = turn.from
      BY <1>3, TurnEdited DEF Steer, Interrupt, Notified, Rounds, TurnShaped
    <2> QED
      BY <1>0, <2>1, AsideStays
  <1>4. CASE Stop
    <2>1. UNCHANGED <<driverVars, queue, turn, reply>> /\ (stopping' = "down" => dpc = "stopped")
      BY <1>4 DEF Stop, agentVars
    <2> QED
      BY <1>0, <2>1, AsideStays
  <1>5. CASE Worker
    <2>1. CASE Begin
      <3>1. /\ queue # <<>> /\ queue' = Tail(queue) /\ turn'.from = Head(queue)
            /\ UNCHANGED <<driverVars, reply, stopping>>
        BY <2>1 DEF Begin
      <3>2. queue \in Seq(Sources)
        BY DEF Rounds
      <3>3. Head(queue) = queue[1] /\ 1 \in 1..Len(queue)
        BY <3>1, <3>2
      <3>4. \A i \in 1..Len(Tail(queue)) : Tail(queue)[i] = queue[i + 1] /\ i + 1 \in 1..Len(queue)
        BY <3>1, <3>2
      <3>5. turn'.from \in {Human, view.from} /\ \A i \in 1..Len(queue') : queue'[i] \in {Human, view.from}
        BY <1>0, <3>1, <3>3, <3>4
      <3> QED
        BY <1>0, <3>1, <3>5, AsideStays
    <2>2. CASE Refuse
      BY <2>2, RefuseStays
    <2>3. CASE Open
      <3>1. UNCHANGED <<driverVars, queue, reply, stopping>> /\ turn'.from = turn.from
        BY <2>3 DEF Open, Rounds, TurnShaped
      <3> QED
        BY <1>0, <3>1, AsideStays
    <2>4. CASE OpenNothing \/ OpenHalf \/ Ends \/ EndLost
      <3>1. \E result \in {"err", "ok"} : Finish(result)
        BY <2>4 DEF OpenNothing, OpenHalf, Ends, EndTurn, EndLost
      <3>2. /\ turn'.from = Human /\ UNCHANGED <<driverVars, queue, stopping>>
            /\ reply' \in {reply, "err", "ok"}
        BY <3>1 DEF Finish, NoTurn
      <3> QED
        BY <1>0, <3>2, AsideStays
    <2> QED
      BY <1>5, <2>1, <2>2, <2>3, <2>4 DEF Worker
  <1>6. CASE UNCHANGED vars
    <2>1. UNCHANGED <<driverVars, queue, turn, reply, stopping>>
      BY <1>6 DEF vars, agentVars
    <2> QED
      BY <1>0, <2>1, AsideStays
  <1> QED
    BY <1>1, <1>2, <1>3, <1>4, <1>5, <1>6
LEMMA NoPlanShaped == NoPlan \in Plans
  <1>1. NoRef \in Refs /\ {} \in SUBSET Refs /\ 0 \in Nat
    BY DEF Refs
  <1> QED
    BY <1>1 DEF NoPlan, Plans

\* A driver step outside a settlement keeps its checkpoint.
LEMMA SettlesMoves ==
    ASSUME Inv, LogKept(state, log), Moves, Settles, seen' = seen, dpc' \notin Settling, plan' \in {plan, NoPlan}
    PROVE  Settles'
  <1>1. seen \in 0..Len(log) /\ Since(seen, FALSE)
    BY DEF Settles, Since
  <1>2. seen \in 0..Len(log') /\ (armed' # NoRef => RevokedSince(log', armed', seen, FALSE))
    BY <1>1, SinceStays
  <1>3. dpc' \notin {"pausing", "abandon"}
    BY DEF Settling
  <1>4. plan' \in Plans
    BY NoPlanShaped DEF Settles
  <1> QED
    BY <1>2, <1>3, <1>4 DEF Settles

\* A driver step that has no round under way.
LEMMA QueuedMoves ==
    ASSUME Rounds, Queued, dpc \notin {"await", "drain", "stopped"}, dpc' \notin {"queue", "await", "drain"},
           UNCHANGED <<queue, turn, reply, stopping>>
    PROVE  Queued'
  <1>1. Quiet /\ reply = None /\ stopping # "down"
    BY DEF Rounds, Queued
  <1>2. reply # "refused"
    BY <1>1 DEF None
  <1> QED
    BY <1>1, <1>2 DEF Queued, Quiet, AllHuman

\* A driver step that keeps the last refusal.
LEMMA RefusedMoves ==
    ASSUME Inv, Moves, RefusedGone, refused' = refused,
           refused # Human =>
               /\ dpc' # "fail"
               /\ dpc' \in {"idle", "settle", "wait"} => dpc \in {"idle", "settle", "wait"}
               /\ dpc' \in Settling => Gone(state, armed, refused) \/ Gone(state', armed', refused) \/ Due(dpc', plan', refused.ref)
               /\ dpc' = "get" => Gone(state, armed, refused) \/ Gone(state', armed', refused)
    PROVE  RefusedGone'
  <1>1. CASE refused = Human
    BY <1>1 DEF RefusedGone
  <1>2. CASE refused # Human
    <2>1. refused \in Sources /\ Past(state, refused.ref) /\ refused.ref \in Refs
      BY <1>2, SourceRefs DEF RefusedGone
    <2>2. /\ Past(state', refused.ref)
          /\ Gone(state, armed, refused) => Gone(state', armed', refused)
          /\ Hopeless(state, log, armed, refused) => Hopeless(state', log', armed', refused)
      BY <2>1, PastStays, GoneStays, HopelessStays
    <2>4. dpc' \in {"idle", "settle", "wait"} => Hopeless(state', log', armed', refused')
      BY <1>2, <2>2 DEF RefusedGone
    <2>5. dpc' \in Settling => Gone(state', armed', refused') \/ Due(dpc', plan', refused'.ref)
      BY <1>2, <2>2
    <2>6. dpc' = "get" => Gone(state', armed', refused')
      BY <1>2, <2>2
    <2> QED
      BY <1>2, <2>1, <2>2, <2>4, <2>5, <2>6 DEF RefusedGone
  <1> QED
    BY <1>1, <1>2

\* Forgetting the refusal.
LEMMA RefusedForgotten ==
    ASSUME refused' = Human
    PROVE  RefusedGone'
  BY HumanSource DEF RefusedGone

\* Settle finds every stop of the armed revision after its checkpoint.
LEMMA SettleStays ==
    ASSUME Inv, Rounds, LogKept(state, log), Moves, DriverKept, Settle
    PROVE  DriverKept'
  <1>1. /\ dpc = "settle" /\ dpc' \in {"wait", "pause"}
        /\ UNCHANGED <<state, log, armed, queue, turn, reply, seen, view, refused, stopping>>
    BY DEF Settle, Goes, goalVars, agentVars
  <1>2. Queued'
    BY <1>1, QueuedMoves DEF DriverKept
  <1>3. CASE dpc' = "wait"
    <2>1. dpc' \notin Settling
      BY <1>3 DEF Settling
    <2>2. Settles'
      <3>1. plan' = plan
        BY <1>3 DEF Settle, Goes
      <3> QED
        BY <1>1, <2>1, <3>1, SettlesMoves DEF DriverKept
    <2>3. RefusedGone'
      BY <1>1, <1>3, <2>1, RefusedMoves DEF DriverKept
    <2> QED
      BY <1>1, <1>2, <2>2, <2>3 DEF DriverKept, RefusalExplained
  <1>4. CASE dpc' = "pause"
    <2> DEFINE f == Settlement(log, seen)
    <2>1. plan' = [pause |-> IF f.pause = Ref(state) /\ state.phase = "active" THEN f.pause ELSE NoRef,
                   disarm |-> f.disarm, last |-> Len(log)]
      BY <1>4 DEF Settle, Goes, Last
    <2> HIDE DEF f
    <2>2. /\ plan'.pause = IF f.pause = Ref(state) /\ state.phase = "active" THEN f.pause ELSE NoRef
          /\ plan'.disarm = f.disarm /\ plan'.last = Len(log)
      BY <2>1
    <2>3. \A r : Due(dpc', plan', r) <=> r = plan'.pause \/ (plan'.pause = NoRef /\ r \in f.disarm)
      BY <1>4, <2>2 DEF Due
    <2>4. armed # NoRef /\ Revoked(Settlement(log, 0), armed) => Due(dpc', plan', armed)
      <3> SUFFICES ASSUME armed # NoRef, Revoked(Settlement(log, 0), armed) PROVE Due(dpc', plan', armed)
        OBVIOUS
      <3>1. f.pause = armed \/ armed \in f.disarm
        BY DEF DriverKept, Settles, RevokedSince, Revoked, f
      <3>2. armed = Ref(state) /\ state.phase = "active"
        BY DEF Inv, ArmedIsCurrent
      <3> QED
        BY <2>2, <2>3, <3>1, <3>2
    <2>5. Len(log) \in 0..Len(log)
      BY DEF LogKept
    <2>6. Settles'
      <3>1. seen' \in 0..Len(log') /\ (armed' # NoRef => RevokedSince(log', armed', seen', FALSE))
        BY <1>1 DEF DriverKept, Settles
      <3>2. plan'.last \in 0..Len(log') /\ (armed' # NoRef => RevokedSince(log', armed', plan'.last, Due(dpc', plan', armed)))
        BY <1>1, <2>2, <2>4, <2>5 DEF RevokedSince, Revoked
      <3>3. plan' \in Plans
        <4>1. 0 \in Nat /\ Len(log) \in Nat /\ log \in Seq(Events) /\ seen \in 0..Len(log)
          BY DEF LogKept, DriverKept, Settles
        <4>2. seen \in Nat
          BY <4>1
        <4>3. f \in Folded
          BY <4>1, <4>2, <2>5, ScanFolded DEF f, Settlement
        <4>4. plan'.pause \in Refs /\ f.disarm \in SUBSET Refs
          BY <2>2, <4>3 DEF Folded, Refs
        <4>5. plan' = [pause |-> plan'.pause, disarm |-> f.disarm, last |-> Len(log)]
          BY <2>1, <2>2
        <4> QED
          BY <4>1, <4>4, <4>5 DEF Plans
      <3> QED
        BY <1>1, <1>4, <3>1, <3>2, <3>3 DEF Settles
    <2>7. refused # Human => Gone(state, armed, refused) \/ Due(dpc', plan', refused.ref)
      <3> SUFFICES ASSUME refused # Human, ~Gone(state, armed, refused) PROVE Due(dpc', plan', refused.ref)
        OBVIOUS
      <3>1. Hopeless(state, log, armed, refused)
        BY <1>1 DEF DriverKept, RefusedGone
      <3>2. armed = refused.ref /\ Revoked(Settlement(log, 0), refused.ref) /\ refused.ref # NoRef
        BY <3>1, PastNotNone DEF Hopeless, Gone
      <3> QED
        BY <1>1, <2>3, <2>4, <3>2
    <2>8. RefusedGone'
      BY <1>1, <1>4, <2>7, RefusedMoves DEF DriverKept
    <2> QED
      BY <1>1, <1>2, <2>6, <2>8 DEF DriverKept, RefusalExplained
  <1> QED
    BY <1>1, <1>3, <1>4

\* The settlement under way: what is due stays due until it is disarmed.
LEMMA SettlingStays ==
    ASSUME Inv, Rounds, LogKept(state, log), Moves, DriverKept,
           IsArmed \/ SettlePauses \/ SettlePauseFails \/ SettleAbandons
    PROVE  DriverKept'
  <1>1. /\ dpc \in {"pause", "pausing", "abandon"} /\ dpc' \in {"pausing", "disarm", "abandon", "get"}
        /\ UNCHANGED <<queue, turn, reply, seen, view, refused, stopping>>
    BY DEF IsArmed, SettlePauses, SettlePauseFails, SettleAbandons, Goes, agentVars
  <1>2. Queued'
    BY <1>1, QueuedMoves DEF DriverKept
  <1>3. dpc \in Settling
    BY <1>1 DEF Settling
  <1>4. RefusalExplained'
    BY <1>1 DEF DriverKept, RefusalExplained
  <1>5. refused # Human => Gone(state, armed, refused) \/ refused.ref = plan.pause \/ (plan.pause = NoRef /\ refused.ref \in plan.disarm)
    BY <1>1, <1>3 DEF DriverKept, RefusedGone, Due
  <1>6. /\ plan \in Plans /\ seen \in 0..Len(log) /\ plan.last \in 0..Len(log)
        /\ armed # NoRef => RevokedSince(log, armed, seen, FALSE) /\ RevokedSince(log, armed, plan.last, Due(dpc, plan, armed))
        /\ dpc \in {"pausing", "abandon"} => plan.pause # NoRef
    BY <1>3 DEF DriverKept, Settles
  <1>7. CASE IsArmed
    <2>1. /\ dpc = "pause" /\ UNCHANGED <<state, log, armed, plan>>
          /\ dpc' = IF plan.pause # NoRef /\ armed # NoRef THEN "pausing" ELSE "disarm"
      BY <1>7 DEF IsArmed, Goes, goalVars
    <2>2. armed # NoRef => (Due(dpc', plan', armed) <=> Due(dpc, plan, armed))
      BY <2>1 DEF Due
    <2>3. Settles'
      <3> QED
        BY <1>1, <1>6, <2>1, <2>2 DEF Settles, RevokedSince
    <2>4. refused # Human => Gone(state, armed, refused) \/ Due(dpc', plan', refused.ref)
      <3> SUFFICES ASSUME refused # Human, ~Gone(state, armed, refused) PROVE Due(dpc', plan', refused.ref)
        OBVIOUS
      <3>1. armed = refused.ref /\ refused.ref # NoRef
        BY PastNotNone DEF Gone, DriverKept, RefusedGone
      <3> QED
        BY <1>5, <2>1, <3>1 DEF Due
    <2>5. RefusedGone'
      BY <1>1, <2>1, <2>4, RefusedMoves DEF DriverKept
    <2> QED
      BY <1>2, <1>4, <2>3, <2>5 DEF DriverKept
  <1>8. CASE SettlePauses
    <2>1. /\ dpc' = "disarm" /\ plan' = plan /\ Mutate("pause", plan.pause, None)
      BY <1>8 DEF SettlePauses, Goes
    <2>2. "pause" \in Operations
      BY DEF Operations
    <2>3. armed' = NoRef
      BY <2>1, <2>2, Committed
    <2>4. seen \in 0..Len(log') /\ plan.last \in 0..Len(log')
      <3>1. Since(seen, FALSE) /\ Since(seen, TRUE) /\ Since(plan.last, TRUE)
        BY <1>6 DEF Since, RevokedSince
      <3> QED
        BY <1>6, <3>1, SinceStays
    <2>5. Settles'
      BY <1>1, <1>6, <2>1, <2>3, <2>4 DEF Settles
    <2>6. refused # Human => Gone(state', armed', refused)
      BY <2>3, PastNotNone DEF Gone, DriverKept, RefusedGone
    <2>7. RefusedGone'
      BY <1>1, <2>1, <2>6, RefusedMoves DEF DriverKept
    <2> QED
      BY <1>2, <1>4, <2>5, <2>7 DEF DriverKept
  <1>9. CASE SettlePauseFails
    <2>1. dpc = "pausing" /\ dpc' = "abandon" /\ UNCHANGED <<state, log, armed, plan>>
      BY <1>9 DEF SettlePauseFails, Goes, goalVars
    <2>2. \A r : Due(dpc', plan', r) <=> Due(dpc, plan, r)
      BY <2>1 DEF Due
    <2>3. Settles'
      <3> QED
        BY <1>1, <1>6, <2>1, <2>2 DEF Settles, RevokedSince
    <2>4. refused # Human => Gone(state, armed, refused) \/ Due(dpc', plan', refused.ref)
      BY <1>5, <2>1, <2>2 DEF Due
    <2>5. RefusedGone'
      BY <1>1, <2>1, <2>4, RefusedMoves DEF DriverKept
    <2> QED
      BY <1>2, <1>4, <2>3, <2>5 DEF DriverKept
  <1>10. CASE SettleAbandons
    <2>1. dpc = "abandon" /\ dpc' = "get" /\ armed' = Disarmed(plan.pause) /\ plan' = NoPlan
      BY <1>10 DEF SettleAbandons, Goes
    <2>2. Settles'
      BY <1>1, <2>1, SettlesMoves DEF DriverKept, Settling
    <2>3. refused # Human => Gone(state, armed, refused) \/ Gone(state', armed', refused)
      <3> SUFFICES ASSUME refused # Human, ~Gone(state, armed, refused) PROVE armed' # refused.ref
        BY <1>1 DEF Gone
      <3>1. armed = refused.ref /\ refused.ref # NoRef
        BY PastNotNone DEF Gone, DriverKept, RefusedGone
      <3>2. refused.ref = plan.pause
        BY <1>5, <1>6, <2>1
      <3> QED
        BY <2>1, <3>1, <3>2 DEF Disarmed
    <2>4. RefusedGone'
      BY <1>1, <2>1, <2>3, RefusedMoves DEF DriverKept, Settling
    <2> QED
      BY <1>2, <1>4, <2>2, <2>4 DEF DriverKept
  <1> QED
    BY <1>7, <1>8, <1>9, <1>10
\* One stopped revision after the other; then the checkpoint moves.
LEMMA DisarmsStay ==
    ASSUME Inv, Rounds, LogKept(state, log), Moves, DriverKept, SettleDisarms
    PROVE  DriverKept'
  <1>1. /\ dpc = "disarm" /\ dpc \in Settling
        /\ UNCHANGED <<state, log, queue, turn, reply, view, refused, stopping>>
    BY DEF SettleDisarms, Settling, agentVars
  <1>2. dpc' \in {"disarm", "get"}
    BY <1>1 DEF SettleDisarms, Goes
  <1>3. Queued'
    BY <1>1, <1>2, QueuedMoves DEF DriverKept
  <1>4. RefusalExplained'
    BY <1>1 DEF DriverKept, RefusalExplained
  <1>5. /\ plan \in Plans /\ seen \in 0..Len(log) /\ plan.last \in 0..Len(log)
        /\ armed # NoRef => RevokedSince(log, armed, seen, FALSE)
        /\ armed # NoRef => RevokedSince(log, armed, plan.last, armed \in plan.disarm)
    BY <1>1 DEF DriverKept, Settles, Due
  <1>6. refused # Human => Gone(state, armed, refused) \/ refused.ref \in plan.disarm
    BY <1>1 DEF DriverKept, RefusedGone, Due
  <1>7. CASE plan.disarm = {} /\ seen' = plan.last /\ plan' = NoPlan /\ dpc' = "get" /\ armed' = armed
    <2>1. Settles'
      BY <1>1, <1>5, <1>7, NoPlanShaped DEF Settles, RevokedSince, Settling
    <2>2. RefusedGone'
      BY <1>1, <1>6, <1>7, RefusedMoves DEF DriverKept, Settling
    <2> QED
      BY <1>3, <1>4, <2>1, <2>2 DEF DriverKept
  <1>8. CASE \E ref \in plan.disarm :
                /\ armed' = Disarmed(ref) /\ plan' = [plan EXCEPT !.disarm = @ \ {ref}]
                /\ UNCHANGED <<dpc, seen>>
    <2>1. PICK ref \in plan.disarm :
             /\ armed' = Disarmed(ref) /\ plan' = [plan EXCEPT !.disarm = @ \ {ref}]
             /\ UNCHANGED <<dpc, seen>>
      BY <1>8
    <2>2. /\ armed' = IF armed = ref THEN NoRef ELSE armed
          /\ plan' \in Plans /\ plan'.last = plan.last /\ plan'.disarm = plan.disarm \ {ref}
      BY <1>5, <2>1 DEF Disarmed, Plans
    <2>3. Settles'
      <3>1. armed' # NoRef => armed' = armed /\ (armed \in plan'.disarm <=> armed \in plan.disarm)
        BY <2>2
      <3> QED
        BY <1>1, <1>5, <2>1, <2>2, <3>1 DEF Settles, RevokedSince, Due
    <2>4. refused # Human => Gone(state', armed', refused) \/ refused.ref \in plan'.disarm
      BY <1>1, <1>6, <2>2, PastNotNone DEF Gone, DriverKept, RefusedGone
    <2>5. RefusedGone'
      BY <1>1, <2>1, <2>4, RefusedMoves DEF DriverKept, Due
    <2> QED
      BY <1>3, <1>4, <2>3, <2>5 DEF DriverKept
  <1> QED
    BY <1>7, <1>8 DEF SettleDisarms, Goes
\* What the driver decides: a round that was refused is gone when it looks again.
LEMMA GetStays ==
    ASSUME Inv, Rounds, LogKept(state, log), Moves, DriverKept, Get
    PROVE  DriverKept'
  <1>1. /\ dpc = "get" /\ dpc' \in {"queue", "block", "wait"} /\ dpc' \notin Settling
        /\ UNCHANGED <<state, log, armed, queue, turn, reply, seen, plan, stopping>>
    BY DEF Get, Goes, goalVars, agentVars, Settling
  <1>2. Settles'
    BY <1>1, SettlesMoves DEF DriverKept
  <1>3. Quiet /\ reply # "refused" /\ stopping # "down"
    BY <1>1 DEF Rounds, DriverKept, Queued, None
  <1>4. CASE ~(~Cancelled /\ state.phase = "active" /\ armed = Ref(state))
    <2>1. refused' = Human /\ dpc' = "wait" /\ view' = view
      BY <1>4 DEF Get, Goes
    <2>2. Queued'
      BY <1>1, <2>1, QueuedMoves DEF DriverKept
    <2> QED
      BY <1>2, <2>1, <2>2, RefusedForgotten DEF DriverKept, RefusalExplained
  <1>5. CASE ~Cancelled /\ state.phase = "active" /\ armed = Ref(state)
    <2> DEFINE next == Source(Ref(state), state.rounds + 1)
               code == IF refused = next THEN "prompt-rejected"
                       ELSE IF state.rounds >= state.cap THEN "round-limit" ELSE None
    <2>1. /\ view' = [from |-> next, code |-> code] /\ refused' = refused
          /\ dpc' = IF code = None THEN "queue" ELSE "block"
      BY <1>5 DEF Get, Goes
    <2>2. state.id # None /\ state.rev > 0 /\ state \in GoalStates
      BY <1>5 DEF Inv, GoodState, None
    <2>3. /\ Ref(state) # NoRef /\ state.rounds \in Nat /\ state.cap \in Nat
          /\ next.ref = Ref(state) /\ next.round = state.rounds + 1 /\ next # Human
      BY <2>2 DEF GoalStates, Ref, NoRef, Source, Human
    <2> HIDE DEF next
    <2>4. refused # next
      <3> SUFFICES ASSUME refused = next PROVE FALSE
        OBVIOUS
      <3>1. Gone(state, armed, refused)
        BY <1>1, <2>3 DEF DriverKept, RefusedGone
      <3> QED
        BY <1>5, <2>3, <3>1 DEF Gone
    <2>5. code # "prompt-rejected" /\ (code = None => state.rounds + 1 <= state.cap)
      BY <2>3, <2>4 DEF None
    <2> HIDE DEF code
    <2>6. view'.from = next /\ view'.code = code
      BY <2>1
    <2>7. dpc' = "queue" => Past(state, next.ref) /\ next.round <= state.rounds + 1 /\ next.round <= state.cap
      BY <2>1, <2>3, <2>5 DEF Past
    <2>8. Queued'
      BY <1>1, <1>3, <2>1, <2>6, <2>7 DEF Queued, Quiet, AllHuman
    <2>9. RefusedGone'
      BY <1>1, <2>1, RefusedMoves DEF DriverKept
    <2> QED
      BY <1>2, <2>5, <2>6, <2>8, <2>9 DEF DriverKept, RefusalExplained
  <1> QED
    BY <1>4, <1>5

\* The loop's other steps outside a round.
LEMMA LoopStays ==
    ASSUME Inv, Rounds, LogKept(state, log), Moves, DriverKept,
           WhenIdle \/ Block \/ FollowupFails \/ RoundFails \/ Wait
    PROVE  DriverKept'
  <1>1. /\ dpc \in {"idle", "block", "queue", "fail", "wait"} /\ dpc' \in {"settle", "idle", "block", "stopped"}
        /\ UNCHANGED <<queue, turn, reply, seen, plan, stopping>>
    BY DEF WhenIdle, Block, FollowupFails, RoundFails, Wait, Goes, agentVars
  <1>2. dpc' \notin Settling
    BY <1>1 DEF Settling
  <1>3. Settles'
    BY <1>1, <1>2, SettlesMoves DEF DriverKept
  <1>4. Queued'
    BY <1>1, QueuedMoves DEF DriverKept
  <1>5. RefusedGone'
    <2>1. CASE WhenIdle \/ Wait
      <3>1. refused' = refused /\ dpc \in {"idle", "wait"}
        BY <2>1 DEF WhenIdle, Wait
      <3> QED
        BY <1>1, <1>2, <3>1, RefusedMoves DEF DriverKept
    <2>2. CASE Block
      BY <2>2, RefusedForgotten DEF Block
    <2>3. CASE FollowupFails
      <3>1. refused' = refused /\ dpc' \in {"stopped", "block"}
        BY <2>3 DEF FollowupFails, Goes
      <3> QED
        BY <1>2, <3>1, RefusedMoves DEF DriverKept
    <2>4. CASE RoundFails
      <3>1. refused = Human /\ refused' = refused
        BY <2>4 DEF RoundFails, DriverKept, RefusedGone
      <3> QED
        BY <3>1, RefusedForgotten
    <2> QED
      BY <2>1, <2>2, <2>3, <2>4
  <1>6. view'.code # "prompt-rejected"
    <2>1. view' = view \/ view' = NoView \/ view' = [from |-> view.from, code |-> "queue-failed"]
      BY DEF WhenIdle, Block, FollowupFails, RoundFails, Wait
    <2> QED
      BY <2>1 DEF NoView, None, DriverKept, RefusalExplained
  <1> QED
    BY <1>3, <1>4, <1>5, <1>6 DEF DriverKept, RefusalExplained

\* The round under way.
LEMMA RoundStays ==
    ASSUME Inv, Rounds, LogKept(state, log), Moves, DriverKept,
           Followup \/ RoundEnds \/ RoundInterrupted \/ RoundDrains
    PROVE  DriverKept'
  <1>1. /\ dpc \in {"queue", "await", "drain"} /\ dpc' \in {"await", "fail", "idle", "drain", "stopped"}
        /\ UNCHANGED <<state, log, armed, seen, plan, stopping>>
    BY DEF Followup, RoundEnds, RoundInterrupted, RoundDrains, Goes, goalVars
  <1>2. dpc' \notin Settling
    BY <1>1 DEF Settling
  <1>3. Settles'
    BY <1>1, <1>2, SettlesMoves DEF DriverKept
  <1>4. /\ turn.from \in {Human, view.from} /\ \A i \in 1..Len(queue) : queue[i] \in {Human, view.from}
        /\ Past(state, view.from.ref) /\ stopping # "down"
        /\ armed = view.from.ref => view.from.round <= state.rounds + 1 /\ view.from.round <= state.cap
        /\ reply = "refused" => Hopeless(state, log, armed, view.from)
        /\ queue \in Seq(Sources) /\ view.from \in Sources
    BY <1>1 DEF DriverKept, Queued, Rounds
  <1>5. CASE Followup
    <2>1. /\ dpc = "queue" /\ dpc' = "await" /\ queue' = Append(queue, view.from)
          /\ UNCHANGED <<turn, reply, view, refused>>
      BY <1>5 DEF Followup, Goes
    <2>2. \A i \in 1..Len(queue') : queue'[i] \in {Human, view.from}
      BY <1>4, <2>1
    <2>3. Queued'
      BY <1>1, <1>4, <2>1, <2>2 DEF Queued
    <2>4. RefusedGone'
      BY <1>2, <2>1, RefusedMoves DEF DriverKept
    <2> QED
      BY <1>3, <2>1, <2>3, <2>4 DEF DriverKept, RefusalExplained
  <1>6. CASE RoundInterrupted
    <2>1. /\ dpc' = "drain" /\ turn'.from = turn.from /\ UNCHANGED <<queue, reply, view, refused>>
      BY <1>6, TurnEdited DEF RoundInterrupted, Goes, Rounds
    <2>2. Queued'
      BY <1>1, <1>4, <2>1 DEF Queued
    <2>3. RefusedGone'
      BY <1>2, <2>1, RefusedMoves DEF DriverKept
    <2> QED
      BY <1>3, <2>1, <2>2, <2>3 DEF DriverKept, RefusalExplained
  <1>7. CASE RoundEnds \/ RoundDrains
    <2>1. /\ reply # None /\ reply' = None /\ dpc' \in {"fail", "idle", "stopped"}
          /\ UNCHANGED <<queue, turn>> /\ (view' = view \/ view' = NoView)
      BY <1>7 DEF RoundEnds, RoundDrains, Goes
    <2>2. Quiet
      BY <2>1 DEF Rounds
    <2>3. Queued'
      BY <1>1, <1>4, <2>1, <2>2 DEF Queued, Quiet, AllHuman, None
    <2>4. RefusalExplained'
      BY <2>1 DEF DriverKept, RefusalExplained, NoView, None
    <2>5. RefusedGone'
      <3>1. CASE RoundDrains
        <4>1. refused' = refused /\ dpc' = "stopped"
          BY <3>1 DEF RoundDrains, Goes
        <4> QED
          BY <1>2, <4>1, RefusedMoves DEF DriverKept
      <3>2. CASE RoundEnds /\ reply # "refused"
        BY <3>2, RefusedForgotten DEF RoundEnds
      <3>3. CASE RoundEnds /\ reply = "refused"
        <4>1. refused' = view.from /\ dpc' = "idle"
          BY <3>3 DEF RoundEnds, Goes
        <4>2. Hopeless(state', log', armed', view.from)
          BY <1>1, <1>4, <3>3
        <4>3. refused' \in Sources /\ Past(state', refused'.ref)
          BY <1>4, <4>1, <4>2 DEF Hopeless
        <4> QED
          BY <1>2, <4>1, <4>2, <4>3 DEF RefusedGone
      <3> QED
        BY <1>7, <3>1, <3>2, <3>3
    <2> QED
      BY <1>3, <2>3, <2>4, <2>5 DEF DriverKept
  <1> QED
    BY <1>5, <1>6, <1>7

\* A new process knows of no refusal and has nothing to settle.
LEMMA RestartStays ==
    ASSUME Inv, LogKept(state, log)', Restart
    PROVE  DriverKept'
  <1>1. /\ armed' = NoRef /\ queue' = <<>> /\ turn' = NoTurn /\ reply' = None /\ dpc' = "idle"
        /\ seen' = Len(log') /\ plan' = NoPlan /\ view' = NoView /\ refused' = Human /\ stopping' = "run"
    BY DEF Restart
  <1>2. Len(log') \in 0..Len(log')
    BY DEF LogKept
  <1>3. Settles'
    BY <1>1, <1>2, NoPlanShaped DEF Settles, Settling
  <1>4. Queued'
    BY <1>1 DEF Queued, NoTurn, None
  <1>5. RefusalExplained'
    BY <1>1 DEF RefusalExplained, NoView, None
  <1> QED
    BY <1>1, <1>3, <1>4, <1>5, RefusedForgotten DEF DriverKept

LEMMA DriverInit == Init => DriverKept
  <1> SUFFICES ASSUME Init PROVE DriverKept
    OBVIOUS
  <1>1. /\ armed = NoRef /\ log = <<>> /\ queue = <<>> /\ turn = NoTurn /\ reply = None /\ dpc = "idle"
        /\ seen = 0 /\ plan = NoPlan /\ view = NoView /\ refused = Human /\ stopping = "run"
    BY DEF Init
  <1>2. Settles
    BY <1>1, NoPlanShaped DEF Settles, Settling
  <1>3. Queued
    BY <1>1 DEF Queued, NoTurn, None
  <1>4. RefusalExplained
    BY <1>1 DEF RefusalExplained, NoView, None
  <1> QED
    BY <1>1, <1>2, <1>3, <1>4, HumanSource DEF DriverKept, RefusedGone

\* The driver after every step.
LEMMA DriverStep ==
    Inv /\ Rounds /\ LogKept(state, log) /\ DriverKept /\ [Next]_vars => DriverKept'
  <1> SUFFICES ASSUME Inv, Rounds, LogKept(state, log), DriverKept, [Next]_vars PROVE DriverKept'
    OBVIOUS
  <1>1. Moves /\ LogKept(state, log)'
    BY StepMoves, LogKeptStep
  <1>2. CASE Driver
    BY <1>1, <1>2, SettleStays, SettlingStays, DisarmsStay, GetStays, LoopStays, RoundStays DEF Driver
  <1>3. CASE Restart
    BY <1>1, <1>3, RestartStays
  <1>4. CASE ~Driver /\ ~Restart
    BY <1>1, <1>4, OthersStay DEF Next
  <1> QED
    BY <1>2, <1>3, <1>4

\* A goal is never blocked with "prompt-rejected": whatever made admission refuse a
\* round (a stop, an edit, a pause, a disarm, another round) has disarmed its revision
\* or is settled before the driver looks at the goal again (loop, settle, Get).
THEOREM RefusalAlwaysExplained == Spec => []RefusalExplained
  <1>1. DriverKept => RefusalExplained
    BY DEF DriverKept
  <1> QED
    BY InvInit, InvStep, RoundsInit, RoundsStep, LogInit, LogKeptStep, DriverInit, DriverStep, <1>1, PTL DEF Spec
=============================================================================
