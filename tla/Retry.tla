------------------------------- MODULE Retry --------------------------------
(***************************************************************************)
(* Model request recovery (app/retry): a step's model attempt is repeated   *)
(* under a policy that may change between attempts, each decision is        *)
(* recorded before its delay and each repetition before it runs, and the    *)
(* service's cleanup cancels and joins the decisions in flight.             *)
(***************************************************************************)
EXTENDS Integers, Sequences

CONSTANTS
  Steps,     \* model steps that run through Do, one each
  Policies,  \* the retry settings a person may switch between
  Failures,  \* how an attempt fails: [code, after], after in milliseconds
  MaxFaults  \* bound: journal appends that fail

VARIABLES
  service,  \* Service.active, and what its cleanup is doing
  policy,   \* the retry section of the settings now
  step,     \* each step: where Do is, retryNumber, the failure, the decision
  log,      \* the journal of each step's session: the step's retry, started and chunk records
  left      \* what remains of MaxFaults

vars == <<service, policy, step, log, left>>

Fresh == [pc |-> "idle", number |-> 0, failure |-> "none", emitted |-> FALSE,
          canceled |-> FALSE, delay |-> 0, under |-> 0]

Init ==
  /\ service = "active" /\ policy \in Policies
  /\ step = [s \in Steps |-> Fresh] /\ log = [s \in Steps |-> <<>>] /\ left = MaxFaults

At(s, pc) == step' = [step EXCEPT ![s].pc = pc]
Record(s, type, n, delay, under) ==
  log' = [log EXCEPT ![s] = Append(@, [type |-> type, attempt |-> n, delay |-> delay, under |-> under])]

-----------------------------------------------------------------------------
\* Do: one attempt of the model stream.
Attempt(s) ==
  /\ step[s].pc = "idle" /\ At(s, "attempt")
  /\ UNCHANGED <<service, policy, log, left>>

\* The engine's emit: a chunk is committed and marks the attempt.
EmitChunk(s) ==
  /\ step[s].pc = "attempt" /\ ~step[s].emitted
  /\ step' = [step EXCEPT ![s].emitted = TRUE]
  /\ Record(s, "chunk", 0, 0, 0)
  /\ UNCHANGED <<service, policy, left>>

AttemptSucceeds(s) ==
  /\ step[s].pc = "attempt" /\ At(s, "completed")
  /\ UNCHANGED <<service, policy, log, left>>

AttemptFails(s, failure) ==
  /\ step[s].pc = "attempt"
  /\ step' = [step EXCEPT ![s].pc = "failed", ![s].failure = failure]
  /\ UNCHANGED <<service, policy, log, left>>

\* begin: a decision is admitted while the service runs; after cleanup Do ends.
Begin(s) ==
  /\ step[s].pc = "failed"
  /\ At(s, IF service = "active" THEN "decide" ELSE "error")
  /\ UNCHANGED <<service, policy, log, left>>

Transient == {"empty_response", "rate_limit", "server", "timeout", "transport"}
Final == {"unauthorized", "invalid", "context_window"}

\* classify: an error that is no llm.Error ("foreign") is retried only in
\* mode always; always also retries what is neither transient nor final.
Retryable(failure, mode) ==
  \/ failure.code \in Transient
  \/ mode = "always" /\ failure.code \notin Final

Doubled(p, n) ==
  LET d[i \in 1..n] == IF i = 1 THEN p.initial
                       ELSE IF d[i - 1] < p.max THEN 2 * d[i - 1] ELSE d[i - 1]
  IN d[n]

Least(a, b) == IF a < b THEN a ELSE b

\* retryDelay: doubled per attempt up to the cap, raised to the server's
\* Retry-After within the cap, and only then jittered (in percent).
RetryDelay(p, n, after, percent) ==
  LET base == Least(Doubled(p, n), p.max)
      asked == IF after > base THEN Least(after, p.max) ELSE base
      jittered == (asked * percent) \div 100
  IN IF jittered < 1 THEN 1 ELSE jittered

Jitters(p) == {100 - p.jitter, 100, 100 + p.jitter}

\* wait: the policy is read now, whatever it was for the last attempt.
Decide(s) ==
  /\ step[s].pc = "decide"
  /\ IF step[s].emitted \/ ~Retryable(step[s].failure, policy.mode) \/ step[s].number >= policy.retries
     THEN At(s, "error")
     ELSE \E percent \in Jitters(policy) :
            step' = [step EXCEPT ![s].pc = "record", ![s].number = @ + 1, ![s].under = policy.id,
                                 ![s].delay = RetryDelay(policy, step[s].number + 1, step[s].failure.after, percent)]
  /\ UNCHANGED <<service, policy, log, left>>

\* The decision is durable before the delay starts.  An append or a sleep
\* that a cancellation overtakes may still finish.
RecordRetry(s) ==
  /\ step[s].pc = "record"
  /\ Record(s, "retry", step[s].number, step[s].delay, step[s].under) /\ At(s, "sleep")
  /\ UNCHANGED <<service, policy, left>>

SleepEnds(s) ==
  /\ step[s].pc = "sleep" /\ At(s, "resume")
  /\ UNCHANGED <<service, policy, log, left>>

\* The repetition is durable before it runs; done releases the decision.
RecordStarted(s) ==
  /\ step[s].pc = "resume"
  /\ Record(s, "started", step[s].number, 0, 0) /\ At(s, "attempt")
  /\ UNCHANGED <<service, policy, left>>

\* A failed append, or a cancelled append or sleep, ends Do with an error.
AppendFails(s) ==
  /\ step[s].pc \in {"record", "resume"} /\ left > 0
  /\ left' = left - 1 /\ At(s, "error")
  /\ UNCHANGED <<service, policy, log>>

WaitCanceled(s) ==
  /\ step[s].pc \in {"record", "sleep", "resume"} /\ step[s].canceled /\ At(s, "error")
  /\ UNCHANGED <<service, policy, log, left>>

\* The turn is cancelled, or cleanup cancels each decision in flight and
\* then waits until it has returned.
Cancel(s) ==
  /\ step[s].pc \in {"attempt", "failed", "decide", "record", "sleep", "resume"}
  /\ ~step[s].canceled /\ step' = [step EXCEPT ![s].canceled = TRUE]
  /\ UNCHANGED <<service, policy, log, left>>

\* Mutant: cleanup does not join a decision about to record its repetition.
DecidingEarly(s) == step[s].pc \in {"decide", "record", "sleep"}

Deciding(s) == step[s].pc \in {"decide", "record", "sleep", "resume"}
Cleanup ==
  /\ service = "active" /\ service' = "joining"
  /\ step' = [s \in Steps |-> [step[s] EXCEPT !.canceled = @ \/ Deciding(s)]]
  /\ UNCHANGED <<policy, log, left>>

CleanupReturns ==
  /\ service = "joining" /\ \A s \in Steps : ~Deciding(s)
  /\ service' = "stopped"
  /\ UNCHANGED <<policy, step, log, left>>

\* A person saves other retry settings.
ChangePolicy(p) ==
  /\ p # policy /\ policy' = p
  /\ UNCHANGED <<service, step, log, left>>

Next ==
  \/ \E s \in Steps : \/ Attempt(s) \/ EmitChunk(s) \/ AttemptSucceeds(s)
                      \/ \E failure \in Failures : AttemptFails(s, failure)
                      \/ Begin(s) \/ Decide(s) \/ RecordRetry(s) \/ SleepEnds(s) \/ RecordStarted(s)
                      \/ AppendFails(s) \/ WaitCanceled(s) \/ Cancel(s)
  \/ \E p \in Policies : ChangePolicy(p)
  \/ Cleanup \/ CleanupReturns

-----------------------------------------------------------------------------
\* The log of one step is a ladder: retry 1, started 1, retry 2, started 2 and
\* so on, at most one chunk, and no retry once a chunk was committed; a retry
\* is within the limit of the policy it was decided under, and its delay
\* within the policy's cap and jitter, so a policy that keeps changing cannot
\* make Do run for ever.
LadderKept ==
  \A s \in Steps : LET rung == log[s] IN \A i \in 1..Len(rung) :
    /\ rung[i].type = "chunk" => i = Len(rung)
    /\ rung[i].type # "chunk" =>
         /\ rung[i].attempt = (i + 1) \div 2
         /\ rung[i].type = IF i % 2 = 1 THEN "retry" ELSE "started"
    /\ rung[i].type = "retry" =>
         LET p == CHOOSE q \in Policies : q.id = rung[i].under IN
         /\ rung[i].attempt <= p.retries
         /\ rung[i].delay >= 1 /\ 100 * rung[i].delay <= p.max * (100 + p.jitter)

\* The ladder is kept, and once cleanup returned no decision is under way, so
\* no further record of one is appended, though an attempt that belongs to
\* the caller may still be running and emitting (service.go, Start's cleanup).
RetryKept ==
  /\ LadderKept
  /\ service = "stopped" => \A s \in Steps : step[s].pc \notin {"decide", "record", "sleep", "resume"}
=============================================================================
