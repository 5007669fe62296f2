-------------------------------- MODULE Jobs --------------------------------
(***************************************************************************)
(* Background jobs: internal/app/job/service.go with the tool calls that   *)
(* use it (adapter/tool/shell/bash.go, adapter/tool/job/provider.go) and   *)
(* the boundary of tool.Runtime.execute that drops the result of a call    *)
(* whose turn was cancelled.                                               *)
(*                                                                         *)
(*   job         record, except its output; status "none" before Launch    *)
(*   ring, cursor   the job's output and the reader's position             *)
(*   prod        the producer goroutine: run, settle, notify, gone         *)
(*   call        the tool call each session runs: its pc, its job, whether *)
(*               its turn was cancelled, and how many calls were made      *)
(*   service, base, release   Service.active and stop; the runtime         *)
(*               context; Release of an owner                              *)
(*   told, finished, noticed, dropped   history: the jobs whose end a      *)
(*               result reported, a foreground result rendered, or a       *)
(*               notice announced (one that cannot be queued is noted in   *)
(*               the job's status line); and those whose end was collected *)
(*               by a call that its turn's cancellation cut short          *)
(*                                                                         *)
(* The terminal statuses (completed, killed, failed) are one, "settled".   *)
(*                                                                         *)
(* Every section under service.mu is one action.  None of these tools is   *)
(* Concurrent, so a session runs one such call at a time; its jobs run on. *)
(***************************************************************************)
EXTENDS JobRing, FiniteSets, Functions

CONSTANTS
    Jobs,          \* identities, in no order: Launch takes an unused one
    Owners,        \* sessions
    Children,      \* the sessions of subagents, which are released
    MaxCalls,      \* bound: the calls each session makes
    MaxLive,       \* maxActivePerOwner   (10 in the code)
    LiveRetain,    \* liveRetainBytes     (128 KiB)
    SettledRetain, \* settledRetainBytes  (16 KiB)
    Chunks,        \* shapes of decoded writes: a length and where characters begin
    MaxBytes,      \* bound: bytes the producers write
    MaxDisturbed   \* bound: cancelled turns and shutdowns

VARIABLES
    job, ring, cursor, prod,
    call, disturbed, service, base, release,
    told, finished, noticed, dropped

output  == <<ring, cursor>>
system  == <<disturbed, service, base, release>>
history == <<told, finished, noticed, dropped>>
vars    == <<job, output, prod, call, system, history>>

None     == "none"
Live     == {"running", "stopping"}
NoJob    == [status |-> None, owner |-> None, cause |-> "producer", waiters |-> 0,
             foreground |-> FALSE, listed |-> FALSE]

Init ==
    /\ job = [j \in Jobs |-> NoJob] /\ prod = [j \in Jobs |-> None]
    /\ ring = [j \in Jobs |-> EmptyRing] /\ cursor = [j \in Jobs |-> 0]
    /\ call = [o \in Owners |-> [pc |-> "idle", job |-> None, done |-> FALSE, made |-> 0]]
    /\ disturbed = 0 /\ service = "active" /\ base = TRUE /\ release = [o \in Owners |-> "none"]
    /\ told = {} /\ finished = {} /\ noticed = {} /\ dropped = {}

-----------------------------------------------------------------------------
(* Helpers.                                                                *)

\* The call of o goes on at pc, or is over.
Step(o, pc) == call' = [call EXCEPT ![o].pc = pc, ![o].job = IF pc = "idle" THEN None ELSE @,
                                    ![o].done = @ /\ pc # "idle"]

\* The records of js are dropped, their output with them.
Forget(js) ==
    /\ job' = [j \in Jobs |-> [job[j] EXCEPT !.listed = @ /\ j \notin js]]
    /\ ring' = [j \in Jobs |-> IF j \in js THEN EmptyRing ELSE ring[j]]
    /\ cursor' = [j \in Jobs |-> IF j \in js THEN 0 ELSE cursor[j]]

\* A call of o is dispatched on job j.
Dispatch(o, pc, j) ==
    /\ call[o].pc = "idle" /\ call[o].made < MaxCalls[o] /\ release[o] = "none"
    /\ call' = [call EXCEPT ![o] = [pc |-> pc, job |-> j, done |-> FALSE, made |-> @.made + 1]]

\* One more disturbance, within the bound.
Disturb == disturbed < MaxDisturbed /\ disturbed' = disturbed + 1

\* find: the service runs and the job is the caller's.
Found(o, j) == service = "active" /\ job[j].listed /\ job[j].owner = o

LiveOf(o) == {j \in Jobs : job[j].listed /\ job[j].owner = o /\ job[j].status \in Live}

-----------------------------------------------------------------------------
(* Launch.                                                                 *)

\* Launch registers a job and starts its producer.  One that is refused, by a
\* stopped service or at the owner's limit, changes nothing: bash then fails,
\* or runs its command under a deadline outside the service.
Launch(o, j, foreground) ==
    /\ service = "active" /\ Cardinality(LiveOf(o)) < MaxLive /\ job[j].status = None
    /\ Dispatch(o, IF foreground THEN "wait" ELSE "started", j)
    /\ job' = [job EXCEPT ![j] = [NoJob EXCEPT !.status = "running", !.owner = o,
                                               !.foreground = foreground, !.listed = TRUE]]
    /\ prod' = [prod EXCEPT ![j] = "run"]
    /\ UNCHANGED <<output, system, history>>

\* job_output with or without wait, and job_kill, on any job id.
Start(o, j, pc) ==
    /\ job[j].status # None /\ Dispatch(o, pc, j)
    /\ UNCHANGED <<job, output, prod, system, history>>

-----------------------------------------------------------------------------
(* Wait.                                                                   *)

\* Where a caller of Wait goes on, given a settled or live view or an error.
AfterWait(pc, view) ==
    CASE pc \in {"wait", "waiting"} -> IF view = "error" THEN "abort" ELSE view
      [] pc \in {"output-wait", "output-waiting"} -> IF view = "error" THEN "idle" ELSE "output"
      [] pc \in {"reap", "reaping"} -> "drop"
Waiting(pc) == CASE pc = "wait" -> "waiting" [] pc = "output-wait" -> "output-waiting"
                 [] pc = "reap" -> "reaping"

\* Mutant: a waiter is not counted.
CountedNever(w) == w

\* One more waiter.
Counted(w) == w + 1

\* Wait up to its select: an unknown job, a settled one, or one more waiter.
Wait(o) ==
    LET pc == call[o].pc  j == call[o].job IN
    /\ pc \in {"wait", "output-wait", "reap"}
    /\ \/ ~Found(o, j) /\ Step(o, AfterWait(pc, "error")) /\ UNCHANGED job
       \/ /\ Found(o, j) /\ job[j].status = "settled"
          /\ Step(o, AfterWait(pc, "settled")) /\ UNCHANGED job
       \/ /\ Found(o, j) /\ job[j].status \in Live
          /\ Step(o, Waiting(pc)) /\ job' = [job EXCEPT ![j].waiters = Counted(@)]
    /\ UNCHANGED <<output, prod, system, history>>

\* Mutant: a wait that ends on a live job stays counted.
UncountedNever(w) == w

\* A wait that ends on a live job gives its place up.
Uncounted(w) == w - 1

\* Wait after its select, whichever arm fired (the job settled, the timer or
\* the context): a settlement that already happened wins over the
\* cancellation, which the wait of an abort does not follow at all.
WaitReturns(o) ==
    LET pc == call[o].pc  j == call[o].job IN
    /\ pc \in {"waiting", "output-waiting", "reaping"}
    /\ \/ /\ job[j].status = "settled"
          /\ Step(o, AfterWait(pc, "settled")) /\ UNCHANGED job
       \/ /\ job[j].status \in Live /\ job' = [job EXCEPT ![j].waiters = Uncounted(@)]
          /\ Step(o, AfterWait(pc, IF call[o].done THEN "error" ELSE "live"))
    /\ UNCHANGED <<output, prod, system, history>>

-----------------------------------------------------------------------------
(* Read, Kill and Remove.                                                  *)

\* Read: the output since the previous read, the settled retention, and the
\* end of the foreground reservation.
Reads(j) ==
    /\ cursor' = [cursor EXCEPT ![j] = ring[j].total]
    /\ ring' = IF job[j].status = "settled"
               THEN [ring EXCEPT ![j] = Trim(@, SettledRetain)] ELSE ring
    /\ job' = [job EXCEPT ![j].foreground = FALSE]

\* foregroundResult: a cancelled call aborts, a settled job is removed and
\* rendered, and a live one is handed over.
ForegroundResult(o) ==
    /\ call[o].pc \in {"live", "settled"}
    /\ Step(o, IF call[o].done THEN "abort"
               ELSE IF call[o].pc = "settled" THEN "remove" ELSE "hand-over")
    /\ UNCHANGED <<job, output, prod, system, history>>

\* The handover's one Read, and job_output's: a job may have settled since
\* its caller looked.
Read(o) ==
    LET pc == call[o].pc  j == call[o].job IN
    /\ pc \in {"hand-over", "output"}
    /\ \/ ~Found(o, j) /\ Step(o, "idle") /\ UNCHANGED <<job, output>>
       \/ /\ Found(o, j) /\ Reads(j)
          /\ Step(o, IF job[j].status \in Live THEN "shown"
                     ELSE IF pc = "output" THEN "ended" ELSE "remove")
    /\ UNCHANGED <<prod, system, history>>

\* Kill: a live job is cancelled, and its end is the killer's to report.
Kills(j) == job' = IF job[j].status \in Live
                   THEN [job EXCEPT ![j].status = "stopping", ![j].cause = "kill"] ELSE job

\* job_kill, and abortForeground's Kill, whose error is ignored.
Kill(o) ==
    LET pc == call[o].pc  j == call[o].job IN
    /\ pc \in {"kill", "abort"}
    /\ \/ Found(o, j) /\ Kills(j) /\ Step(o, IF pc = "kill" THEN "ended" ELSE "reap")
       \/ ~Found(o, j) /\ UNCHANGED job /\ Step(o, IF pc = "kill" THEN "idle" ELSE "reap")
    /\ UNCHANGED <<output, prod, system, history>>

\* Remove drops a settled job; a live one stays listed.
Remove(o) ==
    LET pc == call[o].pc  j == call[o].job IN
    /\ pc \in {"remove", "drop"}
    /\ Forget({k \in {j} : Found(o, k) /\ job[k].status = "settled"})
    /\ Step(o, IF pc = "remove" THEN "finished" ELSE "idle")
    /\ dropped' = IF pc = "drop" THEN dropped \cup {j} ELSE dropped
    /\ UNCHANGED <<prod, system, told, finished, noticed>>

\* The call returned a text, which a cancelled turn drops.
Return(o) ==
    LET pc == call[o].pc
        ends == {j \in {call[o].job} : pc \in {"ended", "finished"} /\ job[j].owner = o} IN
    /\ pc \in {"started", "shown", "ended", "finished"} /\ Step(o, "idle")
    /\ \/ call[o].done /\ dropped' = dropped \cup ends /\ UNCHANGED <<told, finished>>
       \/ /\ ~call[o].done /\ told' = told \cup ends /\ UNCHANGED dropped
          /\ finished' = IF pc = "finished" THEN finished \cup ends ELSE finished
    /\ UNCHANGED <<job, output, prod, system, noticed>>

\* The turn of a call is cancelled.
Abort(o) ==
    /\ call[o].pc # "idle" /\ ~call[o].done /\ Disturb
    /\ call' = [call EXCEPT ![o].done = TRUE]
    /\ UNCHANGED <<job, output, prod, service, base, release, history>>

-----------------------------------------------------------------------------
(* The producer goroutine.                                                 *)

Written == FoldFunction(LAMBDA r, n : n + r.total, 0, ring)

\* A decoded write, or the final flush.
Write(j) ==
    /\ prod[j] = "run"
    /\ \E k \in Chunks : /\ Written + k.len <= MaxBytes
                         /\ ring' = [ring EXCEPT ![j] = AppendChunk(@, k, LiveRetain)]
    /\ UNCHANGED <<job, cursor, prod, call, system, history>>

\* Run returned, on its own or because its context is done.
Produced(j) ==
    /\ prod[j] = "run" /\ prod' = [prod EXCEPT ![j] = "settle"]
    /\ UNCHANGED <<job, output, call, system, history>>

\* Mutant: the settlement keeps only the settled retention.
SettleRetainsLittle(j) == SettledRetain

\* Every byte not yet read is kept for the first read after the settlement.
SettleRetains(j) == Max({SettledRetain, ring[j].total - cursor[j]})

\* Mutant: a settlement is announced although a foreground call will report it.
NotifiesForeground(j) == job[j].waiters = 0 /\ job[j].cause = "producer" /\ base

\* The settlement is nobody else's to report.
Notifies(j) == /\ ~job[j].foreground /\ job[j].waiters = 0
               /\ job[j].cause = "producer" /\ base

\* settle, under the lock.
Settle(j) ==
    /\ prod[j] = "settle"
    /\ job' = [job EXCEPT ![j].status = "settled", ![j].waiters = 0]
    /\ ring' = [ring EXCEPT ![j] = Trim(@, SettleRetains(j))]
    /\ prod' = [prod EXCEPT ![j] = IF Notifies(j) THEN "notify" ELSE "gone"]
    /\ UNCHANGED <<cursor, call, system, history>>

\* QueueNotice, outside the lock, or the note of its failure in the detail.
Notify(j) ==
    /\ prod[j] = "notify" /\ prod' = [prod EXCEPT ![j] = "gone"]
    /\ noticed' = noticed \cup {j}
    /\ UNCHANGED <<job, output, call, system, told, finished, dropped>>

-----------------------------------------------------------------------------
(* Teardown.                                                               *)

\* The live jobs among js are cancelled with no reader left.
TearDown(js) ==
    job' = [j \in Jobs |-> IF j \in js /\ job[j].listed /\ job[j].status \in Live
                           THEN [job[j] EXCEPT !.status = "stopping", !.cause = "teardown"]
                           ELSE job[j]]

\* stop: refuse new jobs and cancel the live ones ...
Stop ==
    /\ service = "active" /\ service' = "stopping" /\ TearDown(Jobs) /\ Disturb
    /\ UNCHANGED <<output, prod, call, base, release, history>>

\* ... and drop every record once all producers returned.
Stopped ==
    /\ service = "stopping" /\ service' = "stopped"
    /\ \A j \in Jobs : prod[j] \in {None, "gone"}
    /\ Forget(Jobs)
    /\ UNCHANGED <<prod, call, disturbed, base, release, history>>

\* The runtime context is cancelled, and every job's with it.
CancelBase ==
    /\ base /\ base' = FALSE /\ Disturb
    /\ UNCHANGED <<job, output, prod, call, service, release, history>>

Owned(o) == {j \in Jobs : job[j].owner = o}

\* Release of an owner whose agent is closed, so that it runs no call.
Release(o) ==
    /\ o \in Children /\ release[o] = "none" /\ call[o].pc = "idle"
    /\ \/ /\ service = "active" /\ TearDown(Owned(o))
          /\ release' = [release EXCEPT ![o] = "waiting"]
       \/ /\ service # "active" /\ UNCHANGED job
          /\ release' = [release EXCEPT ![o] = "released"]
    /\ UNCHANGED <<output, prod, call, disturbed, service, base, history>>

\* Mutant: Release does not wait for the jobs it cancelled.
ReleasableAtOnce(o) == TRUE

\* The jobs Release cancelled have settled.
Releasable(o) == \A j \in Owned(o) : job[j].status \notin Live

\* The records go once the jobs settled, or Release's own context ends first.
Released(o) ==
    /\ release[o] = "waiting"
    /\ \/ /\ Releasable(o) /\ release' = [release EXCEPT ![o] = "released"]
          /\ Forget({j \in Owned(o) : job[j].status = "settled"})
       \/ release' = [release EXCEPT ![o] = "given-up"] /\ UNCHANGED <<job, output>>
    /\ UNCHANGED <<prod, call, disturbed, service, base, history>>

-----------------------------------------------------------------------------
(* The specification.                                                      *)

\* The steps of a dispatched call.
CallStep(o) == \/ Wait(o) \/ WaitReturns(o) \/ ForegroundResult(o) \/ Read(o)
               \/ Kill(o) \/ Remove(o) \/ Return(o)

Next ==
    \/ \E o \in Owners, j \in Jobs : \/ \E f \in BOOLEAN : Launch(o, j, f)
                                     \/ \E pc \in {"output", "output-wait", "kill"} : Start(o, j, pc)
    \/ \E o \in Owners : CallStep(o) \/ Abort(o) \/ Release(o) \/ Released(o)
    \/ \E j \in Jobs : Write(j) \/ Produced(j) \/ Settle(j) \/ Notify(j)
    \/ Stop \/ Stopped \/ CancelBase

Spec == Init /\ [][Next]_vars

-----------------------------------------------------------------------------
(* Properties.                                                             *)

\* The variables keep the shape of the Go structures: one record, ring and
\* cursor per job and one call per session.
TypeOK ==
    /\ job \in [Jobs -> [status : {None, "running", "stopping", "settled"},
                         owner : Owners \cup {None}, cause : {"producer", "kill", "teardown"},
                         waiters : Nat, foreground : BOOLEAN, listed : BOOLEAN]]
    /\ prod \in [Jobs -> {None, "run", "settle", "notify", "gone"}]
    /\ \A j \in Jobs : cursor[j] \in 0..ring[j].total /\ ring[j].earliest \in 0..ring[j].total
    /\ \A o \in Owners : call[o].job \in Jobs \cup {None} /\ call[o].made \in 0..MaxCalls[o]
    /\ UNION {told, finished, noticed, dropped} \subseteq Jobs

\* A settlement is never silent: while the service and its owner live, a
\* job that ended has its end in a tool result, in a queued notice or in the
\* status line that says the notice failed, unless the call that collected
\* it was itself cut short by its turn's cancellation (settle, Wait, Read,
\* Kill and abortForeground account for every settlement together).
EndReported ==
    \A j \in Jobs :
        LET o == job[j].owner IN
        (/\ job[j].status = "settled" /\ prod[j] = "gone" /\ service = "active" /\ base
         /\ release[o] = "none" /\ (call[o].pc = "idle" \/ call[o].job # j))
        => j \in UNION {told, noticed, dropped}

\* A foreground command whose result the model got never also announces
\* itself: the reservation covers the gap between Wait and Read.
ForegroundReportsOnce == finished \cap noticed = {}

\* Output is only lost under load: whenever a reader's position was overtaken,
\* more than the live retention is unread; settling never discards more.
LossOnlyWhenFull ==
    \A j \in Jobs : ring[j].earliest > cursor[j] => ring[j].total - cursor[j] > LiveRetain

\* Reads hand over consecutive output: one that reports no loss begins
\* exactly where the previous read ended, and one that reports loss, further
\* on, at a whole character, wherever trim cut it.
ReadsContinue ==
    \A j \in Jobs :
        LET read == ReadFrom(ring[j], cursor[j]) IN
        IF read.lossy THEN read.from > cursor[j] /\ read.from \in ring[j].runes \cup {ring[j].total}
                      ELSE read.from = cursor[j]

\* Release that reports success leaves its owner no live and no listed job.
ReleaseLeavesNothing ==
    \A o \in Owners : release[o] = "released" /\ service = "active" =>
        \A j \in Owned(o) : job[j].status = "settled" /\ ~job[j].listed

\* Every end is reported, and only once where a foreground call reports it.
JobsReported == TypeOK /\ EndReported /\ ForegroundReportsOnce /\ ReleaseLeavesNothing

\* What the readers of a job's output get is consecutive, or known not to be.
JobOutputKept == LossOnlyWhenFull /\ ReadsContinue
=============================================================================
