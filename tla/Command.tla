------------------------------ MODULE Command -------------------------------
(***************************************************************************)
(* A shell command run to its deadline (platform/process runner.go under    *)
(* adapter/tool/shell): the process group and its pipe, the observer that   *)
(* terminates the group, the retained tail of the output and its complete   *)
(* copy in a spill file, and the provider whose cleanup removes the         *)
(* temporary directory the command uses.                                    *)
(*                                                                          *)
(* One stream; a unit of output is one byte.  The command is external: it   *)
(* writes, forks, ignores TERM and exits as it likes.                       *)
(***************************************************************************)
EXTENDS Naturals, Sequences, FiniteSets

CONSTANTS
  Output,     \* what the command writes: for each byte, whether it starts a rune
  MaxWrite,   \* the most bytes one read of the pipe returns
  Limit,      \* bytes retained of the stream, and spillThreshold
  Graces,     \* whether TerminationGrace is zero
  MaxFaults   \* bound: spill creations, writes and commits that fail

VARIABLES
  proc,      \* the process group: the command, a descendant, both alive or not
  pipe,      \* bytes written so far, how many the copier has taken, whether
             \* WaitDelay has passed since the exit
  ctx,       \* why the run must stop: none, timeout, caller or cleanup
  observer,  \* the cancellation observer
  killed,    \* killed
  run,       \* Run and the call around it, and the result
  tail,      \* tailBuffer
  spill,     \* streamSpill and its file
  shell,     \* Provider: its temporary directory and its cleanup
  left       \* what remains of MaxFaults

vars == <<proc, pipe, ctx, observer, killed, run, tail, spill, shell, left>>

Init ==
  /\ proc = [main |-> "none", kid |-> "none"]
  /\ pipe = [written |-> 0, taken |-> 0, late |-> FALSE]
  /\ ctx = {} /\ observer = "none" /\ killed = FALSE
  /\ run \in [pc : {"idle"}, grace : Graces, result : {"none"}, timedOut : {FALSE},
              text : {<<>>}, truncated : {FALSE}, locator : {FALSE}]
  /\ tail = [data |-> <<>>, truncated |-> FALSE]
  /\ spill = [buffered |-> <<>>, file |-> "none", content |-> <<>>, disabled |-> FALSE]
  /\ shell = [pc |-> "running", temp |-> TRUE]
  /\ left = MaxFaults

Fault == left > 0 /\ left' = left - 1
Last(s, n) == SubSeq(s, Len(s) - n + 1, Len(s))

-----------------------------------------------------------------------------
(* The call: beginFallback, Start, Wait, the final kill and the result.     *)

\* Admitted under the lock that stops admission.
Begin ==
  /\ run.pc = "idle"
  /\ run' = IF shell.pc = "running" THEN [run EXCEPT !.pc = "start"]
            ELSE [run EXCEPT !.pc = "done", !.result = "refused"]
  /\ UNCHANGED <<proc, pipe, ctx, observer, killed, tail, spill, shell, left>>

\* A context that is already done starts nothing.
Start ==
  /\ run.pc = "start"
  /\ IF ctx # {}
     THEN /\ run' = [run EXCEPT !.pc = "finish", !.result = "canceled"]
          /\ UNCHANGED <<proc, observer>>
     ELSE /\ run' = [run EXCEPT !.pc = "wait"]
          /\ proc' = [proc EXCEPT !.main = "alive"] /\ observer' = "watch"
  /\ UNCHANGED <<pipe, ctx, killed, tail, spill, shell, left>>

Holders == {p \in {"main", "kid"} : proc[p] = "alive"}

\* WaitDelay passes, which starts at the exit of the command.
DelayEnds ==
  /\ run.pc = "wait" /\ proc.main = "dead" /\ ~pipe.late
  /\ pipe' = [pipe EXCEPT !.late = TRUE]
  /\ UNCHANGED <<proc, ctx, observer, killed, run, tail, spill, shell, left>>

\* Wait returns after the exit: at the end of the pipe, which nobody holds
\* open any more, or at the end of WaitDelay, when what is left is given up.
Drained == Holders = {} /\ pipe.taken = pipe.written
WaitReturns ==
  /\ run.pc = "wait" /\ proc.main = "dead" /\ (Drained \/ pipe.late)
  /\ run' = [run EXCEPT !.pc = "join"]
  /\ UNCHANGED <<proc, pipe, ctx, observer, killed, tail, spill, shell, left>>

\* Mutant: the group is not killed once the command was waited for.
JoinLeavesGroup ==
  /\ run.pc = "join" /\ observer = "stopped"
  /\ run' = [run EXCEPT !.pc = "result"]
  /\ UNCHANGED <<proc, pipe, ctx, observer, killed, tail, spill, shell, left>>

\* close(done), then the observer is joined and the group killed.
Join ==
  /\ run.pc = "join" /\ observer = "stopped"
  /\ proc' = [main |-> "dead", kid |-> IF proc.kid = "alive" THEN "dead" ELSE proc.kid]
  /\ run' = [run EXCEPT !.pc = "result"]
  /\ UNCHANGED <<pipe, ctx, observer, killed, tail, spill, shell, left>>

\* tailBuffer.output: the last Limit bytes, then to the next rune boundary.
RuneStart(s) == IF \E i \in 1..Len(s) : s[i].start
                THEN LET i == CHOOSE j \in 1..Len(s) : s[j].start /\ \A k \in 1..(j - 1) : ~s[k].start
                     IN SubSeq(s, i, Len(s))
                ELSE <<>>
TailOutput ==
  LET over == Len(tail.data) > Limit
      data == IF over THEN Last(tail.data, Limit) ELSE tail.data
      cut == tail.truncated \/ over
  IN [text |-> IF cut THEN RuneStart(data) ELSE data, truncated |-> cut]

\* A timeout is a fact of the result; a cancelled caller is an error.
Canceled == ctx \ {"timeout"} # {}
Result ==
  /\ run.pc = "result"
  /\ LET out == TailOutput IN
     run' = [run EXCEPT !.pc = "finish", !.text = out.text, !.truncated = out.truncated,
                        !.result = IF Canceled THEN "canceled" ELSE "exited",
                        !.timedOut = ~Canceled /\ killed]
  /\ UNCHANGED <<proc, pipe, ctx, observer, killed, tail, spill, shell, left>>

\* finishAll commits the spill file, finish looks at the context once more,
\* and done releases the call.
Finish ==
  /\ run.pc = "finish"
  /\ \/ /\ spill.file = "open" /\ spill' = [spill EXCEPT !.file = "committed"] /\ UNCHANGED left
     \/ /\ spill.file = "open" /\ Fault /\ spill' = [spill EXCEPT !.file = "none", !.disabled = TRUE]
     \/ /\ spill.file # "open" /\ UNCHANGED <<spill, left>>
  /\ run' = [run EXCEPT !.pc = "done", !.locator = spill'.file = "committed",
                        !.result = IF Canceled THEN "canceled" ELSE @]
  /\ UNCHANGED <<proc, pipe, ctx, observer, killed, tail, shell>>

-----------------------------------------------------------------------------
(* The cancellation observer.                                               *)

Done == run.pc \in {"join", "result", "finish", "done"}

\* It is told that the command was waited for, before or during the grace.
ObserverDone ==
  /\ observer \in {"watch", "grace"} /\ Done /\ observer' = "stopped"
  /\ UNCHANGED <<proc, pipe, ctx, killed, run, tail, spill, shell, left>>

\* The context is done: TERM and the grace, or KILL at once.
ObserverStops ==
  /\ observer = "watch" /\ ctx # {} /\ killed' = TRUE
  /\ observer' = IF run.grace THEN "term" ELSE "kill"
  /\ UNCHANGED <<proc, pipe, ctx, run, tail, spill, shell, left>>

\* What a process does about TERM is its own: each may die or ignore it.
Terminate ==
  /\ observer = "term" /\ observer' = "grace"
  /\ proc' \in {p \in [main : {"alive", "dead"}, kid : {"none", "alive", "dead"}] :
                  \A k \in {"main", "kid"} : p[k] = proc[k] \/ (proc[k] = "alive" /\ p[k] = "dead")}
  /\ UNCHANGED <<pipe, ctx, killed, run, tail, spill, shell, left>>

GraceEnds ==
  /\ observer = "grace" /\ observer' = "kill"
  /\ UNCHANGED <<proc, pipe, ctx, killed, run, tail, spill, shell, left>>

Kill ==
  /\ observer = "kill" /\ observer' = "stopped"
  /\ proc' = [k \in {"main", "kid"} |-> IF proc[k] = "alive" THEN "dead" ELSE proc[k]]
  /\ UNCHANGED <<pipe, ctx, killed, run, tail, spill, shell, left>>

-----------------------------------------------------------------------------
(* The command (external) and the copier of its output.                     *)

CommandForks ==
  /\ proc.main = "alive" /\ proc.kid = "none" /\ proc' = [proc EXCEPT !.kid = "alive"]
  /\ UNCHANGED <<pipe, ctx, observer, killed, run, tail, spill, shell, left>>

CommandExits(p) ==
  /\ proc[p] = "alive" /\ proc' = [proc EXCEPT ![p] = "dead"]
  /\ UNCHANGED <<pipe, ctx, observer, killed, run, tail, spill, shell, left>>

CommandWrites ==
  /\ Holders # {} /\ pipe.written < Len(Output)
  /\ pipe' = [pipe EXCEPT !.written = @ + 1]
  /\ UNCHANGED <<proc, ctx, observer, killed, run, tail, spill, shell, left>>

Bytes(a, b) == [i \in 1..(b - a) |-> [at |-> a + i, start |-> Output[a + i]]]

\* tailBuffer.Write: the buffer may grow to twice the limit before it is cut.
TailWrite(chunk) ==
  LET grown == tail.data \o chunk IN
  tail' = IF Len(grown) > 2 * Limit THEN [data |-> Last(grown, Limit), truncated |-> TRUE]
          ELSE [tail EXCEPT !.data = grown]

\* streamSpill.Write: buffered up to the threshold, then in a file; a failed
\* create (for a cancelled caller too) or write abandons the file for the
\* rest of the stream.
SpillWrite(chunk) ==
  \/ /\ spill.disabled /\ UNCHANGED <<spill, left>>
  \/ /\ ~spill.disabled /\ spill.file = "none" /\ Len(spill.buffered) + Len(chunk) <= Limit
     /\ spill' = [spill EXCEPT !.buffered = @ \o chunk] /\ UNCHANGED left
  \/ /\ ~spill.disabled /\ spill.file = "none" /\ Len(spill.buffered) + Len(chunk) > Limit
     /\ \/ /\ spill' = [spill EXCEPT !.file = "open", !.content = spill.buffered \o chunk, !.buffered = <<>>]
           /\ UNCHANGED left
        \/ /\ Fault \/ (Canceled /\ UNCHANGED left)
           /\ spill' = [spill EXCEPT !.disabled = TRUE, !.buffered = <<>>]
  \/ /\ spill.file = "open"
     /\ \/ spill' = [spill EXCEPT !.content = @ \o chunk] /\ UNCHANGED left
        \/ Fault /\ spill' = [spill EXCEPT !.file = "none", !.disabled = TRUE]

\* The copier hands each read to the tail first and then to the spill.
Copy(n) ==
  /\ run.pc = "wait" /\ n <= pipe.written - pipe.taken
  /\ LET chunk == Bytes(pipe.taken, pipe.taken + n) IN TailWrite(chunk) /\ SpillWrite(chunk)
  /\ pipe' = [pipe EXCEPT !.taken = @ + n]
  /\ UNCHANGED <<proc, ctx, observer, killed, run, shell>>

-----------------------------------------------------------------------------
(* What stops a run, and the provider's cleanup.                            *)

Timeout ==
  /\ run.pc \in {"start", "wait", "join", "result"} /\ "timeout" \notin ctx
  /\ ctx' = ctx \union {"timeout"}
  /\ UNCHANGED <<proc, pipe, observer, killed, run, tail, spill, shell, left>>

Cancel ==
  /\ run.pc \notin {"idle", "done"} /\ "caller" \notin ctx
  /\ ctx' = ctx \union {"caller"}
  /\ UNCHANGED <<proc, pipe, observer, killed, run, tail, spill, shell, left>>

\* Cleanup withdraws the directory, cancels the runs, joins them, and only
\* then removes the directory.
Cleanup ==
  /\ shell.pc = "running" /\ shell' = [shell EXCEPT !.pc = "joining"]
  /\ ctx' = IF run.pc \in {"idle", "done"} THEN ctx ELSE ctx \union {"cleanup"}
  /\ UNCHANGED <<proc, pipe, observer, killed, run, tail, spill, left>>

RemoveTemp ==
  /\ shell.pc = "joining" /\ run.pc \in {"idle", "done"}
  /\ shell' = [pc |-> "stopped", temp |-> FALSE]
  /\ UNCHANGED <<proc, pipe, ctx, observer, killed, run, tail, spill, left>>

Next ==
  \/ Begin \/ Start \/ DelayEnds \/ WaitReturns \/ Join \/ Result \/ Finish
  \/ ObserverDone \/ ObserverStops \/ Terminate \/ GraceEnds \/ Kill
  \/ CommandForks \/ (\E p \in {"main", "kid"} : CommandExits(p)) \/ CommandWrites
  \/ \E n \in 1..MaxWrite : Copy(n)
  \/ Timeout \/ Cancel \/ Cleanup \/ RemoveTemp

-----------------------------------------------------------------------------
\* A call that returned left nothing behind: no process of its group, no
\* observer that could still signal, no file being written; and the
\* temporary directory goes only when that is so.
NothingOutlivesRun ==
  /\ run.pc = "done" => Holders = {} /\ observer \in {"none", "stopped"} /\ spill.file # "open"
  /\ ~shell.temp => Holders = {} /\ run.pc \in {"idle", "done"}

\* The returned text is the longest tail of what was read that fits the limit
\* and starts at a rune, it is called truncated exactly when more was read,
\* and then the file it names holds every byte that was read; without a file
\* something failed or was cancelled.  All that was written was read, unless
\* a process held the pipe for WaitDelay after the exit.  The result says that the
\* time ran out exactly when the deadline, and nobody else, stopped the command.
Read == Bytes(0, pipe.taken)
OutputAccounted ==
  run.pc = "done" /\ run.result = "exited" =>
    /\ run.truncated <=> pipe.taken > Limit
    /\ run.text = IF run.truncated THEN RuneStart(Last(Read, Limit)) ELSE Read
    /\ run.truncated => IF run.locator THEN spill.content = Read ELSE left < MaxFaults
    /\ ~pipe.late => pipe.taken = pipe.written
    /\ run.timedOut <=> killed
    /\ ctx \subseteq {"timeout"}

\* A run leaves nothing but its output, and accounts for that.
CommandKept == NothingOutlivesRun /\ OutputAccounted
=============================================================================
