----------------------------- MODULE WebSearch ------------------------------
(***************************************************************************)
(* The web service (app/web): one search call runs its distinct queries     *)
(* concurrently through one prepared account; each query's request intent   *)
(* is committed to the session log before its dispatch and in index order,  *)
(* the first failure cancels the others, and cleanup cancels and joins the  *)
(* call.  The provider that answers is external.                            *)
(***************************************************************************)
EXTENDS Naturals, Sequences, FiniteSets, SequencesExt

CONSTANTS
  Arguments,   \* the queries argument of the call, each a sequence
  MaxQueries,  \* the most queries a call may name
  MaxResults,  \* the most sources a call returns
  Answers,     \* the source lists a provider may answer with
  MaxFaults    \* bound: appends and provider calls that fail

Blank == "blank"

VARIABLES
  service,  \* Service.active, and what its cleanup is doing
  call,     \* Search: where it is, the accepted queries, its context, its outcome
  query,    \* each query's goroutine
  log,      \* the indices of the committed request records
  first,    \* the first failure, which cancels the query context
  left      \* what remains of MaxFaults

vars == <<service, call, query, log, first, left>>

None == "none"

Init ==
  /\ service = "active"
  /\ call = [pc |-> "idle", accepted |-> <<>>, cause |-> None, code |-> None, sources |-> <<>>, truncated |-> FALSE]
  /\ query = <<>> /\ log = <<>> /\ first = None /\ left = MaxFaults

-----------------------------------------------------------------------------
(* ParseQueries, capSources and mergeResults.                               *)

\* Exact duplicates collapse to their first occurrence.
Firsts(s) == {i \in 1..Len(s) : \A j \in 1..(i - 1) : s[j] # s[i]}
NthFirst(s, n) == CHOOSE i \in Firsts(s) : Cardinality({j \in Firsts(s) : j <= i}) = n
Distinct(s) == [n \in 1..Cardinality(Firsts(s)) |-> s[NthFirst(s, n)]]

Parses(queries) ==
  Len(queries) \in 1..MaxQueries /\ \A i \in 1..Len(queries) : queries[i] # Blank

CapSources(found) ==
  [sources |-> IF Len(found) > MaxResults THEN SubSeq(found, 1, MaxResults) ELSE found,
   truncated |-> Len(found) > MaxResults]

\* Round-robin by rank: the sources of rank 1 of every query, then of rank 2.
ByRank(results) ==
  LET ranks == CHOOSE n \in {Len(results[i].sources) : i \in 1..Len(results)} :
                 \A i \in 1..Len(results) : Len(results[i].sources) <= n
      OfRank(r) == FoldLeft(LAMBDA row, result : IF r <= Len(result.sources) THEN Append(row, result.sources[r]) ELSE row,
                            <<>>, results)
  IN FoldLeft(LAMBDA all, r : all \o OfRank(r), <<>>, [r \in 1..ranks |-> r])

\* Repeated sources are dropped; the first one past the cap truncates.
Merge(results) ==
  LET step(acc, source) ==
        IF acc.truncated \/ Contains(acc.sources, source) THEN acc
        ELSE IF Len(acc.sources) = MaxResults THEN [acc EXCEPT !.truncated = TRUE]
        ELSE [acc EXCEPT !.sources = Append(@, source)]
      merged == FoldLeft(step, [sources |-> <<>>, truncated |-> FALSE], ByRank(results))
  IN [merged EXCEPT !.truncated = @ \/ \E i \in 1..Len(results) : results[i].truncated]

-----------------------------------------------------------------------------
(* Search and runQueries.                                                   *)

Searching == call.pc \in {"prepare", "queries"}
Queries == 1..Len(query)
At(i, pc) == query' = [query EXCEPT ![i].pc = pc]

\* Rejected before it is admitted, or not admitted: the service stopped.
Search(queries) ==
  /\ call.pc = "idle"
  /\ call' = IF ~Parses(queries) THEN [call EXCEPT !.pc = "done", !.code = "invalid"]
             ELSE IF service # "active" THEN [call EXCEPT !.pc = "done", !.code = "not_running"]
             ELSE [call EXCEPT !.pc = "prepare", !.accepted = Distinct(queries)]
  /\ UNCHANGED <<service, query, log, first, left>>

\* PrepareCall resolves the route and the account once for all queries.
Prepare ==
  /\ call.pc = "prepare"
  /\ call' = [call EXCEPT !.pc = "queries"]
  /\ query' = [i \in 1..Len(call.accepted) |-> [pc |-> "gate", result |-> [sources |-> <<>>, truncated |-> FALSE]]]
  /\ UNCHANGED <<service, log, first, left>>

\* searchError: the operation's own context is asked first.
ErrorCode(err) == IF call.cause # None THEN call.cause ELSE err

PrepareFails ==
  /\ call.pc = "prepare"
  /\ \/ left > 0 /\ left' = left - 1
     \/ call.cause # None /\ UNCHANGED left
  /\ call' = [call EXCEPT !.pc = "returning", !.code = ErrorCode("provider")]
  /\ UNCHANGED <<service, query, log, first>>

\* The query context: cancelled with the operation or by the first failure.
QueryCanceled == call.cause # None \/ first # None

\* Mutant: an intent does not wait for its predecessor.
GateOpenAlways(i) == TRUE

\* RecordRequest: the gate opens when the previous intent is committed; a
\* gate and a cancellation that are both ready are chosen between at random.
GateOpen(i) == i = 1 \/ i - 1 \in ToSet(log)
RecordRequest(i) ==
  /\ query[i].pc = "gate" /\ GateOpen(i)
  /\ log' = Append(log, i) /\ At(i, "committed")
  /\ UNCHANGED <<service, call, first, left>>

\* recordSearch looks at the context again before the request is sent.
Dispatch(i) ==
  /\ query[i].pc = "committed" /\ At(i, "sent")
  /\ UNCHANGED <<service, call, log, first, left>>

Found(i, answer) ==
  /\ query[i].pc = "sent"
  /\ query' = [query EXCEPT ![i] = [pc |-> "found", result |-> CapSources(answer)]]
  /\ UNCHANGED <<service, call, log, first, left>>

\* once.Do: the first failure is kept and cancels the other queries.
Fails(i, err) ==
  /\ At(i, "failed")
  /\ first' = IF first = None THEN err ELSE first
  /\ UNCHANGED <<service, call, log>>

RecordFails(i) ==
  /\ query[i].pc = "gate" /\ GateOpen(i) /\ left > 0 /\ left' = left - 1
  /\ Fails(i, "audit")

ProviderFails(i) ==
  /\ query[i].pc \in {"gate", "sent"} /\ left > 0 /\ left' = left - 1
  /\ Fails(i, "provider")

QueryStops(i) ==
  /\ query[i].pc \in {"gate", "committed", "sent"} /\ QueryCanceled
  /\ Fails(i, "canceled") /\ UNCHANGED left

\* group.Wait, then the results are merged or the first failure classified.
QueriesSettled ==
  /\ call.pc = "queries" /\ \A i \in Queries : query[i].pc \in {"found", "failed"}
  /\ LET results == [i \in Queries |-> query[i].result]
         merged == IF Len(results) = 1 THEN results[1] ELSE Merge(results) IN
     call' = IF first # None THEN [call EXCEPT !.pc = "returning", !.code = ErrorCode(first)]
             ELSE [call EXCEPT !.pc = "returning", !.code = "ok", !.sources = merged.sources, !.truncated = merged.truncated]
  /\ UNCHANGED <<service, query, log, first, left>>

\* done: the operation is released, then the caller has its result.
Return ==
  /\ call.pc = "returning" /\ call' = [call EXCEPT !.pc = "done"]
  /\ UNCHANGED <<service, query, log, first, left>>

\* The deadline passes, the turn is cancelled, or cleanup cancels and joins.
Deadline ==
  /\ Searching /\ call.cause = None /\ call' = [call EXCEPT !.cause = "timeout"]
  /\ UNCHANGED <<service, query, log, first, left>>

Cancel ==
  /\ Searching /\ call.cause = None /\ call' = [call EXCEPT !.cause = "aborted"]
  /\ UNCHANGED <<service, query, log, first, left>>

Cleanup ==
  /\ service = "active" /\ service' = "joining"
  /\ call' = IF Searching /\ call.cause = None THEN [call EXCEPT !.cause = "aborted"] ELSE call
  /\ UNCHANGED <<query, log, first, left>>

CleanupReturns ==
  /\ service = "joining" /\ call.pc \in {"idle", "done"} /\ service' = "stopped"
  /\ UNCHANGED <<call, query, log, first, left>>

Next ==
  \/ \E queries \in Arguments : Search(queries)
  \/ Prepare \/ PrepareFails \/ QueriesSettled \/ Return
  \/ \E i \in Queries : \/ RecordRequest(i) \/ Dispatch(i) \/ RecordFails(i) \/ ProviderFails(i) \/ QueryStops(i)
                        \/ \E answer \in Answers : Found(i, answer)
  \/ Deadline \/ Cancel \/ Cleanup \/ CleanupReturns

-----------------------------------------------------------------------------
\* Request intents are committed in index order, one per query and each
\* before its dispatch; a search answers only after every query settled, and
\* then with success only if every query was recorded and answered; after
\* cleanup nothing is recorded or in flight.
IntentsRecorded ==
  /\ \A n \in 1..Len(log) : log[n] = n
  /\ \A i \in Queries : query[i].pc \in {"committed", "sent", "found"} => i <= Len(log)
  /\ call.pc \in {"returning", "done"} => \A i \in Queries : query[i].pc \in {"found", "failed"}
  /\ call.code = "ok" => Len(log) = Len(call.accepted) /\ \A i \in Queries : query[i].pc = "found"
  /\ service = "stopped" => call.pc # "queries"

\* The merged sources are distinct, every query's best sources come before
\* anyone's worse ones, and truncated says exactly whether a source was lost.
Rank(i, source) == IF Contains(query[i].result.sources, source)
                   THEN CHOOSE r \in 1..Len(query[i].result.sources) :
                          /\ query[i].result.sources[r] = source
                          /\ \A q \in 1..(r - 1) : query[i].result.sources[q] # source
                   ELSE MaxResults + 1
BestRank(source) == CHOOSE r \in {Rank(i, source) : i \in Queries} : \A i \in Queries : r <= Rank(i, source)
Offered == UNION {ToSet(query[i].result.sources) : i \in Queries}
MergedFairly ==
  call.code = "ok" /\ Len(query) > 1 =>
    /\ Cardinality(ToSet(call.sources)) = Len(call.sources)
    /\ \A a, b \in 1..Len(call.sources) : a < b => BestRank(call.sources[a]) <= BestRank(call.sources[b])
    /\ \A s \in Offered \ ToSet(call.sources), t \in ToSet(call.sources) : BestRank(t) <= BestRank(s)
    /\ call.truncated <=> Offered # ToSet(call.sources) \/ \E i \in Queries : query[i].result.truncated

\* A search is recorded before it is sent and merged without favour.
SearchKept == IntentsRecorded /\ MergedFairly
=============================================================================
