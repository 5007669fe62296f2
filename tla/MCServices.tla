----------------------------- MODULE MCServices -----------------------------
(***************************************************************************)
(* Values for the constants of Services that a configuration cannot write. *)
(***************************************************************************)
EXTENDS Services, TLC

\* A session that may be released makes three calls, another one call.
MCJobCalls == "s1" :> 3 @@ "s2" :> 1

\* Writes of one and of two characters of two bytes.
JobWrites == {[len |-> 2, runes |-> {0}], [len |-> 4, runes |-> {0, 2}]}

PlanQuestion == <<"plan">>

\* Approval, refusal, a text of the person's own, and two malformed batches.
Reply(id, selected, custom) == [id |-> id, selected |-> selected, custom |-> custom]
Replies == {<<Reply("plan", {"Approve"}, FALSE)>>, <<Reply("plan", {"Revise"}, FALSE)>>,
            <<Reply("plan", {}, TRUE)>>, <<Reply("other", {"Approve"}, FALSE)>>,
            <<Reply("plan", {"Approve"}, FALSE), Reply("plan", {"Revise"}, FALSE)>>}

\* A normal policy whose second delay is capped, and an eager one that reaches
\* its cap.
RetryPolicies ==
  {[id |-> 1, mode |-> "normal", retries |-> 2, initial |-> 6, max |-> 10, jitter |-> 10],
   [id |-> 2, mode |-> "always", retries |-> 2, initial |-> 1, max |-> 2, jitter |-> 100]}
ModelFailures ==
  {[code |-> "server", after |-> 0], [code |-> "rate_limit", after |-> 20],
   [code |-> "foreign", after |-> 0], [code |-> "invalid", after |-> 0]}

\* Repeated, blank, missing and too many queries; answers short and too long.
QueryLists == {<<"a">>, <<"a", "b">>, <<"a", "b", "a", "c">>, <<"a", "b", "a", "b", "c">>,
               <<"a", "blank">>, <<>>}
SourceLists == {<<>>, <<"u1">>, <<"u2", "u1">>, <<"u1", "u3", "u2">>, <<"u4", "u5">>}

\* Characters of two, three and one byte.
CommandOutput == <<TRUE, FALSE, TRUE, FALSE, FALSE, TRUE>>

FileReads == {<<"a", 1>>, <<"b", 1>>}

\* Interchangeable are the processes of the log and of the credential file, the
\* front ends, the sweeps, the savers of one image, and the routes.
Symmetry == Permutations(Procs) \cup Permutations(Routes)
=============================================================================
