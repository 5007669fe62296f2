------------------------------ MODULE Accounts ------------------------------
(***************************************************************************)
(* Provider accounts: the credential file several processes share           *)
(* (adapter/credential/file), the LLM runtime that prepares calls, logs in  *)
(* and logs out (app/llm), and the refresh of OAuth grants                  *)
(* (adapter/model/provider).                                                *)
(*                                                                          *)
(* The file is replaced by rename under a lock file that nothing but its    *)
(* owner removes.  A refresh token is spent when the provider answers a     *)
(* refresh with another one, so the answer must reach the file.             *)
(***************************************************************************)
EXTENDS Naturals, FiniteSets

CONSTANTS
  Clients,     \* processes that share the credential file
  Routes,      \* provider routes
  MaxGrants,   \* bound: access tokens the provider issues
  MaxOps,      \* bound: calls of PrepareCall, Login and Logout
  MaxFaults,   \* bound: failing reads, writes and exchanges, and cancellations
  MaxCrashes   \* bound: processes that die

VARIABLES
  records,  \* the credential document: one credential for each route
  lock,     \* the lock file: its owner, alive or not
  op,       \* the operation each process runs
  life,     \* the store in each process: "running", "stopped", "dead"
  issued,   \* the provider: how many access tokens it has issued
  expired,  \* the access tokens that expire within a minute, or have
  spent,    \* the refresh tokens replaced by another
  replays,  \* history: spent refresh tokens presented again
  lost,     \* history: spent tokens whose successor a fault kept from the file
  left      \* what remains of the bounds

vars == <<records, lock, op, life, issued, expired, spent, replays, lost, left>>

Cred(kind, access, refresh) == [kind |-> kind, access |-> access, refresh |-> refresh]
NoCred == Cred("none", 0, 0)
ApiKey == Cred("api-key", 0, 0)
Free == "free"

Resting == [pc |-> "idle", kind |-> "none", route |-> "none", doc |-> [r \in Routes |-> NoCred], next |-> NoCred, cut |-> FALSE]

\* The file holds nothing, API keys, or the grant of an earlier login.
Init ==
  /\ \/ records \in {[r \in Routes |-> cred] : cred \in {NoCred, ApiKey}} /\ issued = 0
     \/ records \in {[r \in Routes |-> IF r = s THEN Cred("oauth", 1, 1) ELSE NoCred] : s \in Routes} /\ issued = 1
  /\ lock = Free
  /\ op = [c \in Clients |-> Resting] /\ life = [c \in Clients |-> "running"]
  /\ expired = {} /\ spent = {} /\ replays = {} /\ lost = {}
  /\ left = [ops |-> MaxOps, faults |-> MaxFaults, crashes |-> MaxCrashes]

Spend(b) == left[b] > 0 /\ left' = [left EXCEPT ![b] = @ - 1]
Return(c) == op' = [op EXCEPT ![c] = Resting]
Step(c, pc) == op' = [op EXCEPT ![c].pc = pc]
Modify(c, kind, r, next) ==
  op' = [op EXCEPT ![c] = [Resting EXCEPT !.pc = "locking", !.kind = kind, !.route = r, !.next = next]]

\* The route's record in the document an operation read.
Base(c) == IF op[c].route \in Routes THEN op[c].doc[op[c].route] ELSE NoCred

\* An OAuth record whose access token is about to expire.
Expiring(cred) == cred.kind = "oauth" /\ cred.access \in expired

-----------------------------------------------------------------------------
(* The LLM runtime's operations.                                            *)

\* Resolve reads the document without the lock: the stored record, or without
\* one the environment's key, if there is one.
Resolve(r) == IF records[r] = NoCred THEN {NoCred, ApiKey} ELSE {records[r]}

\* PrepareCall: an expiring grant is refreshed under the lock; anything else
\* ends it.
PrepareCall(c, r) ==
  /\ life[c] = "running" /\ op[c] = Resting /\ Spend("ops")
  /\ \E cred \in Resolve(r) : Expiring(cred)
  /\ Modify(c, "refresh", r, NoCred)
  /\ UNCHANGED <<records, lock, life, issued, expired, spent, replays, lost>>

\* What an interaction in a browser or on another device ends with: a grant,
\* with a refresh token or without one.
Granted(access) == {Cred("oauth", access, refresh) : refresh \in {0, access}}

\* Login: the interaction ends with an API key (entered, or made by OpenRouter)
\* or with a grant; then the record is replaced.
Login(c, r) ==
  /\ life[c] = "running" /\ op[c] = Resting /\ Spend("ops")
  /\ \/ Modify(c, "login", r, ApiKey) /\ UNCHANGED issued
     \/ /\ issued < MaxGrants /\ issued' = issued + 1
        /\ \E cred \in Granted(issued') : Modify(c, "login", r, cred)
  /\ UNCHANGED <<records, lock, life, expired, spent, replays, lost>>

Logout(c, r) ==
  /\ life[c] = "running" /\ op[c] = Resting /\ Spend("ops")
  /\ Modify(c, "logout", r, NoCred)
  /\ UNCHANGED <<records, lock, life, issued, expired, spent, replays, lost>>

\* The context of the call is cancelled.
Cancel(c) ==
  /\ op[c].pc # "idle" /\ ~op[c].cut /\ Spend("faults")
  /\ op' = [op EXCEPT ![c].cut = TRUE]
  /\ UNCHANGED <<records, lock, life, issued, expired, spent, replays, lost>>

-----------------------------------------------------------------------------
(* Modify: lock, read, decide, write, rename, unlock.                       *)

\* Mutant: a lock file found in place is taken over as abandoned.
LockTakenOver(c) ==
  /\ op[c].pc = "locking" /\ ~op[c].cut
  /\ lock' = c /\ Step(c, "locked")
  /\ UNCHANGED <<records, life, issued, expired, spent, replays, lost, left>>

Lock(c) ==
  /\ op[c].pc = "locking" /\ ~op[c].cut /\ lock = Free
  /\ lock' = c /\ Step(c, "locked")
  /\ UNCHANGED <<records, life, issued, expired, spent, replays, lost, left>>

\* The deadline passes while the lock file exists, or the context ends.
LockRefused(c) ==
  /\ op[c].pc = "locking" /\ (op[c].cut \/ lock # Free)
  /\ Return(c)
  /\ UNCHANGED <<records, lock, life, issued, expired, spent, replays, lost, left>>

\* The deferred removal of the lock file, on every path out of Modify.
Unlock(c) == lock' = Free /\ Return(c)

\* The document is read under the lock; mutate decides on what it holds now.
ReadDocument(c) ==
  /\ op[c].pc = "locked" /\ ~op[c].cut
  /\ op' = [op EXCEPT ![c].pc = "mutating", ![c].doc = records]
  /\ UNCHANGED <<records, lock, life, issued, expired, spent, replays, lost, left>>

ReadFails(c) ==
  /\ op[c].pc = "locked" /\ IF op[c].cut THEN UNCHANGED left ELSE Spend("faults")
  /\ Unlock(c)
  /\ UNCHANGED <<records, life, issued, expired, spent, replays, lost>>

\* Login and Logout replace whatever is there.
MutateReplaces(c) ==
  /\ op[c].pc = "mutating" /\ op[c].kind # "refresh" /\ Step(c, "writing")
  /\ UNCHANGED <<records, lock, life, issued, expired, spent, replays, lost, left>>

\* The record was deleted meanwhile (ErrNoCredential).
MutateGone(c) ==
  /\ op[c].pc = "mutating" /\ op[c].kind = "refresh" /\ Base(c) = NoCred
  /\ Unlock(c)
  /\ UNCHANGED <<records, life, issued, expired, spent, replays, lost, left>>

\* Another process refreshed it meanwhile: the record is written as it is.
MutateKeeps(c) ==
  /\ op[c].pc = "mutating" /\ op[c].kind = "refresh"
  /\ Base(c) # NoCred /\ ~Expiring(Base(c))
  /\ op' = [op EXCEPT ![c].pc = "writing", ![c].next = Base(c)]
  /\ UNCHANGED <<records, lock, life, issued, expired, spent, replays, lost, left>>

\* refreshOpenAI, refreshAnthropic: a grant without a refresh token fails
\* before the exchange.  The provider (external) issues an access token and
\* either another refresh token, which spends the one presented, or none, and
\* the old one is kept; it refuses a spent token.
Presented(c) == Base(c).refresh

RefreshFails(c) ==
  /\ op[c].pc = "mutating" /\ op[c].kind = "refresh" /\ Expiring(Base(c))
  /\ \/ Presented(c) = 0 /\ UNCHANGED <<left, replays>>
     \/ /\ Presented(c) # 0 /\ Presented(c) \notin spent
        /\ IF op[c].cut THEN UNCHANGED left ELSE Spend("faults")
        /\ UNCHANGED replays
     \/ /\ Presented(c) # 0 /\ Presented(c) \in spent
        /\ replays' = replays \union {Presented(c)} /\ UNCHANGED left
  /\ Unlock(c)
  /\ UNCHANGED <<records, life, issued, expired, spent, lost>>

\* The refresh token of the answer, or the one presented when it has none.
Renewals(c, access) == {Presented(c), access}

Refreshes(c) ==
  /\ op[c].pc = "mutating" /\ op[c].kind = "refresh" /\ Expiring(Base(c))
  /\ Presented(c) # 0 /\ Presented(c) \notin spent
  /\ issued < MaxGrants /\ issued' = issued + 1
  /\ \E refresh \in Renewals(c, issued') :
       /\ spent' = IF refresh = Presented(c) THEN spent ELSE spent \union {Presented(c)}
       /\ op' = [op EXCEPT ![c].pc = "exchanging", ![c].next = Cred("oauth", issued', refresh)]
  /\ UNCHANGED <<records, lock, life, expired, replays, lost, left>>

\* The provider answered: the answer arrives, also when the caller's context
\* ended meanwhile and the read won the race ...
Refreshed(c) ==
  /\ op[c].pc = "exchanging" /\ Step(c, "writing")
  /\ UNCHANGED <<records, lock, life, issued, expired, spent, replays, lost, left>>

\* ... or it is lost: a transport fault, or the context that ended.
Losing(c) == lost \union ({Base(c).refresh} \intersect spent)

AnswerLost(c) ==
  /\ op[c].pc = "exchanging" /\ IF op[c].cut THEN UNCHANGED left ELSE Spend("faults")
  /\ lost' = Losing(c) /\ Unlock(c)
  /\ UNCHANGED <<records, life, issued, expired, spent, replays>>

\* Mutant: the rotated refresh token is not stored.
WrittenUnrotated(c) ==
  [op[c].doc EXCEPT ![op[c].route] =
    IF op[c].kind = "refresh" THEN [op[c].next EXCEPT !.refresh = Base(c).refresh] ELSE op[c].next]

\* writeDocument renames the temporary file; the write before it may fail.
\* Cancellation is no longer looked at.
Written(c) == [op[c].doc EXCEPT ![op[c].route] = op[c].next]

WriteDocument(c) ==
  /\ op[c].pc = "writing"
  /\ records' = Written(c)
  /\ Step(c, "renamed")
  /\ UNCHANGED <<lock, life, issued, expired, spent, replays, lost, left>>

WriteFails(c) ==
  /\ op[c].pc = "writing" /\ Spend("faults")
  /\ lost' = IF op[c].kind = "refresh" THEN Losing(c) ELSE lost
  /\ Unlock(c)
  /\ UNCHANGED <<records, life, issued, expired, spent, replays>>

ModifyReturns(c) ==
  /\ op[c].pc = "renamed" /\ Unlock(c)
  /\ UNCHANGED <<records, life, issued, expired, spent, replays, lost, left>>

-----------------------------------------------------------------------------
(* The store's lifecycle, and time.                                         *)

\* The cleanup of Start: later calls fail, one under way runs to its end.
Stop(c) ==
  /\ life[c] = "running" /\ life' = [life EXCEPT ![c] = "stopped"]
  /\ UNCHANGED <<records, lock, op, issued, expired, spent, replays, lost, left>>

\* The process dies; its lock file stays.
Crash(c) ==
  /\ life[c] = "running" /\ Spend("crashes")
  /\ life' = [life EXCEPT ![c] = "dead"] /\ Return(c)
  /\ lost' = IF op[c].pc \in {"exchanging", "writing"} /\ op[c].kind = "refresh" THEN Losing(c) ELSE lost
  /\ UNCHANGED <<records, lock, issued, expired, spent, replays>>

Expire ==
  /\ \E g \in (1..issued) \ expired : expired' = expired \union {g}
  /\ UNCHANGED <<records, lock, op, life, issued, spent, replays, lost, left>>

Next ==
  \/ Expire
  \/ \E c \in Clients :
       \/ \E r \in Routes : PrepareCall(c, r) \/ Login(c, r) \/ Logout(c, r)
       \/ Cancel(c) \/ Lock(c) \/ LockRefused(c) \/ ReadDocument(c) \/ ReadFails(c)
       \/ MutateReplaces(c) \/ MutateGone(c) \/ MutateKeeps(c)
       \/ RefreshFails(c) \/ Refreshes(c) \/ Refreshed(c) \/ AnswerLost(c)
       \/ WriteDocument(c) \/ WriteFails(c) \/ ModifyReturns(c)
       \/ Stop(c) \/ Crash(c)

-----------------------------------------------------------------------------
(* Properties.                                                              *)

Deciding == {"mutating", "exchanging", "writing"}
NoBase == [route |-> "none", base |-> NoCred]

Seen == [c \in Clients |-> IF op[c].pc \in Deciding
                           THEN [route |-> op[c].route, base |-> Base(c)] ELSE NoBase]

\* Modify is atomic across processes: the file behaves as AccountRecords, so
\* no modification is decided on a record another process replaced, and none
\* overwrites another route's record (store.go, Modify and withLock).
Abstract == INSTANCE AccountRecords WITH seen <- Seen

Implements == Abstract!Spec

\* The refresh token in the file is one the provider still accepts, unless
\* the process that refreshes it has the successor in hand, or a fault lost
\* the successor; and no process presents a spent token unless one was lost.
\* Cancellation after the answer loses nothing (store.go: "so an OAuth refresh
\* does not lose its newly rotated grant").
GrantKept ==
  /\ replays \subseteq lost
  /\ \A r \in Routes :
       records[r].refresh \in spent => 
         \/ records[r].refresh \in lost
         \/ \E c \in Clients : /\ lock = c /\ op[c].route = r
                               /\ op[c].pc \in {"exchanging", "writing"}
=============================================================================
