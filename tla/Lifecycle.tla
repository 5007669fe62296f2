------------------------------ MODULE Lifecycle -----------------------------
(***************************************************************************)
(* The plugin runtime (core/plugin): plugins start in order and register    *)
(* the cleanups of their effects in a scope each; a failed start and        *)
(* Shutdown undo everything in reverse.  Plugin 1 also admits calls that    *)
(* its first cleanup cancels and joins (Calls).                             *)
(***************************************************************************)
EXTENDS Naturals, Sequences, FiniteSets

CONSTANTS
  Plugins,      \* how many plugins the composition has
  MaxCleanups,  \* bound: cleanups registered in one scope
  CallIds,      \* calls plugin 1 may have in flight
  Closers       \* callers of Shutdown

VARIABLES
  state,    \* Runtime.state
  owner,    \* who holds the lifecycle lock
  at,       \* the plugin whose Start runs
  mounted,  \* Runtime.mounted, or the local list while starting
  scope,    \* each plugin's scope: how many cleanups it holds, closed or not
  closing,  \* the scopes still to close, and the cleanups of the current one
  ran,      \* history: the cleanups that ran, in order
  calls,    \* calls in flight, and whether the owner still admits and joins
  callers   \* the Shutdown calls

vars == <<state, owner, at, mounted, scope, closing, ran, calls, callers>>

Init ==
  /\ state = "new" /\ owner = "none" /\ at = 0 /\ mounted = <<>>
  /\ scope = [p \in 1..Plugins |-> [count |-> 0, closed |-> FALSE]]
  /\ closing = [scopes |-> <<>>, todo |-> <<>>] /\ ran = <<>>
  /\ calls = [open |-> {}, admits |-> FALSE, joining |-> FALSE]
  /\ callers = [c \in Closers |-> "idle"]

\* Mutant: the scopes are closed in the order they were mounted.
ReversedNot(s) == s

\* The order in which closeMounted walks the mounted plugins.
Reversed(s) == [i \in 1..Len(s) |-> s[Len(s) + 1 - i]]

\* Start: the lifecycle lock is held until it returns.
Start ==
  /\ owner = "none" /\ state = "new"
  /\ owner' = "start" /\ state' = "starting" /\ at' = 1
  /\ UNCHANGED <<mounted, scope, closing, ran, calls, callers>>

\* Scope.Defer: refused once the scope closes.  A plugin registers while it
\* starts, and another component may register in its scope later.
Defer(p) ==
  /\ at = p \/ (\E i \in 1..Len(mounted) : mounted[i] = p)
  /\ ~scope[p].closed /\ scope[p].count < MaxCleanups
  /\ scope' = [scope EXCEPT ![p].count = @ + 1]
  /\ calls' = IF p = 1 /\ scope[p].count = 0 THEN [calls EXCEPT !.admits = TRUE] ELSE calls
  /\ UNCHANGED <<state, owner, at, mounted, closing, ran, callers>>

PluginStarted ==
  /\ state = "starting" /\ at > 0
  /\ mounted' = Append(mounted, at)
  /\ IF at = Plugins
     THEN at' = 0 /\ state' = "running" /\ owner' = "none"
     ELSE at' = at + 1 /\ UNCHANGED <<state, owner>>
  /\ UNCHANGED <<scope, closing, ran, calls, callers>>

\* The failed plugin's own scope is closed first, then the mounted ones.
PluginFails ==
  /\ state = "starting" /\ at > 0
  /\ closing' = [closing EXCEPT !.scopes = <<at>> \o Reversed(mounted)]
  /\ at' = 0
  /\ UNCHANGED <<state, owner, mounted, scope, ran, calls, callers>>

\* Scope.Close takes the cleanups and refuses more; a closed scope is skipped.
CloseScope ==
  /\ closing.scopes # <<>> /\ closing.todo = <<>>
  /\ LET p == Head(closing.scopes)  n == scope[p].count IN
     /\ scope' = [scope EXCEPT ![p].closed = TRUE]
     /\ closing' = [scopes |-> Tail(closing.scopes),
                    todo |-> IF scope[p].closed THEN <<>> ELSE [i \in 1..n |-> <<p, n + 1 - i>>]]
  /\ UNCHANGED <<state, owner, at, mounted, ran, calls, callers>>

\* Calls: the owner's cleanup stops admission and cancels, then waits.
StopCalls ==
  /\ closing.todo # <<>> /\ Head(closing.todo) = <<1, 1>> /\ ~calls.joining
  /\ calls' = [calls EXCEPT !.admits = FALSE, !.joining = TRUE]
  /\ UNCHANGED <<state, owner, at, mounted, scope, closing, ran, callers>>

\* Every cleanup runs once, whether or not an earlier one failed.
RunCleanup ==
  /\ closing.todo # <<>>
  /\ Head(closing.todo) = <<1, 1>> => calls.joining /\ calls.open = {}
  /\ ran' = Append(ran, Head(closing.todo))
  /\ closing' = [closing EXCEPT !.todo = Tail(@)]
  /\ UNCHANGED <<state, owner, at, mounted, scope, calls, callers>>

\* Start returns its error, or Shutdown returns.
Stopped ==
  /\ at = 0 /\ closing.scopes = <<>> /\ closing.todo = <<>>
  /\ \/ state = "starting" /\ owner = "start" /\ UNCHANGED callers
     \/ state = "stopping" /\ callers' = [callers EXCEPT ![owner] = "done"]
  /\ state' = "stopped" /\ owner' = "none" /\ mounted' = <<>>
  /\ UNCHANGED <<at, scope, closing, ran, calls>>

Admit(c) ==
  /\ calls.admits /\ c \notin calls.open
  /\ calls' = [calls EXCEPT !.open = @ \cup {c}]
  /\ UNCHANGED <<state, owner, at, mounted, scope, closing, ran, callers>>

Done(c) ==
  /\ c \in calls.open
  /\ calls' = [calls EXCEPT !.open = @ \ {c}]
  /\ UNCHANGED <<state, owner, at, mounted, scope, closing, ran, callers>>

\* Shutdown waits for the lifecycle lock, and so for a Start under way.
Shutdown(c) ==
  /\ owner = "none" /\ callers[c] = "idle"
  /\ \/ state = "stopped" /\ callers' = [callers EXCEPT ![c] = "done"] /\ UNCHANGED <<state, owner, closing>>
     \/ state = "new" /\ state' = "stopped" /\ callers' = [callers EXCEPT ![c] = "done"] /\ UNCHANGED <<owner, closing>>
     \/ /\ state = "running" /\ state' = "stopping" /\ owner' = c
        /\ closing' = [closing EXCEPT !.scopes = Reversed(mounted)]
        /\ callers' = [callers EXCEPT ![c] = "closing"]
  /\ UNCHANGED <<at, mounted, scope, ran, calls>>

Next ==
  \/ Start \/ PluginStarted \/ PluginFails \/ CloseScope \/ StopCalls \/ RunCleanup \/ Stopped
  \/ \E p \in 1..Plugins : Defer(p)
  \/ \E c \in CallIds : Admit(c) \/ Done(c)
  \/ \E c \in Closers : Shutdown(c)

-----------------------------------------------------------------------------
\* Cleanups run once each, later plugins before earlier ones and within a
\* scope the last registered first; and whoever is told that the runtime
\* stopped (a Shutdown that returned, a Start that failed) finds every
\* registered effect undone and no call of a plugin in flight.
After(a, b) == a[1] > b[1] \/ (a[1] = b[1] /\ a[2] > b[2])
EffectsUndone ==
  /\ \A i, j \in 1..Len(ran) : i < j => After(ran[i], ran[j])
  /\ state = "stopped" =>
       /\ {ran[i] : i \in 1..Len(ran)} = UNION {{<<p, n>> : n \in 1..scope[p].count} : p \in 1..Plugins}
       /\ calls.open = {}
  /\ (\E c \in Closers : callers[c] = "done") => state = "stopped"
=============================================================================
