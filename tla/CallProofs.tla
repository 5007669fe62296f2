----------------------------- MODULE CallProofs -----------------------------
(***************************************************************************)
(* Proofs about the services of Services that calls go through: the plugin  *)
(* runtime, plan mode, retries, shell commands, web searches and background *)
(* jobs.                                                                    *)
(* For every value of the constants, and along every behaviour of the       *)
(* composition, the parts below keep what the run of MCServices checks on   *)
(* a small instance.                                                        *)
(*                                                                          *)
(* A section proves one part.  It names the slots x1, x2, ... after the     *)
(* part's variables, gives the inductive invariant, shows that the part's   *)
(* Init and every step of its Next keep it, and lifts that to ServicesSpec: *)
(* a step of the composition is a step of the part in focus (the lemmas     *)
(* whose names end in InFocus and Only).                                    *)
(***************************************************************************)
EXTENDS Services, Integers, Sequences, FiniteSetTheorems, WellFoundedInduction, SequenceTheorems, TLAPS

\* The places up to n + 1 are those up to n, and n + 1.
LEMMA OneMorePlace ==
  \A n \in Nat : /\ \A i \in 1..n : i \in 1..(n + 1)
                 /\ \A i \in 1..(n + 1) : i \in 1..n \/ i = n + 1
                 /\ n + 1 \in 1..(n + 1)
  OBVIOUS

-----------------------------------------------------------------------------
(* Lifecycle: the plugin runtime.                                          *)

\* The variables of Lifecycle, under their names there.
lfState == x1
lfOwner == x2
lfAt == x3
lfMounted == x4
lfScope == x5
lfClosing == x6
lfRan == x7
lfCalls == x8
lfCallers == x9

USE DEF lfState, lfOwner, lfAt, lfMounted, lfScope, lfClosing, lfRan, lfCalls, lfCallers

LifecycleTyped ==
  /\ lfAt \in Nat /\ lfMounted \in Seq(Nat)
  /\ lfScope \in [1..Plugins -> [count : Nat, closed : BOOLEAN]]
  /\ lfClosing = [scopes |-> lfClosing.scopes, todo |-> lfClosing.todo]
  /\ lfClosing.scopes \in Seq(Nat) /\ lfClosing.todo \in Seq(Nat \X Nat)
  /\ lfRan \in Seq(Nat \X Nat)
  /\ lfCalls \in [open : SUBSET CallIds, admits : BOOLEAN, joining : BOOLEAN]
  /\ DOMAIN lfCallers = Closers

\* The runtime undoes what it started, or has done so.
Unwinding(st, a) == st \in {"stopping", "stopped"} \/ (st = "starting" /\ a = 0)

\* How many scopes are still to close: the first ones.
ToClose == Len(lfClosing.scopes)
Todo == Len(lfClosing.todo)

\* Plugins are mounted in order, and nothing is undone until the runtime fails
\* to start or shuts down.
StartOrder ==
  /\ Len(lfMounted) <= Plugins /\ \A i \in 1..Len(lfMounted) : lfMounted[i] = i
  /\ lfAt > 0 => lfState = "starting" /\ lfAt <= Plugins /\ Len(lfMounted) = lfAt - 1
  /\ lfState = "new" => lfMounted = <<>>
  /\ lfState = "running" => Len(lfMounted) = Plugins
  /\ ~Unwinding(lfState, lfAt) =>
       /\ lfClosing.scopes = <<>> /\ lfClosing.todo = <<>> /\ lfRan = <<>>
       /\ \A p \in 1..Plugins : lfScope[p].count > 0 => p = lfAt \/ p <= Len(lfMounted)

\* The scopes are closed from the last to the first, and of the scope that is
\* being closed the last cleanup comes first.
Descending ==
  /\ ToClose <= Plugins
  /\ \A i \in 1..ToClose : lfClosing.scopes[i] = ToClose + 1 - i
  /\ \A i \in 1..Todo : lfClosing.todo[i] = <<ToClose + 1, Todo + 1 - i>>
  /\ Todo > 0 => ToClose < Plugins /\ Todo <= lfScope[ToClose + 1].count
  /\ \A i, j \in 1..Len(lfRan) : i < j => Lf!After(lfRan[i], lfRan[j])

\* What was undone: every scope that was closed, but for the cleanups left.
Undone(p, n, k, todo) == p > k + 1 \/ (p = k + 1 /\ n > todo)
Ran(e, ran) == \E i \in 1..Len(ran) : ran[i] = e

Unwound ==
  /\ \A p \in 1..ToClose : ~lfScope[p].closed
  /\ Unwinding(lfState, lfAt) =>
       /\ \A p \in 1..Plugins : p > ToClose => lfScope[p].closed \/ (lfScope[p].count = 0 /\ p > Len(lfMounted))
       /\ \A p \in 1..Plugins : \A n \in 1..lfScope[p].count : Undone(p, n, ToClose, Todo) => Ran(<<p, n>>, lfRan)
       /\ \A i \in 1..Len(lfRan) :
            /\ lfRan[i][1] \in 1..Plugins /\ lfRan[i][2] \in 1..lfScope[lfRan[i][1]].count
            /\ Undone(lfRan[i][1], lfRan[i][2], ToClose, Todo)
  /\ ~Unwinding(lfState, lfAt) => \A p \in 1..Plugins : ~lfScope[p].closed

\* Calls are in flight only between the registration of the cleanup that joins
\* them and its run.
CallsJoined ==
  /\ lfCalls.admits \/ lfCalls.open # {} \/ lfCalls.joining => lfScope[1].count > 0
  /\ lfCalls.admits \/ lfCalls.open # {} => ~Ran(<<1, 1>>, lfRan)
  /\ lfCalls.joining => ~lfCalls.admits

StopTold ==
  /\ lfState = "stopped" => lfClosing.scopes = <<>> /\ lfClosing.todo = <<>> /\ lfAt = 0
  /\ (\E c \in Closers : lfCallers[c] = "done") => lfState = "stopped"

LifecycleInv == LifecycleTyped /\ StartOrder /\ Descending /\ Unwound /\ CallsJoined /\ StopTold

LEMMA LifecycleInit == Lf!Init => LifecycleInv
<1> SUFFICES ASSUME Lf!Init PROVE LifecycleInv
  OBVIOUS
<1>1. lfScope \in [1..Plugins -> [count : Nat, closed : BOOLEAN]] /\ \A p \in 1..Plugins : lfScope[p].count = 0 /\ ~lfScope[p].closed
  BY DEF Lf!Init
<1>2. 1 \in 1..Plugins
  BY LifecycleAssumption
<1>3. LifecycleTyped
  BY <1>1 DEF Lf!Init, LifecycleTyped
<1>4. StartOrder /\ Descending
  BY <1>1, LifecycleAssumption DEF Lf!Init, StartOrder, Descending, ToClose, Todo, Unwinding
<1>5. Unwound
  BY <1>1 DEF Lf!Init, Unwound, ToClose, Unwinding
<1>6. CallsJoined /\ StopTold
  BY DEF Lf!Init, CallsJoined, StopTold
<1> QED  BY <1>3, <1>4, <1>5, <1>6 DEF LifecycleInv

\* What is left of a sequence, and one with an element before it.
LEMMA TailOf ==
  ASSUME NEW S, NEW s \in Seq(S), s # <<>>
  PROVE  /\ Head(s) = s[1] /\ Len(s) \in Nat \ {0}
         /\ Tail(s) \in Seq(S) /\ Len(Tail(s)) = Len(s) - 1
         /\ \A i \in 1..(Len(s) - 1) : i + 1 \in 1..Len(s) /\ Tail(s)[i] = s[i + 1]
OBVIOUS

LEMMA LedBy ==
  ASSUME NEW S, NEW a \in S, NEW s \in Seq(S)
  PROVE  /\ <<a>> \o s \in Seq(S) /\ Len(<<a>> \o s) = Len(s) + 1
         /\ \A i \in 1..(Len(s) + 1) : (<<a>> \o s)[i] = IF i = 1 THEN a ELSE s[i - 1]
OBVIOUS

\* One more cleanup in a scope that is open disturbs no order.
LEMMA LifecycleDefers ==
  ASSUME LifecycleInv, NEW p \in 1..Plugins, Lf!Defer(p)
  PROVE  LifecycleInv'
<1>1. /\ lfScope \in [1..Plugins -> [count : Nat, closed : BOOLEAN]] /\ ~lfScope[p].closed
      /\ lfScope' = [lfScope EXCEPT ![p].count = lfScope[p].count + 1]
      /\ lfState' = lfState /\ lfAt' = lfAt /\ lfMounted' = lfMounted /\ lfClosing' = lfClosing /\ lfRan' = lfRan /\ lfCallers' = lfCallers
  BY DEF Lf!Defer, LifecycleInv, LifecycleTyped
<1>2. /\ lfScope' \in [1..Plugins -> [count : Nat, closed : BOOLEAN]]
      /\ lfScope'[p].count = lfScope[p].count + 1 /\ ~lfScope'[p].closed
      /\ \A q \in 1..Plugins \ {p} : lfScope'[q] = lfScope[q]
  BY <1>1
<1>3. /\ lfCalls' \in [open : SUBSET CallIds, admits : BOOLEAN, joining : BOOLEAN]
      /\ lfCalls' = lfCalls \/ (p = 1 /\ lfScope[1].count = 0 /\ lfCalls' = [lfCalls EXCEPT !.admits = TRUE])
  BY Zenon DEF Lf!Defer, LifecycleInv, LifecycleTyped
<1>4. lfAt = p \/ p <= Len(lfMounted)
  <2>1. lfAt = p \/ \E i \in 1..Len(lfMounted) : lfMounted[i] = p
    BY DEF Lf!Defer
  <2> QED  BY <2>1 DEF LifecycleInv, StartOrder
<1>5. LifecycleTyped'
  BY <1>1, <1>2, <1>3 DEF LifecycleInv, LifecycleTyped
<1>6. StartOrder'
  BY <1>1, <1>2, <1>4 DEF LifecycleInv, StartOrder, Unwinding
<1>7. ToClose \in Nat /\ Todo \in Nat /\ ToClose' = ToClose /\ Todo' = Todo
  BY <1>1 DEF ToClose, Todo, LifecycleInv, LifecycleTyped
<1>8. Unwinding(lfState, lfAt) => lfAt = 0 /\ p <= ToClose
  <2>1. Unwinding(lfState, lfAt) => lfAt = 0
    BY SMTT(30) DEF LifecycleInv, LifecycleTyped, StartOrder, Unwinding
  <2>2. ASSUME Unwinding(lfState, lfAt), p > ToClose PROVE FALSE
    <3>1. lfScope[p].closed \/ p > Len(lfMounted)
      BY <2>2 DEF LifecycleInv, Unwound
    <3>2. lfMounted \in Seq(Nat)
      BY DEF LifecycleInv, LifecycleTyped
    <3> QED  BY <1>1, <1>4, <2>1, <2>2, <3>1, <3>2
  <2> QED  BY <1>7, <2>1, <2>2
<1>13. \A q \in 1..Plugins : /\ lfScope[q].count \in Nat /\ lfScope'[q].count \in Nat
                              /\ lfScope[q].count <= lfScope'[q].count /\ lfScope'[q].closed = lfScope[q].closed
  BY <1>1, <1>2
<1>9. Descending'
  <2>1. Todo > 0 => Todo <= lfScope'[ToClose + 1].count
    BY <1>7, <1>13, LifecycleAssumption DEF LifecycleInv, Descending
  <2> QED  BY <1>1, <1>7, <2>1 DEF LifecycleInv, Descending, Lf!After
<1>10. Unwound'
  <2>1. \A q \in 1..ToClose : ~lfScope'[q].closed
    <3>1. ToClose <= Plugins /\ \A q \in 1..ToClose : ~lfScope[q].closed
      BY DEF LifecycleInv, Unwound, Descending
    <3> QED  BY <1>7, <1>13, <3>1, LifecycleAssumption
  <2>2. CASE ~Unwinding(lfState, lfAt)
    BY <1>1, <1>2, <1>7, <2>1, <2>2 DEF LifecycleInv, Unwound, Unwinding
  <2>3. CASE Unwinding(lfState, lfAt)
    <3>1. \A q \in 1..Plugins : q > ToClose => lfScope'[q] = lfScope[q]
      BY <1>2, <1>7, <1>8, <2>3
    <3>2. \A q \in 1..Plugins, n \in Nat : Undone(q, n, ToClose, Todo) => q > ToClose
      BY <1>7 DEF Undone
    <3>3. \A q \in 1..Plugins, n \in Nat : Undone(q, n, ToClose', Todo') <=> Undone(q, n, ToClose, Todo)
      BY <1>7 DEF Undone
    <3>4. \A e : Ran(e, lfRan') <=> Ran(e, lfRan)
      BY <1>1 DEF Ran
    <3>5. \A q \in 1..Plugins : \A n \in 1..lfScope'[q].count : Undone(q, n, ToClose', Todo') => Ran(<<q, n>>, lfRan')
      <4> SUFFICES ASSUME NEW q \in 1..Plugins, NEW n \in 1..lfScope'[q].count, Undone(q, n, ToClose', Todo') PROVE Ran(<<q, n>>, lfRan')
        OBVIOUS
      <4>1. n \in Nat
        BY <1>2
      <4>2. Undone(q, n, ToClose, Todo) /\ lfScope'[q] = lfScope[q]
        BY <3>1, <3>2, <3>3, <4>1
      <4> QED  BY <2>3, <3>4, <4>2 DEF LifecycleInv, Unwound
    <3>6. ASSUME NEW i \in 1..Len(lfRan)
          PROVE  /\ lfRan[i][1] \in 1..Plugins /\ lfRan[i][2] \in 1..lfScope'[lfRan[i][1]].count
                 /\ Undone(lfRan[i][1], lfRan[i][2], ToClose', Todo')
      <4>1. /\ lfRan[i][1] \in 1..Plugins /\ lfRan[i][2] \in 1..lfScope[lfRan[i][1]].count /\ Undone(lfRan[i][1], lfRan[i][2], ToClose, Todo)
        BY <2>3, <3>6 DEF LifecycleInv, Unwound
      <4>2. lfRan[i][2] \in Nat
        BY <1>1, <4>1
      <4>3. lfRan[i][1] > ToClose
        BY <3>2, <4>1, <4>2
      <4>4. lfRan'[i][1] > ToClose' + 1 \/ (lfRan'[i][1] = ToClose' + 1 /\ lfRan'[i][2] > Todo')
        BY <1>1, <1>7, <4>1 DEF Undone
      <4> QED  BY <1>1, <3>1, <4>1, <4>3, <4>4 DEF Undone
    <3>7. \A q \in 1..Plugins : q > ToClose => lfScope'[q].closed \/ (lfScope'[q].count = 0 /\ q > Len(lfMounted))
      BY <2>3, <3>1 DEF LifecycleInv, Unwound
    <3> HIDE DEF Undone, Ran
    <3> QED  BY <1>1, <1>7, <2>1, <2>3, <3>5, <3>6, <3>7 DEF Unwound
  <2> QED  BY <2>2, <2>3
<1>11. CallsJoined'
  <2>1. 1 \in 1..Plugins
    BY LifecycleAssumption
  <2>2. lfScope'[1].count > 0 \/ (lfScope'[1] = lfScope[1] /\ lfCalls' = lfCalls)
    BY <1>1, <1>2, <1>3, <2>1
  <2>3. lfScope[1].count > 0 => lfScope'[1].count > 0
    BY <1>1, <1>2, <2>1
  <2>4. CASE lfCalls' = lfCalls
    BY <1>1, <2>3, <2>4 DEF LifecycleInv, CallsJoined, Ran
  <2>5. CASE p = 1 /\ lfScope[1].count = 0 /\ lfCalls' = [lfCalls EXCEPT !.admits = TRUE]
    <3>1. lfCalls \in [open : SUBSET CallIds, admits : BOOLEAN, joining : BOOLEAN]
      BY DEF LifecycleInv, LifecycleTyped
    <3>2. lfCalls'.joining = lfCalls.joining /\ ~lfCalls.joining
      BY <1>1, <2>1, <2>5, <3>1 DEF LifecycleInv, CallsJoined
    <3>3. ~Ran(<<1, 1>>, lfRan)
      <4> SUFFICES ASSUME NEW i \in 1..Len(lfRan), lfRan[i] = <<1, 1>> PROVE FALSE
        BY DEF Ran
      <4>1. ~Unwinding(lfState, lfAt) => lfRan = <<>>
        BY DEF LifecycleInv, StartOrder
      <4>2. Unwinding(lfState, lfAt) => lfRan[i][2] \in 1..lfScope[lfRan[i][1]].count
        BY DEF LifecycleInv, Unwound
      <4> QED  BY <1>1, <2>1, <2>5, <4>1, <4>2
    <3> QED  BY <1>1, <1>2, <2>5, <3>2, <3>3 DEF CallsJoined, Ran
  <2> QED  BY <1>3, <2>4, <2>5
<1>12. StopTold'
  BY <1>1 DEF LifecycleInv, StopTold
<1> QED  BY <1>5, <1>6, <1>9, <1>10, <1>11, <1>12 DEF LifecycleInv

\* A step that leaves the scopes, and what is to close, as they are.
LEMMA LifecycleQuiet ==
  ASSUME LifecycleInv, lfState' = lfState, lfAt' = lfAt, lfMounted' = lfMounted, lfScope' = lfScope, lfClosing' = lfClosing,
         lfRan' = lfRan, LifecycleTyped', CallsJoined', StopTold'
  PROVE  LifecycleInv'
<1>1. StartOrder'
  BY DEF LifecycleInv, StartOrder, Unwinding
<1>2. Descending'
  BY DEF LifecycleInv, Descending, ToClose, Todo, Lf!After
<1>3. Unwound'
  BY Zenon DEF LifecycleInv, Unwound, Undone, Ran, ToClose, Todo, Unwinding
<1> QED  BY <1>1, <1>2, <1>3 DEF LifecycleInv

\* A step before anything is undone.
LEMMA LifecycleGrows ==
  ASSUME LifecycleInv, ~Unwinding(lfState, lfAt), ~Unwinding(lfState', lfAt'),
         lfScope' = lfScope, lfClosing' = lfClosing, lfRan' = lfRan, lfCalls' = lfCalls, lfCallers' = lfCallers,
         lfState # "stopped", lfState' # "stopped", lfAt' \in Nat, lfMounted' \in Seq(Nat), StartOrder'
  PROVE  LifecycleInv'
<1>1. LifecycleTyped'
  BY DEF LifecycleInv, LifecycleTyped
<1>2. Descending'
  BY DEF LifecycleInv, Descending, ToClose, Todo, Lf!After
<1>3. Unwound'
  BY DEF LifecycleInv, Unwound, ToClose
<1>4. CallsJoined' /\ StopTold'
  BY DEF LifecycleInv, CallsJoined, StopTold, Ran
<1> QED  BY <1>1, <1>2, <1>3, <1>4 DEF LifecycleInv

\* The runtime begins to undo the plugins that started.
LEMMA LifecycleUnwinds ==
  ASSUME LifecycleInv, ~Unwinding(lfState, lfAt), lfState # "stopped", lfState' \in {"starting", "stopping"}, lfAt' = 0,
         NEW s \in Seq(Nat), lfClosing' = [lfClosing EXCEPT !.scopes = s],
         Len(s) <= Plugins, \A i \in 1..Len(s) : s[i] = Len(s) + 1 - i,
         \A p \in 1..Plugins : p > Len(s) => lfScope[p].count = 0 /\ p > Len(lfMounted),
         lfMounted' = lfMounted, lfScope' = lfScope, lfRan' = lfRan, lfCalls' = lfCalls,
         DOMAIN lfCallers' = Closers, \A c \in Closers : lfCallers'[c] = "done" => lfCallers[c] = "done"
  PROVE  LifecycleInv'
<1>1. /\ lfClosing = [scopes |-> lfClosing.scopes, todo |-> lfClosing.todo]
      /\ lfClosing.scopes = <<>> /\ lfClosing.todo = <<>> /\ lfRan = <<>>
  BY DEF LifecycleInv, LifecycleTyped, StartOrder
<1>2. lfClosing'.scopes = s /\ lfClosing'.todo = <<>> /\ lfClosing' = [scopes |-> s, todo |-> <<>>]
  BY <1>1
<1>3. LifecycleTyped'
  BY <1>1, <1>2, Zenon DEF LifecycleInv, LifecycleTyped
<1>4. Unwinding(lfState', lfAt')
  BY DEF Unwinding
<1>5. StartOrder'
  BY <1>4 DEF LifecycleInv, StartOrder, Unwinding
<1>6. ToClose' = Len(s) /\ Todo' = 0 /\ Len(s) \in Nat
  BY <1>2 DEF ToClose, Todo
<1>7. Descending'
  BY <1>1, <1>2, <1>6 DEF Descending
<1>8. Unwound'
  <2>1. \A p \in 1..Plugins : ~lfScope[p].closed
    BY DEF LifecycleInv, Unwound
  <2>2. \A p \in 1..ToClose' : ~lfScope'[p].closed
    BY <1>6, <2>1, LifecycleAssumption
  <2>3. \A p \in 1..Plugins, n \in Nat : Undone(p, n, ToClose', Todo') => lfScope[p].count = 0
    BY <1>6 DEF Undone
  <2>4. \A p \in 1..Plugins : \A n \in 1..lfScope'[p].count : Undone(p, n, ToClose', Todo') => Ran(<<p, n>>, lfRan')
    <3> SUFFICES ASSUME NEW p \in 1..Plugins, NEW n \in 1..lfScope'[p].count, Undone(p, n, ToClose', Todo') PROVE FALSE
      OBVIOUS
    <3>1. n \in Nat
      BY DEF LifecycleInv, LifecycleTyped
    <3> QED  BY <2>3, <3>1
  <2> QED  BY <1>1, <1>4, <1>6, <2>2, <2>4 DEF Unwound
<1>9. CallsJoined' /\ StopTold'
  BY DEF LifecycleInv, CallsJoined, StopTold, Ran, Unwinding
<1> QED  BY <1>3, <1>5, <1>7, <1>8, <1>9 DEF LifecycleInv

\* The order in which the mounted plugins are undone.
LEMMA ReversedMounted ==
  ASSUME LifecycleInv
  PROVE  /\ Lf!Reversed(lfMounted) \in Seq(Nat) /\ Len(Lf!Reversed(lfMounted)) = Len(lfMounted)
         /\ \A i \in 1..Len(lfMounted) : Lf!Reversed(lfMounted)[i] = Len(lfMounted) + 1 - i
<1>1. lfMounted \in Seq(Nat) /\ Len(lfMounted) \in Nat /\ \A i \in 1..Len(lfMounted) : lfMounted[i] = i
  BY DEF LifecycleInv, LifecycleTyped, StartOrder
<1>2. \A i \in 1..Len(lfMounted) : Len(lfMounted) + 1 - i \in 1..Len(lfMounted)
  BY <1>1
<1>3. Lf!Reversed(lfMounted) = [i \in 1..Len(lfMounted) |-> Len(lfMounted) + 1 - i]
  BY <1>1, <1>2 DEF Lf!Reversed
<1> QED  BY <1>1, <1>2, <1>3

\* Scope.Close: the last open scope is closed and its cleanups are taken.
LEMMA LifecycleCloses ==
  ASSUME LifecycleInv, Lf!CloseScope
  PROVE  LifecycleInv'
<1> DEFINE k == ToClose
           n == lfScope[k].count
<1>1. /\ lfScope \in [1..Plugins -> [count : Nat, closed : BOOLEAN]]
      /\ lfClosing.scopes \in Seq(Nat) /\ lfClosing.scopes # <<>> /\ lfClosing.todo = <<>>
      /\ lfState' = lfState /\ lfAt' = lfAt /\ lfMounted' = lfMounted /\ lfRan' = lfRan /\ lfCalls' = lfCalls /\ lfCallers' = lfCallers
  BY DEF Lf!CloseScope, LifecycleInv, LifecycleTyped
<1>2. k \in Nat \ {0} /\ k \in 1..Plugins /\ Todo = 0
  <2>1. k \in Nat \ {0} /\ Todo = 0
    BY <1>1 DEF ToClose, Todo
  <2> QED  BY <2>1, LifecycleAssumption DEF LifecycleInv, Descending
<1>3. Head(lfClosing.scopes) = k
  <2>1. Head(lfClosing.scopes) = lfClosing.scopes[1] /\ 1 \in 1..k
    BY <1>1, <1>2
  <2>2. lfClosing.scopes[1] = k + 1 - 1
    BY <2>1 DEF LifecycleInv, Descending
  <2> QED  BY <1>2, <2>1, <2>2
<1>4. n \in Nat /\ ~lfScope[k].closed
  BY <1>1, <1>2 DEF LifecycleInv, Unwound
<1>5. /\ lfScope' = [lfScope EXCEPT ![k].closed = TRUE]
      /\ lfClosing' = [scopes |-> Tail(lfClosing.scopes), todo |-> [i \in 1..n |-> <<k, n + 1 - i>>]]
  BY <1>3, <1>4, Zenon DEF Lf!CloseScope
<1>6. /\ lfScope' \in [1..Plugins -> [count : Nat, closed : BOOLEAN]]
      /\ lfScope'[k].closed /\ lfScope'[k].count = n
      /\ \A q \in 1..Plugins \ {k} : lfScope'[q] = lfScope[q]
  BY <1>1, <1>2, <1>5, Zenon
<1> HIDE DEF n
<1>7. /\ lfClosing'.scopes \in Seq(Nat) /\ Len(lfClosing'.scopes) = k - 1
      /\ \A i \in 1..(k - 1) : lfClosing'.scopes[i] = k - i
  <2>1. lfClosing'.scopes = Tail(lfClosing.scopes) /\ k = Len(lfClosing.scopes)
    BY <1>5 DEF ToClose
  <2>2. \A i \in 1..(k - 1) : i + 1 \in 1..k /\ Tail(lfClosing.scopes)[i] = lfClosing.scopes[i + 1]
    BY <1>1, <1>2, <2>1
  <2>3. \A i \in 1..k : lfClosing.scopes[i] = k + 1 - i
    BY DEF LifecycleInv, Descending
  <2>4. \A i \in 1..(k - 1) : k + 1 - (i + 1) = k - i
    BY <1>2
  <2> QED  BY <1>1, <1>2, <2>1, <2>2, <2>3, <2>4
<1>8. /\ lfClosing'.todo \in Seq(Nat \X Nat) /\ Len(lfClosing'.todo) = n
      /\ \A i \in 1..n : lfClosing'.todo[i] = <<k, n + 1 - i>>
  <2>1. \A i \in 1..n : n + 1 - i \in Nat
    BY <1>4
  <2>2. \A i \in 1..n : <<k, n + 1 - i>> \in Nat \X Nat
    BY <1>2, <2>1
  <2>3. lfClosing'.todo = [i \in 1..n |-> <<k, n + 1 - i>>]
    BY <1>5
  <2>4. lfClosing'.todo \in [1..n -> Nat \X Nat] /\ \A i \in 1..n : lfClosing'.todo[i] = <<k, n + 1 - i>>
    BY <2>2, <2>3
  <2>5. ASSUME NEW S, NEW todo \in [1..n -> S] PROVE todo \in Seq(S) /\ Len(todo) = n
    BY <1>4
  <2>6. lfClosing'.todo \in Seq(Nat \X Nat) /\ Len(lfClosing'.todo) = n
    BY <2>4, <2>5
  <2> QED  BY <2>4, <2>6, Zenon
<1>9. ToClose' = k - 1 /\ Todo' = n
  BY <1>7, <1>8 DEF ToClose, Todo
<1>10. Unwinding(lfState, lfAt)
  BY <1>1 DEF LifecycleInv, StartOrder
<1> HIDE DEF k
<1>11. LifecycleTyped'
  BY <1>1, <1>5, <1>6, <1>7, <1>8, Zenon DEF LifecycleInv, LifecycleTyped
<1>12. StartOrder'
  BY <1>1, <1>10 DEF LifecycleInv, StartOrder
<1>13. Descending'
  <2>1. ToClose' <= Plugins /\ (Todo' > 0 => ToClose' < Plugins /\ Todo' <= lfScope'[ToClose' + 1].count)
    BY <1>2, <1>4, <1>6, <1>9, LifecycleAssumption
  <2>2. \A i \in 1..ToClose' : lfClosing'.scopes[i] = ToClose' + 1 - i
    BY <1>2, <1>7, <1>9
  <2>3. \A i \in 1..Todo' : lfClosing'.todo[i] = <<ToClose' + 1, Todo' + 1 - i>>
    <3>1. ToClose' + 1 = k
      BY <1>2, <1>9
    <3> QED  BY <1>8, <1>9, <3>1, Zenon
  <2>4. \A i, j \in 1..Len(lfRan) : i < j => Lf!After(lfRan[i], lfRan[j])
    BY DEF LifecycleInv, Descending
  <2> QED  BY <1>1, <2>1, <2>2, <2>3, <2>4 DEF Descending, Lf!After
<1>14. Unwound'
  <2>0. ToClose = k
    BY DEF k
  <2>1. \A q \in 1..ToClose' : ~lfScope'[q].closed
    <3>1. \A q \in 1..k : ~lfScope[q].closed
      BY <2>0 DEF LifecycleInv, Unwound
    <3>2. \A q \in 1..(k - 1) : q \in 1..k /\ q \in 1..Plugins \ {k}
      BY <1>2, LifecycleAssumption
    <3> QED  BY <1>6, <1>9, <3>1, <3>2
  <2>2. \A q \in 1..Plugins : q > k - 1 => lfScope'[q].closed \/ (lfScope'[q].count = 0 /\ q > Len(lfMounted))
    <3>1. \A q \in 1..Plugins : q > k => lfScope[q].closed \/ (lfScope[q].count = 0 /\ q > Len(lfMounted))
      BY <1>10, <2>0 DEF LifecycleInv, Unwound
    <3> QED  BY <1>2, <1>6, <3>1
  <2>3. \A q \in 1..Plugins : lfScope'[q].count = lfScope[q].count /\ lfScope[q].count \in Nat
    BY <1>1, <1>2, <1>6 DEF n
  <2>4. \A q \in 1..Plugins : \A i \in 1..lfScope[q].count : (q > k \/ (q = k /\ i > n)) <=> q > k
    BY <1>2, <2>3 DEF n
  <2>5. \A q \in 1..Plugins : \A i \in 1..lfScope[q].count : Undone(q, i, ToClose, Todo) <=> q > k
    BY <1>2, <2>0, <2>3 DEF Undone
  <2>6. \A q \in 1..Plugins : \A i \in 1..lfScope[q].count : q > k => Ran(<<q, i>>, lfRan)
    BY <1>10, <2>5 DEF LifecycleInv, Unwound
  <2>7. \A i \in 1..Len(lfRan) : lfRan[i][1] \in 1..Plugins /\ lfRan[i][2] \in 1..lfScope[lfRan[i][1]].count /\ lfRan[i][1] > k
    BY <1>10, <2>5 DEF LifecycleInv, Unwound
  <2>8. k - 1 + 1 = k
    BY <1>2
  <2>9. \A q \in 1..Plugins : \A i \in 1..lfScope'[q].count : Undone(q, i, ToClose', Todo') => Ran(<<q, i>>, lfRan')
    BY <1>1, <1>9, <2>3, <2>4, <2>6, <2>8, Zenon DEF Undone, Ran
  <2>10. \A i \in 1..Len(lfRan') :
           /\ lfRan'[i][1] \in 1..Plugins /\ lfRan'[i][2] \in 1..lfScope'[lfRan'[i][1]].count
           /\ Undone(lfRan'[i][1], lfRan'[i][2], ToClose', Todo')
    <3> SUFFICES ASSUME NEW i \in 1..Len(lfRan)
                 PROVE  /\ lfRan[i][1] \in 1..Plugins /\ lfRan[i][2] \in 1..lfScope'[lfRan[i][1]].count
                        /\ Undone(lfRan[i][1], lfRan[i][2], ToClose', Todo')
      BY <1>1
    <3>1. lfRan[i][1] \in 1..Plugins /\ lfRan[i][2] \in 1..lfScope[lfRan[i][1]].count /\ lfRan[i][1] > k
      BY <2>7
    <3>2. lfRan[i][1] > ToClose' + 1 \/ (lfRan[i][1] = ToClose' + 1 /\ lfRan[i][2] > Todo')
      BY <1>9, <2>3, <2>4, <2>8, <3>1
    <3> QED  BY <1>1, <2>3, <3>1, <3>2 DEF Undone
  <2> HIDE DEF Undone, Ran
  <2> QED  BY <1>1, <1>9, <1>10, <2>1, <2>2, <2>9, <2>10 DEF Unwound
<1>15. CallsJoined'
  <2>1. lfScope'[1].count = lfScope[1].count
    BY <1>2, <1>6, LifecycleAssumption DEF n
  <2> QED  BY <1>1, <2>1 DEF LifecycleInv, CallsJoined, Ran
<1>16. StopTold'
  BY <1>1 DEF LifecycleInv, StopTold
<1> QED  BY <1>11, <1>12, <1>13, <1>14, <1>15, <1>16 DEF LifecycleInv

\* A cleanup runs: the last of those left in the scope being closed.
LEMMA LifecycleRuns ==
  ASSUME LifecycleInv, Lf!RunCleanup
  PROVE  LifecycleInv'
<1> DEFINE k == ToClose
           t == Todo
           e == <<k + 1, t>>
           m == Len(lfRan)
<1>1. /\ lfScope \in [1..Plugins -> [count : Nat, closed : BOOLEAN]]
      /\ lfClosing = [scopes |-> lfClosing.scopes, todo |-> lfClosing.todo]
      /\ lfClosing.scopes \in Seq(Nat) /\ lfClosing.todo \in Seq(Nat \X Nat) /\ lfClosing.todo # <<>> /\ lfRan \in Seq(Nat \X Nat)
      /\ lfState' = lfState /\ lfAt' = lfAt /\ lfMounted' = lfMounted /\ lfScope' = lfScope /\ lfCalls' = lfCalls /\ lfCallers' = lfCallers
  BY DEF Lf!RunCleanup, LifecycleInv, LifecycleTyped
<1>2. k \in Nat /\ t \in Nat \ {0} /\ k + 1 \in 1..Plugins /\ t \in 1..lfScope[k + 1].count
  <2>1. k \in Nat /\ t \in Nat \ {0}
    BY <1>1 DEF ToClose, Todo
  <2>2. k < Plugins /\ t <= lfScope[k + 1].count
    BY <2>1 DEF LifecycleInv, Descending
  <2>3. k + 1 \in 1..Plugins
    BY <2>1, <2>2, LifecycleAssumption
  <2> QED  BY <1>1, <2>1, <2>2, <2>3
<1>3. Head(lfClosing.todo) = e
  <2>1. Head(lfClosing.todo) = lfClosing.todo[1] /\ 1 \in 1..t
    BY <1>1, <1>2
  <2>2. lfClosing.todo[1] = <<k + 1, t + 1 - 1>>
    BY <2>1 DEF LifecycleInv, Descending
  <2> QED  BY <1>2, <2>1, <2>2
<1>4. /\ lfRan' = Append(lfRan, e) /\ lfClosing' = [lfClosing EXCEPT !.todo = Tail(lfClosing.todo)]
      /\ e = <<1, 1>> => lfCalls.joining /\ lfCalls.open = {}
  BY <1>3 DEF Lf!RunCleanup
<1>5. e \in Nat \X Nat /\ e[1] = k + 1 /\ e[2] = t
  BY <1>2
<1> HIDE DEF e
<1>6. /\ lfRan' \in Seq(Nat \X Nat) /\ m \in Nat /\ Len(lfRan') = m + 1 /\ lfRan'[m + 1] = e
      /\ \A i \in 1..m : lfRan'[i] = lfRan[i]
  BY <1>1, <1>4, <1>5
<1>7. /\ lfClosing' = [scopes |-> lfClosing.scopes, todo |-> Tail(lfClosing.todo)]
      /\ lfClosing'.scopes = lfClosing.scopes /\ lfClosing'.todo = Tail(lfClosing.todo)
  BY <1>1, <1>4, Zenon
<1>8. /\ Tail(lfClosing.todo) \in Seq(Nat \X Nat) /\ Len(Tail(lfClosing.todo)) = t - 1
      /\ \A i \in 1..(t - 1) : Tail(lfClosing.todo)[i] = <<k + 1, t - i>>
  <2>0. t = Len(lfClosing.todo)
    BY DEF Todo
  <2>1. \A i \in 1..(t - 1) : i + 1 \in 1..t /\ Tail(lfClosing.todo)[i] = lfClosing.todo[i + 1]
    BY <1>1, <2>0, TailOf, Zenon
  <2>2. \A i \in 1..t : lfClosing.todo[i] = <<k + 1, t + 1 - i>>
    BY DEF LifecycleInv, Descending
  <2>3. \A i \in 1..(t - 1) : Tail(lfClosing.todo)[i] = <<k + 1, t - i>>
    <3> SUFFICES ASSUME NEW i \in 1..(t - 1) PROVE Tail(lfClosing.todo)[i] = <<k + 1, t - i>>
      BY Zenon
    <3>1. lfClosing.todo[i + 1] = <<k + 1, t + 1 - (i + 1)>>
      BY <2>1, <2>2
    <3>2. t + 1 - (i + 1) = t - i
      BY <1>2
    <3> QED  BY <2>1, <3>1, <3>2, Zenon
  <2> QED  BY <1>1, <2>0, <2>3, TailOf, Zenon
<1>9. ToClose' = k /\ Todo' = t - 1
  BY <1>7, <1>8 DEF ToClose, Todo
<1>10. Unwinding(lfState, lfAt)
  BY <1>1 DEF LifecycleInv, StartOrder
<1>11. /\ ToClose <= Plugins /\ \A i \in 1..k : lfClosing.scopes[i] = k + 1 - i
       /\ \A i, j \in 1..m : i < j => Lf!After(lfRan[i], lfRan[j])
  BY DEF LifecycleInv, Descending
<1>12. /\ \A p \in 1..k : ~lfScope[p].closed
       /\ \A p \in 1..Plugins : p > k => lfScope[p].closed \/ (lfScope[p].count = 0 /\ p > Len(lfMounted))
       /\ \A p \in 1..Plugins : \A n \in 1..lfScope[p].count : Undone(p, n, k, t) => Ran(<<p, n>>, lfRan)
       /\ \A i \in 1..m : /\ lfRan[i][1] \in 1..Plugins /\ lfRan[i][2] \in 1..lfScope[lfRan[i][1]].count
                          /\ Undone(lfRan[i][1], lfRan[i][2], k, t)
  BY <1>10 DEF LifecycleInv, Unwound
<1> HIDE DEF k, t
<1>13. LifecycleTyped'
  BY <1>1, <1>6, <1>7, <1>8, Zenon DEF LifecycleInv, LifecycleTyped
<1>14. StartOrder'
  BY <1>1, <1>10 DEF LifecycleInv, StartOrder
<1>15. Descending'
  <2>1. ToClose' <= Plugins /\ (Todo' > 0 => ToClose' < Plugins /\ Todo' <= lfScope[ToClose' + 1].count)
    BY <1>1, <1>2, <1>9, LifecycleAssumption, SMTT(30)
  <2>2. \A i \in 1..Todo' : lfClosing'.todo[i] = <<ToClose' + 1, Todo' + 1 - i>>
    <3> SUFFICES ASSUME NEW i \in 1..(t - 1) PROVE lfClosing'.todo[i] = <<k + 1, t - 1 + 1 - i>>
      BY <1>9
    <3>1. t - 1 + 1 - i = t - i
      BY <1>2
    <3> QED  BY <1>7, <1>8, <3>1, Zenon
  <2>3. \A i, j \in 1..(m + 1) : i < j => Lf!After(lfRan'[i], lfRan'[j])
    <3> SUFFICES ASSUME NEW i \in 1..(m + 1), NEW j \in 1..(m + 1), i < j PROVE Lf!After(lfRan'[i], lfRan'[j])
      OBVIOUS
    <3>1. CASE j \in 1..m
      <4>1. i \in 1..m
        BY <1>6, <3>1
      <4> QED  BY <1>6, <1>11, <3>1, <4>1
    <3>2. CASE j = m + 1
      <4>1. i \in 1..m /\ Undone(lfRan[i][1], lfRan[i][2], k, t)
        BY <1>6, <1>12, <3>2, SMTT(30)
      <4> QED  BY <1>5, <1>6, <3>2, <4>1, Zenon DEF Undone, Lf!After
    <3>3. j \in 1..m \/ j = m + 1
      BY <1>6, OneMorePlace, Zenon
    <3> QED  BY <3>1, <3>2, <3>3, Zenon
  <2> QED  BY <1>1, <1>6, <1>7, <1>9, <1>11, <2>1, <2>2, <2>3, Zenon DEF Descending
<1>16. \A x : Ran(x, lfRan') <=> Ran(x, lfRan) \/ x = e
  <2>1. /\ \A i \in 1..m : i \in 1..(m + 1)
        /\ \A i \in 1..(m + 1) : i \in 1..m \/ i = m + 1
        /\ m + 1 \in 1..(m + 1)
    BY <1>6, OneMorePlace, Zenon
  <2> QED  BY <1>6, <2>1, Zenon DEF Ran
<1>17. Unwound'
  <2>1. \A p \in 1..Plugins : \A n \in 1..lfScope[p].count : Undone(p, n, k, t - 1) => Ran(<<p, n>>, lfRan')
    <3> SUFFICES ASSUME NEW p \in 1..Plugins, NEW n \in 1..lfScope[p].count, Undone(p, n, k, t - 1) PROVE Ran(<<p, n>>, lfRan')
      OBVIOUS
    <3>1. n \in Nat
      BY <1>1
    <3>2. Undone(p, n, k, t) \/ (p = k + 1 /\ n = t)
      BY <1>2, <3>1 DEF Undone
    <3>3. p = k + 1 /\ n = t => <<p, n>> = e
      BY DEF e, k, t
    <3> QED  BY <1>12, <1>16, <3>2, <3>3
  <2>2. \A i \in 1..(m + 1) : /\ lfRan'[i][1] \in 1..Plugins /\ lfRan'[i][2] \in 1..lfScope[lfRan'[i][1]].count
                              /\ Undone(lfRan'[i][1], lfRan'[i][2], k, t - 1)
    <3> SUFFICES ASSUME NEW i \in 1..(m + 1)
                 PROVE  /\ lfRan'[i][1] \in 1..Plugins /\ lfRan'[i][2] \in 1..lfScope[lfRan'[i][1]].count
                        /\ Undone(lfRan'[i][1], lfRan'[i][2], k, t - 1)
      OBVIOUS
    <3>1. CASE i \in 1..m
      <4>1. lfRan[i][1] \in 1..Plugins /\ lfRan[i][2] \in 1..lfScope[lfRan[i][1]].count /\ Undone(lfRan[i][1], lfRan[i][2], k, t)
        BY <1>12, <3>1
      <4>2. Undone(lfRan[i][1], lfRan[i][2], k, t - 1)
        <5>1. PICK p \in Int, n \in Int : p = lfRan[i][1] /\ n = lfRan[i][2]
          BY <1>1, <4>1, SMTT(30)
        <5>2. Undone(p, n, k, t)
          BY <4>1, <5>1
        <5>3. Undone(p, n, k, t - 1)
          BY <1>2, <5>2 DEF Undone
        <5> QED  BY <5>1, <5>3
      <4> QED  BY <1>6, <3>1, <4>1, <4>2, Zenon
    <3>2. CASE i = m + 1
      BY <1>2, <1>5, <1>6, <3>2 DEF Undone
    <3> QED  BY <1>6, <3>1, <3>2
  <2> QED  BY <1>1, <1>6, <1>9, <1>10, <1>12, <2>1, <2>2 DEF Unwound
<1>18. CallsJoined'
  <2>1. lfCalls.admits \/ lfCalls.open # {} => <<1, 1>> # e
    BY <1>4 DEF LifecycleInv, CallsJoined
  <2> QED  BY <1>1, <1>16, <2>1, Zenon DEF LifecycleInv, CallsJoined
<1>19. StopTold'
  <2>1. lfState # "stopped"
    BY <1>1 DEF LifecycleInv, StopTold
  <2> QED  BY <1>1, <2>1 DEF LifecycleInv, StopTold
<1> QED  BY <1>13, <1>14, <1>15, <1>17, <1>18, <1>19 DEF LifecycleInv

\* Shutdown and a failed Start return once everything is undone.
LEMMA LifecycleStops ==
  ASSUME LifecycleInv, lfState' = "stopped", lfAt = 0, lfAt' = 0, lfMounted' = <<>>,
         lfClosing.scopes = <<>>, lfClosing.todo = <<>>,
         lfScope' = lfScope, lfClosing' = lfClosing, lfRan' = lfRan, lfCalls' = lfCalls, DOMAIN lfCallers' = Closers,
         Unwinding(lfState, lfAt) \/ lfState = "new"
  PROVE  LifecycleInv'
<1>1. LifecycleTyped'
  BY Zenon DEF LifecycleInv, LifecycleTyped
<1>2. StartOrder'
  BY LifecycleAssumption DEF StartOrder, Unwinding
<1>3. Descending'
  BY DEF LifecycleInv, Descending, ToClose, Todo, Lf!After
<1>4. ToClose = 0 /\ Todo = 0 /\ ToClose' = 0 /\ Todo' = 0
  BY DEF ToClose, Todo
<1>5. /\ lfScope \in [1..Plugins -> [count : Nat, closed : BOOLEAN]]
      /\ Unwinding(lfState', lfAt')
  BY DEF LifecycleInv, LifecycleTyped, Unwinding
<1>6. CASE Unwinding(lfState, lfAt)
  <2>1. Unwound'
    <3>1. \A p \in 1..Plugins : p > 0 => lfScope[p].closed \/ (lfScope[p].count = 0 /\ p > 0)
      BY <1>4, <1>6 DEF LifecycleInv, Unwound
    <3>2. /\ \A p \in 1..Plugins : \A n \in 1..lfScope[p].count : Undone(p, n, 0, 0) => Ran(<<p, n>>, lfRan)
          /\ \A i \in 1..Len(lfRan) :
               /\ lfRan[i][1] \in 1..Plugins /\ lfRan[i][2] \in 1..lfScope[lfRan[i][1]].count
               /\ Undone(lfRan[i][1], lfRan[i][2], 0, 0)
      BY <1>4, <1>6 DEF LifecycleInv, Unwound
    <3>3. Len(lfMounted') = 0
      OBVIOUS
    <3> QED  BY <1>4, <1>5, <3>1, <3>2, <3>3 DEF Unwound
  <2>2. CallsJoined'
    BY DEF LifecycleInv, CallsJoined
  <2> QED  BY <1>1, <1>2, <1>3, <2>1, <2>2 DEF LifecycleInv, StopTold
<1>7. CASE lfState = "new" /\ ~Unwinding(lfState, lfAt)
  <2>1. lfRan = <<>> /\ \A p \in 1..Plugins : lfScope[p].count = 0 /\ ~lfScope[p].closed
    <3>1. lfRan = <<>> /\ Len(lfMounted) = 0 /\ \A p \in 1..Plugins : lfScope[p].count > 0 => p = 0 \/ p <= Len(lfMounted)
      BY <1>7 DEF LifecycleInv, StartOrder
    <3> QED  BY <1>5, <1>7, <3>1 DEF LifecycleInv, Unwound
  <2>2. Unwound'
    BY <1>4, <1>5, <2>1 DEF Unwound
  <2>3. CallsJoined'
    BY DEF LifecycleInv, CallsJoined
  <2> QED  BY <1>1, <1>2, <1>3, <2>2, <2>3 DEF LifecycleInv, StopTold
<1> QED  BY <1>6, <1>7

LEMMA LifecycleStep == LifecycleInv /\ [Lf!Next]_(Lf!vars) => LifecycleInv'
<1> SUFFICES ASSUME LifecycleInv, [Lf!Next]_(Lf!vars) PROVE LifecycleInv'
  OBVIOUS
<1>1. /\ lfAt \in Nat /\ lfMounted \in Seq(Nat) /\ Len(lfMounted) \in Nat /\ DOMAIN lfCallers = Closers
      /\ lfCalls \in [open : SUBSET CallIds, admits : BOOLEAN, joining : BOOLEAN]
      /\ lfClosing = [scopes |-> lfClosing.scopes, todo |-> lfClosing.todo]
  BY DEF LifecycleInv, LifecycleTyped
<1>2. CASE UNCHANGED Lf!vars
  BY <1>2, LifecycleQuiet DEF Lf!vars, LifecycleInv, LifecycleTyped, CallsJoined, StopTold
<1>3. CASE Lf!Start
  <2>1. lfMounted = <<>>
    BY <1>3 DEF Lf!Start, LifecycleInv, StartOrder
  <2>2. lfAt = 0
    BY <1>1, <1>3 DEF Lf!Start, LifecycleInv, StartOrder
  <2>3. ~Unwinding(lfState, lfAt) /\ ~Unwinding(lfState', lfAt')
    BY <1>3, <2>2 DEF Lf!Start, Unwinding
  <2>4. /\ lfClosing.scopes = <<>> /\ lfClosing.todo = <<>> /\ lfRan = <<>>
        /\ \A p \in 1..Plugins : lfScope[p].count > 0 => p = lfAt \/ p <= Len(lfMounted)
    BY <2>3 DEF LifecycleInv, StartOrder
  <2>5. Len(lfMounted) = 0
    BY <2>1
  <2>6. \A p \in 1..Plugins : ~(lfScope[p].count > 0)
    BY <2>2, <2>4, <2>5
  <2>7. StartOrder'
    BY <1>3, <2>3, <2>4, <2>5, <2>6, LifecycleAssumption DEF Lf!Start, StartOrder
  <2> QED  BY <1>1, <1>3, <2>3, <2>7, LifecycleGrows DEF Lf!Start
<1>4. CASE Lf!PluginStarted
  <2>1. lfState = "starting" /\ lfAt > 0 /\ lfAt <= Plugins /\ Len(lfMounted) = lfAt - 1 /\ \A i \in 1..Len(lfMounted) : lfMounted[i] = i
    BY <1>4 DEF Lf!PluginStarted, LifecycleInv, StartOrder
  <2>2. /\ lfMounted' \in Seq(Nat) /\ Len(lfMounted') = lfAt /\ \A i \in 1..lfAt : lfMounted'[i] = i
    <3>1. lfMounted' = Append(lfMounted, lfAt)
      BY <1>4 DEF Lf!PluginStarted
    <3>2. \A i \in 1..lfAt : i \in 1..Len(lfMounted) \/ i = Len(lfMounted) + 1
      BY <1>1, <2>1
    <3> QED  BY <1>1, <2>1, <3>1, <3>2
  <2>3. /\ lfScope' = lfScope /\ lfClosing' = lfClosing /\ lfRan' = lfRan /\ lfCalls' = lfCalls /\ lfCallers' = lfCallers
        /\ \/ lfAt = Plugins /\ lfAt' = 0 /\ lfState' = "running"
           \/ lfAt # Plugins /\ lfAt' = lfAt + 1 /\ lfState' = "starting"
    BY <1>4, <2>1 DEF Lf!PluginStarted
  <2>4. ~Unwinding(lfState, lfAt) /\ ~Unwinding(lfState', lfAt')
    BY <1>1, <2>1, <2>3 DEF Unwinding
  <2>5. /\ lfClosing.scopes = <<>> /\ lfClosing.todo = <<>> /\ lfRan = <<>>
        /\ \A p \in 1..Plugins : lfScope[p].count > 0 => p = lfAt \/ p <= Len(lfMounted)
    BY <2>4 DEF LifecycleInv, StartOrder
  <2>6. \A p \in 1..Plugins : lfScope[p].count > 0 => p <= lfAt
    BY <1>1, <2>1, <2>5
  <2>7. StartOrder'
    BY <1>1, <2>1, <2>2, <2>3, <2>5, <2>6, LifecycleAssumption DEF StartOrder
  <2> QED  BY <1>1, <2>1, <2>2, <2>3, <2>4, <2>7, LifecycleGrows
<1>5. CASE Lf!PluginFails
  <2>1. lfState = "starting" /\ lfAt > 0 /\ lfAt <= Plugins /\ Len(lfMounted) = lfAt - 1
    BY <1>5 DEF Lf!PluginFails, LifecycleInv, StartOrder
  <2>2. ~Unwinding(lfState, lfAt)
    BY <1>1, <2>1 DEF Unwinding
  <2> DEFINE s == <<lfAt>> \o Lf!Reversed(lfMounted)
  <2>3. s \in Seq(Nat) /\ Len(s) = lfAt /\ \A i \in 1..lfAt : s[i] = lfAt + 1 - i
    <3>1. /\ Lf!Reversed(lfMounted) \in Seq(Nat) /\ Len(Lf!Reversed(lfMounted)) = lfAt - 1
          /\ \A i \in 1..(lfAt - 1) : Lf!Reversed(lfMounted)[i] = lfAt - i
      BY <1>1, <2>1, ReversedMounted
    <3> DEFINE r == Lf!Reversed(lfMounted)
    <3> HIDE DEF r
    <3>2. r \in Seq(Nat) /\ Len(r) = lfAt - 1 /\ \A i \in 1..(lfAt - 1) : r[i] = lfAt - i
      BY <3>1 DEF r
    <3>3. /\ <<lfAt>> \o r \in Seq(Nat) /\ Len(<<lfAt>> \o r) = lfAt - 1 + 1
          /\ \A i \in 1..(lfAt - 1 + 1) : (<<lfAt>> \o r)[i] = IF i = 1 THEN lfAt ELSE r[i - 1]
      BY <1>1, <3>2, LedBy
    <3>4. s = <<lfAt>> \o r
      BY DEF r
    <3> HIDE DEF s
    <3>5. lfAt - 1 + 1 = lfAt
      BY <1>1
    <3>6. \A i \in 1..lfAt : i # 1 => i - 1 \in 1..(lfAt - 1) /\ lfAt - (i - 1) = lfAt + 1 - i
      BY <1>1
    <3>7. \A i \in 1..lfAt : s[i] = IF i = 1 THEN lfAt ELSE r[i - 1]
      BY <3>3, <3>4, <3>5
    <3>8. \A i \in 1..lfAt : s[i] = lfAt + 1 - i
      <4> SUFFICES ASSUME NEW i \in 1..lfAt PROVE s[i] = lfAt + 1 - i
        OBVIOUS
      <4>1. i # 1 => r[i - 1] = lfAt - (i - 1)
        BY <3>2, <3>6
      <4> QED  BY <1>1, <3>6, <3>7, <4>1
    <3> QED  BY <3>3, <3>4, <3>5, <3>8
  <2>4. \A p \in 1..Plugins : p > lfAt => lfScope[p].count = 0 /\ p > Len(lfMounted)
    <3>1. \A p \in 1..Plugins : lfScope[p].count > 0 => p = lfAt \/ p <= Len(lfMounted)
      BY <2>2 DEF LifecycleInv, StartOrder
    <3>2. \A p \in 1..Plugins : lfScope[p].count \in Nat
      BY DEF LifecycleInv, LifecycleTyped
    <3> QED  BY <1>1, <2>1, <3>1, <3>2
  <2>5. /\ lfClosing' = [lfClosing EXCEPT !.scopes = s] /\ lfAt' = 0 /\ lfState' = "starting"
        /\ lfMounted' = lfMounted /\ lfScope' = lfScope /\ lfRan' = lfRan /\ lfCalls' = lfCalls /\ lfCallers' = lfCallers
    BY <1>5, <2>1 DEF Lf!PluginFails
  <2> HIDE DEF s
  <2> QED  BY <1>1, <2>1, <2>2, <2>3, <2>4, <2>5, LifecycleUnwinds
<1>6. CASE Lf!StopCalls
  <2>1. /\ lfCalls' = [lfCalls EXCEPT !.admits = FALSE, !.joining = TRUE] /\ Head(lfClosing.todo) = <<1, 1>> /\ lfClosing.todo # <<>>
        /\ lfState' = lfState /\ lfAt' = lfAt /\ lfMounted' = lfMounted /\ lfScope' = lfScope /\ lfClosing' = lfClosing
        /\ lfRan' = lfRan /\ lfCallers' = lfCallers
    BY <1>6 DEF Lf!StopCalls
  <2>2. /\ lfCalls' \in [open : SUBSET CallIds, admits : BOOLEAN, joining : BOOLEAN]
        /\ lfCalls'.open = lfCalls.open /\ ~lfCalls'.admits
    BY <1>1, <2>1, Zenon
  <2>3. LifecycleTyped' /\ StopTold'
    BY <2>1, <2>2, Zenon DEF LifecycleInv, LifecycleTyped, StopTold
  <2>4. lfScope[1].count > 0
    <3>1. lfClosing.todo \in Seq(Nat \X Nat) /\ lfScope \in [1..Plugins -> [count : Nat, closed : BOOLEAN]]
      BY DEF LifecycleInv, LifecycleTyped
    <3>2. Todo \in Nat \ {0} /\ ToClose \in Nat /\ lfClosing.todo[1] = <<1, 1>>
      BY <2>1, <3>1 DEF ToClose, Todo, LifecycleInv, LifecycleTyped
    <3>3. lfClosing.todo[1] = <<ToClose + 1, Todo + 1 - 1>>
      BY <3>2 DEF LifecycleInv, Descending
    <3>4. ToClose + 1 = 1 /\ Todo = 1
      BY <3>2, <3>3
    <3>5. Todo <= lfScope[ToClose + 1].count
      BY <3>2 DEF LifecycleInv, Descending
    <3> QED  BY <3>1, <3>4, <3>5, LifecycleAssumption
  <2>5. CallsJoined'
    BY <2>1, <2>2, <2>4 DEF LifecycleInv, CallsJoined
  <2> QED  BY <2>1, <2>3, <2>5, LifecycleQuiet
<1>7. CASE Lf!Stopped
  <2>1. Unwinding(lfState, lfAt) /\ DOMAIN lfCallers' = Closers
    BY <1>1, <1>7 DEF Lf!Stopped, Unwinding
  <2> QED  BY <1>7, <2>1, LifecycleStops DEF Lf!Stopped
<1>8. ASSUME NEW c \in CallIds, Lf!Admit(c) \/ Lf!Done(c) PROVE LifecycleInv'
  <2>1. /\ lfCalls'.admits = lfCalls.admits /\ lfCalls'.joining = lfCalls.joining
        /\ lfCalls' \in [open : SUBSET CallIds, admits : BOOLEAN, joining : BOOLEAN]
        /\ lfCalls'.open # {} => lfCalls.admits \/ lfCalls.open # {}
        /\ lfState' = lfState /\ lfAt' = lfAt /\ lfMounted' = lfMounted /\ lfScope' = lfScope /\ lfClosing' = lfClosing
        /\ lfRan' = lfRan /\ lfCallers' = lfCallers
    BY <1>1, <1>8 DEF Lf!Admit, Lf!Done
  <2>2. LifecycleTyped' /\ StopTold'
    BY <2>1 DEF LifecycleInv, LifecycleTyped, StopTold
  <2>3. CallsJoined'
    BY <2>1 DEF LifecycleInv, CallsJoined
  <2> QED  BY <2>1, <2>2, <2>3, LifecycleQuiet
<1>9. ASSUME NEW c \in Closers, Lf!Shutdown(c) PROVE LifecycleInv'
  <2>1. /\ lfAt' = lfAt /\ lfMounted' = lfMounted /\ lfScope' = lfScope /\ lfRan' = lfRan /\ lfCalls' = lfCalls
        /\ DOMAIN lfCallers' = Closers /\ \A d \in Closers \ {c} : lfCallers'[d] = lfCallers[d]
    BY <1>1, <1>9 DEF Lf!Shutdown
  <2>2. CASE lfState = "stopped"
    <3>1. lfState' = "stopped" /\ lfClosing' = lfClosing
      BY <1>9, <2>2 DEF Lf!Shutdown
    <3>2. lfClosing.scopes = <<>> /\ lfClosing.todo = <<>> /\ lfAt = 0 /\ Unwinding(lfState, lfAt)
      BY <2>2 DEF LifecycleInv, StopTold, Unwinding
    <3>3. LifecycleTyped' /\ CallsJoined' /\ StopTold'
      BY <2>1, <2>2, <3>1, <3>2 DEF LifecycleInv, LifecycleTyped, CallsJoined, StopTold
    <3> QED  BY <2>1, <2>2, <3>1, <3>3, LifecycleQuiet
  <2>3. CASE lfState = "new"
    <3>1. lfState' = "stopped" /\ lfClosing' = lfClosing
      BY <1>9, <2>3 DEF Lf!Shutdown
    <3>2. lfAt = 0 /\ lfMounted = <<>>
      BY <1>1, <2>3 DEF LifecycleInv, StartOrder
    <3>3. lfClosing.scopes = <<>> /\ lfClosing.todo = <<>>
      BY <2>3, <3>2 DEF LifecycleInv, StartOrder, Unwinding
    <3> QED  BY <2>1, <2>3, <3>1, <3>2, <3>3, LifecycleStops
  <2>4. CASE lfState = "running"
    <3>1. lfState' = "stopping" /\ lfClosing' = [lfClosing EXCEPT !.scopes = Lf!Reversed(lfMounted)] /\ lfCallers'[c] = "closing"
      BY <1>1, <1>9, <2>4 DEF Lf!Shutdown
    <3>2. lfAt = 0 /\ Len(lfMounted) = Plugins
      BY <1>1, <2>4 DEF LifecycleInv, StartOrder
    <3>3. ~Unwinding(lfState, lfAt)
      BY <2>4 DEF Unwinding
    <3>4. \A p \in 1..Plugins : ~(p > Plugins)
      BY LifecycleAssumption
    <3>5. \A d \in Closers : lfCallers'[d] = "done" => lfCallers[d] = "done"
      BY <2>1, <3>1
    <3> DEFINE s == Lf!Reversed(lfMounted)
    <3>6. s \in Seq(Nat) /\ Len(s) = Plugins /\ \A i \in 1..Len(s) : s[i] = Len(s) + 1 - i
      BY <3>2, ReversedMounted
    <3>7. lfClosing' = [lfClosing EXCEPT !.scopes = s]
      BY <3>1
    <3> HIDE DEF s
    <3> QED  BY <2>1, <2>4, <3>1, <3>2, <3>3, <3>4, <3>5, <3>6, <3>7, LifecycleUnwinds, LifecycleAssumption, SMTT(30)
  <2> QED  BY <1>9, <2>2, <2>3, <2>4 DEF Lf!Shutdown
<1> QED  BY <1>2, <1>3, <1>4, <1>5, <1>6, <1>7, <1>8, <1>9, LifecycleCloses, LifecycleRuns, LifecycleDefers DEF Lf!Next

LEMMA LifecycleInFocus == ServicesInit /\ focus = "lifecycle" => Lf!Init
BY DEF ServicesInit, ServiceInit

LEMMA LifecycleOnly ==
  ASSUME [ServicesNext]_<<focus, vars, slots>>, focus = "lifecycle" \/ focus' = "lifecycle"
  PROVE  focus = "lifecycle" /\ [Lf!Next]_(Lf!vars)
<1>1. CASE UNCHANGED <<focus, vars, slots>>
  BY <1>1 DEF slots, Lf!vars
<1>2. CASE focus = "log" /\ Next /\ UNCHANGED <<focus, slots>>
  BY <1>2
<1>3. CASE ServiceNext /\ UNCHANGED <<focus, vars>>
  BY <1>3 DEF ServiceNext
<1> QED  BY <1>1, <1>2, <1>3 DEF ServicesNext

LifecycleKept == focus = "lifecycle" => LifecycleInv

\* Every effect a plugin registered is undone once, the last one first, before
\* a Shutdown returns or Start returns its error (Runtime.closeMounted,
\* Scope.Close, Calls).
THEOREM EffectsAlwaysUndone == ServicesSpec => []EffectsUndone
<1>1. ServicesInit => LifecycleKept
  BY LifecycleInFocus, LifecycleInit DEF LifecycleKept
<1>2. LifecycleKept /\ [ServicesNext]_<<focus, vars, slots>> => LifecycleKept'
  BY LifecycleOnly, LifecycleStep DEF LifecycleKept
<1>3. LifecycleKept => EffectsUndone
  <2> SUFFICES ASSUME LifecycleInv PROVE Lf!EffectsUndone
    BY DEF LifecycleKept, EffectsUndone
  <2>1. \A i, j \in 1..Len(lfRan) : i < j => Lf!After(lfRan[i], lfRan[j])
    BY DEF LifecycleInv, Descending
  <2>2. (\E c \in Closers : lfCallers[c] = "done") => lfState = "stopped"
    BY DEF LifecycleInv, StopTold
  <2> DEFINE effects == UNION {{<<p, n>> : n \in 1..lfScope[p].count} : p \in 1..Plugins}
             undone == {lfRan[i] : i \in 1..Len(lfRan)}
  <2>3. CASE lfState = "stopped"
    <3>1. lfClosing.scopes = <<>> /\ lfClosing.todo = <<>> /\ Unwinding(lfState, lfAt)
      BY <2>3 DEF LifecycleInv, StopTold, Unwinding
    <3>2. ToClose = 0 /\ Todo = 0
      BY <3>1 DEF ToClose, Todo
    <3>3. lfScope \in [1..Plugins -> [count : Nat, closed : BOOLEAN]] /\ lfRan \in Seq(Nat \X Nat)
      BY DEF LifecycleInv, LifecycleTyped
    <3>4. \A p \in 1..Plugins : \A n \in 1..lfScope[p].count : Undone(p, n, 0, 0) => Ran(<<p, n>>, lfRan)
      BY <3>1, <3>2 DEF LifecycleInv, Unwound
    <3>5. \A i \in 1..Len(lfRan) : lfRan[i][1] \in 1..Plugins /\ lfRan[i][2] \in 1..lfScope[lfRan[i][1]].count
      BY <3>1 DEF LifecycleInv, Unwound
    <3>6. undone \subseteq effects
      <4> SUFFICES ASSUME NEW i \in 1..Len(lfRan) PROVE lfRan[i] \in effects
        OBVIOUS
      <4>1. lfRan[i] = <<lfRan[i][1], lfRan[i][2]>>
        BY <3>3
      <4> DEFINE p == lfRan[i][1]
                 n == lfRan[i][2]
      <4>2. p \in 1..Plugins /\ n \in 1..lfScope[p].count /\ lfRan[i] = <<p, n>>
        BY <3>5, <4>1
      <4> HIDE DEF p, n
      <4>3. lfRan[i] \in {<<p, m>> : m \in 1..lfScope[p].count}
        BY <4>2
      <4> QED  BY <4>2, <4>3
    <3>7. effects \subseteq undone
      <4> SUFFICES ASSUME NEW x \in effects PROVE x \in undone
        OBVIOUS
      <4> HIDE DEF undone
      <4>0. PICK p \in 1..Plugins : x \in {<<p, n>> : n \in 1..lfScope[p].count}
        OBVIOUS
      <4>5. PICK n \in 1..lfScope[p].count : x = <<p, n>>
        BY <4>0
      <4>1. n \in Nat /\ n > 0
        BY <3>3
      <4>2. Undone(p, n, 0, 0)
        BY <4>1 DEF Undone
      <4>3. Ran(<<p, n>>, lfRan)
        BY <3>4, <4>2
      <4> QED  BY <4>3, <4>5 DEF Ran, undone
    <3>8. lfCalls.open = {}
      <4> SUFFICES ASSUME lfCalls.open # {} PROVE FALSE
        OBVIOUS
      <4>1. lfScope[1].count > 0 /\ ~Ran(<<1, 1>>, lfRan)
        BY DEF LifecycleInv, CallsJoined
      <4>5. 1 \in 1..Plugins
        BY LifecycleAssumption
      <4>2. 1 \in 1..Plugins /\ 1 \in 1..lfScope[1].count
        BY <3>3, <4>1, <4>5
      <4>3. Undone(1, 1, 0, 0)
        BY DEF Undone
      <4> QED  BY <3>4, <4>1, <4>2, <4>3
    <3> QED  BY <2>1, <2>2, <3>6, <3>7, <3>8 DEF Lf!EffectsUndone
  <2>4. CASE lfState # "stopped"
    BY <2>1, <2>2, <2>4 DEF Lf!EffectsUndone
  <2> QED  BY <2>3, <2>4
<1> QED  BY <1>1, <1>2, <1>3, PTL DEF ServicesSpec

-----------------------------------------------------------------------------
(* Consent: plan mode and its review.                                      *)

\* The variables of Consent, under their names there.
cnPlog == x1
cnPs == x2
cnService == x3
cnUser == x4
cnTurn == x5
cnAsks == x6
cnWanted == x7
cnShown == x8
cnLeft == x9

USE DEF cnPlog, cnPs, cnService, cnUser, cnTurn, cnAsks, cnWanted, cnShown, cnLeft

Broker == Fronts \cup {"none"}
Makers == {"user", "review", "restart"}
TurnPcs == {"idle", "boundary", "step", "request", "tools", "review", "approved", "exit"}

Logs == [active : BOOLEAN, requested : BOOLEAN, told : BOOLEAN]
States == [known : BOOLEAN, active : BOOLEAN, pending : BOOLEAN, target : BOOLEAN, notify : BOOLEAN]
Selections == [pc : {"idle", "admitted"}, want : BOOLEAN, inTurn : BOOLEAN]
Turns == [pc : TurnPcs, cut : BOOLEAN, front : Broker]
Brokers == [active : BOOLEAN, broker : Broker, closed : SUBSET Fronts]
Choices == [mode : BOOLEAN, by : Makers, cause : Makers]

ConsentTyped ==
  /\ cnPlog \in Logs /\ cnPs \in States /\ cnUser \in Selections
  /\ cnTurn \in Turns /\ cnAsks \in Brokers /\ cnWanted \in Choices

\* The mode the session is in or is about to be in.
Ahead(log, state) == IF state.pending THEN state.target ELSE log.active

\* A selection made between turns keeps the turn from starting, and one made
\* during a turn keeps it from ending; the model's last request told the mode
\* its tools run in.
SelectionsHeld(log, user, turn) ==
  /\ user.pc = "admitted" => (user.inTurn <=> turn.pc # "idle")
  /\ turn.pc \in {"tools", "review", "approved", "exit"} => log.requested /\ log.told = log.active

\* The person's own switch is announced, or still to be.
Announced(log, state, turn, choice, seen) ==
  /\ state.pending /\ state.target # log.active /\ choice.by = "user" => state.notify
  /\ log.requested /\ log.told # log.active /\ choice.cause = "user" =>
       seen = log.active \/ (state.notify /\ turn.pc # "request")

ConsentInv ==
  /\ ConsentTyped
  /\ SelectionsHeld(cnPlog, cnUser, cnTurn)
  /\ cnService = "running" => Ahead(cnPlog, cnPs) = cnWanted.mode /\ Announced(cnPlog, cnPs, cnTurn, cnWanted, cnShown)
  /\ cnService # "running" => cnPs = Cn!NoState

LEMMA ConsentInit == Cn!Init => ConsentInv
BY DEF Cn!Init, Cn!NoState, Cn!NoFront, ConsentInv, ConsentTyped, SelectionsHeld, Ahead, Announced, Broker, Makers, TurnPcs,
   Logs, States, Selections, Turns, Brokers, Choices

LEMMA ConsentSelects ==
  ASSUME ConsentInv, (\E want \in BOOLEAN : Cn!SelectBegin(want)) \/ Cn!SelectBody \/ Cn!SelectFails
  PROVE  ConsentInv'
<1> USE DEF SelectionsHeld, Ahead, Announced
<1>1. CASE \E want \in BOOLEAN : Cn!SelectBegin(want)
  <2>1. PICK want \in BOOLEAN : Cn!SelectBegin(want)
    BY <1>1
  <2>2. /\ cnPs' \in States /\ cnPs'.pending = cnPs.pending /\ cnPs'.target = cnPs.target /\ cnPs'.notify = cnPs.notify
    BY <2>1, Zenon DEF Cn!SelectBegin, ConsentInv, ConsentTyped, States
  <2>3. cnUser' = [pc |-> "admitted", want |-> want, inTurn |-> cnTurn.pc # "idle"] /\ cnTurn' = cnTurn
    BY <2>1 DEF Cn!SelectBegin
  <2>4. cnUser' \in Selections /\ (cnUser'.inTurn <=> cnTurn'.pc # "idle")
    BY <2>3, Zenon DEF Selections
  <2> QED  BY <2>1, <2>2, <2>4 DEF Cn!SelectBegin, ConsentInv, ConsentTyped
<1>2. CASE Cn!SelectBody
  <2>1. /\ cnUser' \in Selections /\ cnUser'.pc = "idle" /\ cnTurn' = cnTurn /\ cnAsks' = cnAsks
        /\ cnService' = cnService /\ cnShown' = cnShown /\ cnUser.pc = "admitted" /\ cnUser.want \in BOOLEAN
    BY <1>2 DEF Cn!SelectBody, ConsentInv, ConsentTyped, Selections
  <2>2. /\ cnWanted' \in Choices /\ cnWanted'.mode = cnUser.want
        /\ cnWanted'.by = IF cnUser.want = cnWanted.mode THEN cnWanted.by ELSE "user"
        /\ cnWanted'.cause = IF cnPlog' = cnPlog THEN cnWanted.cause ELSE "user"
    BY <1>2, <2>1, Zenon DEF Cn!SelectBody, ConsentInv, ConsentTyped, Choices, Makers
  <2>3. CASE cnUser.want = Ahead(cnPlog, cnPs)
    <3>1. cnPlog' = cnPlog /\ cnPs' = Cn!Kept([cnPs EXCEPT !.active = cnPlog.active])
      BY <1>2, <2>3 DEF Cn!SelectBody
    <3>2. cnPs' \in States /\ cnPs'.pending = cnPs.pending /\ cnPs'.target = cnPs.target /\ cnPs'.notify = cnPs.notify
      BY <3>1 DEF Cn!Kept, ConsentInv, ConsentTyped, States, Logs
    <3>3. cnService # "running" => cnPs' = cnPs
      BY <3>1 DEF Cn!Kept
    <3> QED  BY <2>1, <2>2, <2>3, <3>1, <3>2, <3>3 DEF ConsentInv, ConsentTyped
  <2>4. CASE cnUser.want # Ahead(cnPlog, cnPs) /\ cnUser.want = cnPlog.active
    <3>1. cnPlog' = cnPlog /\ cnPs' = Cn!Kept([cnPs EXCEPT !.active = cnPlog.active, !.pending = FALSE])
      BY <1>2, <2>4 DEF Cn!SelectBody, ConsentInv, ConsentTyped, States
    <3>2. cnPs' \in States /\ cnPs'.notify = cnPs.notify /\ (cnService = "running" => ~cnPs'.pending)
      BY <3>1, Zenon DEF Cn!Kept, ConsentInv, ConsentTyped, States, Logs
    <3>3. cnService # "running" => cnPs' = cnPs
      BY <3>1 DEF Cn!Kept
    <3> QED  BY <2>1, <2>2, <2>4, <3>1, <3>2, <3>3 DEF ConsentInv, ConsentTyped
  <2>5. CASE cnUser.want # Ahead(cnPlog, cnPs) /\ cnUser.want # cnPlog.active /\ cnUser.inTurn
    <3>1. cnPlog' = cnPlog
          /\ cnPs' = Cn!Kept([cnPs EXCEPT !.active = cnPlog.active, !.pending = TRUE, !.target = cnUser.want, !.notify = TRUE])
      BY <1>2, <2>5 DEF Cn!SelectBody, ConsentInv, ConsentTyped, States
    <3>2. cnPs' \in States /\ (cnService = "running" => cnPs'.notify /\ cnPs'.pending /\ cnPs'.target = cnUser.want)
      BY <2>1, <3>1, Zenon DEF Cn!Kept, ConsentInv, ConsentTyped, States, Logs
    <3>3. cnService # "running" => cnPs' = cnPs
      BY <3>1 DEF Cn!Kept
    <3> QED  BY <2>1, <2>2, <2>5, <3>1, <3>2, <3>3 DEF ConsentInv, ConsentTyped
  <2>6. CASE cnUser.want # Ahead(cnPlog, cnPs) /\ cnUser.want # cnPlog.active /\ ~cnUser.inTurn
    <3>1. /\ cnPlog' = [cnPlog EXCEPT !.active = cnUser.want]
          /\ cnPs' = Cn!Kept([cnPs EXCEPT !.active = cnUser.want, !.pending = FALSE, !.notify = TRUE])
      BY <1>2, <2>6, Zenon DEF Cn!SelectBody, ConsentInv, ConsentTyped, States
    <3>2. cnPs' \in States /\ (cnService = "running" => cnPs'.notify /\ ~cnPs'.pending)
      BY <2>1, <3>1, Zenon DEF Cn!Kept, ConsentInv, ConsentTyped, States, Logs
    <3>3. cnService # "running" => cnPs' = cnPs
      BY <3>1 DEF Cn!Kept
    <3>4. cnPlog' \in Logs /\ cnPlog'.active = cnUser.want
      BY <2>1, <3>1 DEF ConsentInv, ConsentTyped, Logs
    <3>5. cnTurn.pc = "idle"
      BY <2>1, <2>6 DEF ConsentInv
    <3> QED  BY <2>1, <2>2, <3>2, <3>3, <3>4, <3>5 DEF ConsentInv, ConsentTyped
  <2> QED  BY <2>3, <2>4, <2>5, <2>6
<1>3. CASE Cn!SelectFails
  BY <1>3 DEF Cn!SelectFails, ConsentInv, ConsentTyped, Selections
<1> QED  BY <1>1, <1>2, <1>3

\* The mode a boundary commits is the one that was ahead.
LEMMA ConsentAfter ==
  ASSUME ConsentInv
  PROVE  /\ Cn!After \in BOOLEAN /\ Cn!After = Ahead(cnPlog, cnPs)
         /\ Cn!Caused \in Choices /\ Cn!Caused.mode = cnWanted.mode /\ Cn!Caused.by = cnWanted.by
         /\ Cn!Caused.cause = IF cnPs.pending /\ cnPs.target # cnPlog.active THEN cnWanted.by ELSE cnWanted.cause
         /\ [cnPlog EXCEPT !.active = Cn!After] \in Logs /\ [cnPlog EXCEPT !.active = Cn!After].active = Cn!After
         /\ [cnPlog EXCEPT !.active = Cn!After].requested = cnPlog.requested
         /\ [cnPlog EXCEPT !.active = Cn!After].told = cnPlog.told
<1>1. cnPlog \in Logs /\ cnPs \in States /\ cnWanted \in Choices
  BY DEF ConsentInv, ConsentTyped
<1>2. Cn!After \in BOOLEAN /\ Cn!After = Ahead(cnPlog, cnPs)
  BY <1>1 DEF Cn!After, Cn!Moves, Ahead, Logs, States
<1>3. /\ Cn!Caused \in Choices /\ Cn!Caused.mode = cnWanted.mode /\ Cn!Caused.by = cnWanted.by
      /\ Cn!Caused.cause = IF cnPs.pending /\ cnPs.target # cnPlog.active THEN cnWanted.by ELSE cnWanted.cause
  BY <1>1 DEF Cn!Caused, Cn!Moves, Choices
<1>4. \A mode \in BOOLEAN :
        /\ [cnPlog EXCEPT !.active = mode] \in Logs /\ [cnPlog EXCEPT !.active = mode].active = mode
        /\ [cnPlog EXCEPT !.active = mode].requested = cnPlog.requested /\ [cnPlog EXCEPT !.active = mode].told = cnPlog.told
  BY <1>1 DEF Logs
<1> QED  BY <1>2, <1>3, <1>4

LEMMA ConsentTurns ==
  ASSUME ConsentInv,
         \/ Cn!TurnStart \/ Cn!TurnEnd \/ Cn!Interrupt \/ Cn!StepBegin \/ Cn!StepBody \/ Cn!StepFails \/ Cn!Request
         \/ Cn!NextStep
  PROVE  ConsentInv'
<1> USE DEF SelectionsHeld, Ahead, Announced
<1>1. CASE Cn!TurnStart
  BY <1>1 DEF Cn!TurnStart, Cn!NoFront, ConsentInv, ConsentTyped, TurnPcs, Broker, Turns
<1>2. CASE Cn!TurnEnd
  BY <1>2 DEF Cn!TurnEnd, ConsentInv, ConsentTyped, TurnPcs, Turns
<1>3. CASE Cn!Interrupt
  <2>1. cnTurn' \in Turns /\ cnTurn'.pc = cnTurn.pc
    BY <1>3, Zenon DEF Cn!Interrupt, ConsentInv, ConsentTyped, Turns
  <2> QED  BY <1>3, <2>1 DEF Cn!Interrupt, ConsentInv, ConsentTyped
<1>4. CASE Cn!StepBegin
  <2>1. cnTurn' \in Turns /\ (cnService = "running" => cnTurn'.pc = "step") /\ (cnService # "running" => cnTurn'.pc = "idle" /\ cnUser.pc = "idle")
    BY <1>4 DEF Cn!StepBegin, ConsentInv, ConsentTyped, TurnPcs, Turns
  <2>2. /\ cnPs' \in States /\ cnPs'.pending = cnPs.pending /\ cnPs'.target = cnPs.target /\ cnPs'.notify = cnPs.notify
        /\ cnService # "running" => cnPs' = cnPs
    BY <1>4, Zenon DEF Cn!StepBegin, ConsentInv, ConsentTyped, States
  <2>3. /\ cnPlog' = cnPlog /\ cnService' = cnService /\ cnUser' = cnUser /\ cnAsks' = cnAsks /\ cnWanted' = cnWanted
        /\ cnShown' = cnShown /\ cnTurn.pc = "boundary"
    BY <1>4 DEF Cn!StepBegin
  <2> QED  BY <2>1, <2>2, <2>3 DEF ConsentInv, ConsentTyped
<1>5. CASE Cn!StepBody
  <2>1. /\ cnTurn.pc = "step" /\ cnTurn' = [cnTurn EXCEPT !.pc = "request"] /\ cnPlog' = [cnPlog EXCEPT !.active = Cn!After]
        /\ cnPs' = Cn!Kept([cnPs EXCEPT !.active = Cn!After, !.pending = FALSE, !.notify = FALSE])
        /\ cnShown' = (IF Cn!Notifies THEN Cn!After ELSE cnShown) /\ cnWanted' = Cn!Caused
        /\ cnService' = cnService /\ cnUser' = cnUser /\ cnAsks' = cnAsks
    BY <1>5 DEF Cn!StepBody
  <2>2. cnTurn' \in Turns /\ cnTurn'.pc = "request"
    BY <2>1 DEF ConsentInv, ConsentTyped, Turns, TurnPcs
  <2>3. cnPs' \in States /\ (cnService = "running" => ~cnPs'.pending /\ ~cnPs'.notify) /\ (cnService # "running" => cnPs' = cnPs)
    BY <2>1, ConsentAfter, Zenon DEF Cn!Kept, ConsentInv, ConsentTyped, States
  <2> QED  BY <2>1, <2>2, <2>3, ConsentAfter DEF Cn!Notifies, ConsentInv, ConsentTyped
<1>6. CASE Cn!StepFails
  <2>1. /\ cnTurn.pc = "step" /\ cnTurn' = [cnTurn EXCEPT !.pc = "idle"] /\ cnUser.pc = "idle"
        /\ cnService' = cnService /\ cnUser' = cnUser /\ cnAsks' = cnAsks /\ cnShown' = cnShown
    BY <1>6 DEF Cn!StepFails
  <2>2. cnTurn' \in Turns /\ cnTurn'.pc = "idle"
    BY <2>1 DEF ConsentInv, ConsentTyped, Turns, TurnPcs
  <2>3. CASE UNCHANGED <<cnPlog, cnPs, cnWanted>>
    BY <2>1, <2>2, <2>3 DEF ConsentInv, ConsentTyped
  <2>4. CASE ~UNCHANGED <<cnPlog, cnPs, cnWanted>>
    <3>1. /\ Cn!Notifies /\ cnPlog' = [cnPlog EXCEPT !.active = Cn!After] /\ cnWanted' = Cn!Caused
          /\ cnPs' = Cn!Kept([cnPs EXCEPT !.active = Cn!After, !.pending = FALSE])
      BY <1>6, <2>4 DEF Cn!StepFails
    <3>2. /\ cnPs' \in States /\ (cnService = "running" => ~cnPs'.pending /\ cnPs'.notify = cnPs.notify)
          /\ cnService # "running" => cnPs' = cnPs
      BY <3>1, ConsentAfter, Zenon DEF Cn!Kept, ConsentInv, ConsentTyped, States
    <3> QED  BY <2>1, <2>2, <3>1, <3>2, ConsentAfter, Zenon DEF Cn!Notifies, ConsentInv, ConsentTyped
  <2> QED  BY <2>3, <2>4
<1>7. CASE Cn!Request
  <2>1. /\ cnTurn.pc = "request" /\ cnPs' = cnPs /\ cnService' = cnService /\ cnUser' = cnUser /\ cnAsks' = cnAsks
        /\ cnWanted' = cnWanted
    BY <1>7 DEF Cn!Request
  <2>2. CASE ~cnTurn.cut
    <3>1. /\ cnTurn' = [cnTurn EXCEPT !.pc = "tools"] /\ cnShown' = cnPlog.active
          /\ cnPlog' = [cnPlog EXCEPT !.requested = TRUE, !.told = cnPlog.active]
      BY <1>7, <2>2 DEF Cn!Request
    <3>2. cnTurn' \in Turns /\ cnTurn'.pc = "tools"
      BY <3>1 DEF ConsentInv, ConsentTyped, Turns, TurnPcs
    <3>3. cnPlog' \in Logs /\ cnPlog'.requested /\ cnPlog'.told = cnPlog.active /\ cnPlog'.active = cnPlog.active
      BY <3>1, Zenon DEF ConsentInv, ConsentTyped, Logs
    <3> QED  BY <2>1, <3>1, <3>2, <3>3 DEF ConsentInv, ConsentTyped
  <2>3. CASE cnTurn.cut
    <3>1. cnTurn' = [cnTurn EXCEPT !.pc = "idle"] /\ cnUser.pc = "idle" /\ cnPlog' = cnPlog /\ cnShown' = cnShown
      BY <1>7, <2>3 DEF Cn!Request
    <3>2. cnTurn' \in Turns /\ cnTurn'.pc = "idle"
      BY <3>1 DEF ConsentInv, ConsentTyped, Turns, TurnPcs
    <3> QED  BY <2>1, <3>1, <3>2 DEF ConsentInv, ConsentTyped
  <2> QED  BY <2>2, <2>3
<1>8. CASE Cn!NextStep
  BY <1>8 DEF Cn!NextStep, ConsentInv, ConsentTyped, TurnPcs, Turns
<1> QED  BY <1>1, <1>2, <1>3, <1>4, <1>5, <1>6, <1>7, <1>8

LEMMA ConsentReviews ==
  ASSUME ConsentInv, Cn!Review \/ Cn!Answered \/ Cn!ExitBegin \/ Cn!ExitBody
  PROVE  ConsentInv'
<1> USE DEF SelectionsHeld, Ahead, Announced
<1>1. CASE Cn!Review
  <2>1. /\ cnTurn.pc = "tools" /\ cnPlog' = cnPlog /\ cnPs' = cnPs /\ cnService' = cnService /\ cnUser' = cnUser
        /\ cnAsks' = cnAsks /\ cnWanted' = cnWanted /\ cnShown' = cnShown
        /\ cnTurn' = cnTurn \/ cnTurn' = [cnTurn EXCEPT !.pc = "review", !.front = cnAsks.broker]
    BY <1>1 DEF Cn!Review
  <2>2. cnTurn' \in Turns /\ cnTurn'.pc \in {"tools", "review"}
    BY <2>1, Zenon DEF ConsentInv, ConsentTyped, Turns, TurnPcs, Brokers
  <2> QED  BY <2>1, <2>2 DEF ConsentInv, ConsentTyped
<1>2. CASE Cn!Answered
  <2>1. PICK to \in {"approved", "tools"} : cnTurn' = [cnTurn EXCEPT !.pc = to, !.front = Cn!NoFront]
    BY <1>2, Zenon DEF Cn!Answered
  <2>2. cnTurn' \in Turns /\ cnTurn'.pc = to
    BY <2>1, Zenon DEF ConsentInv, ConsentTyped, Turns, TurnPcs, Broker, Cn!NoFront
  <2>3. /\ cnPlog' = cnPlog /\ cnPs' = cnPs /\ cnService' = cnService /\ cnUser' = cnUser /\ cnAsks' = cnAsks
        /\ cnWanted' = cnWanted /\ cnShown' = cnShown /\ cnTurn.pc = "review"
    BY <1>2, Zenon DEF Cn!Answered
  <2>4. SelectionsHeld(cnPlog', cnUser', cnTurn')
    BY <2>2, <2>3 DEF ConsentInv
  <2>5. Announced(cnPlog', cnPs', cnTurn', cnWanted', cnShown') <=> Announced(cnPlog, cnPs, cnTurn, cnWanted, cnShown)
    BY <2>2, <2>3
  <2> HIDE DEF SelectionsHeld, Ahead, Announced
  <2> QED  BY <2>2, <2>3, <2>4, <2>5 DEF ConsentInv, ConsentTyped
<1>3. CASE Cn!ExitBegin
  BY <1>3 DEF Cn!ExitBegin, ConsentInv, ConsentTyped, TurnPcs, Turns
<1>4. CASE Cn!ExitBody
  <2>1. /\ cnTurn.pc = "exit" /\ cnTurn' = [cnTurn EXCEPT !.pc = "tools"] /\ cnPlog' = cnPlog /\ cnService' = cnService
        /\ cnUser' = cnUser /\ cnAsks' = cnAsks /\ cnShown' = cnShown
    BY <1>4 DEF Cn!ExitBody
  <2>2. cnTurn' \in Turns /\ cnTurn'.pc = "tools"
    BY <2>1 DEF ConsentInv, ConsentTyped, Turns, TurnPcs
  <2>3. CASE cnPs' = cnPs /\ cnWanted' = cnWanted
    BY <2>1, <2>2, <2>3 DEF ConsentInv, ConsentTyped
  <2>4. CASE ~(cnPs' = cnPs /\ cnWanted' = cnWanted)
    <3>1. /\ cnPs' = [cnPs EXCEPT !.pending = TRUE, !.target = FALSE, !.notify = FALSE] /\ cnService = "running"
          /\ cnWanted' = [cnWanted EXCEPT !.mode = FALSE, !.by = "review"]
      BY <1>4, <2>4 DEF Cn!ExitBody
    <3>2. cnPs' \in States /\ cnPs'.pending /\ cnPs'.target = FALSE
      BY <3>1, Zenon DEF ConsentInv, ConsentTyped, States
    <3>3. cnWanted' \in Choices /\ cnWanted'.mode = FALSE /\ cnWanted'.by = "review"
      BY <3>1, Zenon DEF ConsentInv, ConsentTyped, Choices, Makers
    <3> QED  BY <2>1, <2>2, <3>1, <3>2, <3>3 DEF ConsentInv, ConsentTyped
  <2> QED  BY <2>3, <2>4
<1> QED  BY <1>1, <1>2, <1>3, <1>4

LEMMA ConsentServes ==
  ASSUME ConsentInv, (\E f \in Fronts : Cn!RegisterBroker(f) \/ Cn!CloseFront(f)) \/ Cn!Stop \/ Cn!StopReturns \/ Cn!Restart
  PROVE  ConsentInv'
<1> USE DEF SelectionsHeld, Ahead, Announced
<1>1. CASE \E f \in Fronts : Cn!RegisterBroker(f)
  BY <1>1 DEF Cn!RegisterBroker, ConsentInv, ConsentTyped, Broker, Brokers
<1>2. CASE \E f \in Fronts : Cn!CloseFront(f)
  <2>1. PICK f \in Fronts : Cn!CloseFront(f)
    BY <1>2
  <2>2. cnAsks' = [cnAsks EXCEPT !.closed = cnAsks.closed \cup {f}, !.broker = IF cnAsks.broker = f THEN "none" ELSE cnAsks.broker]
    BY <2>1, Zenon DEF Cn!CloseFront, Cn!NoFront
  <2>3. cnAsks' \in Brokers
    <3>1. cnAsks \in Brokers
      BY DEF ConsentInv, ConsentTyped
    <3>2. PICK closed \in SUBSET Fronts : closed = cnAsks.closed \cup {f}
      BY <3>1, Zenon DEF Brokers
    <3>3. PICK broker \in Broker : broker = IF cnAsks.broker = f THEN "none" ELSE cnAsks.broker
      BY <3>1 DEF Brokers, Broker
    <3>4. [cnAsks EXCEPT !.closed = closed, !.broker = broker] \in Brokers
      BY <3>1, Zenon DEF Brokers
    <3> QED  BY <2>2, <3>2, <3>3, <3>4
  <2> QED  BY <2>1, <2>3, Zenon DEF Cn!CloseFront, ConsentInv, ConsentTyped
<1>3. CASE Cn!Stop
  BY <1>3, Zenon DEF Cn!Stop, Cn!NoState, Cn!NoFront, ConsentInv, ConsentTyped, Broker, Brokers, States
<1>4. CASE Cn!StopReturns
  BY <1>4 DEF Cn!StopReturns, ConsentInv, ConsentTyped
<1>5. CASE Cn!Restart
  <2>1. /\ cnPlog' = cnPlog /\ cnPs' = cnPs /\ cnUser' = cnUser /\ cnTurn' = cnTurn /\ cnShown' = cnShown
        /\ cnService # "running" /\ cnService' = "running"
        /\ cnAsks' = [active |-> TRUE, broker |-> "none", closed |-> {}]
        /\ cnWanted' = [mode |-> cnPlog.active, by |-> "restart", cause |-> "restart"]
    BY <1>5 DEF Cn!Restart, Cn!NoFront
  <2>2. cnAsks' \in Brokers
    BY <2>1 DEF Brokers, Broker
  <2>3. cnWanted' \in Choices /\ cnWanted'.mode = cnPlog.active /\ cnWanted'.by = "restart" /\ cnWanted'.cause = "restart"
    BY <2>1 DEF ConsentInv, ConsentTyped, Logs, Choices, Makers
  <2>4. ~cnPs'.pending
    BY <2>1 DEF ConsentInv, Cn!NoState
  <2> QED  BY <2>1, <2>2, <2>3, <2>4 DEF ConsentInv, ConsentTyped
<1> QED  BY <1>1, <1>2, <1>3, <1>4, <1>5

LEMMA ConsentStep == ConsentInv /\ [Cn!Next]_(Cn!vars) => ConsentInv'
<1> SUFFICES ASSUME ConsentInv, [Cn!Next]_(Cn!vars) PROVE ConsentInv'
  OBVIOUS
<1>1. CASE UNCHANGED Cn!vars
  BY <1>1 DEF Cn!vars, ConsentInv, ConsentTyped, SelectionsHeld, Ahead, Announced
<1>2. CASE Cn!Next
  BY <1>2, ConsentSelects, ConsentTurns, ConsentReviews, ConsentServes DEF Cn!Next
<1> QED  BY <1>1, <1>2

LEMMA ConsentInFocus == ServicesInit /\ focus = "consent" => Cn!Init
BY DEF ServicesInit, ServiceInit

LEMMA ConsentOnly ==
  ASSUME [ServicesNext]_<<focus, vars, slots>>, focus = "consent" \/ focus' = "consent"
  PROVE  focus = "consent" /\ [Cn!Next]_(Cn!vars)
<1>1. CASE UNCHANGED <<focus, vars, slots>>
  BY <1>1 DEF slots, Cn!vars
<1>2. CASE focus = "log" /\ Next /\ UNCHANGED <<focus, slots>>
  BY <1>2
<1>3. CASE ServiceNext /\ UNCHANGED <<focus, vars>>
  BY <1>3 DEF ServiceNext
<1> QED  BY <1>1, <1>2, <1>3 DEF ServicesNext

ChoicesKept == focus = "consent" => ConsentInv

\* The last choice the service accepted is what the session is in or about to
\* be in, and a switch the person made is announced before the next request,
\* however selections, boundaries, exits, failed appends and stops interleave
\* (plan.go: Select, Step, Exit).
THEOREM ConsentAlwaysKept == ServicesSpec => []ConsentKept
<1>1. ServicesInit => ChoicesKept
  BY ConsentInFocus, ConsentInit DEF ChoicesKept
<1>2. ChoicesKept /\ [ServicesNext]_<<focus, vars, slots>> => ChoicesKept'
  BY ConsentOnly, ConsentStep DEF ChoicesKept
<1>3. ChoicesKept => ConsentKept
  BY DEF ChoicesKept, ConsentKept, Cn!ConsentKept, Cn!LastChoiceWins, Cn!SwitchAnnounced, ConsentInv, Ahead, Announced
<1> QED  BY <1>1, <1>2, <1>3, PTL DEF ServicesSpec

-----------------------------------------------------------------------------
(* Retry: the ladder of attempts.                                          *)

\* The variables of Retry, under their names there.
reService == x1
rePolicy == x2
reStep == x3
reLog == x4
reLeft == x5

USE DEF reService, rePolicy, reStep, reLog, reLeft

\* A step from the decision to its record, and one whose Do goes on.
Deciding == {"decide", "record", "sleep", "resume"}
RetryPcs == Deciding \cup {"idle", "attempt", "failed", "completed", "error"}

ModelSteps ==
  [pc : RetryPcs, number : Nat, failure : Failures \cup {"none"}, emitted : BOOLEAN, canceled : BOOLEAN,
   delay : Int, under : Nat]
Rungs == [type : {"retry", "started", "chunk"}, attempt : Nat, delay : Int, under : Nat]

\* A decision is within the policy it was made under.
Within(n, delay, under) ==
  \E p \in Policies : p.id = under /\ n <= p.retries /\ delay >= 1 /\ 100 * delay <= p.max * (100 + p.jitter)

Ladder(rungs) ==
  \A i \in 1..Len(rungs) :
    /\ rungs[i].type = "chunk" => i = Len(rungs)
    /\ rungs[i].type # "chunk" =>
         rungs[i].attempt = (i + 1) \div 2 /\ rungs[i].type = IF i % 2 = 1 THEN "retry" ELSE "started"
    /\ rungs[i].type = "retry" => Within(rungs[i].attempt, rungs[i].delay, rungs[i].under)

\* How far up the ladder a step is: two rungs per repetition, and the chunk.
Climbed(o, rungs) ==
  /\ o.pc = "idle" => o.number = 0 /\ Len(rungs) = 0 /\ ~o.emitted
  /\ o.pc \in {"attempt", "failed", "decide"} => Len(rungs) = 2 * o.number + (IF o.emitted THEN 1 ELSE 0)
  /\ o.pc = "record" => ~o.emitted /\ Len(rungs) = 2 * o.number - 2 /\ Within(o.number, o.delay, o.under)
  /\ o.pc \in {"sleep", "resume"} => ~o.emitted /\ Len(rungs) = 2 * o.number - 1
  /\ o.pc \in {"failed", "decide"} => o.failure \in Failures
  /\ ~o.emitted => \A i \in 1..Len(rungs) : rungs[i].type # "chunk"

RetryInv ==
  /\ rePolicy \in Policies /\ DOMAIN reStep = Steps /\ DOMAIN reLog = Steps
  /\ \A s \in Steps :
       /\ reStep[s] \in ModelSteps /\ reLog[s] \in Seq(Rungs)
       /\ Climbed(reStep[s], reLog[s]) /\ Ladder(reLog[s])
       /\ reService = "stopped" => reStep[s].pc \notin Deciding

LEMMA RetryInit == Re!Init => RetryInv
<1> SUFFICES ASSUME Re!Init PROVE RetryInv
  OBVIOUS
<1>1. Re!Fresh \in ModelSteps /\ Re!Fresh.pc = "idle" /\ Re!Fresh.number = 0 /\ ~Re!Fresh.emitted
  BY DEF Re!Fresh, ModelSteps, RetryPcs
<1>2. Climbed(Re!Fresh, <<>>) /\ Ladder(<<>>) /\ <<>> \in Seq(Rungs)
  BY <1>1 DEF Climbed, Ladder
<1>3. \A s \in Steps : reStep[s] = Re!Fresh /\ reLog[s] = <<>>
  BY DEF Re!Init
<1> QED  BY <1>1, <1>2, <1>3 DEF Re!Init, RetryInv, Deciding

\* A step of one model step, and of its log.
LEMMA RetryMoves ==
  ASSUME RetryInv, NEW s \in Steps, rePolicy' = rePolicy, reService' = reService,
         DOMAIN reStep' = Steps, \A t \in Steps \ {s} : reStep'[t] = reStep[t],
         DOMAIN reLog' = Steps, \A t \in Steps \ {s} : reLog'[t] = reLog[t],
         reStep'[s] \in ModelSteps, reLog'[s] \in Seq(Rungs), Climbed(reStep'[s], reLog'[s]), Ladder(reLog'[s]),
         reService = "stopped" => reStep'[s].pc \notin Deciding
  PROVE  RetryInv'
<1>1. ASSUME NEW t \in Steps
      PROVE  /\ reStep'[t] \in ModelSteps /\ reLog'[t] \in Seq(Rungs)
             /\ Climbed(reStep'[t], reLog'[t]) /\ Ladder(reLog'[t])
             /\ reService' = "stopped" => reStep'[t].pc \notin Deciding
  <2>1. CASE t = s
    BY <2>1
  <2>2. CASE t # s
    BY <2>2 DEF RetryInv
  <2> QED  BY <2>1, <2>2
<1> QED  BY <1>1 DEF RetryInv

LEMMA RetryFacts ==
  ASSUME RetryInv, NEW s \in Steps
  PROVE  /\ reStep[s] \in ModelSteps /\ reLog[s] \in Seq(Rungs) /\ Len(reLog[s]) \in Nat
         /\ Climbed(reStep[s], reLog[s]) /\ Ladder(reLog[s]) /\ reStep[s].number \in Nat
         /\ reService = "stopped" => reStep[s].pc \notin Deciding
         /\ rePolicy \in Policies /\ DOMAIN reStep = Steps /\ DOMAIN reLog = Steps
BY DEF RetryInv, ModelSteps

\* Do goes on and nothing is recorded.
LEMMA RetryAt ==
  ASSUME RetryInv, NEW s \in Steps, NEW to \in RetryPcs, Re!At(s, to), rePolicy' = rePolicy, reService' = reService, reLog' = reLog,
         reService = "stopped" => to \notin Deciding,
         to = "attempt" => reStep[s].pc = "idle",
         to = "decide" => reStep[s].pc = "failed",
         to = "resume" => reStep[s].pc = "sleep",
         to \notin {"idle", "record", "sleep", "failed"}
  PROVE  RetryInv'
<1>1. PICK o \in ModelSteps : o = reStep[s]
  BY RetryFacts
<1>2. /\ DOMAIN reStep' = Steps /\ \A t \in Steps \ {s} : reStep'[t] = reStep[t]
      /\ reStep'[s] = [o EXCEPT !.pc = to]
  BY <1>1, RetryFacts DEF Re!At
<1>3. /\ [o EXCEPT !.pc = to] \in ModelSteps /\ [o EXCEPT !.pc = to].pc = to /\ [o EXCEPT !.pc = to].number = o.number
      /\ [o EXCEPT !.pc = to].emitted = o.emitted /\ [o EXCEPT !.pc = to].failure = o.failure
      /\ [o EXCEPT !.pc = to].delay = o.delay /\ [o EXCEPT !.pc = to].under = o.under
  BY DEF ModelSteps
<1>4. Climbed(reStep'[s], reLog'[s])
  BY <1>1, <1>2, <1>3, RetryFacts DEF Climbed
<1>5. /\ DOMAIN reLog' = Steps /\ \A t \in Steps \ {s} : reLog'[t] = reLog[t]
      /\ reLog'[s] \in Seq(Rungs) /\ Ladder(reLog'[s])
  BY RetryFacts
<1>6. /\ reStep'[s] \in ModelSteps
      /\ reService = "stopped" => reStep'[s].pc \notin Deciding
  BY <1>2, <1>3
<1> QED  BY <1>2, <1>4, <1>5, <1>6, RetryMoves

\* The next record of a step fits its ladder.
LEMMA LadderGrows ==
  ASSUME NEW rungs \in Seq(Rungs), Ladder(rungs), \A i \in 1..Len(rungs) : rungs[i].type # "chunk", NEW r \in Rungs,
         r.type # "chunk" =>
           r.attempt = (Len(rungs) + 2) \div 2 /\ r.type = IF (Len(rungs) + 1) % 2 = 1 THEN "retry" ELSE "started",
         r.type = "retry" => Within(r.attempt, r.delay, r.under)
  PROVE  /\ Ladder(Append(rungs, r)) /\ Append(rungs, r) \in Seq(Rungs) /\ Len(Append(rungs, r)) = Len(rungs) + 1
         /\ r.type # "chunk" => \A i \in 1..Len(Append(rungs, r)) : Append(rungs, r)[i].type # "chunk"
<1> DEFINE grown == Append(rungs, r)
<1>1. /\ grown \in Seq(Rungs) /\ Len(grown) = Len(rungs) + 1 /\ grown[Len(rungs) + 1] = r
      /\ \A i \in 1..Len(rungs) : grown[i] = rungs[i]
  OBVIOUS
<1> HIDE DEF grown
<1>2. Len(rungs) \in Nat
  OBVIOUS
<1>3. ASSUME NEW i \in 1..Len(grown)
      PROVE  /\ grown[i].type = "chunk" => i = Len(grown)
             /\ grown[i].type # "chunk" =>
                  grown[i].attempt = (i + 1) \div 2 /\ grown[i].type = IF i % 2 = 1 THEN "retry" ELSE "started"
             /\ grown[i].type = "retry" => Within(grown[i].attempt, grown[i].delay, grown[i].under)
  <2>1. CASE i = Len(rungs) + 1
    BY <1>1, <1>2, <2>1
  <2>2. CASE i # Len(rungs) + 1
    <3>1. i \in 1..Len(rungs)
      BY <1>1, <1>2, <2>2
    <3> QED  BY <1>1, <3>1, Zenon DEF Ladder
  <2> QED  BY <2>1, <2>2
<1>4. Ladder(grown)
  BY <1>3 DEF Ladder
<1>5. r.type # "chunk" => \A i \in 1..Len(grown) : grown[i].type # "chunk"
  BY <1>1, <1>2, SMTT(30)
<1> QED  BY <1>1, <1>4, <1>5 DEF grown

\* Doubling: the delay before the cap is a natural number, by induction on the
\* attempt.
Doubling(p, f, i) == IF i = 1 THEN p.initial ELSE IF f[i - 1] < p.max THEN 2 * f[i - 1] ELSE f[i - 1]

\* A set of positions that is not empty has a least one.
LEMMA LeastPosition ==
  ASSUME NEW S \in SUBSET Nat, S # {}
  PROVE  \E x \in S : \A y \in S : x <= y
<1>1. PICK x \in S : \A y \in S : ~(<<y, x>> \in OpToRel(<, Nat))
  BY NatLessThanWellFounded, WFMin, Zenon
<1>2. \A y \in S : ~(y < x)
  BY <1>1, Zenon DEF OpToRel
<1> QED  BY <1>2

LEMMA DoublingExists ==
  ASSUME NEW p, NEW k \in Nat
  PROVE  \E f : f = [i \in 1..k |-> Doubling(p, f, i)]
<1> DEFINE Exists(m) == \E f : f = [i \in 1..m |-> Doubling(p, f, i)]
           Missing == {m \in Nat : ~Exists(m)}
<1> SUFFICES ASSUME Missing # {} PROVE FALSE
  OBVIOUS
<1>1. PICK m \in Missing : \A y \in Missing : m <= y
  BY LeastPosition, Zenon
<1>2. m # 0
  <2> DEFINE f == [i \in 1..0 |-> 0]
  <2>1. f = [i \in 1..0 |-> Doubling(p, f, i)]
    OBVIOUS
  <2>2. Exists(0)
    BY <2>1
  <2> QED  BY <2>2, Zenon
<1>3. m \in Nat /\ m - 1 \in Nat /\ Exists(m - 1)
  BY <1>1, <1>2
<1>4. PICK f : f = [i \in 1..(m - 1) |-> Doubling(p, f, i)]
  BY <1>3
<1> DEFINE g == [i \in 1..m |-> IF i = m THEN Doubling(p, f, m) ELSE f[i]]
<1>5. ASSUME NEW i \in 1..m PROVE g[i] = Doubling(p, g, i)
  <2>1. i # 1 => i - 1 \in 1..(m - 1) /\ g[i - 1] = f[i - 1]
    BY <1>3
  <2>2. i # m => i \in 1..(m - 1) /\ g[i] = f[i] /\ f[i] = Doubling(p, f, i)
    <3>1. i # m => i \in 1..(m - 1)
      BY <1>3
    <3> QED  BY <1>4, <3>1
  <2>3. g[i] = Doubling(p, f, i)
    BY <2>2
  <2> HIDE DEF g
  <2> QED  BY <2>1, <2>3 DEF Doubling
<1>6. g = [i \in 1..m |-> g[i]]
  OBVIOUS
<1>7. g = [i \in 1..m |-> Doubling(p, g, i)]
  <2> HIDE DEF g
  <2> QED  BY <1>5, <1>6
<1>8. Exists(m)
  <2> HIDE DEF g
  <2> QED  BY <1>7
<1> QED  BY <1>1, <1>8

LEMMA DoubledIs ==
  ASSUME NEW p \in Policies, NEW n \in Nat \ {0}
  PROVE  Re!Doubled(p, n) \in Nat
<1>1. PICK f : f = [i \in 1..n |-> Doubling(p, f, i)]
  BY DoublingExists, Zenon
<1> DEFINE d == CHOOSE d : d = [i \in 1..n |-> IF i = 1 THEN p.initial ELSE IF d[i - 1] < p.max THEN 2 * d[i - 1] ELSE d[i - 1]]
<1>2. /\ Re!Doubled(p, n) = d[n]
      /\ d = [i \in 1..n |-> IF i = 1 THEN p.initial ELSE IF d[i - 1] < p.max THEN 2 * d[i - 1] ELSE d[i - 1]]
  <2>1. Re!Doubled(p, n) = d[n]
    BY DEF Re!Doubled
  <2>2. d = [i \in 1..n |-> IF i = 1 THEN p.initial ELSE IF d[i - 1] < p.max THEN 2 * d[i - 1] ELSE d[i - 1]]
    BY <1>1, Zenon DEF Doubling
  <2> QED  BY <2>1, <2>2, Zenon
<1> HIDE DEF d
<1> DEFINE bad == {i \in 1..n : d[i] \notin Nat}
<1>3. \A i \in 1..n : d[i] \in Nat
  <2> SUFFICES ASSUME bad # {} PROVE FALSE
    OBVIOUS
  <2>0. bad \in SUBSET Nat
    OBVIOUS
  <2>1. PICK m \in bad : \A y \in bad : m <= y
    BY <2>0, LeastPosition, Zenon
  <2>2. p.initial \in Nat /\ p.max \in Nat
    BY RetryAssumption
  <2>3. m # 1 => m - 1 \in 1..n /\ d[m - 1] \in Nat
    BY <2>1
  <2>4. d[m] = IF m = 1 THEN p.initial ELSE IF d[m - 1] < p.max THEN 2 * d[m - 1] ELSE d[m - 1]
    BY <1>2
  <2> QED  BY <2>2, <2>3, <2>4
<1>4. n \in 1..n
  OBVIOUS
<1> QED  BY <1>2, <1>3, <1>4

LEMMA ProductsGrow ==
  ASSUME NEW a \in Nat, NEW b \in Nat, a <= b, NEW c \in Nat, NEW d \in Nat, c <= d
  PROVE  a * c \in Nat /\ b * d \in Nat /\ a * c <= b * d
<1>1. \A i, j \in Nat : i * j \in Nat
  OBVIOUS
<1>2. PICK e \in Nat : b = a + e
  <2>1. b - a \in Nat /\ b = a + (b - a)
    OBVIOUS
  <2> QED  BY <2>1
<1>3. PICK f \in Nat : d = c + f
  <2>1. d - c \in Nat /\ d = c + (d - c)
    OBVIOUS
  <2> QED  BY <2>1
<1>4. b * d = a * c + a * f + e * d
  BY <1>2, <1>3
<1>5. a * f \in Nat /\ e * d \in Nat /\ a * c \in Nat
  BY <1>1
<1> QED  BY <1>1, <1>4, <1>5

\* A delay is within the policy's cap and jitter, whatever the server asked for.
LEMMA DelayWithin ==
  ASSUME NEW p \in Policies, NEW n \in Nat \ {0}, NEW after \in Nat, NEW percent \in Re!Jitters(p), n <= p.retries
  PROVE  Within(n, Re!RetryDelay(p, n, after, percent), p.id) /\ Re!RetryDelay(p, n, after, percent) \in Int
<1>1. p.max \in Nat \ {0} /\ p.jitter \in 0..100
  BY RetryAssumption
<1>2. percent \in Nat /\ percent <= 100 + p.jitter
  BY <1>1 DEF Re!Jitters
<1> DEFINE doubled == Re!Doubled(p, n)
           base == IF doubled < p.max THEN doubled ELSE p.max
           asked == IF after > base THEN (IF after < p.max THEN after ELSE p.max) ELSE base
           jittered == (asked * percent) \div 100
<1>3. doubled \in Nat
  BY DoubledIs
<1>4. Re!RetryDelay(p, n, after, percent) = IF jittered < 1 THEN 1 ELSE jittered
  BY DEF Re!RetryDelay, Re!Least
<1> HIDE DEF doubled
<1>5. asked \in Nat /\ asked <= p.max
  BY <1>1, <1>3
<1> HIDE DEF asked
<1>6. asked * percent \in Nat /\ p.max * (100 + p.jitter) \in Nat /\ asked * percent <= p.max * (100 + p.jitter)
  BY <1>1, <1>2, <1>5, ProductsGrow
<1>7. \A x \in Nat : x \div 100 \in Int /\ 100 * (x \div 100) <= x
  OBVIOUS
<1>8. 1 * 100 <= p.max * (100 + p.jitter)
  <2>1. 1 <= p.max /\ 100 <= 100 + p.jitter /\ 100 + p.jitter \in Nat
    BY <1>1
  <2> QED  BY <1>1, <2>1, ProductsGrow
<1>9. jittered \in Int /\ 100 * jittered <= p.max * (100 + p.jitter)
  BY <1>6, <1>7
<1> HIDE DEF jittered
<1>10. Re!RetryDelay(p, n, after, percent) >= 1 /\ 100 * Re!RetryDelay(p, n, after, percent) <= p.max * (100 + p.jitter)
  BY <1>4, <1>8, <1>9
<1> QED  BY <1>1, <1>4, <1>9, <1>10 DEF Within

LEMMA RetryAttempts ==
  ASSUME RetryInv, NEW s \in Steps,
         \/ Re!Attempt(s) \/ Re!EmitChunk(s) \/ Re!AttemptSucceeds(s) \/ (\E failure \in Failures : Re!AttemptFails(s, failure))
         \/ Re!Begin(s) \/ Re!SleepEnds(s) \/ Re!AppendFails(s) \/ Re!WaitCanceled(s) \/ Re!Cancel(s)
  PROVE  RetryInv'
<1>1. /\ reStep[s] \in ModelSteps /\ reLog[s] \in Seq(Rungs) /\ Len(reLog[s]) \in Nat
      /\ Climbed(reStep[s], reLog[s]) /\ Ladder(reLog[s]) /\ DOMAIN reStep = Steps /\ DOMAIN reLog = Steps
      /\ reService = "stopped" => reStep[s].pc \notin Deciding
  BY RetryFacts
<1>2. CASE Re!Attempt(s) \/ Re!AttemptSucceeds(s) \/ Re!Begin(s) \/ Re!SleepEnds(s) \/ Re!AppendFails(s) \/ Re!WaitCanceled(s)
  <2>1. {"attempt", "completed", "decide", "error", "resume"} \subseteq RetryPcs
    BY DEF RetryPcs, Deciding
  <2>2. CASE Re!Attempt(s)
    BY <1>1, <2>1, <2>2, RetryAt DEF Re!Attempt, Deciding
  <2>3. CASE Re!AttemptSucceeds(s)
    BY <1>1, <2>1, <2>3, RetryAt DEF Re!AttemptSucceeds, Deciding
  <2>4. CASE Re!Begin(s)
    BY <1>1, <2>1, <2>4, RetryAt DEF Re!Begin, Deciding
  <2>5. CASE Re!SleepEnds(s)
    BY <1>1, <2>1, <2>5, RetryAt DEF Re!SleepEnds, Deciding
  <2>6. CASE Re!AppendFails(s) \/ Re!WaitCanceled(s)
    BY <1>1, <2>1, <2>6, RetryAt DEF Re!AppendFails, Re!WaitCanceled, Deciding
  <2> QED  BY <1>2, <2>2, <2>3, <2>4, <2>5, <2>6
<1>3. CASE \E failure \in Failures : Re!AttemptFails(s, failure)
  <2>1. PICK failure \in Failures : Re!AttemptFails(s, failure)
    BY <1>3
  <2>2. /\ reStep[s].pc = "attempt" /\ reStep' = [reStep EXCEPT ![s].pc = "failed", ![s].failure = failure]
        /\ reLog' = reLog /\ rePolicy' = rePolicy /\ reService' = reService
    BY <2>1 DEF Re!AttemptFails
  <2>3. PICK o \in ModelSteps : o = reStep[s]
    BY <1>1
  <2>4. /\ DOMAIN reStep' = Steps /\ \A t \in Steps \ {s} : reStep'[t] = reStep[t]
        /\ reStep'[s] = [o EXCEPT !.pc = "failed", !.failure = failure]
    BY <1>1, <2>2, <2>3
  <2>5. /\ [o EXCEPT !.pc = "failed", !.failure = failure] \in ModelSteps
        /\ [o EXCEPT !.pc = "failed", !.failure = failure].pc = "failed"
        /\ [o EXCEPT !.pc = "failed", !.failure = failure].failure = failure
        /\ [o EXCEPT !.pc = "failed", !.failure = failure].number = o.number
        /\ [o EXCEPT !.pc = "failed", !.failure = failure].emitted = o.emitted
    BY Zenon DEF ModelSteps, RetryPcs
  <2>6. Climbed(reStep'[s], reLog'[s])
    BY <1>1, <2>2, <2>3, <2>4, <2>5 DEF Climbed
  <2>7. reStep'[s].pc \notin Deciding
    BY <2>4, <2>5 DEF Deciding
  <2> QED  BY <1>1, <2>2, <2>4, <2>5, <2>6, <2>7, RetryMoves
<1>4. CASE Re!Cancel(s)
  <2>1. /\ reStep' = [reStep EXCEPT ![s].canceled = TRUE] /\ reStep[s].pc # "idle"
        /\ reLog' = reLog /\ rePolicy' = rePolicy /\ reService' = reService
    BY <1>4 DEF Re!Cancel
  <2>2. PICK o \in ModelSteps : o = reStep[s]
    BY <1>1
  <2>3. /\ DOMAIN reStep' = Steps /\ \A t \in Steps \ {s} : reStep'[t] = reStep[t]
        /\ reStep'[s] = [o EXCEPT !.canceled = TRUE]
    BY <1>1, <2>1, <2>2
  <2> DEFINE q == [o EXCEPT !.canceled = TRUE]
  <2>4. /\ q \in ModelSteps /\ q.pc = o.pc /\ q.number = o.number /\ q.emitted = o.emitted /\ q.failure = o.failure
        /\ q.delay = o.delay /\ q.under = o.under
    BY Zenon DEF ModelSteps
  <2> HIDE DEF q
  <2>5. Climbed(q, reLog[s])
    BY <1>1, <2>2, <2>4 DEF Climbed
  <2> QED  BY <1>1, <2>1, <2>2, <2>3, <2>4, <2>5, RetryMoves, Zenon DEF q
<1>5. CASE Re!EmitChunk(s)
  <2> DEFINE r == [type |-> "chunk", attempt |-> 0, delay |-> 0, under |-> 0]
  <2>1. /\ reStep' = [reStep EXCEPT ![s].emitted = TRUE] /\ reStep[s].pc = "attempt" /\ ~reStep[s].emitted
        /\ reLog' = [reLog EXCEPT ![s] = Append(@, r)] /\ rePolicy' = rePolicy /\ reService' = reService
    BY <1>5 DEF Re!EmitChunk, Re!Record
  <2>2. PICK o \in ModelSteps : o = reStep[s]
    BY <1>1
  <2>3. /\ DOMAIN reStep' = Steps /\ \A t \in Steps \ {s} : reStep'[t] = reStep[t] /\ reLog'[t] = reLog[t]
        /\ DOMAIN reLog' = Steps /\ reLog'[s] = Append(reLog[s], r) /\ reStep'[s] = [o EXCEPT !.emitted = TRUE]
    BY <1>1, <2>1, <2>2
  <2>4. r \in Rungs /\ r.type = "chunk"
    BY DEF Rungs
  <2> HIDE DEF r
  <2> DEFINE q == [o EXCEPT !.emitted = TRUE]
  <2>5. q \in ModelSteps /\ q.pc = o.pc /\ q.number = o.number /\ q.emitted /\ q.failure = o.failure /\ o.number \in Nat
    BY Zenon DEF ModelSteps
  <2> HIDE DEF q
  <2>6. \A i \in 1..Len(reLog[s]) : reLog[s][i].type # "chunk"
    BY <1>1, <2>1 DEF Climbed
  <2>7. Ladder(reLog'[s]) /\ reLog'[s] \in Seq(Rungs) /\ Len(reLog'[s]) = Len(reLog[s]) + 1
    BY <1>1, <2>3, <2>4, <2>6, LadderGrows, SMTT(30)
  <2>8. Climbed(q, reLog'[s])
    BY <1>1, <2>1, <2>2, <2>5, <2>7 DEF Climbed
  <2>9. q.pc \notin Deciding
    BY <2>1, <2>2, <2>5 DEF Deciding
  <2> QED  BY <2>1, <2>3, <2>5, <2>7, <2>8, <2>9, RetryMoves, Zenon DEF q
<1> QED  BY <1>2, <1>3, <1>4, <1>5

\* A retry and its repetition are recorded one after the other.
LEMMA RetryRecords ==
  ASSUME RetryInv, NEW s \in Steps, Re!RecordRetry(s) \/ Re!RecordStarted(s)
  PROVE  RetryInv'
<1>1. /\ reLog[s] \in Seq(Rungs) /\ Len(reLog[s]) \in Nat
      /\ Climbed(reStep[s], reLog[s]) /\ Ladder(reLog[s]) /\ DOMAIN reStep = Steps /\ DOMAIN reLog = Steps
      /\ reService = "stopped" => reStep[s].pc \notin Deciding
  BY RetryFacts
<1>2. PICK o \in ModelSteps : o = reStep[s]
  BY RetryFacts
<1>3. o.number \in Nat /\ o.delay \in Int /\ o.under \in Nat
  BY DEF ModelSteps
<1>4. PICK r \in Rungs, to \in {"sleep", "attempt"} :
        /\ reStep' = [reStep EXCEPT ![s].pc = to] /\ reLog' = [reLog EXCEPT ![s] = Append(@, r)]
        /\ rePolicy' = rePolicy /\ reService' = reService /\ r.attempt = o.number
        /\ \/ o.pc = "record" /\ to = "sleep" /\ r.type = "retry" /\ r.delay = o.delay /\ r.under = o.under
           \/ o.pc = "resume" /\ to = "attempt" /\ r.type = "started"
  <2>1. CASE Re!RecordRetry(s)
    <3>1. [type |-> "retry", attempt |-> o.number, delay |-> o.delay, under |-> o.under] \in Rungs
      BY <1>3 DEF Rungs
    <3> QED  BY <1>2, <2>1, <3>1, Zenon DEF Re!RecordRetry, Re!Record, Re!At
  <2>2. CASE Re!RecordStarted(s)
    <3>1. [type |-> "started", attempt |-> o.number, delay |-> 0, under |-> 0] \in Rungs
      BY <1>3 DEF Rungs
    <3> QED  BY <1>2, <2>2, <3>1, Zenon DEF Re!RecordStarted, Re!Record, Re!At
  <2> QED  BY <2>1, <2>2
<1> DEFINE q == [o EXCEPT !.pc = to]
<1>5. /\ DOMAIN reStep' = Steps /\ \A t \in Steps \ {s} : reStep'[t] = reStep[t] /\ reLog'[t] = reLog[t]
      /\ DOMAIN reLog' = Steps /\ reLog'[s] = Append(reLog[s], r) /\ reStep'[s] = q
  BY <1>1, <1>2, <1>4
<1>6. q \in ModelSteps /\ q.pc = to /\ q.number = o.number /\ q.emitted = o.emitted
  BY DEF ModelSteps, RetryPcs, Deciding
<1> HIDE DEF q
<1>7. ~o.emitted /\ \A i \in 1..Len(reLog[s]) : reLog[s][i].type # "chunk"
  BY <1>1, <1>2, <1>4 DEF Climbed
<1>8. /\ o.pc = "record" => Len(reLog[s]) = 2 * o.number - 2 /\ Within(o.number, o.delay, o.under)
      /\ o.pc = "resume" => Len(reLog[s]) = 2 * o.number - 1
  BY <1>1, <1>2 DEF Climbed
<1>9. r.attempt = (Len(reLog[s]) + 2) \div 2 /\ r.type = IF (Len(reLog[s]) + 1) % 2 = 1 THEN "retry" ELSE "started"
  <2>1. CASE o.pc = "record"
    <3>1. (2 * o.number - 2 + 2) \div 2 = o.number /\ (2 * o.number - 2 + 1) % 2 = 1
      BY <1>3
    <3> QED  BY <1>4, <1>8, <2>1, <3>1, Zenon
  <2>2. CASE o.pc = "resume"
    <3>1. PICK l \in Nat, n \in Nat : l = Len(reLog[s]) /\ n = o.number /\ l = 2 * n - 1
      BY <1>1, <1>3, <1>8, <2>2
    <3>2. l + 2 = 2 * n + 1 /\ l + 1 = 2 * n
      BY <3>1
    <3>3. (2 * n + 1) \div 2 = n /\ (2 * n) % 2 = 0
      OBVIOUS
    <3>4. r.type = "started" /\ r.attempt = n
      BY <1>4, <2>2, <3>1
    <3>5. (l + 2) \div 2 = n /\ (l + 1) % 2 # 1
      BY <3>2, <3>3
    <3>6. r.attempt = (Len(reLog[s]) + 2) \div 2
      BY <3>1, <3>4, <3>5, Zenon
    <3>7. (Len(reLog[s]) + 1) % 2 # 1
      BY <3>1, <3>5, Zenon
    <3> QED  BY <3>4, <3>6, <3>7, Zenon
  <2> QED  BY <1>4, <2>1, <2>2, Zenon
<1>10. r.type = "retry" => Within(r.attempt, r.delay, r.under)
  BY <1>4, <1>8
<1>11. /\ Ladder(reLog'[s]) /\ reLog'[s] \in Seq(Rungs) /\ Len(reLog'[s]) = Len(reLog[s]) + 1
       /\ \A i \in 1..Len(reLog'[s]) : reLog'[s][i].type # "chunk"
  <2>1. r.type # "chunk"
    BY <1>4
  <2>2. /\ Ladder(Append(reLog[s], r)) /\ Append(reLog[s], r) \in Seq(Rungs) /\ Len(Append(reLog[s], r)) = Len(reLog[s]) + 1
        /\ \A i \in 1..Len(Append(reLog[s], r)) : Append(reLog[s], r)[i].type # "chunk"
    BY <1>1, <1>7, <1>9, <1>10, <2>1, LadderGrows
  <2> QED  BY <1>5, <2>2
<1>12. Climbed(q, reLog'[s])
  BY <1>3, <1>4, <1>6, <1>7, <1>8, <1>11, SMTT(30) DEF Climbed
<1>13. reService = "stopped" => q.pc \notin Deciding
  BY <1>1, <1>2, <1>4 DEF Deciding
<1> QED  BY <1>4, <1>5, <1>6, <1>11, <1>12, <1>13, RetryMoves

\* A decision, under the policy of now.
LEMMA RetryDecides ==
  ASSUME RetryInv, NEW s \in Steps, Re!Decide(s)
  PROVE  RetryInv'
<1>1. /\ reStep[s] \in ModelSteps /\ reLog[s] \in Seq(Rungs) /\ Len(reLog[s]) \in Nat
      /\ Climbed(reStep[s], reLog[s]) /\ Ladder(reLog[s]) /\ DOMAIN reStep = Steps /\ DOMAIN reLog = Steps
      /\ reService = "stopped" => reStep[s].pc \notin Deciding
      /\ rePolicy \in Policies
  BY RetryFacts
<1>2. /\ reStep[s].pc = "decide" /\ reLog' = reLog /\ rePolicy' = rePolicy /\ reService' = reService
  BY DEF Re!Decide
<1>3. CASE Re!At(s, "error")
  BY <1>2, <1>3, RetryAt DEF RetryPcs, Deciding
<1>4. CASE ~Re!At(s, "error")
  <2>1. /\ ~reStep[s].emitted /\ ~(reStep[s].number >= rePolicy.retries)
        /\ \E percent \in Re!Jitters(rePolicy) :
             reStep' = [reStep EXCEPT ![s].pc = "record", ![s].number = @ + 1, ![s].under = rePolicy.id,
                          ![s].delay = Re!RetryDelay(rePolicy, reStep[s].number + 1, reStep[s].failure.after, percent)]
    BY <1>4, Zenon DEF Re!Decide
  <2>2. PICK percent \in Re!Jitters(rePolicy) :
          reStep' = [reStep EXCEPT ![s].pc = "record", ![s].number = @ + 1, ![s].under = rePolicy.id,
                       ![s].delay = Re!RetryDelay(rePolicy, reStep[s].number + 1, reStep[s].failure.after, percent)]
    BY <2>1, Zenon
  <2>3. PICK o \in ModelSteps : o = reStep[s]
    BY <1>1
  <2>4. o.number \in Nat /\ o.failure.after \in Nat /\ rePolicy.retries \in Nat /\ rePolicy.id \in Nat
    <3>1. o.failure \in Failures
      BY <1>1, <1>2, <2>3 DEF Climbed
    <3> QED  BY <1>1, <3>1, RetryAssumption DEF ModelSteps
  <2>5. PICK n \in Nat \ {0} : n = o.number + 1 /\ n <= rePolicy.retries
    BY <2>1, <2>3, <2>4
  <2>6. PICK delay \in Int : delay = Re!RetryDelay(rePolicy, n, o.failure.after, percent) /\ Within(n, delay, rePolicy.id)
    BY <1>1, <2>4, <2>5, DelayWithin, Zenon
  <2> DEFINE q == [o EXCEPT !.pc = "record", !.number = n, !.under = rePolicy.id, !.delay = delay]
  <2>7. /\ DOMAIN reStep' = Steps /\ \A t \in Steps \ {s} : reStep'[t] = reStep[t]
        /\ reStep'[s] = q
    BY <1>1, <2>2, <2>3, <2>5, <2>6
  <2>8. q \in ModelSteps /\ q.pc = "record" /\ q.number = n /\ q.under = rePolicy.id /\ q.delay = delay /\ q.emitted = o.emitted
    BY <2>4, Zenon DEF ModelSteps, RetryPcs, Deciding
  <2> HIDE DEF q
  <2>9. Climbed(q, reLog[s])
    BY <1>1, <1>2, <2>1, <2>3, <2>4, <2>5, <2>6, <2>8 DEF Climbed
  <2>10. reService # "stopped"
    BY <1>1, <1>2 DEF Deciding
  <2> QED  BY <1>1, <1>2, <2>7, <2>8, <2>9, <2>10, RetryMoves
<1> QED  BY <1>3, <1>4

LEMMA RetryCleans ==
  ASSUME RetryInv, Re!Cleanup \/ Re!CleanupReturns \/ \E p \in Policies : Re!ChangePolicy(p)
  PROVE  RetryInv'
<1>1. CASE Re!Cleanup
  <2>1. /\ reService' = "joining" /\ rePolicy' = rePolicy /\ reLog' = reLog
        /\ reStep' = [s \in Steps |-> [reStep[s] EXCEPT !.canceled = reStep[s].canceled \/ Re!Deciding(s)]]
    BY <1>1 DEF Re!Cleanup
  <2>2. ASSUME NEW s \in Steps
        PROVE  reStep'[s] \in ModelSteps /\ Climbed(reStep'[s], reLog[s])
    <3>1. PICK o \in ModelSteps, c \in BOOLEAN : o = reStep[s] /\ c = (reStep[s].canceled \/ Re!Deciding(s))
      BY RetryFacts, Zenon
    <3>2. reStep'[s] = [o EXCEPT !.canceled = c]
      BY <2>1, <3>1
    <3> DEFINE q == [o EXCEPT !.canceled = c]
    <3>3. /\ q \in ModelSteps /\ q.pc = o.pc /\ q.number = o.number /\ q.emitted = o.emitted /\ q.failure = o.failure
          /\ q.delay = o.delay /\ q.under = o.under
      BY DEF ModelSteps
    <3> HIDE DEF q
    <3>4. Climbed(q, reLog[s])
      BY <3>1, <3>3, RetryFacts DEF Climbed
    <3> QED  BY <3>2, <3>3, <3>4 DEF q
  <2> QED  BY <2>1, <2>2 DEF RetryInv
<1>2. CASE Re!CleanupReturns
  BY <1>2 DEF Re!CleanupReturns, Re!Deciding, RetryInv, Deciding
<1>3. CASE \E p \in Policies : Re!ChangePolicy(p)
  BY <1>3 DEF Re!ChangePolicy, RetryInv
<1> QED  BY <1>1, <1>2, <1>3

LEMMA RetryStep == RetryInv /\ [Re!Next]_(Re!vars) => RetryInv'
<1> SUFFICES ASSUME RetryInv, [Re!Next]_(Re!vars) PROVE RetryInv'
  OBVIOUS
<1>1. CASE UNCHANGED Re!vars
  BY <1>1 DEF Re!vars, RetryInv
<1>2. CASE Re!Next
  BY <1>2, RetryAttempts, RetryRecords, RetryDecides, RetryCleans DEF Re!Next
<1> QED  BY <1>1, <1>2

LEMMA RetryInFocus == ServicesInit /\ focus = "retry" => Re!Init
BY DEF ServicesInit, ServiceInit

LEMMA RetryOnly ==
  ASSUME [ServicesNext]_<<focus, vars, slots>>, focus = "retry" \/ focus' = "retry"
  PROVE  focus = "retry" /\ [Re!Next]_(Re!vars)
<1>1. CASE UNCHANGED <<focus, vars, slots>>
  BY <1>1 DEF slots, Re!vars
<1>2. CASE focus = "log" /\ Next /\ UNCHANGED <<focus, slots>>
  BY <1>2
<1>3. CASE ServiceNext /\ UNCHANGED <<focus, vars>>
  BY <1>3 DEF ServiceNext
<1> QED  BY <1>1, <1>2, <1>3 DEF ServicesNext

LaddersKept == focus = "retry" => RetryInv

\* The records of a step are a ladder whose every rung is within the policy it
\* was decided under, however often the policy changes and whatever the server
\* asks for, and no decision is under way once cleanup returned (service.go,
\* wait and retryDelay).
THEOREM RetryAlwaysKept == ServicesSpec => []RetryKept
<1>1. ServicesInit => LaddersKept
  BY RetryInFocus, RetryInit DEF LaddersKept
<1>2. LaddersKept /\ [ServicesNext]_<<focus, vars, slots>> => LaddersKept'
  BY RetryOnly, RetryStep DEF LaddersKept
<1>3. LaddersKept => RetryKept
  <2> SUFFICES ASSUME RetryInv PROVE Re!RetryKept
    BY DEF LaddersKept, RetryKept
  <2>1. ASSUME NEW s \in Steps, NEW i \in 1..Len(reLog[s]), reLog[s][i].type = "retry"
        PROVE  LET p == CHOOSE q \in Policies : q.id = reLog[s][i].under IN
               /\ reLog[s][i].attempt <= p.retries
               /\ reLog[s][i].delay >= 1 /\ 100 * reLog[s][i].delay <= p.max * (100 + p.jitter)
    <3>1. Within(reLog[s][i].attempt, reLog[s][i].delay, reLog[s][i].under)
      BY <2>1, RetryFacts DEF Ladder
    <3>2. PICK p \in Policies :
            /\ p.id = reLog[s][i].under /\ reLog[s][i].attempt <= p.retries
            /\ reLog[s][i].delay >= 1 /\ 100 * reLog[s][i].delay <= p.max * (100 + p.jitter)
      BY <3>1 DEF Within
    <3>3. (CHOOSE q \in Policies : q.id = reLog[s][i].under) = p
      BY <3>2, RetryAssumption
    <3> QED  BY <3>2, <3>3, Zenon
  <2>2. Re!LadderKept
    BY <2>1, RetryFacts DEF Re!LadderKept, Ladder
  <2>3. reService = "stopped" => \A s \in Steps : reStep[s].pc \notin Deciding
    BY DEF RetryInv
  <2> QED  BY <2>2, <2>3 DEF Re!RetryKept, Deciding
<1> QED  BY <1>1, <1>2, <1>3, PTL DEF ServicesSpec
-----------------------------------------------------------------------------
(* Command: a shell command and what it leaves.                            *)

\* The variables of Command, under their names there.
coProc == x1
coPipe == x2
coCtx == x3
coObserver == x4
coKilled == x5
coRun == x6
coTail == x7
coSpill == x8
coShell == x9
coLeft == x10

USE DEF coProc, coPipe, coCtx, coObserver, coKilled, coRun, coTail, coSpill, coShell, coLeft

\* The i-th byte the command writes, and a sequence that is the bytes after
\* the a-th up to the b-th.
Mark(i) == [at |-> i, start |-> Output[i]]
Marks == {Mark(i) : i \in Nat}
Span(s, a, b) ==
  /\ s \in Seq(Marks) /\ Len(s) = b - a
  /\ \A i \in 1..(b - a) : s[i] = Mark(a + i)

LEMMA SpanBytes ==
  ASSUME NEW a \in Nat, NEW b \in Nat, a <= b
  PROVE  Span(Co!Bytes(a, b), a, b)
<1> DEFINE n == b - a
           s == [i \in 1..n |-> Mark(a + i)]
<1>1. n \in Nat /\ \A i \in 1..n : Mark(a + i) \in Marks
  BY DEF Marks
<1>2. s \in [1..n -> Marks]
  BY <1>1
<1>3. s \in Seq(Marks) /\ Len(s) = n
  BY <1>1, <1>2
<1>4. \A i \in 1..n : s[i] = Mark(a + i)
  OBVIOUS
<1>5. Co!Bytes(a, b) = s
  BY DEF Co!Bytes, Mark
<1> QED  BY <1>3, <1>4, <1>5 DEF Span

LEMMA SpanJoined ==
  ASSUME NEW a \in Nat, NEW b \in Nat, NEW c \in Nat, a <= b, b <= c,
         NEW s, NEW t, Span(s, a, b), Span(t, b, c)
  PROVE  Span(s \o t, a, c)
<1>1. s \in Seq(Marks) /\ t \in Seq(Marks) /\ Len(s) = b - a /\ Len(t) = c - b
  BY DEF Span
<1> DEFINE u == s \o t
<1>2. u \in Seq(Marks) /\ Len(u) = Len(s) + Len(t)
      /\ \A i \in 1..(Len(s) + Len(t)) : u[i] = IF i <= Len(s) THEN s[i] ELSE t[i - Len(s)]
  BY <1>1, ConcatProperties, Zenon
<1> HIDE DEF u
<1>3. Len(u) = c - a /\ \A i \in 1..(c - a) : u[i] = IF i <= b - a THEN s[i] ELSE t[i - (b - a)]
  <2>1. Len(s) + Len(t) = c - a
    BY <1>1
  <2> QED  BY <1>1, <1>2, <2>1
<1>4. ASSUME NEW i \in 1..(c - a)
      PROVE  u[i] = Mark(a + i)
  <2>1. CASE i <= b - a
    <3>1. i \in 1..(b - a)
      BY <2>1
    <3> QED  BY <1>3, <2>1, <3>1 DEF Span
  <2>2. CASE ~(i <= b - a)
    <3>1. i - (b - a) \in 1..(c - b) /\ b + (i - (b - a)) = a + i
      BY <2>2
    <3>2. t[i - (b - a)] = Mark(b + (i - (b - a)))
      BY <3>1 DEF Span
    <3> QED  BY <1>3, <2>2, <3>1, <3>2, Zenon
  <2> QED  BY <2>1, <2>2
<1> QED  BY <1>2, <1>3, <1>4 DEF Span, u

LEMMA SpanLast ==
  ASSUME NEW a \in Nat, NEW b \in Nat, a <= b, NEW s, Span(s, a, b), NEW n \in 0..(b - a)
  PROVE  Span(Co!Last(s, n), b - n, b)
<1> DEFINE m == Len(s) - n + 1
           l == Len(s)
<1>1. s \in Seq(Marks) /\ l = b - a /\ m \in Int /\ l \in Int /\ m = b - a - n + 1
  BY DEF Span
<1>2. \A i \in m..l : s[i] \in Marks
  BY <1>1, ElementOfSeq
<1> HIDE DEF m, l
<1>3. /\ SubSeq(s, m, l) \in Seq(Marks) /\ Len(SubSeq(s, m, l)) = n
      /\ \A i \in 1..n : SubSeq(s, m, l)[i] = s[m + i - 1]
  BY <1>1, <1>2, SubSeqProperties
<1>4. ASSUME NEW i \in 1..n
      PROVE  SubSeq(s, m, l)[i] = Mark((b - n) + i)
  <2>1. m + i - 1 \in 1..(b - a) /\ a + (m + i - 1) = (b - n) + i
    BY <1>1
  <2>2. s[m + i - 1] = Mark(a + (m + i - 1))
    BY <2>1 DEF Span
  <2> QED  BY <1>3, <2>1, <2>2
<1>5. b - (b - n) = n /\ b - n \in Nat
  BY <1>1
<1>6. /\ Co!Last(s, n) \in Seq(Marks) /\ Len(Co!Last(s, n)) = b - (b - n)
      /\ \A i \in 1..(b - (b - n)) : Co!Last(s, n)[i] = Mark((b - n) + i)
  <2>1. Co!Last(s, n) = SubSeq(s, m, l)
    BY DEF Co!Last, m, l
  <2> QED  BY <1>3, <1>4, <1>5, <2>1
<1> QED  BY <1>6 DEF Span

LEMMA SpanAlone ==
  ASSUME NEW a \in Nat, NEW b \in Nat, a <= b, NEW s, NEW t, Span(s, a, b), Span(t, a, b)
  PROVE  s = t
<1>1. s \in Seq(Marks) /\ t \in Seq(Marks) /\ Len(s) = Len(t) /\ \A i \in 1..Len(s) : s[i] = t[i]
  BY DEF Span
<1> QED  BY <1>1, SeqEqual

RunPcs == {"idle", "start", "wait", "join", "result", "finish", "done"}
Waited == {"result", "finish", "done"}
Alive == {"none", "alive", "dead"}

Groups == [main : Alive, kid : Alive]
Pipes == [written : Nat, taken : Nat, late : BOOLEAN]
Texts == Seq(Marks) \cup {Co!RuneStart(s) : s \in Seq(Marks)}
Runs == [pc : RunPcs, grace : Graces, result : {"none", "refused", "canceled", "exited"}, timedOut : BOOLEAN,
         text : Texts, truncated : BOOLEAN, locator : BOOLEAN]
Tails == [data : Seq(Marks), truncated : BOOLEAN]
Streams == [buffered : Seq(Marks), file : {"none", "open", "committed"}, content : Seq(Marks), disabled : BOOLEAN]
Shells == [pc : {"running", "joining", "stopped"}, temp : BOOLEAN]

CommandTyped ==
  /\ coProc \in Groups /\ coPipe \in Pipes /\ coRun \in Runs
  /\ coTail \in Tails /\ coSpill \in Streams /\ coShell \in Shells
  /\ coLeft \in Nat /\ coLeft <= MaxFaults /\ coKilled \in BOOLEAN
  /\ coObserver \in {"none", "watch", "term", "grace", "kill", "stopped"}

\* The group and its observer live between the start and the wait, and the
\* directory as long as the call.
Reaped(proc, observer, run, shell) ==
  /\ run.pc \in {"idle", "start"} => proc.main = "none" /\ proc.kid = "none" /\ observer = "none"
  /\ run.pc \in {"wait", "join"} => proc.main # "none" /\ observer # "none"
  /\ run.pc \in Waited => proc.main # "alive" /\ proc.kid # "alive" /\ observer \in {"none", "stopped"}
  /\ shell.pc = "stopped" => run.pc \in {"idle", "done"}
  /\ ~shell.temp => shell.pc = "stopped"

\* The tail is the last of what was read, all of it or at least the limit.
RetainedOf(buffer, taken) ==
  /\ Len(buffer.data) <= taken /\ Span(buffer.data, taken - Len(buffer.data), taken)
  /\ ~buffer.truncated => Len(buffer.data) = taken
  /\ buffer.truncated => Len(buffer.data) >= Limit /\ taken > Limit

\* The spill holds all of what was read, in memory up to the limit, unless a
\* fault or a cancelled caller made it give up.
SpilledOf(stream, taken, ctx, remaining) ==
  /\ stream.disabled => stream.file = "none" /\ (remaining < MaxFaults \/ ctx \ {"timeout"} # {})
  /\ ~stream.disabled /\ stream.file = "none" => Span(stream.buffered, 0, taken) /\ taken <= Limit
  /\ stream.file \in {"open", "committed"} => Span(stream.content, 0, taken)

\* The file is open while the command is read, and committed at the end.
FileAt(stream, run) ==
  /\ stream.file = "open" => run.pc \in {"wait", "join", "result", "finish"}
  /\ stream.file = "committed" => run.pc = "done"

\* What the result says of a command that exited.
Told(run, taken, ctx, killed, stream) ==
  run.pc \in {"finish", "done"} /\ run.result = "exited" =>
    /\ run.truncated <=> taken > Limit
    /\ run.text = IF run.truncated THEN Co!RuneStart(Co!Last(Co!Bytes(0, taken), Limit)) ELSE Co!Bytes(0, taken)
    /\ run.timedOut <=> killed
    /\ run.pc = "done" => (run.locator <=> stream.file = "committed") /\ ctx \ {"timeout"} = {}

CommandInv ==
  /\ CommandTyped
  /\ Reaped(coProc, coObserver, coRun, coShell)
  /\ RetainedOf(coTail, coPipe.taken)
  /\ SpilledOf(coSpill, coPipe.taken, coCtx, coLeft)
  /\ FileAt(coSpill, coRun)
  /\ Told(coRun, coPipe.taken, coCtx, coKilled, coSpill)

LEMMA CommandInit == Co!Init => CommandInv
<1> SUFFICES ASSUME Co!Init PROVE CommandInv
  OBVIOUS
<1>1. <<>> \in Seq(Marks) /\ Len(<<>>) = 0 /\ Span(<<>>, 0, 0)
  BY DEF Span
<1>2. coRun \in Runs /\ coRun.pc = "idle"
  BY <1>1, Zenon DEF Co!Init, Runs, RunPcs, Texts
<1>3. CommandTyped
  <2>1. coProc \in Groups /\ coPipe \in Pipes /\ coShell \in Shells
    BY DEF Co!Init, Groups, Pipes, Shells, Alive
  <2>2. coTail \in Tails /\ coSpill \in Streams
    BY <1>1 DEF Co!Init, Tails, Streams
  <2>3. coLeft \in Nat /\ coLeft <= MaxFaults /\ coObserver = "none"
    BY LogAssumption DEF Co!Init
  <2>4. coKilled \in BOOLEAN
    BY Zenon DEF Co!Init
  <2> QED  BY <1>2, <2>1, <2>2, <2>3, <2>4 DEF CommandTyped
<1>4. RetainedOf(coTail, coPipe.taken)
  BY <1>1 DEF Co!Init, RetainedOf
<1>5. SpilledOf(coSpill, coPipe.taken, coCtx, coLeft)
  BY <1>1, CommandAssumption DEF Co!Init, SpilledOf
<1> QED  BY <1>2, <1>3, <1>4, <1>5 DEF Co!Init, CommandInv, Reaped, FileAt, Told, Waited

\* The call: admitted, started, waited for.
LEMMA CommandRuns ==
  ASSUME CommandInv, Co!Begin \/ Co!Start \/ Co!WaitReturns \/ Co!Join
  PROVE  CommandInv'
<1>1. PICK o \in Runs : o = coRun
  BY DEF CommandInv, CommandTyped
<1>2. /\ coRun' \in Runs /\ (coRun'.result # "exited" \/ coRun'.pc \notin {"finish", "done"})
      /\ \/ o.pc = "idle" /\ coRun'.pc = "start" /\ coShell.pc = "running"
         \/ o.pc = "idle" /\ coRun'.pc = "done"
         \/ o.pc = "start" /\ coRun'.pc \in {"wait", "finish"}
         \/ o.pc = "wait" /\ coRun'.pc = "join"
         \/ o.pc = "join" /\ coRun'.pc = "result"
  <2>1. \A to \in RunPcs : [o EXCEPT !.pc = to] \in Runs /\ [o EXCEPT !.pc = to].pc = to
    BY DEF Runs
  <2>2. \A to \in RunPcs, result \in {"refused", "canceled"} :
          /\ [o EXCEPT !.pc = to, !.result = result] \in Runs /\ [o EXCEPT !.pc = to, !.result = result].pc = to
          /\ [o EXCEPT !.pc = to, !.result = result].result = result
    BY Zenon DEF Runs
  <2>3. "start" \in RunPcs /\ "wait" \in RunPcs /\ "join" \in RunPcs /\ "result" \in RunPcs /\ "finish" \in RunPcs /\ "done" \in RunPcs
    BY DEF RunPcs
  <2>4. CASE Co!Begin
    <3>1. CASE coShell.pc = "running"
      <4>1. o.pc = "idle" /\ coRun' = [o EXCEPT !.pc = "start"]
        BY <1>1, <2>4, <3>1 DEF Co!Begin
      <4>2. coRun' \in Runs /\ coRun'.pc = "start"
        BY <2>1, <2>3, <4>1, SMTT(30)
      <4> QED  BY <3>1, <4>1, <4>2
    <3>2. CASE coShell.pc # "running"
      BY <1>1, <2>2, <2>3, <2>4, <3>2, Zenon DEF Co!Begin
    <3> QED  BY <3>1, <3>2
  <2>5. CASE Co!Start
    <3>1. CASE coCtx = {}
      BY <1>1, <2>1, <2>3, <2>5, <3>1, ZenonT(60) DEF Co!Start
    <3>2. CASE coCtx # {}
      <4>1. o.pc = "start" /\ coRun' = [o EXCEPT !.pc = "finish", !.result = "canceled"]
        BY <1>1, <2>5, <3>2, SMTT(30) DEF Co!Start
      <4>2. coRun' \in Runs /\ coRun'.pc = "finish" /\ coRun'.result = "canceled"
        BY <2>2, <2>3, <4>1, Zenon
      <4> QED  BY <4>1, <4>2
    <3> QED  BY <3>1, <3>2
  <2>6. CASE Co!WaitReturns
    <3>1. o.pc = "wait" /\ coRun' = [o EXCEPT !.pc = "join"]
      BY <1>1, <2>6 DEF Co!WaitReturns
    <3>2. coRun' \in Runs /\ coRun'.pc = "join"
      BY <2>1, <2>3, <3>1
    <3> QED  BY <3>1, <3>2
  <2>7. CASE Co!Join
    BY <1>1, <2>1, <2>3, <2>7 DEF Co!Join
  <2> QED  BY <2>4, <2>5, <2>6, <2>7
<1>3. /\ coPipe' = coPipe /\ coCtx' = coCtx /\ coKilled' = coKilled /\ coTail' = coTail /\ coSpill' = coSpill
      /\ coShell' = coShell /\ coLeft' = coLeft
  BY DEF Co!Begin, Co!Start, Co!WaitReturns, Co!Join
<1>4. /\ coProc' \in Groups /\ coObserver' \in {"none", "watch", "term", "grace", "kill", "stopped"}
      /\ coRun'.pc = "start" => coProc' = coProc /\ coObserver' = coObserver
      /\ coRun'.pc = "wait" => coProc'.main # "none" /\ coObserver' # "none"
      /\ coRun'.pc = "join" => coProc' = coProc /\ coObserver' = coObserver
      /\ coRun'.pc \in Waited => coProc'.main # "alive" /\ coProc'.kid # "alive" /\ coObserver' \in {"none", "stopped"}
  <2>1. coProc \in Groups /\ Reaped(coProc, coObserver, o, coShell) /\ coObserver \in {"none", "watch", "term", "grace", "kill", "stopped"}
    BY <1>1 DEF CommandInv, CommandTyped
  <2>2. CASE Co!Begin
    BY <1>1, <1>2, <2>1, <2>2 DEF Co!Begin, Reaped, Waited
  <2>3. CASE Co!Start /\ coCtx # {}
    <3>1. coProc' = coProc /\ coObserver' = coObserver /\ o.pc = "start"
      BY <1>1, <2>3 DEF Co!Start
    <3>2. coRun'.pc = "finish"
      BY <1>1, <2>3, Zenon DEF Co!Start, Runs
    <3> QED  BY <2>1, <3>1, <3>2 DEF Reaped, Waited
  <2>4. CASE Co!Start /\ coCtx = {}
    <3>1. coProc' = [coProc EXCEPT !.main = "alive"] /\ coObserver' = "watch" /\ coRun' = [o EXCEPT !.pc = "wait"]
      BY <1>1, <2>4 DEF Co!Start
    <3>2. [coProc EXCEPT !.main = "alive"] \in Groups /\ [coProc EXCEPT !.main = "alive"].main = "alive"
      BY <2>1 DEF Groups, Alive
    <3>3. [o EXCEPT !.pc = "wait"].pc = "wait"
      BY DEF Runs
    <3> QED  BY <3>1, <3>2, <3>3 DEF Waited
  <2>5. CASE Co!WaitReturns
    BY <1>1, <1>2, <2>1, <2>5 DEF Co!WaitReturns, Reaped, Waited
  <2>6. CASE Co!Join
    BY <1>1, <1>2, <2>1, <2>6 DEF Co!Join, Reaped, Waited, Groups, Alive
  <2> QED  BY <2>2, <2>3, <2>4, <2>5, <2>6
<1>5. Reaped(coProc', coObserver', coRun', coShell')
  BY <1>1, <1>2, <1>3, <1>4 DEF CommandInv, Reaped, Waited
<1>6. FileAt(coSpill', coRun')
  BY <1>1, <1>2, <1>3 DEF CommandInv, FileAt
<1>7. Told(coRun', coPipe'.taken, coCtx', coKilled', coSpill')
  BY <1>2 DEF Told
<1>8. CommandTyped'
  BY <1>2, <1>3, <1>4 DEF CommandInv, CommandTyped
<1> QED  BY <1>3, <1>5, <1>6, <1>7, <1>8 DEF CommandInv

\* The returned text is the last of what was read that fits the limit.
LEMMA CommandOutputs ==
  ASSUME CommandInv
  PROVE  /\ Co!TailOutput.text \in Texts /\ Co!TailOutput.truncated \in BOOLEAN
         /\ Co!TailOutput.truncated <=> coPipe.taken > Limit
         /\ Co!TailOutput.text = IF coPipe.taken > Limit THEN Co!RuneStart(Co!Last(Co!Bytes(0, coPipe.taken), Limit))
                                 ELSE Co!Bytes(0, coPipe.taken)
<1>1. PICK n \in Nat, d \in Seq(Marks), c \in BOOLEAN : n = coPipe.taken /\ d = coTail.data /\ c = coTail.truncated
  BY DEF CommandInv, CommandTyped, Pipes, Tails
<1>2. PICK k \in Nat : k = Len(d)
  BY LenProperties
<1>3. /\ k <= n /\ Span(d, n - k, n) /\ Limit \in Nat
      /\ ~c => k = n
      /\ c => k >= Limit /\ n > Limit
  BY <1>1, <1>2, CommandAssumption DEF CommandInv, RetainedOf
<1>4. Span(Co!Bytes(0, n), 0, n)
  BY SpanBytes
<1>5. n >= Limit => Span(Co!Last(Co!Bytes(0, n), Limit), n - Limit, n)
  <2> SUFFICES ASSUME n >= Limit PROVE Span(Co!Last(Co!Bytes(0, n), Limit), n - Limit, n)
    OBVIOUS
  <2>1. Limit \in 0..(n - 0) /\ 0 \in Nat /\ 0 <= n
    BY <1>3
  <2> QED  BY <1>4, <2>1, SpanLast
<1>6. Co!TailOutput = [text |-> IF c \/ k > Limit THEN Co!RuneStart(IF k > Limit THEN Co!Last(d, Limit) ELSE d)
                                ELSE IF k > Limit THEN Co!Last(d, Limit) ELSE d,
                       truncated |-> c \/ k > Limit]
  BY <1>1, <1>2 DEF Co!TailOutput
<1>7. CASE k > Limit
  <2>1. Limit \in 0..(n - (n - k)) /\ n - k \in Nat /\ n - k <= n /\ n - Limit \in Nat /\ n - Limit <= n /\ n > Limit
    BY <1>3, <1>7
  <2>2. Span(Co!Last(d, Limit), n - Limit, n)
    BY <1>3, <2>1, SpanLast
  <2>3. Co!Last(d, Limit) = Co!Last(Co!Bytes(0, n), Limit)
    BY <1>5, <2>1, <2>2, SpanAlone
  <2>4. Co!Last(d, Limit) \in Seq(Marks)
    BY <2>2 DEF Span
  <2>5. /\ Co!TailOutput.text = Co!RuneStart(Co!Last(d, Limit)) /\ Co!TailOutput.truncated = TRUE
    BY <1>6, <1>7, Zenon
  <2>6. Co!TailOutput.text \in Texts
    BY <2>4, <2>5 DEF Texts
  <2> QED  BY <1>1, <2>1, <2>3, <2>5, <2>6, Zenon
<1>8. CASE ~(k > Limit) /\ c
  <2>1. k = Limit /\ n > Limit /\ n - Limit \in Nat /\ n - Limit <= n
    BY <1>2, <1>3, <1>8
  <2>2. d = Co!Last(Co!Bytes(0, n), Limit)
    BY <1>3, <1>5, <2>1, SpanAlone
  <2>3. Co!TailOutput.text = Co!RuneStart(d) /\ Co!TailOutput.truncated = TRUE
    BY <1>6, <1>8, Zenon
  <2>4. Co!TailOutput.text \in Texts
    BY <2>3 DEF Texts
  <2> QED  BY <1>1, <2>1, <2>2, <2>3, <2>4, Zenon
<1>9. CASE ~(k > Limit) /\ ~c
  <2>1. k = n /\ ~(n > Limit) /\ n - k = 0
    BY <1>3, <1>9
  <2>2. d = Co!Bytes(0, n)
    BY <1>3, <1>4, <2>1, SpanAlone
  <2>3. Co!TailOutput.text = d /\ Co!TailOutput.truncated = FALSE
    BY <1>6, <1>9
  <2> QED  BY <1>1, <2>1, <2>2, <2>3, Zenon DEF Texts
<1> QED  BY <1>7, <1>8, <1>9

\* The result, and its last look at the context and the spill.
LEMMA CommandEnds ==
  ASSUME CommandInv, Co!Result \/ Co!Finish
  PROVE  CommandInv'
<1>1. PICK o \in Runs : o = coRun
  BY DEF CommandInv, CommandTyped
<1>2. CASE Co!Result
  <2> DEFINE result == IF Co!Canceled THEN "canceled" ELSE "exited"
             late == ~Co!Canceled /\ coKilled
             q == [o EXCEPT !.pc = "finish", !.text = Co!TailOutput.text, !.truncated = Co!TailOutput.truncated,
                            !.result = result, !.timedOut = late]
  <2>1. /\ o.pc = "result" /\ coRun' = q /\ coProc' = coProc /\ coPipe' = coPipe /\ coCtx' = coCtx /\ coObserver' = coObserver
        /\ coKilled' = coKilled /\ coTail' = coTail /\ coSpill' = coSpill /\ coShell' = coShell /\ coLeft' = coLeft
    BY <1>1, <1>2 DEF Co!Result
  <2>2. result \in {"canceled", "exited"} /\ late \in BOOLEAN /\ "finish" \in RunPcs /\ (result = "exited" => (late <=> coKilled))
    BY DEF RunPcs
  <2> HIDE DEF result, late
  <2>3. /\ q \in Runs /\ q.pc = "finish" /\ q.text = Co!TailOutput.text /\ q.truncated = Co!TailOutput.truncated
        /\ q.result = result /\ q.timedOut = late
    BY <2>2, CommandOutputs, Zenon DEF Runs
  <2> HIDE DEF q
  <2>4. Reaped(coProc, coObserver, q, coShell)
    BY <1>1, <2>1, <2>3 DEF CommandInv, Reaped, Waited
  <2>5. FileAt(coSpill, q)
    BY <1>1, <2>1, <2>3 DEF CommandInv, FileAt
  <2>6. Told(q, coPipe.taken, coCtx, coKilled, coSpill)
    BY <2>2, <2>3, CommandOutputs DEF Told
  <2>7. CommandTyped'
    BY <2>1, <2>3 DEF CommandInv, CommandTyped
  <2> QED  BY <2>1, <2>4, <2>5, <2>6, <2>7 DEF CommandInv
<1>3. CASE Co!Finish
  <2> DEFINE locator == coSpill'.file = "committed"
             result == IF Co!Canceled THEN "canceled" ELSE o.result
             q == [o EXCEPT !.pc = "done", !.locator = locator, !.result = result]
  <2>1. /\ o.pc = "finish" /\ coRun' = q /\ coProc' = coProc /\ coPipe' = coPipe /\ coCtx' = coCtx /\ coObserver' = coObserver
        /\ coKilled' = coKilled /\ coTail' = coTail /\ coShell' = coShell
    BY <1>1, <1>3 DEF Co!Finish
  <2>2. /\ coSpill' \in Streams /\ coSpill'.file # "open" /\ coLeft' \in Nat /\ coLeft' <= MaxFaults
        /\ SpilledOf(coSpill', coPipe.taken, coCtx, coLeft')
    <3>1. PICK t \in Streams : t = coSpill
      BY DEF CommandInv, CommandTyped
    <3>2. SpilledOf(t, coPipe.taken, coCtx, coLeft) /\ coLeft \in Nat /\ coLeft <= MaxFaults
      BY <3>1 DEF CommandInv, CommandTyped
    <3>3. CASE t.file = "open" /\ coSpill' = [t EXCEPT !.file = "committed"] /\ coLeft' = coLeft
      <4> DEFINE u == [t EXCEPT !.file = "committed"]
      <4>1. u \in Streams /\ u.file = "committed" /\ u.disabled = t.disabled /\ u.content = t.content
        BY DEF Streams
      <4> HIDE DEF u
      <4>2. SpilledOf(u, coPipe.taken, coCtx, coLeft)
        BY <3>2, <3>3, <4>1 DEF SpilledOf
      <4> QED  BY <3>2, <3>3, <4>1, <4>2 DEF u
    <3>4. CASE t.file = "open" /\ coLeft > 0 /\ coLeft' = coLeft - 1 /\ coSpill' = [t EXCEPT !.file = "none", !.disabled = TRUE]
      <4> DEFINE u == [t EXCEPT !.file = "none", !.disabled = TRUE]
      <4>1. u \in Streams /\ u.file = "none" /\ u.disabled
        BY Zenon DEF Streams
      <4> HIDE DEF u
      <4>2. coLeft - 1 \in Nat /\ coLeft - 1 < MaxFaults
        BY <3>2, <3>4, LogAssumption
      <4>3. SpilledOf(u, coPipe.taken, coCtx, coLeft')
        BY <3>4, <4>1, <4>2 DEF SpilledOf
      <4> QED  BY <3>4, <4>1, <4>2, <4>3, LogAssumption DEF u
    <3>5. CASE t.file # "open" /\ coSpill' = t /\ coLeft' = coLeft
      BY <3>2, <3>5
    <3> QED  BY <1>3, <3>1, <3>3, <3>4, <3>5 DEF Co!Finish, Co!Fault
  <2>3. /\ locator \in BOOLEAN /\ result \in {"none", "refused", "canceled", "exited"} /\ "done" \in RunPcs
        /\ result = "exited" => o.result = "exited" /\ coCtx \ {"timeout"} = {}
    BY DEF RunPcs, Runs, Co!Canceled
  <2> HIDE DEF locator, result
  <2>4. /\ q \in Runs /\ q.pc = "done" /\ q.result = result /\ q.locator = locator
        /\ q.text = o.text /\ q.truncated = o.truncated /\ q.timedOut = o.timedOut
    BY <2>3, Zenon DEF Runs
  <2> HIDE DEF q
  <2>5. Reaped(coProc, coObserver, q, coShell)
    BY <1>1, <2>1, <2>4 DEF CommandInv, Reaped, Waited
  <2>6. FileAt(coSpill', q)
    BY <2>2, <2>4 DEF FileAt
  <2>7. Told(q, coPipe.taken, coCtx, coKilled, coSpill')
    <3>1. Told(o, coPipe.taken, coCtx, coKilled, coSpill)
      BY <1>1 DEF CommandInv
    <3> QED  BY <2>1, <2>3, <2>4, <3>1, Zenon DEF Told, locator
  <2>8. CommandTyped'
    BY <2>1, <2>2, <2>4 DEF CommandInv, CommandTyped
  <2>9. RetainedOf(coTail, coPipe.taken)
    BY DEF CommandInv
  <2> QED  BY <2>1, <2>2, <2>5, <2>6, <2>7, <2>8, <2>9 DEF CommandInv
<1> QED  BY <1>2, <1>3

\* What the group, its observer, the context and the provider do meanwhile.
LEMMA CommandMeanwhile ==
  ASSUME CommandInv,
         \/ Co!ObserverDone \/ Co!ObserverStops \/ Co!Terminate \/ Co!GraceEnds \/ Co!Kill
         \/ Co!CommandForks \/ (\E p \in {"main", "kid"} : Co!CommandExits(p)) \/ Co!CommandWrites
         \/ Co!Timeout \/ Co!Cancel \/ Co!Cleanup \/ Co!RemoveTemp
  PROVE  CommandInv'
<1>1. coRun' = coRun /\ coTail' = coTail /\ coSpill' = coSpill /\ coLeft' = coLeft
  BY DEF Co!ObserverDone, Co!ObserverStops, Co!Terminate, Co!GraceEnds, Co!Kill, Co!CommandForks, Co!CommandExits,
         Co!CommandWrites, Co!Timeout, Co!Cancel, Co!Cleanup, Co!RemoveTemp
<1>2. coPipe' \in Pipes /\ coPipe'.taken = coPipe.taken
  <2>1. coPipe \in Pipes
    BY DEF CommandInv, CommandTyped
  <2>2. CASE Co!CommandWrites
    BY <2>1, <2>2 DEF Co!CommandWrites, Pipes
  <2>3. CASE ~Co!CommandWrites
    BY <2>1, <2>3 DEF Co!ObserverDone, Co!ObserverStops, Co!Terminate, Co!GraceEnds, Co!Kill, Co!CommandForks, Co!CommandExits,
           Co!Timeout, Co!Cancel, Co!Cleanup, Co!RemoveTemp
  <2> QED  BY <2>2, <2>3
<1>3. coCtx \subseteq coCtx' /\ (coRun.pc = "done" => coCtx' = coCtx)
  BY DEF Co!ObserverDone, Co!ObserverStops, Co!Terminate, Co!GraceEnds, Co!Kill, Co!CommandForks, Co!CommandExits,
         Co!CommandWrites, Co!Timeout, Co!Cancel, Co!Cleanup, Co!RemoveTemp
<1>4. /\ coProc \in Groups /\ coObserver \in {"none", "watch", "term", "grace", "kill", "stopped"} /\ coKilled \in BOOLEAN
      /\ coShell \in Shells /\ coRun \in Runs
      /\ Reaped(coProc, coObserver, coRun, coShell)
  BY DEF CommandInv, CommandTyped
<1>5. /\ coObserver' \in {"none", "watch", "term", "grace", "kill", "stopped"}
      /\ coRun.pc \in {"idle", "start"} => coObserver' = coObserver
      /\ coRun.pc \in {"wait", "join"} => coObserver' # "none"
      /\ coRun.pc \in Waited => coObserver' \in {"none", "stopped"}
  <2>1. CASE Co!ObserverDone \/ Co!ObserverStops \/ Co!Terminate \/ Co!GraceEnds \/ Co!Kill
    BY <1>4, <2>1 DEF Co!ObserverDone, Co!ObserverStops, Co!Terminate, Co!GraceEnds, Co!Kill, Reaped, Waited
  <2>2. CASE coObserver' = coObserver
    BY <1>4, <2>2 DEF Reaped, Waited
  <2> QED  BY <2>1, <2>2 DEF Co!CommandForks, Co!CommandExits, Co!CommandWrites, Co!Timeout, Co!Cancel, Co!Cleanup, Co!RemoveTemp
<1>6. /\ coKilled' \in BOOLEAN
      /\ coRun.pc \in Waited => (coKilled' <=> coKilled)
  <2>1. CASE Co!ObserverStops
    <3>1. coKilled' = TRUE /\ coRun.pc \notin Waited
      BY <1>4, <2>1 DEF Co!ObserverStops, Reaped
    <3> QED  BY <3>1
  <2>2. CASE ~Co!ObserverStops
    <3>1. coKilled' = coKilled
      BY <2>2 DEF Co!ObserverDone, Co!Terminate, Co!GraceEnds, Co!Kill, Co!CommandForks, Co!CommandExits,
             Co!CommandWrites, Co!Timeout, Co!Cancel, Co!Cleanup, Co!RemoveTemp
    <3> QED  BY <1>4, <3>1
  <2> QED  BY <2>1, <2>2
<1>7. /\ coProc' \in Groups
      /\ coRun.pc \in {"idle", "start"} => coProc'.main = "none" /\ coProc'.kid = "none"
      /\ coRun.pc \in {"wait", "join"} => coProc'.main # "none"
      /\ coRun.pc \in Waited => coProc'.main # "alive" /\ coProc'.kid # "alive"
  <2>1. PICK m \in Alive, k \in Alive : coProc = [main |-> m, kid |-> k]
    BY <1>4 DEF Groups
  <2>2. PICK n \in Alive, l \in Alive :
          /\ coProc' = [main |-> n, kid |-> l]
          /\ n = m \/ (m = "alive" /\ n = "dead")
          /\ l = k \/ (k = "alive" /\ l = "dead") \/ m = "alive"
    <3>1. CASE Co!Terminate
      <4>1. PICK p \in [main : {"alive", "dead"}, kid : {"none", "alive", "dead"}] :
              coProc' = p /\ \A i \in {"main", "kid"} : p[i] = coProc[i] \/ (coProc[i] = "alive" /\ p[i] = "dead")
        BY <3>1 DEF Co!Terminate
      <4>2. /\ p = [main |-> p.main, kid |-> p.kid] /\ p.main \in Alive /\ p.kid \in Alive
            /\ p["main"] = p.main /\ p["kid"] = p.kid /\ coProc["main"] = m /\ coProc["kid"] = k
        BY <2>1, <4>1 DEF Alive
      <4> QED  BY <4>1, <4>2
    <3>2. CASE Co!Kill
      <4> DEFINE n == IF m = "alive" THEN "dead" ELSE m
                 l == IF k = "alive" THEN "dead" ELSE k
      <4>1. coProc' = [main |-> n, kid |-> l]
        BY <2>1, <3>2 DEF Co!Kill
      <4>2. n \in Alive /\ l \in Alive
        BY DEF Alive
      <4> QED  BY <4>1, <4>2
    <3>3. CASE Co!CommandForks
      <4>1. coProc' = [main |-> m, kid |-> "alive"] /\ m = "alive"
        BY <2>1, <3>3 DEF Co!CommandForks
      <4> QED  BY <4>1 DEF Alive
    <3>4. CASE \E p \in {"main", "kid"} : Co!CommandExits(p)
      <4>1. CASE Co!CommandExits("main")
        <5>1. coProc' = [main |-> "dead", kid |-> k] /\ m = "alive"
          BY <2>1, <4>1, Zenon DEF Co!CommandExits
        <5> QED  BY <5>1 DEF Alive
      <4>2. CASE Co!CommandExits("kid")
        <5>1. coProc' = [main |-> m, kid |-> "dead"] /\ k = "alive"
          BY <2>1, <4>2, Zenon DEF Co!CommandExits
        <5> QED  BY <5>1 DEF Alive
      <4> QED  BY <3>4, <4>1, <4>2
    <3>5. CASE coProc' = coProc
      BY <2>1, <3>5
    <3> QED  BY <3>1, <3>2, <3>3, <3>4, <3>5 DEF Co!ObserverDone, Co!ObserverStops, Co!GraceEnds, Co!CommandWrites,
                Co!Timeout, Co!Cancel, Co!Cleanup, Co!RemoveTemp
  <2> QED  BY <1>4, <2>1, <2>2 DEF Groups, Reaped, Waited
<1>8. /\ coShell' \in Shells
      /\ coShell'.pc = "stopped" => coRun.pc \in {"idle", "done"}
      /\ ~coShell'.temp => coShell'.pc = "stopped"
  <2>1. CASE Co!Cleanup
    <3>1. PICK s \in Shells : s = coShell /\ s.pc = "running" /\ coShell' = [s EXCEPT !.pc = "joining"]
      BY <1>4, <2>1 DEF Co!Cleanup
    <3>2. [s EXCEPT !.pc = "joining"] \in Shells /\ [s EXCEPT !.pc = "joining"].pc = "joining" /\ [s EXCEPT !.pc = "joining"].temp = s.temp
      BY DEF Shells
    <3> QED  BY <1>4, <3>1, <3>2 DEF Reaped
  <2>2. CASE Co!RemoveTemp
    BY <2>2 DEF Co!RemoveTemp, Shells
  <2>3. CASE coShell' = coShell
    BY <1>4, <2>3 DEF Reaped
  <2> QED  BY <2>1, <2>2, <2>3 DEF Co!ObserverDone, Co!ObserverStops, Co!Terminate, Co!GraceEnds, Co!Kill, Co!CommandForks,
              Co!CommandExits, Co!CommandWrites, Co!Timeout, Co!Cancel
<1>9. CommandTyped'
  BY <1>1, <1>2, <1>5, <1>6, <1>7, <1>8 DEF CommandInv, CommandTyped
<1>10. Reaped(coProc', coObserver', coRun, coShell')
  BY <1>4, <1>5, <1>7, <1>8 DEF Reaped
<1>11. SpilledOf(coSpill, coPipe.taken, coCtx', coLeft)
  BY <1>3 DEF CommandInv, SpilledOf
<1>12. Told(coRun, coPipe.taken, coCtx', coKilled', coSpill)
  BY <1>3, <1>6 DEF CommandInv, Told, Waited
<1> QED  BY <1>1, <1>2, <1>9, <1>10, <1>11, <1>12 DEF CommandInv

\* A read of the pipe: the tail first, then the spill.
LEMMA CommandCopies ==
  ASSUME CommandInv, NEW n \in 1..MaxWrite, Co!Copy(n)
  PROVE  CommandInv'
<1>1. PICK a \in Nat : a = coPipe.taken
  BY DEF CommandInv, CommandTyped, Pipes
<1>2. PICK b \in Nat : n \in Nat /\ n > 0 /\ Limit \in Nat /\ b = a + n /\ a <= b /\ 0 <= b /\ b - a = n
  BY CommandAssumption
<1> DEFINE chunk == Co!Bytes(a, b)
<1>3. /\ coRun.pc = "wait" /\ Co!TailWrite(chunk) /\ Co!SpillWrite(chunk)
      /\ coPipe' = [coPipe EXCEPT !.taken = @ + n]
      /\ coProc' = coProc /\ coCtx' = coCtx /\ coObserver' = coObserver /\ coKilled' = coKilled /\ coRun' = coRun /\ coShell' = coShell
  BY <1>1, <1>2 DEF Co!Copy
<1>4. coPipe' \in Pipes /\ coPipe'.taken = b
  BY <1>1, <1>2, <1>3 DEF CommandInv, CommandTyped, Pipes
<1>5. Span(chunk, a, b) /\ chunk \in Seq(Marks) /\ Len(chunk) = n
  BY <1>2, SpanBytes, Zenon DEF Span
<1> HIDE DEF chunk
<1>6. coTail' \in Tails /\ RetainedOf(coTail', b)
  <2>1. PICK t \in Tails : t = coTail
    BY DEF CommandInv, CommandTyped
  <2>2. t.data \in Seq(Marks) /\ t.truncated \in BOOLEAN
    BY DEF Tails
  <2>3. PICK k \in Nat : k = Len(t.data)
    BY <2>2, LenProperties
  <2>4. /\ k <= a /\ a - k \in Nat /\ a - k <= a /\ Span(t.data, a - k, a)
        /\ ~t.truncated => k = a
        /\ t.truncated => k >= Limit /\ a > Limit
    BY <1>1, <2>1, <2>3 DEF CommandInv, RetainedOf
  <2> DEFINE grown == t.data \o chunk
  <2>5. Span(grown, a - k, b)
    BY <1>2, <1>5, <2>4, SpanJoined
  <2>6. grown \in Seq(Marks) /\ Len(grown) = k + n
    BY <1>2, <2>4, <2>5 DEF Span
  <2>7. coTail' = IF Len(grown) > 2 * Limit THEN [data |-> Co!Last(grown, Limit), truncated |-> TRUE]
                  ELSE [t EXCEPT !.data = grown]
    BY <1>3, <2>1 DEF Co!TailWrite
  <2> HIDE DEF grown
  <2>8. CASE k + n > 2 * Limit
    <3>1. Limit \in 0..(b - (a - k)) /\ a - k <= b /\ b > Limit /\ b - Limit \in Nat
      BY <1>2, <2>4, <2>8
    <3> DEFINE last == Co!Last(grown, Limit)
    <3>2. Span(last, b - Limit, b)
      BY <1>2, <2>4, <2>5, <3>1, SpanLast
    <3> HIDE DEF last
    <3>3. last \in Seq(Marks) /\ Len(last) = Limit
      BY <1>2, <3>1, <3>2 DEF Span
    <3>4. coTail' = [data |-> last, truncated |-> TRUE]
      BY <2>6, <2>7, <2>8 DEF last
    <3>5. coTail' \in Tails /\ coTail'.data = last /\ coTail'.truncated
      BY <3>3, <3>4 DEF Tails
    <3> QED  BY <1>2, <3>1, <3>2, <3>3, <3>5 DEF RetainedOf
  <2>9. CASE ~(k + n > 2 * Limit)
    <3>1. coTail' = [t EXCEPT !.data = grown]
      BY <2>6, <2>7, <2>9
    <3>2. coTail' \in Tails /\ coTail'.data = grown /\ coTail'.truncated = t.truncated
      BY <2>6, <3>1, Zenon DEF Tails
    <3>3. b - (k + n) = a - k /\ k + n <= b /\ (k = a => k + n = b) /\ (k >= Limit => k + n >= Limit) /\ (a > Limit => b > Limit)
      BY <1>2, <2>4
    <3> QED  BY <2>4, <2>5, <2>6, <3>2, <3>3 DEF RetainedOf
  <2> QED  BY <2>8, <2>9
<1>7. coSpill' \in Streams /\ SpilledOf(coSpill', b, coCtx, coLeft') /\ coLeft' \in Nat /\ coLeft' <= MaxFaults /\ coSpill'.file # "committed"
  <2>1. PICK t \in Streams : t = coSpill
    BY DEF CommandInv, CommandTyped
  <2>2. /\ SpilledOf(t, a, coCtx, coLeft) /\ coLeft \in Nat /\ coLeft <= MaxFaults /\ MaxFaults \in Nat
        /\ t.file # "committed" /\ t.buffered \in Seq(Marks) /\ t.content \in Seq(Marks)
    BY <1>1, <1>3, <2>1, LogAssumption DEF CommandInv, CommandTyped, FileAt, Streams
  <2>3. 0 \in Nat /\ 0 <= a
    OBVIOUS
  <2>4. CASE t.disabled /\ coSpill' = t /\ coLeft' = coLeft
    BY <2>2, <2>4 DEF SpilledOf
  <2>5. CASE ~t.disabled /\ t.file = "none" /\ Len(t.buffered) + Len(chunk) <= Limit
             /\ coSpill' = [t EXCEPT !.buffered = t.buffered \o chunk] /\ coLeft' = coLeft
    <3> DEFINE s == t.buffered \o chunk
    <3>1. Span(t.buffered, 0, a) /\ Len(t.buffered) = a
      BY <1>2, <2>2, <2>5 DEF SpilledOf, Span
    <3>2. Span(s, 0, b)
      BY <1>2, <1>5, <2>3, <3>1, SpanJoined
    <3> HIDE DEF s
    <3>3. coSpill' \in Streams /\ coSpill'.buffered = s /\ coSpill'.file = "none" /\ coSpill'.disabled = t.disabled
      BY <2>5, <3>2, Zenon DEF Streams, Span, s
    <3>4. b <= Limit
      BY <1>2, <1>5, <2>5, <3>1
    <3> QED  BY <2>2, <2>5, <3>2, <3>3, <3>4, Zenon DEF SpilledOf
  <2>6. CASE ~t.disabled /\ t.file = "none" /\ coLeft' = coLeft
             /\ coSpill' = [t EXCEPT !.file = "open", !.content = t.buffered \o chunk, !.buffered = <<>>]
    <3> DEFINE s == t.buffered \o chunk
    <3>1. Span(t.buffered, 0, a)
      BY <2>2, <2>6 DEF SpilledOf
    <3>2. Span(s, 0, b)
      BY <1>2, <1>5, <2>3, <3>1, SpanJoined
    <3> HIDE DEF s
    <3>3. coSpill' \in Streams /\ coSpill'.content = s /\ coSpill'.file = "open" /\ coSpill'.disabled = t.disabled
      <4>1. s \in Seq(Marks) /\ <<>> \in Seq(Marks)
        BY <3>2 DEF Span
      <4>2. coSpill' = [t EXCEPT !.file = "open", !.content = s, !.buffered = <<>>]
        BY <2>6 DEF s
      <4> QED  BY <4>1, <4>2, Zenon DEF Streams
    <3> QED  BY <2>2, <2>6, <3>2, <3>3, Zenon DEF SpilledOf
  <2>7. CASE ~t.disabled /\ t.file = "none" /\ (Co!Fault \/ (Co!Canceled /\ coLeft' = coLeft))
             /\ coSpill' = [t EXCEPT !.disabled = TRUE, !.buffered = <<>>]
    <3>1. <<>> \in Seq(Marks)
      OBVIOUS
    <3>2. coSpill' \in Streams /\ coSpill'.file = "none" /\ coSpill'.disabled
      BY <2>7, <3>1, Zenon DEF Streams
    <3>3. coLeft' \in Nat /\ coLeft' <= MaxFaults /\ (coLeft' < MaxFaults \/ coCtx \ {"timeout"} # {})
      BY <2>2, <2>7 DEF Co!Fault, Co!Canceled
    <3> QED  BY <3>2, <3>3 DEF SpilledOf
  <2>8. CASE t.file = "open" /\ coSpill' = [t EXCEPT !.content = t.content \o chunk] /\ coLeft' = coLeft
    <3> DEFINE s == t.content \o chunk
    <3>1. Span(t.content, 0, a)
      BY <2>2, <2>8 DEF SpilledOf
    <3>2. Span(s, 0, b)
      BY <1>2, <1>5, <2>3, <3>1, SpanJoined
    <3> HIDE DEF s
    <3>3. coSpill' \in Streams /\ coSpill'.content = s /\ coSpill'.file = "open" /\ coSpill'.disabled = t.disabled
      BY <2>8, <3>2, Zenon DEF Streams, Span, s
    <3> QED  BY <2>2, <2>8, <3>2, <3>3, Zenon DEF SpilledOf
  <2>9. CASE t.file = "open" /\ Co!Fault /\ coSpill' = [t EXCEPT !.file = "none", !.disabled = TRUE]
    <3>1. coSpill' \in Streams /\ coSpill'.file = "none" /\ coSpill'.disabled
      BY <2>9, Zenon DEF Streams
    <3>2. coLeft' \in Nat /\ coLeft' < MaxFaults
      BY <2>2, <2>9 DEF Co!Fault
    <3> QED  BY <2>2, <3>1, <3>2 DEF SpilledOf
  <2> QED  BY <1>3, <2>1, <2>4, <2>5, <2>6, <2>7, <2>8, <2>9, Zenon DEF Co!SpillWrite
<1>8. CommandTyped'
  BY <1>3, <1>4, <1>6, <1>7 DEF CommandInv, CommandTyped
<1>9. Reaped(coProc', coObserver', coRun', coShell')
  BY <1>3 DEF CommandInv
<1>10. FileAt(coSpill', coRun')
  BY <1>3, <1>7 DEF FileAt
<1>11. Told(coRun', coPipe'.taken, coCtx', coKilled', coSpill')
  BY <1>3 DEF Told
<1> QED  BY <1>3, <1>4, <1>6, <1>7, <1>8, <1>9, <1>10, <1>11 DEF CommandInv

LEMMA CommandStep == CommandInv /\ [Co!Next]_(Co!vars) => CommandInv'
<1> SUFFICES ASSUME CommandInv, [Co!Next]_(Co!vars) PROVE CommandInv'
  OBVIOUS
<1>1. CASE UNCHANGED Co!vars
  BY <1>1 DEF Co!vars, CommandInv, CommandTyped
<1>2. CASE Co!Next
  <2>1. CASE Co!DelayEnds
    <3>1. PICK q \in Pipes : q = coPipe
      BY DEF CommandInv, CommandTyped
    <3>2. coPipe' = [q EXCEPT !.late = TRUE] /\ coPipe' \in Pipes /\ coPipe'.taken = q.taken
      BY <2>1, <3>1 DEF Co!DelayEnds, Pipes
    <3>3. /\ coProc' = coProc /\ coRun' = coRun /\ coCtx' = coCtx /\ coObserver' = coObserver /\ coKilled' = coKilled
          /\ coTail' = coTail /\ coSpill' = coSpill /\ coShell' = coShell /\ coLeft' = coLeft
      BY <2>1 DEF Co!DelayEnds
    <3> QED  BY <3>1, <3>2, <3>3 DEF CommandInv, CommandTyped
  <2> QED  BY <1>2, <2>1, CommandRuns, CommandEnds, CommandMeanwhile, CommandCopies DEF Co!Next
<1> QED  BY <1>1, <1>2

\* Once the command was waited for, what was written has been read and nobody
\* can write any more, unless WaitDelay ended first.
DrainedOf(proc, pipe, run) ==
  run.pc # "wait" /\ ~pipe.late => pipe.taken = pipe.written /\ proc.main # "alive" /\ proc.kid # "alive"

LEMMA CommandDrains ==
  ASSUME CommandInv, DrainedOf(coProc, coPipe, coRun), [Co!Next]_(Co!vars)
  PROVE  DrainedOf(coProc', coPipe', coRun')
<1>1. PICK o \in Runs : o = coRun
  BY DEF CommandInv, CommandTyped
<1>2. PICK q \in Pipes : q = coPipe
  BY DEF CommandInv, CommandTyped
<1>3. /\ coProc \in Groups /\ Reaped(coProc, coObserver, o, coShell) /\ DrainedOf(coProc, q, o)
      /\ Co!Holders = {} <=> coProc.main # "alive" /\ coProc.kid # "alive"
  <2>1. coProc["main"] = coProc.main /\ coProc["kid"] = coProc.kid
    OBVIOUS
  <2> QED  BY <1>1, <1>2, <2>1 DEF CommandInv, CommandTyped, Co!Holders
<1>4. CASE UNCHANGED Co!vars
  BY <1>1, <1>2, <1>3, <1>4 DEF Co!vars
<1>5. CASE Co!DelayEnds
  <2>1. coPipe' = [q EXCEPT !.late = TRUE]
    BY <1>2, <1>5 DEF Co!DelayEnds
  <2>2. coPipe'.late
    BY <2>1 DEF Pipes
  <2> QED  BY <2>2 DEF DrainedOf
<1>6. CASE Co!Begin \/ Co!Start \/ Co!WaitReturns \/ Co!Join \/ Co!Result \/ Co!Finish
  <2>1. coPipe' = q
    BY <1>2, <1>6 DEF Co!Begin, Co!Start, Co!WaitReturns, Co!Join, Co!Result, Co!Finish
  <2>2. CASE Co!Begin
    <3>1. o.pc = "idle" /\ coProc' = coProc
      BY <1>1, <2>2 DEF Co!Begin
    <3> QED  BY <1>3, <2>1, <3>1 DEF DrainedOf
  <2>3. CASE Co!Start
    <3>1. CASE coCtx # {}
      <4>1. o.pc = "start" /\ coProc' = coProc
        BY <1>1, <2>3, <3>1 DEF Co!Start
      <4> QED  BY <1>3, <2>1, <4>1 DEF DrainedOf
    <3>2. CASE coCtx = {}
      <4>1. coRun' = [o EXCEPT !.pc = "wait"]
        BY <1>1, <2>3, <3>2 DEF Co!Start
      <4>2. coRun'.pc = "wait"
        BY <4>1 DEF Runs
      <4> QED  BY <4>2 DEF DrainedOf
    <3> QED  BY <3>1, <3>2
  <2>4. CASE Co!WaitReturns
    <3>1. coProc' = coProc /\ (q.late \/ (Co!Holders = {} /\ q.taken = q.written))
      BY <1>2, <2>4 DEF Co!WaitReturns, Co!Drained
    <3> QED  BY <1>3, <2>1, <3>1 DEF DrainedOf
  <2>5. CASE Co!Join
    <3>1. o.pc = "join" /\ coProc'.main # "alive" /\ coProc'.kid # "alive"
      BY <1>1, <1>3, <2>5 DEF Co!Join, Groups, Alive
    <3> QED  BY <1>3, <2>1, <3>1 DEF DrainedOf
  <2>6. CASE Co!Result \/ Co!Finish
    <3>1. o.pc \in {"result", "finish"} /\ coProc' = coProc
      BY <1>1, <2>6 DEF Co!Result, Co!Finish
    <3> QED  BY <1>3, <2>1, <3>1 DEF DrainedOf
  <2> QED  BY <1>6, <2>2, <2>3, <2>4, <2>5, <2>6
<1>7. CASE \/ Co!ObserverDone \/ Co!ObserverStops \/ Co!GraceEnds \/ Co!Timeout \/ Co!Cancel \/ Co!Cleanup \/ Co!RemoveTemp
  BY <1>1, <1>2, <1>3, <1>7
  DEF Co!ObserverDone, Co!ObserverStops, Co!GraceEnds, Co!Timeout, Co!Cancel, Co!Cleanup, Co!RemoveTemp
<1>8. CASE Co!Terminate \/ Co!Kill \/ Co!CommandForks \/ (\E p \in {"main", "kid"} : Co!CommandExits(p))
  <2>1. coPipe' = q /\ coRun' = o
    BY <1>1, <1>2, <1>8 DEF Co!Terminate, Co!Kill, Co!CommandForks, Co!CommandExits
  <2> SUFFICES ASSUME coProc.main # "alive" /\ coProc.kid # "alive"
               PROVE  coProc'.main # "alive" /\ coProc'.kid # "alive"
    BY <1>3, <2>1 DEF DrainedOf
  <2>2. coProc["main"] = coProc.main /\ coProc["kid"] = coProc.kid /\ coProc'["main"] = coProc'.main /\ coProc'["kid"] = coProc'.kid
    OBVIOUS
  <2>3. CASE Co!Terminate
    BY <2>2, <2>3 DEF Co!Terminate
  <2>4. CASE Co!Kill
    BY <2>2, <2>4 DEF Co!Kill
  <2>5. CASE Co!CommandForks
    BY <2>5 DEF Co!CommandForks
  <2>6. CASE \E p \in {"main", "kid"} : Co!CommandExits(p)
    BY <2>2, <2>6 DEF Co!CommandExits
  <2> QED  BY <1>8, <2>3, <2>4, <2>5, <2>6
<1>9. CASE Co!CommandWrites
  <2>1. Co!Holders # {} /\ coProc' = coProc /\ coRun' = o
    BY <1>1, <1>9 DEF Co!CommandWrites
  <2>2. coPipe'.late = q.late
    BY <1>2, <1>9 DEF Co!CommandWrites, Pipes
  <2> QED  BY <1>3, <2>1, <2>2 DEF DrainedOf
<1>10. CASE \E n \in 1..MaxWrite : Co!Copy(n)
  BY <1>1, <1>10 DEF Co!Copy, DrainedOf
<1> QED  BY <1>4, <1>5, <1>6, <1>7, <1>8, <1>9, <1>10 DEF Co!Next

LEMMA CommandInFocus == ServicesInit /\ focus = "command" => Co!Init
BY DEF ServicesInit, ServiceInit

LEMMA CommandOnly ==
  ASSUME [ServicesNext]_<<focus, vars, slots>>, focus = "command" \/ focus' = "command"
  PROVE  focus = "command" /\ [Co!Next]_(Co!vars)
<1>1. CASE UNCHANGED <<focus, vars, slots>>
  BY <1>1 DEF slots, Co!vars
<1>2. CASE focus = "log" /\ Next /\ UNCHANGED <<focus, slots>>
  BY <1>2
<1>3. CASE ServiceNext /\ UNCHANGED <<focus, vars>>
  BY <1>3 DEF ServiceNext
<1> QED  BY <1>1, <1>2, <1>3 DEF ServicesNext

RunsKept == focus = "command" => CommandInv /\ DrainedOf(coProc, coPipe, coRun)

\* When a command's call returned nothing of its group is alive, its observer
\* is stopped, and the result is the longest tail of what was read that fits
\* the limit, with a file that holds all of it unless a fault or a cancelled
\* caller made the spill give up (runner.go, Run; shell.go).
THEOREM CommandAlwaysKept == ServicesSpec => []CommandKept
<1>1. ServicesInit => RunsKept
  <2>1. ASSUME Co!Init PROVE DrainedOf(coProc, coPipe, coRun)
    <3>1. coProc.main # "alive" /\ coProc.kid # "alive"
      BY <2>1 DEF Co!Init
    <3>2. coPipe.taken = coPipe.written
      BY <2>1 DEF Co!Init
    <3> QED  BY <3>1, <3>2, Zenon DEF DrainedOf
  <2> QED  BY CommandInFocus, CommandInit, <2>1, Zenon DEF RunsKept
<1>2. RunsKept /\ [ServicesNext]_<<focus, vars, slots>> => RunsKept'
  BY CommandOnly, CommandStep, CommandDrains DEF RunsKept
<1>3. RunsKept => CommandKept
  <2> SUFFICES ASSUME CommandInv, DrainedOf(coProc, coPipe, coRun) PROVE Co!CommandKept
    BY DEF RunsKept, CommandKept
  <2>1. Reaped(coProc, coObserver, coRun, coShell) /\ FileAt(coSpill, coRun) /\ coProc \in Groups
    BY DEF CommandInv, CommandTyped
  <2>2. coProc["main"] = coProc.main /\ coProc["kid"] = coProc.kid
    OBVIOUS
  <2>3. Co!Holders = {} <=> coProc.main # "alive" /\ coProc.kid # "alive"
    BY <2>2 DEF Co!Holders
  <2>4. Co!NothingOutlivesRun
    BY <2>1, <2>3 DEF Co!NothingOutlivesRun, Reaped, FileAt, Waited
  <2>5. ASSUME coRun.pc = "done", coRun.result = "exited"
        PROVE  /\ coRun.truncated <=> coPipe.taken > Limit
               /\ coRun.text = IF coRun.truncated THEN Co!RuneStart(Co!Last(Co!Read, Limit)) ELSE Co!Read
               /\ coRun.truncated => IF coRun.locator THEN coSpill.content = Co!Read ELSE coLeft < MaxFaults
               /\ ~coPipe.late => coPipe.taken = coPipe.written
               /\ coRun.timedOut <=> coKilled
               /\ coCtx \subseteq {"timeout"}
    <3>1. PICK a \in Nat : a = coPipe.taken
      BY DEF CommandInv, CommandTyped, Pipes
    <3>2. /\ coRun.truncated <=> a > Limit
          /\ coRun.text = IF coRun.truncated THEN Co!RuneStart(Co!Last(Co!Read, Limit)) ELSE Co!Read
          /\ coRun.timedOut <=> coKilled
          /\ coRun.locator <=> coSpill.file = "committed"
          /\ coCtx \ {"timeout"} = {}
      BY <2>5, <3>1 DEF CommandInv, Told, Co!Read
    <3>3. coCtx \subseteq {"timeout"}
      BY <3>2
    <3>4. SpilledOf(coSpill, a, coCtx, coLeft) /\ coSpill \in Streams
      BY <3>1 DEF CommandInv, CommandTyped
    <3>5. coRun.locator => coSpill.content = Co!Read
      <4> SUFFICES ASSUME coRun.locator PROVE coSpill.content = Co!Read
        OBVIOUS
      <4>1. Span(coSpill.content, 0, a) /\ Span(Co!Read, 0, a) /\ 0 <= a
        BY <3>1, <3>2, <3>4, SpanBytes DEF SpilledOf, Co!Read
      <4> QED  BY <3>1, <4>1, SpanAlone
    <3>6. coRun.truncated /\ ~coRun.locator => coLeft < MaxFaults
      <4> SUFFICES ASSUME coRun.truncated, ~coRun.locator PROVE coLeft < MaxFaults
        OBVIOUS
      <4>1. coSpill.file = "none"
        BY <2>1, <2>5, <3>2, <3>4 DEF FileAt, Streams
      <4>2. coSpill.disabled
        BY <3>1, <3>2, <3>4, <4>1, CommandAssumption DEF SpilledOf
      <4> QED  BY <3>2, <3>4, <4>2 DEF SpilledOf
    <3>7. ~coPipe.late => coPipe.taken = coPipe.written
      BY <2>5 DEF DrainedOf
    <3> QED  BY <3>1, <3>2, <3>3, <3>5, <3>6, <3>7
  <2>6. Co!OutputAccounted
    BY <2>5 DEF Co!OutputAccounted
  <2> QED  BY <2>4, <2>6 DEF Co!CommandKept
<1> QED  BY <1>1, <1>2, <1>3, PTL DEF ServicesSpec

-----------------------------------------------------------------------------
(* Search: the records of a web search.                                    *)

\* The variables of WebSearch, under their names there.
wsService == x1
wsCall == x2
wsQuery == x3
wsLog == x4
wsFirst == x5
wsLeft == x6

USE DEF wsService, wsCall, wsQuery, wsLog, wsFirst, wsLeft

QueryPcs == {"gate", "committed", "sent", "found", "failed"}
Answered == [sources : Seq(STRING), truncated : BOOLEAN]
Requests == [pc : QueryPcs, result : Answered]

\* A call has the fields of one, whatever its sources.
CallShaped(c) ==
  c = [pc |-> c.pc, accepted |-> c.accepted, cause |-> c.cause, code |-> c.code, sources |-> c.sources, truncated |-> c.truncated]

SearchTyped ==
  /\ wsService \in {"active", "joining", "stopped"}
  /\ CallShaped(wsCall) /\ wsCall.pc \in {"idle", "prepare", "queries", "returning", "done"}
  /\ wsCall.cause \in {"none", "timeout", "aborted"}
  /\ wsQuery \in Seq(Requests) /\ wsLog \in Seq(Nat)
  /\ wsFirst \in {"none", "audit", "provider", "canceled"}

\* The log counts the intents; a query at its gate is not in it yet, one past
\* its gate is, and only a failed one may be on either side.
IntentsOf(queries, records, failure) ==
  /\ \A n \in 1..Len(records) : records[n] = n
  /\ Len(records) <= Len(queries)
  /\ \A i \in 1..Len(queries) :
       /\ queries[i].pc = "gate" => i > Len(records)
       /\ queries[i].pc \in {"committed", "sent", "found"} => i <= Len(records)
       /\ queries[i].pc = "failed" => failure # "none"

\* Where the call is: its queries run in one stretch of it.
CallOf(c, queries, service) ==
  /\ c.pc \in {"idle", "prepare"} => Len(queries) = 0
  /\ c.pc = "prepare" => Len(c.accepted) \in Nat
  /\ c.pc = "queries" => Len(queries) = Len(c.accepted)
  /\ c.pc \in {"returning", "done"} => \A i \in 1..Len(queries) : queries[i].pc \in {"found", "failed"}
  /\ c.code = "ok" => /\ c.pc \in {"returning", "done"} /\ Len(queries) = Len(c.accepted)
                      /\ \A i \in 1..Len(queries) : queries[i].pc = "found"
  /\ service = "stopped" => c.pc \in {"idle", "done"}

SearchInv == SearchTyped /\ IntentsOf(wsQuery, wsLog, wsFirst) /\ CallOf(wsCall, wsQuery, wsService)

LEMMA SearchInit == Ws!Init => SearchInv
BY DEF Ws!Init, Ws!None, SearchInv, SearchTyped, CallShaped, IntentsOf, CallOf

LEMMA DistinctCounted ==
  ASSUME NEW s, Ws!Parses(s)
  PROVE  Len(Ws!Distinct(s)) \in Nat
<1> DEFINE n == Ws!Cardinality(Ws!Firsts(s))
           d == Ws!Distinct(s)
           T == {d[k] : k \in 1..n}
<1>1. IsFiniteSet(1..Len(s))
  BY SearchAssumption, FS_Interval DEF Ws!Parses
<1>2. n = Cardinality(Ws!Firsts(s))
  BY DEF Ws!Cardinality, Cardinality
<1>3. n \in Nat
  BY <1>1, <1>2, FS_Subset, FS_CardinalityType DEF Ws!Firsts
<1>4. d \in [1..n -> T]
  BY DEF Ws!Distinct
<1> HIDE DEF d, T, n
<1>5. Len(d) = n
  BY <1>3, <1>4
<1> QED  BY <1>3, <1>5 DEF d

\* The call: admitted, prepared, settled, returned, cancelled.
LEMMA SearchCalls ==
  ASSUME SearchInv,
         \/ \E queries \in Arguments : Ws!Search(queries)
         \/ Ws!Prepare \/ Ws!PrepareFails \/ Ws!QueriesSettled \/ Ws!Return
         \/ Ws!Deadline \/ Ws!Cancel \/ Ws!Cleanup \/ Ws!CleanupReturns
  PROVE  SearchInv'
<1> DEFINE Shape(at, accepted, cause, code, sources, truncated) ==
             [pc |-> at, accepted |-> accepted, cause |-> cause, code |-> code, sources |-> sources, truncated |-> truncated]
<1>1. PICK at, accepted, cause, code, sources, truncated : wsCall = Shape(at, accepted, cause, code, sources, truncated)
  BY DEF SearchInv, SearchTyped, CallShaped
<1>2. /\ wsService \in {"active", "joining", "stopped"} /\ at \in {"idle", "prepare", "queries", "returning", "done"}
      /\ cause \in {"none", "timeout", "aborted"} /\ wsQuery \in Seq(Requests) /\ Len(wsQuery) \in Nat /\ wsLog \in Seq(Nat)
      /\ wsFirst \in {"none", "audit", "provider", "canceled"}
      /\ at \in {"idle", "prepare"} => Len(wsQuery) = 0
      /\ at = "prepare" => Len(accepted) \in Nat
      /\ at = "queries" => Len(wsQuery) = Len(accepted)
      /\ at \in {"returning", "done"} => \A i \in 1..Len(wsQuery) : wsQuery[i].pc \in {"found", "failed"}
      /\ code = "ok" => /\ at \in {"returning", "done"} /\ Len(wsQuery) = Len(accepted)
                        /\ \A i \in 1..Len(wsQuery) : wsQuery[i].pc = "found"
      /\ wsService = "stopped" => at \in {"idle", "done"}
      /\ IntentsOf(wsQuery, wsLog, wsFirst)
  BY <1>1, LenProperties DEF SearchInv, SearchTyped, CallOf
<1>3. ASSUME NEW to, NEW taken, NEW why, NEW result, NEW found, NEW cut, NEW queries \in Seq(Requests),
             wsCall' = Shape(to, taken, why, result, found, cut),
             wsQuery' = queries, wsLog' = wsLog, wsFirst' = wsFirst,
             wsService' \in {"active", "joining", "stopped"},
             to \in {"idle", "prepare", "queries", "returning", "done"}, why \in {"none", "timeout", "aborted"},
             CallOf(Shape(to, taken, why, result, found, cut), queries, wsService'),
             IntentsOf(queries, wsLog, wsFirst)
      PROVE  SearchInv'
  BY <1>2, <1>3 DEF SearchInv, SearchTyped, CallShaped
<1>4. CASE \E queries \in Arguments : Ws!Search(queries)
  <2>1. PICK queries \in Arguments : Ws!Search(queries)
    BY <1>4
  <2>2. /\ at = "idle" /\ wsQuery' = wsQuery /\ wsLog' = wsLog /\ wsFirst' = wsFirst /\ wsService' = wsService
        /\ \/ wsCall' = Shape("done", accepted, cause, "invalid", sources, truncated)
           \/ wsCall' = Shape("done", accepted, cause, "not_running", sources, truncated)
           \/ wsService = "active" /\ Ws!Parses(queries) /\ wsCall' = Shape("prepare", Ws!Distinct(queries), cause, code, sources, truncated)
    BY <1>1, <2>1, Zenon DEF Ws!Search
  <2>3. CASE wsCall' = Shape("done", accepted, cause, "invalid", sources, truncated)
    <3>1. CallOf(Shape("done", accepted, cause, "invalid", sources, truncated), wsQuery, wsService')
      BY <1>2, <2>2 DEF CallOf
    <3> QED  BY <1>2, <1>3, <2>2, <2>3, <3>1, Zenon
  <2>4. CASE wsCall' = Shape("done", accepted, cause, "not_running", sources, truncated)
    <3>1. CallOf(Shape("done", accepted, cause, "not_running", sources, truncated), wsQuery, wsService')
      BY <1>2, <2>2 DEF CallOf
    <3> QED  BY <1>2, <1>3, <2>2, <2>4, <3>1, Zenon
  <2>5. CASE /\ wsService = "active" /\ Ws!Parses(queries)
             /\ wsCall' = Shape("prepare", Ws!Distinct(queries), cause, code, sources, truncated)
    <3>1. CallOf(Shape("prepare", Ws!Distinct(queries), cause, code, sources, truncated), wsQuery, wsService')
      BY <1>2, <2>2, <2>5, DistinctCounted DEF CallOf
    <3> QED  BY <1>2, <1>3, <2>2, <2>5, <3>1, Zenon
  <2> QED  BY <2>2, <2>3, <2>4, <2>5
<1>5. CASE Ws!Prepare
  <2> DEFINE empty == [pc |-> "gate", result |-> [sources |-> <<>>, truncated |-> FALSE]]
             n == Len(accepted)
             queries == [i \in 1..n |-> empty]
  <2>1. /\ at = "prepare" /\ wsCall' = Shape("queries", accepted, cause, code, sources, truncated) /\ wsQuery' = queries
        /\ wsLog' = wsLog /\ wsFirst' = wsFirst /\ wsService' = wsService
    BY <1>1, <1>5 DEF Ws!Prepare
  <2>2. empty \in Requests /\ empty.pc = "gate"
    BY DEF Requests, QueryPcs, Answered
  <2> HIDE DEF empty
  <2>3. n \in Nat /\ queries \in [1..n -> Requests]
    BY <1>2, <2>1, <2>2
  <2>4. queries \in Seq(Requests) /\ Len(queries) = n /\ \A i \in 1..n : queries[i].pc = "gate"
    BY <2>2, <2>3
  <2> HIDE DEF queries
  <2>5. IntentsOf(queries, wsLog, wsFirst)
    <3>1. Len(wsLog) = 0
      BY <1>2, <2>1 DEF IntentsOf
    <3> QED  BY <1>2, <2>3, <2>4, <3>1 DEF IntentsOf
  <2>6. CallOf(Shape("queries", accepted, cause, code, sources, truncated), queries, wsService)
    BY <1>2, <2>1, <2>4 DEF CallOf
  <2> QED  BY <1>2, <1>3, <2>1, <2>4, <2>5, <2>6
<1>6. CASE Ws!PrepareFails
  <2> DEFINE result == IF cause # "none" THEN cause ELSE "provider"
  <2>1. /\ at = "prepare" /\ wsCall' = Shape("returning", accepted, cause, result, sources, truncated)
        /\ wsQuery' = wsQuery /\ wsLog' = wsLog /\ wsFirst' = wsFirst /\ wsService' = wsService
    BY <1>1, <1>6, Zenon DEF Ws!PrepareFails, Ws!ErrorCode, Ws!None
  <2>2. result # "ok"
    BY <1>2
  <2> HIDE DEF result
  <2>3. CallOf(Shape("returning", accepted, cause, result, sources, truncated), wsQuery, wsService)
    BY <1>2, <2>1, <2>2 DEF CallOf
  <2> QED  BY <1>2, <1>3, <2>1, <2>3, Zenon
<1>7. CASE Ws!QueriesSettled
  <2>1. /\ at = "queries" /\ \A i \in 1..Len(wsQuery) : wsQuery[i].pc \in {"found", "failed"}
        /\ wsQuery' = wsQuery /\ wsLog' = wsLog /\ wsFirst' = wsFirst /\ wsService' = wsService
    BY <1>1, <1>7 DEF Ws!QueriesSettled, Ws!Queries
  <2>2. CASE wsFirst # "none"
    <3> DEFINE result == IF cause # "none" THEN cause ELSE wsFirst
    <3>1. wsCall' = Shape("returning", accepted, cause, result, sources, truncated)
      BY <1>1, <1>7, <2>2, Zenon DEF Ws!QueriesSettled, Ws!ErrorCode, Ws!None
    <3>2. result # "ok"
      BY <1>2
    <3> HIDE DEF result
    <3>3. CallOf(Shape("returning", accepted, cause, result, sources, truncated), wsQuery, wsService)
      BY <1>2, <2>1, <3>2 DEF CallOf
    <3> QED  BY <1>2, <1>3, <2>1, <3>1, <3>3
  <2>3. CASE wsFirst = "none"
    <3>1. \E found, cut : wsCall' = Shape("returning", accepted, cause, "ok", found, cut)
      <4> DEFINE results == [i \in Ws!Queries |-> wsQuery[i].result]
                 merged == IF Len(results) = 1 THEN results[1] ELSE Ws!Merge(results)
      <4>1. wsCall' = [wsCall EXCEPT !.pc = "returning", !.code = "ok", !.sources = merged.sources, !.truncated = merged.truncated]
        BY <1>7, <2>3 DEF Ws!QueriesSettled, Ws!None
      <4> HIDE DEF merged
      <4>2. wsCall' = Shape("returning", accepted, cause, "ok", merged.sources, merged.truncated)
        BY <1>1, <4>1, Zenon
      <4> QED  BY <4>2, Zenon
    <3>2. PICK found, cut : wsCall' = Shape("returning", accepted, cause, "ok", found, cut)
      BY <3>1, Zenon
    <3>3. \A i \in 1..Len(wsQuery) : wsQuery[i].pc = "found"
      BY <1>2, <2>1, <2>3 DEF IntentsOf
    <3>4. CallOf(Shape("returning", accepted, cause, "ok", found, cut), wsQuery, wsService)
      BY <1>2, <2>1, <3>3 DEF CallOf
    <3> QED  BY <1>2, <1>3, <2>1, <3>2, <3>4
  <2> QED  BY <2>2, <2>3
<1>8. CASE Ws!Return
  <2>1. /\ at = "returning" /\ wsCall' = Shape("done", accepted, cause, code, sources, truncated)
        /\ wsQuery' = wsQuery /\ wsLog' = wsLog /\ wsFirst' = wsFirst /\ wsService' = wsService
    BY <1>1, <1>8 DEF Ws!Return
  <2>2. CallOf(Shape("done", accepted, cause, code, sources, truncated), wsQuery, wsService)
    BY <1>2, <2>1 DEF CallOf
  <2> QED  BY <1>2, <1>3, <2>1, <2>2
<1>9. CASE Ws!Deadline \/ Ws!Cancel \/ Ws!Cleanup \/ Ws!CleanupReturns
  <2>1. PICK why \in {"none", "timeout", "aborted"} :
          /\ wsCall' = Shape(at, accepted, why, code, sources, truncated)
          /\ wsQuery' = wsQuery /\ wsLog' = wsLog /\ wsFirst' = wsFirst
          /\ wsService' \in {"active", "joining", "stopped"} /\ (wsService' = "stopped" => at \in {"idle", "done"})
    <3>1. CASE Ws!Deadline
      BY <1>1, <1>2, <3>1 DEF Ws!Deadline
    <3>2. CASE Ws!Cancel
      BY <1>1, <1>2, <3>2 DEF Ws!Cancel
    <3>3. CASE Ws!Cleanup
      BY <1>1, <1>2, <3>3 DEF Ws!Cleanup
    <3>4. CASE Ws!CleanupReturns
      BY <1>1, <1>2, <3>4 DEF Ws!CleanupReturns
    <3> QED  BY <1>9, <3>1, <3>2, <3>3, <3>4
  <2>2. CallOf(Shape(at, accepted, why, code, sources, truncated), wsQuery, wsService')
    BY <1>2, <2>1 DEF CallOf
  <2> QED  BY <1>2, <1>3, <2>1, <2>2
<1> QED  BY <1>4, <1>5, <1>6, <1>7, <1>8, <1>9

\* A query's goroutine: its gate, its request, its answer or its failure.
LEMMA SearchQueries ==
  ASSUME SearchInv, NEW i \in Ws!Queries,
         \/ Ws!RecordRequest(i) \/ Ws!Dispatch(i) \/ Ws!RecordFails(i) \/ Ws!ProviderFails(i) \/ Ws!QueryStops(i)
         \/ \E answer \in Answers : Ws!Found(i, answer)
  PROVE  SearchInv'
<1>1. /\ wsQuery \in Seq(Requests) /\ Len(wsQuery) \in Nat /\ wsLog \in Seq(Nat) /\ Len(wsLog) \in Nat
      /\ i \in 1..Len(wsQuery) /\ i \in Nat /\ wsQuery[i] \in Requests
      /\ wsFirst \in {"none", "audit", "provider", "canceled"}
      /\ IntentsOf(wsQuery, wsLog, wsFirst) /\ CallOf(wsCall, wsQuery, wsService)
  BY LenProperties, ElementOfSeq DEF SearchInv, SearchTyped, Ws!Queries
<1>2. wsCall' = wsCall /\ wsService' = wsService /\ wsQuery[i].pc \in {"gate", "committed", "sent"}
  BY DEF Ws!RecordRequest, Ws!Dispatch, Ws!RecordFails, Ws!ProviderFails, Ws!QueryStops, Ws!Found, Ws!Fails
<1>3. ASSUME NEW r \in Requests, wsQuery' = [wsQuery EXCEPT ![i] = r], wsLog' \in Seq(Nat),
             wsFirst' \in {"none", "audit", "provider", "canceled"}, wsFirst # "none" => wsFirst' # "none",
             \/ /\ r.pc = "failed" /\ wsFirst' # "none" /\ wsLog' = wsLog
             \/ /\ r.pc \in {"sent", "found"} /\ wsQuery[i].pc # "gate" /\ wsLog' = wsLog
             \/ /\ r.pc = "committed" /\ i = Len(wsLog) + 1 /\ wsLog' = Append(wsLog, i)
      PROVE  SearchInv'
  <2> DEFINE queries == [wsQuery EXCEPT ![i] = r]
  <2>1. /\ queries \in Seq(Requests) /\ Len(queries) = Len(wsQuery)
        /\ \A j \in 1..Len(wsQuery) : queries[j] = IF j = i THEN r ELSE wsQuery[j]
    BY <1>1, ExceptSeq
  <2> HIDE DEF queries
  <2>2. /\ wsQuery' = queries
        /\ Len(wsLog') \in Nat /\ Len(wsLog') <= Len(wsQuery) /\ Len(wsLog') >= Len(wsLog)
        /\ \A n \in 1..Len(wsLog') : wsLog'[n] = n
        /\ \A j \in 1..Len(wsQuery) : j # i /\ wsQuery[j].pc = "gate" => j > Len(wsLog')
        /\ r.pc \in {"committed", "sent", "found"} => i <= Len(wsLog')
    <3>1. CASE wsLog' = wsLog
      <4>1. r.pc \notin {"sent", "found"} \/ i <= Len(wsLog)
        BY <1>1, <1>2, <1>3 DEF IntentsOf
      <4>2. r.pc # "committed"
        BY <1>1, <1>3, <3>1
      <4> QED  BY <1>1, <1>3, <3>1, <4>1, <4>2 DEF IntentsOf, queries
    <3>2. CASE i = Len(wsLog) + 1 /\ wsLog' = Append(wsLog, i)
      <4>1. /\ Len(wsLog') = i /\ wsLog'[i] = i
            /\ \A n \in 1..Len(wsLog) : wsLog'[n] = wsLog[n]
        BY <1>1, <3>2
      <4>2. ASSUME NEW n \in 1..i PROVE wsLog'[n] = n
        BY <1>1, <3>2, <4>1 DEF IntentsOf
      <4>3. ASSUME NEW j \in 1..Len(wsQuery), j # i, wsQuery[j].pc = "gate" PROVE j > i
        BY <1>1, <3>2, <4>3 DEF IntentsOf
      <4> QED  BY <1>1, <1>3, <3>2, <4>1, <4>2, <4>3 DEF queries
    <3> QED  BY <1>3, <3>1, <3>2
  <2>3. r.pc # "gate" /\ (r.pc = "failed" => wsFirst' # "none")
    BY <1>3
  <2>4. IntentsOf(queries, wsLog', wsFirst')
    <3>1. ASSUME NEW j \in 1..Len(queries)
          PROVE  /\ queries[j].pc = "gate" => j > Len(wsLog')
                 /\ queries[j].pc \in {"committed", "sent", "found"} => j <= Len(wsLog')
                 /\ queries[j].pc = "failed" => wsFirst' # "none"
      <4>1. CASE j = i
        BY <2>1, <2>2, <2>3, <4>1
      <4>2. CASE j # i
        <5>1. /\ queries[j] = wsQuery[j] /\ j \in 1..Len(wsQuery)
              /\ wsQuery[j].pc \in {"committed", "sent", "found"} => j <= Len(wsLog)
              /\ wsQuery[j].pc = "failed" => wsFirst # "none"
          BY <1>1, <2>1, <4>2 DEF IntentsOf
        <5> QED  BY <1>1, <1>3, <2>2, <4>2, <5>1
      <4> QED  BY <4>1, <4>2
    <3> QED  BY <2>1, <2>2, <3>1 DEF IntentsOf
  <2>5. CallOf(wsCall, queries, wsService)
    BY <1>1, <1>2, <2>1, Zenon DEF CallOf
  <2> QED  BY <1>2, <1>3, <2>1, <2>2, <2>4, <2>5, Zenon DEF SearchInv, SearchTyped
<1>4. ASSUME NEW pc1 \in QueryPcs, Ws!At(i, pc1)
      PROVE  \E r \in Requests : wsQuery' = [wsQuery EXCEPT ![i] = r] /\ r.pc = pc1
  <2>1. [wsQuery[i] EXCEPT !.pc = pc1] \in Requests /\ [wsQuery[i] EXCEPT !.pc = pc1].pc = pc1
    BY <1>1 DEF Requests
  <2> QED  BY <1>4, <2>1, Zenon DEF Ws!At
<1>5. "committed" \in QueryPcs /\ "sent" \in QueryPcs /\ "found" \in QueryPcs /\ "failed" \in QueryPcs
  BY DEF QueryPcs
<1>6. CASE Ws!RecordRequest(i)
  <2>1. PICK r \in Requests : wsQuery' = [wsQuery EXCEPT ![i] = r] /\ r.pc = "committed"
    BY <1>4, <1>5, <1>6 DEF Ws!RecordRequest
  <2>2. wsLog' = Append(wsLog, i) /\ wsFirst' = wsFirst /\ wsQuery[i].pc = "gate" /\ Ws!GateOpen(i)
    BY <1>6 DEF Ws!RecordRequest
  <2>3. i > Len(wsLog) /\ \A n \in 1..Len(wsLog) : wsLog[n] = n
    BY <1>1, <2>2 DEF IntentsOf
  <2>4. i = 1 \/ i - 1 \in 1..Len(wsLog)
    <3>1. CASE i - 1 \in Ws!ToSet(wsLog)
      <4>1. PICK n \in DOMAIN wsLog : i - 1 = wsLog[n]
        BY <3>1 DEF Ws!ToSet
      <4>2. n \in 1..Len(wsLog)
        BY <1>1, <4>1
      <4> QED  BY <2>3, <4>1, <4>2
    <3> QED  BY <2>2, <3>1 DEF Ws!GateOpen
  <2>5. i = Len(wsLog) + 1
    BY <1>1, <2>3, <2>4
  <2>6. wsLog' \in Seq(Nat)
    BY <1>1, <2>2
  <2> QED  BY <1>1, <1>3, <2>1, <2>2, <2>5, <2>6, Zenon
<1>7. CASE Ws!Dispatch(i)
  <2>1. PICK r \in Requests : wsQuery' = [wsQuery EXCEPT ![i] = r] /\ r.pc = "sent"
    BY <1>4, <1>5, <1>7 DEF Ws!Dispatch
  <2>2. wsLog' = wsLog /\ wsFirst' = wsFirst /\ wsQuery[i].pc = "committed"
    BY <1>7 DEF Ws!Dispatch
  <2> QED  BY <1>1, <1>3, <2>1, <2>2, Zenon
<1>8. CASE Ws!RecordFails(i) \/ Ws!ProviderFails(i) \/ Ws!QueryStops(i)
  <2>1. Ws!At(i, "failed") /\ wsLog' = wsLog /\ \E err \in {"audit", "provider", "canceled"} : wsFirst' = IF wsFirst = "none" THEN err ELSE wsFirst
    BY <1>8 DEF Ws!RecordFails, Ws!ProviderFails, Ws!QueryStops, Ws!Fails, Ws!None
  <2>2. PICK r \in Requests : wsQuery' = [wsQuery EXCEPT ![i] = r] /\ r.pc = "failed"
    BY <1>4, <1>5, <2>1
  <2>3. wsFirst' \in {"none", "audit", "provider", "canceled"} /\ wsFirst' # "none"
    BY <1>1, <2>1
  <2> QED  BY <1>1, <1>3, <2>1, <2>2, <2>3, Zenon
<1>9. CASE \E answer \in Answers : Ws!Found(i, answer)
  <2>1. PICK answer \in Answers : Ws!Found(i, answer)
    BY <1>9
  <2> DEFINE capped == Ws!CapSources(answer)
             r == [pc |-> "found", result |-> capped]
  <2>2. answer \in Seq(STRING) /\ MaxResults \in Nat
    BY SearchAssumption
  <2>3. Len(answer) > MaxResults => SubSeq(answer, 1, MaxResults) \in Seq(STRING)
    <3> SUFFICES ASSUME Len(answer) > MaxResults PROVE SubSeq(answer, 1, MaxResults) \in Seq(STRING)
      OBVIOUS
    <3>1. \A k \in 1..MaxResults : answer[k] \in STRING
      BY <2>2, LenProperties, ElementOfSeq
    <3> QED  BY <2>2, <3>1, SubSeqProperties
  <2>4. capped \in Answered
    <3>1. CASE Len(answer) > MaxResults
      <4>1. capped = [sources |-> SubSeq(answer, 1, MaxResults), truncated |-> TRUE]
        BY <3>1, Zenon DEF Ws!CapSources
      <4> QED  BY <2>3, <3>1, <4>1 DEF Answered
    <3>2. CASE ~(Len(answer) > MaxResults)
      <4>1. capped = [sources |-> answer, truncated |-> FALSE]
        <5>1. (Len(answer) > MaxResults) = FALSE
          BY <3>2
        <5> QED  BY <5>1, Zenon DEF Ws!CapSources
      <4> QED  BY <2>2, <4>1 DEF Answered
    <3> QED  BY <3>1, <3>2
  <2>5. wsQuery' = [wsQuery EXCEPT ![i] = r] /\ wsLog' = wsLog /\ wsFirst' = wsFirst /\ wsQuery[i].pc = "sent"
    BY <2>1 DEF Ws!Found
  <2> HIDE DEF capped
  <2>6. r \in Requests /\ r.pc = "found"
    BY <1>5, <2>4 DEF Requests
  <2> HIDE DEF r
  <2> QED  BY <1>1, <1>3, <2>5, <2>6, Zenon
<1> QED  BY <1>6, <1>7, <1>8, <1>9

LEMMA SearchStep == SearchInv /\ [Ws!Next]_(Ws!vars) => SearchInv'
<1> SUFFICES ASSUME SearchInv, [Ws!Next]_(Ws!vars) PROVE SearchInv'
  OBVIOUS
<1>1. CASE UNCHANGED Ws!vars
  BY <1>1 DEF Ws!vars, SearchInv, SearchTyped
<1>2. CASE Ws!Next
  BY <1>2, SearchCalls, SearchQueries DEF Ws!Next
<1> QED  BY <1>1, <1>2

LEMMA SearchInFocus == ServicesInit /\ focus = "search" => Ws!Init
BY DEF ServicesInit, ServiceInit

LEMMA SearchOnly ==
  ASSUME [ServicesNext]_<<focus, vars, slots>>, focus = "search" \/ focus' = "search"
  PROVE  focus = "search" /\ [Ws!Next]_(Ws!vars)
<1>1. CASE UNCHANGED <<focus, vars, slots>>
  BY <1>1 DEF slots, Ws!vars
<1>2. CASE focus = "log" /\ Next /\ UNCHANGED <<focus, slots>>
  BY <1>2
<1>3. CASE ServiceNext /\ UNCHANGED <<focus, vars>>
  BY <1>3 DEF ServiceNext
<1> QED  BY <1>1, <1>2, <1>3 DEF ServicesNext

IntentsKept == focus = "search" => SearchInv

\* However many queries run at once, however they fail and whenever cleanup
\* comes, their intents are in the log in index order and before their
\* dispatch, and a search that succeeded recorded and answered every query
\* (service.go, RecordRequest and runQueries).
THEOREM IntentsAlwaysRecorded == ServicesSpec => [](focus = "search" => Ws!IntentsRecorded)
<1>1. ServicesInit => IntentsKept
  BY SearchInFocus, SearchInit DEF IntentsKept
<1>2. IntentsKept /\ [ServicesNext]_<<focus, vars, slots>> => IntentsKept'
  BY SearchOnly, SearchStep DEF IntentsKept
<1>3. IntentsKept => (focus = "search" => Ws!IntentsRecorded)
  <2> SUFFICES ASSUME SearchInv PROVE Ws!IntentsRecorded
    BY DEF IntentsKept
  <2>1. /\ IntentsOf(wsQuery, wsLog, wsFirst) /\ CallOf(wsCall, wsQuery, wsService)
        /\ Len(wsLog) \in Nat /\ Len(wsQuery) \in Nat
    BY LenProperties DEF SearchInv, SearchTyped
  <2>2. wsCall.code = "ok" => Len(wsLog) = Len(wsCall.accepted)
    <3> SUFFICES ASSUME wsCall.code = "ok" PROVE Len(wsLog) = Len(wsCall.accepted)
      OBVIOUS
    <3>1. Len(wsQuery) = Len(wsCall.accepted) /\ \A i \in 1..Len(wsQuery) : i <= Len(wsLog)
      BY <2>1 DEF IntentsOf, CallOf
    <3>2. Len(wsQuery) <= Len(wsLog)
      BY <2>1, <3>1
    <3> QED  BY <2>1, <3>1, <3>2 DEF IntentsOf
  <2> QED  BY <2>1, <2>2 DEF Ws!IntentsRecorded, Ws!Queries, IntentsOf, CallOf
<1> QED  BY <1>1, <1>2, <1>3, PTL DEF ServicesSpec
-----------------------------------------------------------------------------
(* Jobs: background jobs, their callers and their output.                  *)

\* The variables of Jobs, under their names there.
jbJob == x1
jbRing == x2
jbCursor == x3
jbProd == x4
jbCall == x5
jbDisturbed == x6
jbService == x7
jbBase == x8
jbRelease == x9
jbTold == x10
jbFinished == x11
jbNoticed == x12
jbDropped == x13

USE DEF jbJob, jbRing, jbCursor, jbProd, jbCall, jbDisturbed, jbService, jbBase, jbRelease, jbTold, jbFinished, jbNoticed, jbDropped

\* Where a call is: waiting for its job, on a foreground job nobody has read,
\* cutting a foreground job short, or with the end of its job in hand.
JobWaits == {"waiting", "output-waiting", "reaping"}
JobHeld == {"wait", "waiting", "live", "settled", "hand-over"}
JobCut == {"reap", "reaping", "drop"}
JobEnds == {"settled", "remove", "finished"}
JobCollects == JobHeld \cup JobCut \cup JobEnds \cup {"abort", "output", "output-waiting", "ended"}
JobCallPcs == JobCollects \cup {"idle", "started", "shown", "output-wait", "kill"}

JobRecords == [status : {"none", "running", "stopping", "settled"}, owner : Owners \cup {"none"},
               cause : {"producer", "kill", "teardown"}, waiters : Nat, foreground : BOOLEAN, listed : BOOLEAN]
JobCalls == [pc : JobCallPcs, job : Jobs \cup {"none"}, done : BOOLEAN, made : Nat]
JobLive == {"running", "stopping"}

JobsTyped ==
  /\ jbJob \in [Jobs -> JobRecords] /\ jbProd \in [Jobs -> {"none", "run", "settle", "notify", "gone"}]
  /\ jbCall \in [Owners -> JobCalls] /\ \A o \in Owners : jbCall[o].made <= MaxCalls[o]
  /\ jbRelease \in [Owners -> {"none", "waiting", "released", "given-up"}]
  /\ jbTold \subseteq Jobs /\ jbFinished \subseteq Jobs /\ jbNoticed \subseteq Jobs /\ jbDropped \subseteq Jobs

\* What is in progress for a job whose end nobody reported or dropped yet:
\* somebody will report it, the producer or the call that runs on it.
JobAccount(k, b, p, c) ==
  /\ b.status \in JobLive => /\ b.foreground => c.job = k /\ c.pc \in JobHeld \cup JobCut \cup {"abort"}
                             /\ \/ b.cause = "producer"
                                \/ b.cause = "kill" /\ c.job = k /\ c.pc \in JobCut \cup {"ended"}
  /\ b.status = "settled" => \/ p = "notify"
                             \/ c.job = k /\ c.pc \in JobCollects /\ (b.listed \/ c.pc = "finished")

\* What holds of a job k with record b and producer p whose owner's call is c:
\* quiet while nothing stops it, freed once Release returned, acc, ann and fin
\* when its end was accounted for, announced and rendered in the foreground.
JobBegun(k, b, p, c, quiet, freed, acc, ann, fin) ==
  /\ b.owner \in Owners
  /\ b.status \in JobLive => b.listed /\ p \in {"run", "settle"} /\ b.waiters = IF c.job = k /\ c.pc \in JobWaits THEN 1 ELSE 0
  /\ b.status = "settled" => p \in {"notify", "gone"}
  /\ ann => p = "gone"
  /\ fin => p = "gone" /\ ~ann
  /\ freed => b.status = "settled" /\ ~b.listed
  /\ c.job = k /\ c.pc \in JobHeld => b.foreground /\ p # "notify" /\ ~ann
  /\ c.job = k /\ c.pc \in JobEnds => b.status = "settled" /\ p # "notify" /\ ~ann
  /\ quiet /\ ~acc => JobAccount(k, b, p, c)

JobFacts(k, b, p, c, quiet, freed, acc, ann, fin) ==
  /\ b.status = "none" => p = "none" /\ b.owner = "none" /\ ~b.listed /\ ~ann /\ ~fin
  /\ b.status # "none" => JobBegun(k, b, p, c, quiet, freed, acc, ann, fin)

\* Nothing stops the jobs of o; its Release returned.
JobQuiet(o) == jbService = "active" /\ jbBase /\ jbRelease[o] = "none"
JobFreed(o) == jbService = "active" /\ jbRelease[o] = "released"
JobAccounted(k) == k \in jbTold \/ k \in jbNoticed \/ k \in jbDropped

JobKept(k) ==
  JobFacts(k, jbJob[k], jbProd[k], jbCall[jbJob[k].owner], JobQuiet(jbJob[k].owner), JobFreed(jbJob[k].owner),
           JobAccounted(k), k \in jbNoticed, k \in jbFinished)

\* A call is on a job that was launched, and past its first look on its own.
JobAims(o, c) ==
  /\ c.pc = "idle" <=> c.job = "none"
  /\ c.job # "none" => jbJob[c.job].status # "none"
  /\ c.pc \notin {"idle", "output", "output-wait", "kill"} => jbJob[c.job].owner = o

JobsInv == JobsTyped /\ (\A o \in Owners : JobAims(o, jbCall[o])) /\ (\A k \in Jobs : JobKept(k))

\* A ring r and its reader's position: the retained chunks begin at characters
\* and the reader is at a chunk's begin, unless more than the retention of a
\* live job was written since.
RingKept(r, cur) ==
  /\ r = [total |-> r.total, earliest |-> r.earliest, starts |-> r.starts, runes |-> r.runes]
  /\ r.total \in Nat /\ r.earliest \in Nat /\ cur \in Nat /\ r.starts \subseteq Nat /\ r.runes \subseteq Nat
  /\ r.earliest <= r.total /\ cur <= r.total
  /\ \A s \in r.starts : r.earliest <= s /\ s <= r.total /\ (s = r.total \/ s \in r.runes)
  /\ \A x \in r.runes : x < r.total
  /\ cur < r.earliest \/ cur = r.total \/ cur \in r.starts
  /\ cur < r.earliest => r.total - cur > LiveRetain

RingsInv == DOMAIN jbRing = Jobs /\ DOMAIN jbCursor = Jobs /\ \A k \in Jobs : RingKept(jbRing[k], jbCursor[k])

LEMMA MinIs ==
  ASSUME NEW S \in SUBSET Nat, S # {}
  PROVE  Jb!Min(S) \in S /\ \A y \in S : Jb!Min(S) <= y
BY LeastPosition, Zenon DEF Jb!Min

\* A trim drops only what does not fit, and the chunk it cuts begins at a
\* character: a reader whose unread output fits keeps it.
LEMMA TrimKeeps ==
  ASSUME NEW r, NEW cur, NEW limit \in Nat, RingKept(r, cur), r.total - cur <= limit \/ limit = LiveRetain
  PROVE  RingKept(Jb!Trim(r, limit), cur) /\ Jb!Trim(r, limit).total = r.total
<1> DEFINE T == r.total
           fits == {s \in r.starts : T - s <= limit}
           last == {x \in r.runes \cup {T} : T - x <= limit}
           S == IF fits # {} THEN fits ELSE last
           from == IF r.starts = {} THEN T ELSE Jb!Min(S)
           q == Jb!Trim(r, limit)
<1>1. q = [total |-> T, earliest |-> from, runes |-> {x \in r.runes : x >= from},
           starts |-> IF r.starts = {} THEN {} ELSE {from} \cup {s \in r.starts : s >= from}]
  BY DEF Jb!Trim
<1>2. /\ T \in Nat /\ r.earliest \in Nat /\ cur \in Nat /\ r.starts \subseteq Nat /\ r.runes \subseteq Nat
      /\ r.earliest <= T /\ cur <= T
      /\ \A s \in r.starts : r.earliest <= s /\ s <= T /\ (s = T \/ s \in r.runes)
      /\ \A x \in r.runes : x < T
      /\ cur < r.earliest \/ cur = T \/ cur \in r.starts
      /\ cur < r.earliest => T - cur > LiveRetain
  BY DEF RingKept
<1>3. S \in SUBSET Nat /\ S # {} /\ S \subseteq r.runes \cup {T} /\ T \in last
  <2>1. T - T <= limit /\ T \in last
    BY <1>2
  <2>2. fits \subseteq r.runes \cup {T} /\ last \subseteq r.runes \cup {T}
    BY <1>2
  <2> QED  BY <1>2, <2>1, <2>2
<1>4. /\ from \in Nat /\ from <= T /\ (from = T \/ from \in r.runes)
      /\ r.starts # {} => from \in S /\ \A y \in S : from <= y
  <2> HIDE DEF S
  <2>1. Jb!Min(S) \in S /\ \A y \in S : Jb!Min(S) <= y
    BY <1>3, MinIs, Zenon
  <2>2. \A x \in S : x \in Nat /\ x <= T /\ (x = T \/ x \in r.runes)
    BY <1>2, <1>3
  <2>3. CASE r.starts = {}
    BY <1>2, <2>3
  <2>4. CASE r.starts # {}
    <3>1. from = Jb!Min(S)
      BY <2>4, Zenon
    <3> HIDE DEF from
    <3> QED  BY <2>1, <2>2, <3>1
  <2> QED  BY <2>3, <2>4
<1>5. cur < from => T - cur > LiveRetain
  <2> SUFFICES ASSUME cur < from, T - cur <= LiveRetain PROVE FALSE
    BY <1>2, JobsAssumption
  <2>1. ~(cur < r.earliest)
    BY <1>2, JobsAssumption
  <2>2. cur # T
    BY <1>2, <1>4
  <2>3. cur \in r.starts
    BY <1>2, <2>1, <2>2
  <2>4. T - cur <= limit
    OBVIOUS
  <2>5. cur \in fits /\ S = fits
    BY <2>3, <2>4
  <2> HIDE DEF S, from
  <2> QED  BY <1>2, <1>4, <2>3, <2>5
<1>6. cur < from \/ cur = T \/ (cur \in r.starts /\ cur >= from)
  <2> HIDE DEF from
  <2> SUFFICES ASSUME cur < r.earliest, ~(cur < from) PROVE FALSE
    BY <1>2, <1>4
  <2>1. CASE r.starts = {}
    BY <1>2, <2>1 DEF from
  <2>2. CASE r.starts # {}
    <3>1. from \in S
      BY <1>4, <2>2
    <3>2. from # T
      BY <1>2
    <3>3. CASE fits # {}
      BY <1>2, <3>1, <3>3
    <3>4. CASE fits = {}
      <4>1. T - from <= limit /\ from \in Nat /\ from <= cur
        BY <1>2, <1>4, <3>1, <3>4
      <4>2. T - cur <= limit
        BY <1>2, <4>1
      <4>3. PICK s \in r.starts : TRUE
        BY <2>2
      <4>4. T - s > limit
        BY <1>2, <3>4
      <4>5. s >= r.earliest /\ s \in Nat
        BY <1>2
      <4> QED  BY <1>2, <4>2, <4>4, <4>5
    <3> QED  BY <3>3, <3>4
  <2> QED  BY <2>1, <2>2
<1> HIDE DEF from, S, fits, last, T
<1>7. q.total = T /\ q.earliest = from /\ q.runes = {x \in r.runes : x >= from}
      /\ q.starts = IF r.starts = {} THEN {} ELSE {from} \cup {s \in r.starts : s >= from}
  BY <1>1
<1>8. q = [total |-> q.total, earliest |-> q.earliest, starts |-> q.starts, runes |-> q.runes]
  <2> DEFINE a == {x \in r.runes : x >= from}
             b == IF r.starts = {} THEN {} ELSE {from} \cup {s \in r.starts : s >= from}
  <2>1. q = [total |-> T, earliest |-> from, runes |-> a, starts |-> b]
    BY <1>1
  <2> HIDE DEF a, b, q
  <2> QED  BY <2>1
<1> HIDE DEF q
<1>9. \A s \in q.starts : s \in Nat /\ from <= s /\ s <= T /\ (s = T \/ s \in q.runes)
  BY <1>2, <1>4, <1>7
<1>10. cur \in r.starts /\ cur >= from => cur \in q.starts
  BY <1>7
<1>11. \A x \in q.runes : x \in Nat /\ x < T
  BY <1>2, <1>7
<1>12. T = r.total /\ q.total = r.total
  BY <1>7 DEF T
<1> QED  BY <1>2, <1>4, <1>5, <1>6, <1>7, <1>8, <1>9, <1>10, <1>11, <1>12 DEF RingKept, q

\* A write adds a chunk where the last one ends.
LEMMA ChunkKeeps ==
  ASSUME NEW r, NEW cur, NEW k \in Chunks, RingKept(r, cur)
  PROVE  RingKept(Jb!AppendChunk(r, k, LiveRetain), cur)
<1> DEFINE q == [total |-> r.total + k.len, earliest |-> r.earliest,
                 starts |-> r.starts \cup {r.total},
                 runes |-> r.runes \cup {r.total + x : x \in k.runes}]
<1>1. /\ k.len \in Nat \ {0} /\ 0 \in k.runes /\ k.runes \subseteq 0..(k.len - 1) /\ LiveRetain \in Nat
  BY JobsAssumption
<1>2. /\ r.total \in Nat /\ r.earliest \in Nat /\ cur \in Nat /\ r.starts \subseteq Nat /\ r.runes \subseteq Nat
      /\ r.earliest <= r.total /\ cur <= r.total
      /\ \A s \in r.starts : r.earliest <= s /\ s <= r.total /\ (s = r.total \/ s \in r.runes)
      /\ \A x \in r.runes : x < r.total
      /\ cur < r.earliest \/ cur = r.total \/ cur \in r.starts
      /\ cur < r.earliest => r.total - cur > LiveRetain
  BY DEF RingKept
<1>3. /\ q.total = r.total + k.len /\ q.earliest = r.earliest
      /\ q.starts = r.starts \cup {r.total} /\ q.runes = r.runes \cup {r.total + x : x \in k.runes}
      /\ q = [total |-> q.total, earliest |-> q.earliest, starts |-> q.starts, runes |-> q.runes]
  OBVIOUS
<1>4. Jb!AppendChunk(r, k, LiveRetain) = Jb!Trim(q, LiveRetain)
  BY DEF Jb!AppendChunk
<1> HIDE DEF q
<1>5. r.total \in q.runes
  <2>1. r.total + 0 \in {r.total + x : x \in k.runes} /\ r.total + 0 = r.total
    BY <1>1, <1>2
  <2> QED  BY <1>3, <2>1
<1>6. \A x \in k.runes : r.total + x \in Nat /\ r.total + x < r.total + k.len
  BY <1>1, <1>2
<1>7. \A x \in q.runes : x \in Nat /\ x < q.total
  BY <1>1, <1>2, <1>3, <1>6
<1>8. \A s \in q.starts : s \in Nat /\ q.earliest <= s /\ s <= q.total /\ s \in q.runes
  BY <1>1, <1>2, <1>3, <1>5
<1>9. cur < q.earliest => q.total - cur > LiveRetain
  BY <1>1, <1>2, <1>3
<1>10. q.total \in Nat /\ q.earliest \in Nat /\ q.earliest <= q.total /\ cur <= q.total
  BY <1>1, <1>2, <1>3
<1>11. cur < q.earliest \/ cur \in q.starts
  BY <1>2, <1>3
<1>12. RingKept(q, cur)
  BY <1>2, <1>3, <1>7, <1>8, <1>9, <1>10, <1>11 DEF RingKept
<1> QED  BY <1>1, <1>4, <1>12, TrimKeeps

\* A reader that was told everything is at the end of the ring.
LEMMA ReadKeeps ==
  ASSUME NEW r, NEW cur, RingKept(r, cur)
  PROVE  RingKept(r, r.total) /\ RingKept(Jb!Trim(r, SettledRetain), r.total) /\ RingKept(Jb!EmptyRing, 0)
<1>1. RingKept(r, r.total)
  BY DEF RingKept
<1>2. SettledRetain \in Nat /\ r.total - r.total <= SettledRetain
  BY JobsAssumption DEF RingKept
<1>3. RingKept(Jb!EmptyRing, 0)
  BY DEF RingKept, Jb!EmptyRing
<1> QED  BY <1>1, <1>2, <1>3, TrimKeeps

LEMMA RingsInit == Jb!Init => RingsInv
<1> SUFFICES ASSUME Jb!Init PROVE RingsInv
  OBVIOUS
<1>1. RingKept(Jb!EmptyRing, 0)
  BY DEF RingKept, Jb!EmptyRing
<1> QED  BY <1>1 DEF Jb!Init, RingsInv

\* One job's output goes on.
LEMMA RingMoves ==
  ASSUME RingsInv, NEW j \in Jobs, NEW r, NEW cur, RingKept(r, cur),
         DOMAIN jbRing' = Jobs, jbRing'[j] = r, \A k \in Jobs \ {j} : jbRing'[k] = jbRing[k],
         DOMAIN jbCursor' = Jobs, jbCursor'[j] = cur, \A k \in Jobs \ {j} : jbCursor'[k] = jbCursor[k]
  PROVE  RingsInv'
<1>1. ASSUME NEW k \in Jobs PROVE RingKept(jbRing'[k], jbCursor'[k])
  <2>1. CASE k = j
    BY <2>1
  <2>2. CASE k # j
    <3>1. jbRing'[k] = jbRing[k] /\ jbCursor'[k] = jbCursor[k] /\ RingKept(jbRing[k], jbCursor[k])
      BY <2>2 DEF RingsInv
    <3> QED  BY <3>1
  <2> QED  BY <2>1, <2>2
<1> QED  BY <1>1 DEF RingsInv

LEMMA RingsForget ==
  ASSUME RingsInv, NEW js, Jb!Forget(js)
  PROVE  RingsInv'
<1>1. /\ jbRing' = [j \in Jobs |-> IF j \in js THEN Jb!EmptyRing ELSE jbRing[j]]
      /\ jbCursor' = [j \in Jobs |-> IF j \in js THEN 0 ELSE jbCursor[j]]
  BY DEF Jb!Forget
<1>2. ASSUME NEW k \in Jobs PROVE RingKept(jbRing'[k], jbCursor'[k])
  <2>1. RingKept(jbRing[k], jbCursor[k]) /\ RingKept(Jb!EmptyRing, 0)
    BY ReadKeeps DEF RingsInv
  <2>2. CASE k \in js
    BY <1>1, <2>1, <2>2
  <2>3. CASE k \notin js
    BY <1>1, <2>1, <2>3
  <2> QED  BY <2>2, <2>3
<1> QED  BY <1>1, <1>2 DEF RingsInv

LEMMA RingsRead ==
  ASSUME RingsInv, NEW o \in Owners, Jb!Read(o), JobsInv
  PROVE  RingsInv'
<1> DEFINE j == jbCall[o].job
<1>1. CASE ~Jb!Found(o, j)
  BY <1>1 DEF Jb!Read, Jb!output, RingsInv
<1>2. CASE Jb!Found(o, j)
  <2>1. Jb!Reads(j) /\ j \in Jobs
    BY <1>2 DEF Jb!Read, JobsInv, JobsTyped, JobAims, JobCalls
  <2>2. /\ jbCursor' = [jbCursor EXCEPT ![j] = jbRing[j].total]
        /\ jbRing' = IF jbJob[j].status = "settled" THEN [jbRing EXCEPT ![j] = Jb!Trim(@, SettledRetain)] ELSE jbRing
    BY <2>1 DEF Jb!Reads
  <2> HIDE DEF j
  <2>3. /\ RingKept(jbRing[j], jbRing[j].total)
        /\ RingKept(Jb!Trim(jbRing[j], SettledRetain), jbRing[j].total)
    BY <2>1, ReadKeeps DEF RingsInv
  <2>4. /\ DOMAIN jbCursor' = Jobs /\ jbCursor'[j] = jbRing[j].total
        /\ \A k \in Jobs \ {j} : jbCursor'[k] = jbCursor[k]
    BY <2>1, <2>2 DEF RingsInv
  <2>5. /\ DOMAIN jbRing' = Jobs /\ \A k \in Jobs \ {j} : jbRing'[k] = jbRing[k]
        /\ jbRing'[j] = jbRing[j] \/ jbRing'[j] = Jb!Trim(jbRing[j], SettledRetain)
    BY <2>1, <2>2 DEF RingsInv
  <2> QED  BY <2>1, <2>3, <2>4, <2>5, RingMoves
<1> QED  BY <1>1, <1>2

LEMMA RingsProduced ==
  ASSUME RingsInv, NEW j \in Jobs, Jb!Write(j) \/ Jb!Settle(j)
  PROVE  RingsInv'
<1>1. RingKept(jbRing[j], jbCursor[j]) /\ DOMAIN jbCursor = Jobs /\ DOMAIN jbRing = Jobs
  BY DEF RingsInv
<1>2. jbCursor' = jbCursor
  BY DEF Jb!Write, Jb!Settle
<1>3. CASE Jb!Write(j)
  <2>1. PICK k \in Chunks : jbRing' = [jbRing EXCEPT ![j] = Jb!AppendChunk(@, k, LiveRetain)]
    BY <1>3 DEF Jb!Write
  <2>2. RingKept(Jb!AppendChunk(jbRing[j], k, LiveRetain), jbCursor[j])
    BY <1>1, ChunkKeeps
  <2>3. DOMAIN jbRing' = Jobs /\ jbRing'[j] = Jb!AppendChunk(jbRing[j], k, LiveRetain) /\ \A i \in Jobs \ {j} : jbRing'[i] = jbRing[i]
    BY <1>1, <2>1
  <2> QED  BY <1>1, <1>2, <2>2, <2>3, RingMoves
<1>4. CASE Jb!Settle(j)
  <2>1. jbRing' = [jbRing EXCEPT ![j] = Jb!Trim(@, Jb!SettleRetains(j))]
    BY <1>4 DEF Jb!Settle
  <2> DEFINE S == {SettledRetain, jbRing[j].total - jbCursor[j]}
             limit == Jb!SettleRetains(j)
  <2>2. SettledRetain \in Nat /\ jbRing[j].total - jbCursor[j] \in Nat
    BY <1>1, JobsAssumption DEF RingKept
  <2>3. \E x \in S : \A y \in S : x >= y
    <3>1. CASE SettledRetain >= jbRing[j].total - jbCursor[j]
      BY <2>2, <3>1
    <3>2. CASE SettledRetain <= jbRing[j].total - jbCursor[j]
      BY <2>2, <3>2
    <3> QED  BY <2>2, <3>1, <3>2
  <2>4. limit = Jb!Max(S)
    BY DEF Jb!SettleRetains
  <2> HIDE DEF S, limit
  <2>5. limit \in S /\ \A y \in S : limit >= y
    BY <2>3, <2>4, Zenon DEF Jb!Max
  <2>6. limit \in Nat /\ jbRing[j].total - jbCursor[j] <= limit
    BY <2>2, <2>5 DEF S
  <2>7. RingKept(Jb!Trim(jbRing[j], limit), jbCursor[j])
    BY <1>1, <2>6, TrimKeeps
  <2>8. DOMAIN jbRing' = Jobs /\ jbRing'[j] = Jb!Trim(jbRing[j], limit) /\ \A i \in Jobs \ {j} : jbRing'[i] = jbRing[i]
    BY <1>1, <2>1 DEF limit
  <2> QED  BY <1>1, <1>2, <2>7, <2>8, RingMoves
<1> QED  BY <1>3, <1>4

LEMMA RingsStep == RingsInv /\ JobsInv /\ [Jb!Next]_(Jb!vars) => RingsInv'
<1> SUFFICES ASSUME RingsInv, JobsInv, [Jb!Next]_(Jb!vars) PROVE RingsInv'
  OBVIOUS
<1>1. CASE UNCHANGED Jb!vars
  BY <1>1 DEF Jb!vars, Jb!output, RingsInv
<1>2. CASE \E o \in Owners, j \in Jobs : \/ \E f \in BOOLEAN : Jb!Launch(o, j, f)
                                         \/ \E place \in {"output", "output-wait", "kill"} : Jb!Start(o, j, place)
  BY <1>2 DEF Jb!Launch, Jb!Start, Jb!output, RingsInv
<1>3. ASSUME NEW o \in Owners, Jb!CallStep(o) \/ Jb!Abort(o) \/ Jb!Release(o) \/ Jb!Released(o)
      PROVE  RingsInv'
  <2>1. CASE Jb!Read(o)
    BY <2>1, RingsRead
  <2>2. CASE Jb!Remove(o)
    BY <2>2, RingsForget DEF Jb!Remove
  <2>3. CASE Jb!Released(o)
    BY <2>3, RingsForget DEF Jb!Released, Jb!output, RingsInv
  <2>4. CASE Jb!Wait(o) \/ Jb!WaitReturns(o) \/ Jb!ForegroundResult(o) \/ Jb!Kill(o) \/ Jb!Return(o) \/ Jb!Abort(o) \/ Jb!Release(o)
    <3>1. jbRing' = jbRing /\ jbCursor' = jbCursor
      BY <2>4 DEF Jb!Wait, Jb!WaitReturns, Jb!ForegroundResult, Jb!Kill, Jb!Return, Jb!Abort, Jb!Release, Jb!output
    <3> QED  BY <3>1 DEF RingsInv
  <2> QED  BY <1>3, <2>1, <2>2, <2>3, <2>4 DEF Jb!CallStep
<1>4. ASSUME NEW j \in Jobs, Jb!Write(j) \/ Jb!Produced(j) \/ Jb!Settle(j) \/ Jb!Notify(j)
      PROVE  RingsInv'
  <2>1. CASE Jb!Write(j) \/ Jb!Settle(j)
    BY <2>1, RingsProduced
  <2>2. CASE Jb!Produced(j) \/ Jb!Notify(j)
    BY <2>2 DEF Jb!Produced, Jb!Notify, Jb!output, RingsInv
  <2> QED  BY <1>4, <2>1, <2>2
<1>5. CASE Jb!Stop \/ Jb!CancelBase
  BY <1>5 DEF Jb!Stop, Jb!CancelBase, Jb!output, RingsInv
<1>6. CASE Jb!Stopped
  BY <1>6, RingsForget DEF Jb!Stopped
<1> QED  BY <1>1, <1>2, <1>3, <1>4, <1>5, <1>6 DEF Jb!Next

\* What a reader of a well-kept ring gets.
LEMMA RingsKeepOutput == RingsInv => Jb!JobOutputKept
<1> SUFFICES ASSUME RingsInv, NEW j \in Jobs
    PROVE  /\ jbRing[j].earliest > jbCursor[j] => jbRing[j].total - jbCursor[j] > LiveRetain
           /\ LET read == Jb!ReadFrom(jbRing[j], jbCursor[j]) IN
                IF read.lossy THEN read.from > jbCursor[j] /\ read.from \in jbRing[j].runes \cup {jbRing[j].total}
                              ELSE read.from = jbCursor[j]
  BY DEF Jb!JobOutputKept, Jb!LossOnlyWhenFull, Jb!ReadsContinue
<1> DEFINE r == jbRing[j]
           cur == jbCursor[j]
           S == {s \in r.starts : s >= cur} \cup {r.total}
<1>1. RingKept(r, cur)
  BY DEF RingsInv
<1>2. Jb!ReadFrom(r, cur).from = Jb!Min(S) /\ (Jb!ReadFrom(r, cur).lossy <=> cur < r.earliest)
  BY DEF Jb!ReadFrom
<1> HIDE DEF r, cur
<1>3. S \in SUBSET Nat /\ S # {} /\ r.total \in S /\ \A s \in S : cur <= s /\ r.earliest <= s /\ s \in r.runes \cup {r.total}
  BY <1>1 DEF RingKept
<1>4. ~(cur < r.earliest) => cur \in S
  BY <1>1 DEF RingKept
<1> HIDE DEF S
<1>5. Jb!Min(S) \in S /\ \A y \in S : Jb!Min(S) <= y
  BY <1>3, MinIs, Zenon
<1>6. cur \in Nat /\ r.earliest \in Nat /\ r.total \in Nat /\ (cur < r.earliest => r.total - cur > LiveRetain)
  BY <1>1 DEF RingKept
<1>7. cur < r.earliest => Jb!Min(S) > cur /\ Jb!Min(S) \in r.runes \cup {r.total}
  BY <1>3, <1>5, <1>6
<1>8. ~(cur < r.earliest) => Jb!Min(S) = cur
  <2>1. PICK m \in Nat : m = Jb!Min(S)
    BY <1>3, <1>5
  <2>2. cur <= m
    BY <1>3, <1>5, <2>1
  <2>3. cur \in S => m <= cur
    BY <1>5, <2>1
  <2> QED  BY <1>4, <1>6, <2>1, <2>2, <2>3
<1> QED  BY <1>2, <1>6, <1>7, <1>8 DEF r, cur

LEMMA JobsInit == Jb!Init => JobsInv
<1> SUFFICES ASSUME Jb!Init PROVE JobsInv
  OBVIOUS
<1>1. jbJob = [j \in Jobs |-> Jb!NoJob] /\ jbProd = [j \in Jobs |-> "none"]
  BY DEF Jb!Init, Jb!None
<1>2. jbCall = [o \in Owners |-> [pc |-> "idle", job |-> "none", done |-> FALSE, made |-> 0]]
  BY DEF Jb!Init, Jb!None
<1>3. jbRelease = [o \in Owners |-> "none"] /\ jbTold = {} /\ jbFinished = {} /\ jbNoticed = {} /\ jbDropped = {}
  BY DEF Jb!Init
<1>4. /\ Jb!NoJob \in JobRecords /\ Jb!NoJob.status = "none" /\ Jb!NoJob.owner = "none" /\ ~Jb!NoJob.listed
  BY DEF Jb!NoJob, Jb!None, JobRecords
<1>5. \A o \in Owners : /\ jbCall[o] \in JobCalls /\ jbCall[o].pc = "idle" /\ jbCall[o].job = "none" /\ jbCall[o].made = 0
                        /\ MaxCalls[o] \in Nat
  BY <1>2, JobsAssumption DEF JobCalls, JobCallPcs
<1>6. JobsTyped
  BY <1>1, <1>2, <1>3, <1>4, <1>5 DEF JobsTyped
<1>7. \A o \in Owners : JobAims(o, jbCall[o])
  BY <1>5 DEF JobAims
<1>8. \A k \in Jobs : JobKept(k)
  BY <1>1, <1>3, <1>4 DEF JobKept, JobFacts
<1> QED  BY <1>6, <1>7, <1>8 DEF JobsInv

\* Two records of a job that say the same.
JobAlike(b, d) ==
  /\ d.status = b.status /\ d.owner = b.owner /\ d.cause = b.cause /\ d.waiters = b.waiters
  /\ d.foreground <=> b.foreground
  /\ d.listed <=> b.listed

\* A step leaves job k alone.
JobLeft(k) ==
  /\ jbProd'[k] = jbProd[k] /\ JobAlike(jbJob[k], jbJob'[k])
  /\ k \in jbTold' <=> k \in jbTold
  /\ k \in jbFinished' <=> k \in jbFinished
  /\ k \in jbNoticed' <=> k \in jbNoticed
  /\ k \in jbDropped' <=> k \in jbDropped

\* A job that a step leaves alone, while no other call comes to run on it.
LEMMA JobStays ==
  ASSUME NEW k \in Jobs, JobKept(k), JobLeft(k),
         jbService' = jbService, jbBase' = jbBase, jbRelease' = jbRelease,
         jbJob[k].owner \in Owners =>
           \/ jbCall'[jbJob[k].owner] = jbCall[jbJob[k].owner]
           \/ jbCall[jbJob[k].owner].job # k /\ jbCall'[jbJob[k].owner].job # k
  PROVE  JobKept(k)'
<1>1. jbJob'[k].owner = jbJob[k].owner
  BY DEF JobLeft, JobAlike
<1>2. PICK u : u = jbJob[k].owner
  OBVIOUS
<1>3. /\ JobQuiet(u)' <=> JobQuiet(u)
      /\ JobFreed(u)' <=> JobFreed(u)
      /\ JobAccounted(k)' <=> JobAccounted(k)
  BY DEF JobQuiet, JobFreed, JobAccounted, JobLeft
<1>4. CASE jbJob[k].status = "none"
  BY <1>4 DEF JobKept, JobFacts, JobLeft, JobAlike
<1>5. CASE jbJob[k].status # "none"
  <2>1. u \in Owners
    BY <1>2, <1>5 DEF JobKept, JobFacts, JobBegun
  <2>2. JobBegun(k, jbJob[k], jbProd[k], jbCall[u], JobQuiet(u), JobFreed(u), JobAccounted(k), k \in jbNoticed, k \in jbFinished)
    BY <1>2, <1>5 DEF JobKept, JobFacts
  <2>3. JobBegun(k, jbJob'[k], jbProd'[k], jbCall'[u], JobQuiet(u)', JobFreed(u)', JobAccounted(k)', k \in jbNoticed', k \in jbFinished')
    BY <1>2, <1>3, <2>1, <2>2 DEF JobBegun, JobAccount, JobLeft, JobAlike
  <2>4. jbJob'[k].owner = u /\ jbJob'[k].status # "none"
    BY <1>1, <1>2, <1>5 DEF JobLeft, JobAlike
  <2> QED  BY <2>3, <2>4 DEF JobKept, JobFacts
<1> QED  BY <1>4, <1>5

\* The step of a call, on job j if on any, or of a job, which leaves the
\* other jobs alone.
LEMMA JobMoves ==
  ASSUME JobsInv, NEW o \in Owners, NEW j \in Jobs, JobsTyped',
         \A u \in Owners \ {o} : jbCall'[u] = jbCall[u],
         jbService' = jbService, jbBase' = jbBase, jbRelease' = jbRelease,
         \A k \in Jobs \ {j} : JobLeft(k),
         \/ jbCall'[o] = jbCall[o]
         \/ jbCall[o].job \in {j, "none"} /\ jbCall'[o].job \in {j, "none"} /\ JobAims(o, jbCall[o])',
         jbJob'[j].status # "none", jbJob[j].owner \in {jbJob'[j].owner, "none"},
         JobKept(j)'
  PROVE  JobsInv'
<1>1. ASSUME NEW k \in Jobs, k # j PROVE JobKept(k)'
  <2>1. JobLeft(k) /\ JobKept(k)
    BY <1>1 DEF JobsInv
  <2>2. PICK u : u = jbJob[k].owner
    OBVIOUS
  <2>3. u \in Owners => jbCall'[u] = jbCall[u] \/ (jbCall[u].job # k /\ jbCall'[u].job # k)
    BY <1>1, JobsAssumption
  <2> QED  BY <2>1, <2>2, <2>3, JobStays
<1>2. ASSUME NEW u \in Owners, jbCall'[u] = jbCall[u] PROVE JobAims(u, jbCall[u])'
  <2>1. JobAims(u, jbCall[u]) /\ JobKept(j) /\ jbCall[u] \in JobCalls
    BY DEF JobsInv, JobsTyped
  <2>2. jbCall[u].job # "none" => jbCall[u].job \in Jobs /\ jbJob[jbCall[u].job].status # "none"
    BY <2>1 DEF JobAims, JobCalls
  <2>3. jbJob[j].status # "none" => jbJob[j].owner \in Owners
    BY <2>1 DEF JobKept, JobFacts, JobBegun
  <2>4. jbCall[u].job # "none" =>
          /\ jbJob'[jbCall[u].job].status # "none"
          /\ jbJob'[jbCall[u].job].owner = jbJob[jbCall[u].job].owner
    <3>1. CASE jbCall[u].job = j
      BY <2>2, <2>3, <3>1, JobsAssumption
    <3>2. CASE jbCall[u].job # j
      BY <2>2, <3>2 DEF JobLeft, JobAlike
    <3> QED  BY <3>1, <3>2
  <2> QED  BY <1>2, <2>1, <2>4 DEF JobAims
<1>3. \A u \in Owners : JobAims(u, jbCall[u])'
  BY <1>2
<1> QED  BY <1>1, <1>3 DEF JobsInv

\* What JobsInv says of a call that is under way, and of its job.
LEMMA JobNow ==
  ASSUME JobsInv, NEW o \in Owners, jbCall[o].pc # "idle"
  PROVE  /\ jbCall[o] \in JobCalls /\ jbCall[o].job \in Jobs /\ jbJob[jbCall[o].job] \in JobRecords
         /\ jbJob[jbCall[o].job].status # "none" /\ jbJob[jbCall[o].job].owner \in Owners
         /\ jbProd[jbCall[o].job] \in {"none", "run", "settle", "notify", "gone"}
         /\ jbCall[o].pc \notin {"output", "output-wait", "kill"} => jbJob[jbCall[o].job].owner = o
         /\ JobKept(jbCall[o].job)
<1>1. jbCall[o] \in JobCalls /\ JobAims(o, jbCall[o])
  BY DEF JobsInv, JobsTyped
<1>2. jbCall[o].job \in Jobs
  BY <1>1 DEF JobAims, JobCalls
<1>3. jbJob[jbCall[o].job] \in JobRecords /\ JobKept(jbCall[o].job) /\ jbProd[jbCall[o].job] \in {"none", "run", "settle", "notify", "gone"}
  BY <1>2 DEF JobsInv, JobsTyped
<1>4. jbJob[jbCall[o].job].status # "none" /\ jbJob[jbCall[o].job].owner \in Owners
  BY <1>1, <1>2, <1>3, JobsAssumption DEF JobAims, JobKept, JobFacts, JobBegun
<1> QED  BY <1>1, <1>2, <1>3, <1>4 DEF JobAims

LEMMA JobStepIs ==
  ASSUME JobsTyped, NEW o \in Owners, NEW place \in JobCallPcs, Jb!Step(o, place)
  PROVE  /\ jbCall' \in [Owners -> JobCalls] /\ \A u \in Owners \ {o} : jbCall'[u] = jbCall[u]
         /\ jbCall'[o].pc = place /\ jbCall'[o].job = IF place = "idle" THEN "none" ELSE jbCall[o].job
         /\ \A u \in Owners : jbCall'[u].made <= MaxCalls[u]
<1>1. PICK c \in JobCalls : c = jbCall[o]
  BY DEF JobsTyped
<1> DEFINE j == IF place = "idle" THEN "none" ELSE c.job
           done == c.done /\ place # "idle"
           d == [[[c EXCEPT !.pc = place] EXCEPT !.job = j] EXCEPT !.done = done]
<1>2. jbCall' = [jbCall EXCEPT ![o] = d]
  BY <1>1 DEF Jb!Step, Jb!None, JobsTyped
<1>3. j \in Jobs \cup {"none"} /\ done \in BOOLEAN
  BY DEF JobCalls
<1> HIDE DEF done, j
<1>4. d \in JobCalls /\ d.pc = place /\ d.job = j /\ d.made = c.made
  BY <1>3 DEF JobCalls
<1> HIDE DEF d
<1>5. jbCall \in [Owners -> JobCalls] /\ \A u \in Owners : jbCall[u].made <= MaxCalls[u]
  BY DEF JobsTyped
<1>6. jbCall' \in [Owners -> JobCalls] /\ jbCall'[o] = d /\ \A u \in Owners \ {o} : jbCall'[u] = jbCall[u]
  BY <1>2, <1>4, <1>5
<1>7. \A u \in Owners : jbCall'[u].made <= MaxCalls[u]
  BY <1>1, <1>4, <1>5, <1>6
<1> QED  BY <1>1, <1>4, <1>6, <1>7 DEF j

\* The step of a call that leaves every job but its own alone.
LEMMA JobCallMoves ==
  ASSUME JobsInv, NEW o \in Owners, NEW j, j = jbCall[o].job, jbCall[o].pc # "idle", NEW place \in JobCallPcs, Jb!Step(o, place),
         jbJob' \in [Jobs -> JobRecords], jbProd' = jbProd, jbService' = jbService, jbBase' = jbBase, jbRelease' = jbRelease,
         jbTold' \subseteq Jobs, jbFinished' \subseteq Jobs, jbNoticed' \subseteq Jobs, jbDropped' \subseteq Jobs,
         \A k \in Jobs \ {j} : JobLeft(k),
         jbJob'[j].status # "none", jbJob'[j].owner = jbJob[j].owner,
         place \notin {"idle", "output", "output-wait", "kill"} => jbJob[j].owner = o,
         jbJob[j].owner # o => JobLeft(j),
         jbJob[j].owner = o =>
           JobBegun(j, jbJob'[j], jbProd[j], jbCall'[o], JobQuiet(o), JobFreed(o), JobAccounted(j)', j \in jbNoticed', j \in jbFinished')
  PROVE  JobsInv'
<1>1. JobsTyped /\ j \in Jobs /\ JobKept(j) /\ jbJob[j].owner \in Owners
  BY JobNow DEF JobsInv
<1>2. /\ jbCall' \in [Owners -> JobCalls] /\ \A u \in Owners \ {o} : jbCall'[u] = jbCall[u]
      /\ jbCall'[o].pc = place /\ jbCall'[o].job = IF place = "idle" THEN "none" ELSE j
      /\ \A u \in Owners : jbCall'[u].made <= MaxCalls[u]
  BY <1>1, JobStepIs
<1>3. JobsTyped'
  BY <1>1, <1>2 DEF JobsTyped
<1>4. JobKept(j)'
  <2>1. CASE jbJob[j].owner = o
    <3>1. /\ JobQuiet(o)' <=> JobQuiet(o)
          /\ JobFreed(o)' <=> JobFreed(o)
      BY DEF JobQuiet, JobFreed
    <3>2. jbJob'[j].owner = o /\ jbProd'[j] = jbProd[j]
      BY <2>1
    <3>3. JobBegun(j, jbJob'[j], jbProd'[j], jbCall'[o], JobQuiet(o)', JobFreed(o)', JobAccounted(j)', j \in jbNoticed', j \in jbFinished')
      BY <2>1, <3>1, <3>2 DEF JobBegun
    <3> QED  BY <3>2, <3>3 DEF JobKept, JobFacts
  <2>2. CASE jbJob[j].owner # o
    BY <1>1, <1>2, <2>2, JobStays
  <2> QED  BY <2>1, <2>2
<1>5. JobAims(o, jbCall[o])'
  BY <1>1, <1>2, JobsAssumption DEF JobAims
<1> QED  BY <1>1, <1>2, <1>3, <1>4, <1>5, JobMoves

\* The step of a call that changes no job.
LEMMA JobGoes ==
  ASSUME JobsInv, NEW o \in Owners, NEW j, j = jbCall[o].job, jbCall[o].pc # "idle", NEW place \in JobCallPcs, Jb!Step(o, place),
         jbJob' = jbJob, jbProd' = jbProd, jbService' = jbService, jbBase' = jbBase, jbRelease' = jbRelease, UNCHANGED Jb!history,
         place \notin {"idle", "output", "output-wait", "kill"} => jbJob[j].owner = o,
         jbJob[j].owner = o =>
           JobBegun(j, jbJob[j], jbProd[j], jbCall'[o], JobQuiet(o), JobFreed(o), JobAccounted(j), j \in jbNoticed, j \in jbFinished)
  PROVE  JobsInv'
<1>1. JobsTyped /\ j \in Jobs /\ jbJob[j].status # "none"
  BY JobNow DEF JobsInv
<1>2. jbTold' = jbTold /\ jbFinished' = jbFinished /\ jbNoticed' = jbNoticed /\ jbDropped' = jbDropped
  BY DEF Jb!history
<1>3. \A k \in Jobs : JobLeft(k)
  BY <1>2 DEF JobLeft, JobAlike
<1>4. JobAccounted(j)' <=> JobAccounted(j)
  BY <1>2 DEF JobAccounted
<1>5. jbJob' \in [Jobs -> JobRecords] /\ jbTold' \subseteq Jobs /\ jbFinished' \subseteq Jobs /\ jbNoticed' \subseteq Jobs /\ jbDropped' \subseteq Jobs
  BY <1>1, <1>2 DEF JobsTyped
<1>6. jbJob[j].owner = o =>
        JobBegun(j, jbJob'[j], jbProd[j], jbCall'[o], JobQuiet(o), JobFreed(o), JobAccounted(j)', j \in jbNoticed', j \in jbFinished')
  BY <1>2, <1>4 DEF JobBegun
<1> QED  BY <1>1, <1>3, <1>5, <1>6, JobCallMoves

\* The job of a call, as JobsInv describes it.
LEMMA JobOwn ==
  ASSUME JobsInv, NEW o \in Owners, jbCall[o].pc # "idle", jbJob[jbCall[o].job].owner = o
  PROVE  JobBegun(jbCall[o].job, jbJob[jbCall[o].job], jbProd[jbCall[o].job], jbCall[o], JobQuiet(o), JobFreed(o),
                  JobAccounted(jbCall[o].job), jbCall[o].job \in jbNoticed, jbCall[o].job \in jbFinished)
BY JobNow DEF JobKept, JobFacts

LEMMA JobWaited ==
  ASSUME JobsInv, NEW o \in Owners, Jb!Wait(o)
  PROVE  JobsInv'
<1>1. PICK j : j = jbCall[o].job
  OBVIOUS
<1>2. PICK c : c = jbCall[o]
  OBVIOUS
<1>3. /\ c.pc \in {"wait", "output-wait", "reap"} /\ c.job = j /\ jbProd' = jbProd /\ jbRing' = jbRing /\ jbCursor' = jbCursor
      /\ jbService' = jbService /\ jbBase' = jbBase /\ jbRelease' = jbRelease /\ UNCHANGED Jb!history
      /\ \/ ~Jb!Found(o, j) /\ Jb!Step(o, Jb!AfterWait(c.pc, "error")) /\ jbJob' = jbJob
         \/ Jb!Found(o, j) /\ jbJob[j].status = "settled" /\ Jb!Step(o, Jb!AfterWait(c.pc, "settled")) /\ jbJob' = jbJob
         \/ /\ Jb!Found(o, j) /\ jbJob[j].status \in JobLive /\ Jb!Step(o, Jb!Waiting(c.pc))
            /\ jbJob' = [jbJob EXCEPT ![j].waiters = @ + 1]
  BY <1>1, <1>2 DEF Jb!Wait, Jb!output, Jb!system, Jb!Counted, Jb!Live, JobLive
<1>4. /\ jbCall[o].pc # "idle" /\ j \in Jobs /\ jbJob[j] \in JobRecords
      /\ c.pc # "output-wait" => jbJob[j].owner = o
      /\ JobsTyped /\ jbJob[j].status # "none"
  BY <1>1, <1>2, <1>3, JobNow DEF JobsInv
<1>5. jbJob[j].owner = o => JobBegun(j, jbJob[j], jbProd[j], c, JobQuiet(o), JobFreed(o), JobAccounted(j), j \in jbNoticed, j \in jbFinished)
  BY <1>1, <1>2, <1>4, JobOwn
<1>6. CASE ~Jb!Found(o, j) /\ Jb!Step(o, Jb!AfterWait(c.pc, "error")) /\ jbJob' = jbJob
  <2>1. PICK to \in {"abort", "idle", "drop"} : /\ to = Jb!AfterWait(c.pc, "error")
                                                /\ c.pc = "wait" => to = "abort"
                                                /\ c.pc = "reap" => to = "drop"
                                                /\ c.pc = "output-wait" => to = "idle"
    BY <1>3 DEF Jb!AfterWait
  <2>2. to \in JobCallPcs /\ Jb!Step(o, to)
    BY <1>6, <2>1 DEF JobCallPcs, JobCollects, JobHeld, JobCut, JobEnds
  <2>3. jbCall'[o].pc = to /\ jbCall'[o].job = IF to = "idle" THEN "none" ELSE j
    BY <1>1, <1>4, <2>2, JobStepIs
  <2>4. jbJob[j].owner = o /\ JobQuiet(o) => ~jbJob[j].listed
    BY <1>6 DEF Jb!Found, JobQuiet
  <2>5. jbJob[j].owner = o =>
          JobBegun(j, jbJob[j], jbProd[j], jbCall'[o], JobQuiet(o), JobFreed(o), JobAccounted(j), j \in jbNoticed, j \in jbFinished)
    BY <1>3, <1>4, <1>5, <2>1, <2>3, <2>4, JobsAssumption DEF JobBegun, JobAccount, JobWaits, JobHeld, JobEnds, JobCut, JobCollects, JobLive
  <2> QED  BY <1>1, <1>3, <1>4, <1>6, <2>1, <2>2, <2>5, JobGoes
<1>7. CASE Jb!Found(o, j) /\ jbJob[j].status = "settled" /\ Jb!Step(o, Jb!AfterWait(c.pc, "settled")) /\ jbJob' = jbJob
  <2>1. PICK to \in {"settled", "output", "drop"} : /\ to = Jb!AfterWait(c.pc, "settled")
                                                    /\ c.pc = "wait" => to = "settled"
                                                    /\ c.pc = "reap" => to = "drop"
                                                    /\ c.pc = "output-wait" => to = "output"
    BY <1>3 DEF Jb!AfterWait
  <2>2. to \in JobCallPcs /\ Jb!Step(o, to)
    BY <1>7, <2>1 DEF JobCallPcs, JobCollects, JobHeld, JobCut, JobEnds
  <2>3. jbCall'[o].pc = to /\ jbCall'[o].job = j
    BY <1>1, <1>4, <2>1, <2>2, JobStepIs
  <2>4. jbJob[j].owner = o =>
          JobBegun(j, jbJob[j], jbProd[j], jbCall'[o], JobQuiet(o), JobFreed(o), JobAccounted(j), j \in jbNoticed, j \in jbFinished)
    BY <1>3, <1>4, <1>5, <1>7, <2>1, <2>3 DEF JobBegun, JobAccount, JobWaits, JobHeld, JobEnds, JobCut, JobCollects, JobLive
  <2>5. Jb!Found(o, j) => jbJob[j].owner = o
    BY DEF Jb!Found
  <2> QED  BY <1>1, <1>3, <1>4, <1>7, <2>1, <2>2, <2>4, <2>5, JobGoes
<1>8. CASE /\ Jb!Found(o, j) /\ jbJob[j].status \in JobLive /\ Jb!Step(o, Jb!Waiting(c.pc))
           /\ jbJob' = [jbJob EXCEPT ![j].waiters = @ + 1]
  <2>1. PICK to \in {"waiting", "output-waiting", "reaping"} : /\ to = Jb!Waiting(c.pc)
                                                               /\ c.pc = "wait" => to = "waiting"
                                                               /\ c.pc = "reap" => to = "reaping"
                                                               /\ c.pc = "output-wait" => to = "output-waiting"
    BY <1>3 DEF Jb!Waiting
  <2>2. to \in JobCallPcs /\ Jb!Step(o, to)
    BY <1>8, <2>1 DEF JobCallPcs, JobCollects, JobHeld, JobCut, JobEnds
  <2>3. jbCall'[o].pc = to /\ jbCall'[o].job = j
    BY <1>1, <1>4, <2>1, <2>2, JobStepIs
  <2>4. jbJob[j].owner = o
    BY <1>8 DEF Jb!Found
  <2>5. PICK b \in JobRecords : b = jbJob[j]
    BY <1>4
  <2> DEFINE d == [b EXCEPT !.waiters = b.waiters + 1]
  <2>6. /\ d \in JobRecords /\ d.status = b.status /\ d.owner = b.owner /\ d.cause = b.cause /\ d.waiters = b.waiters + 1
        /\ d.foreground <=> b.foreground
        /\ d.listed <=> b.listed
    BY DEF JobRecords
  <2>7. jbJob' = [jbJob EXCEPT ![j] = d]
    BY <1>8, <2>5
  <2> HIDE DEF d
  <2>8. jbJob' \in [Jobs -> JobRecords] /\ jbJob'[j] = d /\ \A k \in Jobs \ {j} : jbJob'[k] = jbJob[k]
    BY <1>4, <2>6, <2>7 DEF JobsTyped
  <2>9. b.waiters = 0
    BY <1>3, <1>5, <1>8, <2>4, <2>5 DEF JobBegun, JobWaits
  <2>10. jbTold' = jbTold /\ jbFinished' = jbFinished /\ jbNoticed' = jbNoticed /\ jbDropped' = jbDropped
    BY <1>3 DEF Jb!history
  <2>11. \A k \in Jobs \ {j} : JobLeft(k)
    BY <1>3, <2>8, <2>10 DEF JobLeft, JobAlike
  <2>12. JobBegun(j, jbJob'[j], jbProd[j], jbCall'[o], JobQuiet(o), JobFreed(o), JobAccounted(j)', j \in jbNoticed', j \in jbFinished')
    BY <1>3, <1>5, <1>8, <2>1, <2>3, <2>4, <2>5, <2>6, <2>8, <2>9, <2>10
       DEF JobBegun, JobAccount, JobAccounted, JobWaits, JobHeld, JobEnds, JobCut, JobCollects, JobLive
  <2>13. jbTold' \subseteq Jobs /\ jbFinished' \subseteq Jobs /\ jbNoticed' \subseteq Jobs /\ jbDropped' \subseteq Jobs
    BY <1>4, <2>10 DEF JobsTyped
  <2> QED  BY <1>1, <1>3, <1>4, <1>8, <2>2, <2>4, <2>5, <2>6, <2>8, <2>11, <2>12, <2>13, JobCallMoves
<1> QED  BY <1>3, <1>6, <1>7, <1>8

LEMMA JobWaitReturns ==
  ASSUME JobsInv, NEW o \in Owners, Jb!WaitReturns(o)
  PROVE  JobsInv'
<1>1. PICK j : j = jbCall[o].job
  OBVIOUS
<1>2. PICK c : c = jbCall[o]
  OBVIOUS
<1>3. /\ c.pc \in {"waiting", "output-waiting", "reaping"} /\ c.job = j /\ jbProd' = jbProd
      /\ jbService' = jbService /\ jbBase' = jbBase /\ jbRelease' = jbRelease /\ UNCHANGED Jb!history
      /\ \/ jbJob[j].status = "settled" /\ Jb!Step(o, Jb!AfterWait(c.pc, "settled")) /\ jbJob' = jbJob
         \/ /\ jbJob[j].status \in JobLive /\ jbJob' = [jbJob EXCEPT ![j].waiters = @ - 1]
            /\ \E view \in {"error", "live"} : Jb!Step(o, Jb!AfterWait(c.pc, view))
  BY <1>1, <1>2 DEF Jb!WaitReturns, Jb!output, Jb!system, Jb!Uncounted, Jb!Live, JobLive
<1>4. /\ jbCall[o].pc # "idle" /\ j \in Jobs /\ jbJob[j] \in JobRecords /\ jbJob[j].owner = o
      /\ JobsTyped /\ jbJob[j].status # "none"
  BY <1>1, <1>2, <1>3, JobNow DEF JobsInv
<1>5. JobBegun(j, jbJob[j], jbProd[j], c, JobQuiet(o), JobFreed(o), JobAccounted(j), j \in jbNoticed, j \in jbFinished)
  BY <1>1, <1>2, <1>4, JobOwn
<1>6. CASE jbJob[j].status = "settled" /\ Jb!Step(o, Jb!AfterWait(c.pc, "settled")) /\ jbJob' = jbJob
  <2>1. PICK to \in {"settled", "output", "drop"} : /\ to = Jb!AfterWait(c.pc, "settled")
                                                    /\ c.pc = "waiting" => to = "settled"
                                                    /\ c.pc = "reaping" => to = "drop"
                                                    /\ c.pc = "output-waiting" => to = "output"
    BY <1>3 DEF Jb!AfterWait
  <2>2. to \in JobCallPcs /\ Jb!Step(o, to)
    BY <1>6, <2>1 DEF JobCallPcs, JobCollects, JobHeld, JobCut, JobEnds
  <2>3. jbCall'[o].pc = to /\ jbCall'[o].job = j
    BY <1>1, <1>4, <2>1, <2>2, JobStepIs
  <2>4. JobBegun(j, jbJob[j], jbProd[j], jbCall'[o], JobQuiet(o), JobFreed(o), JobAccounted(j), j \in jbNoticed, j \in jbFinished)
    BY <1>3, <1>4, <1>5, <1>6, <2>1, <2>3, SMTT(30) DEF JobBegun, JobAccount, JobWaits, JobHeld, JobEnds, JobCut, JobCollects, JobLive
  <2> QED  BY <1>1, <1>3, <1>4, <1>6, <2>2, <2>4, JobGoes
<1>7. CASE /\ jbJob[j].status \in JobLive /\ jbJob' = [jbJob EXCEPT ![j].waiters = @ - 1]
           /\ \E view \in {"error", "live"} : Jb!Step(o, Jb!AfterWait(c.pc, view))
  <2>0. PICK view \in {"error", "live"} : Jb!Step(o, Jb!AfterWait(c.pc, view))
    BY <1>7
  <2>1. PICK to \in {"abort", "live", "idle", "output", "drop"} : /\ to = Jb!AfterWait(c.pc, view)
                                                                  /\ c.pc = "waiting" => to \in {"abort", "live"}
                                                                  /\ c.pc = "reaping" => to = "drop"
                                                                  /\ c.pc = "output-waiting" => to \in {"idle", "output"}
    BY <1>3 DEF Jb!AfterWait
  <2>2. to \in JobCallPcs /\ Jb!Step(o, to)
    BY <2>0, <2>1 DEF JobCallPcs, JobCollects, JobHeld, JobCut, JobEnds
  <2>3. jbCall'[o].pc = to /\ jbCall'[o].job = IF to = "idle" THEN "none" ELSE j
    BY <1>1, <1>4, <2>2, JobStepIs
  <2>4. PICK b \in JobRecords : b = jbJob[j]
    BY <1>4
  <2>5. b.waiters = 1
    BY <1>3, <1>5, <1>7, <2>4 DEF JobBegun, JobWaits
  <2> DEFINE d == [b EXCEPT !.waiters = b.waiters - 1]
  <2>6. /\ d \in JobRecords /\ d.status = b.status /\ d.owner = b.owner /\ d.cause = b.cause /\ d.waiters = 0
        /\ d.foreground <=> b.foreground
        /\ d.listed <=> b.listed
    BY <2>5 DEF JobRecords
  <2>7. jbJob' = [jbJob EXCEPT ![j] = d]
    BY <1>7, <2>4
  <2> HIDE DEF d
  <2>8. jbJob' \in [Jobs -> JobRecords] /\ jbJob'[j] = d /\ \A k \in Jobs \ {j} : jbJob'[k] = jbJob[k]
    BY <1>4, <2>6, <2>7 DEF JobsTyped
  <2>9. jbTold' = jbTold /\ jbFinished' = jbFinished /\ jbNoticed' = jbNoticed /\ jbDropped' = jbDropped
    BY <1>3 DEF Jb!history
  <2>10. \A k \in Jobs \ {j} : JobLeft(k)
    BY <1>3, <2>8, <2>9 DEF JobLeft, JobAlike
  <2>11. JobBegun(j, jbJob'[j], jbProd[j], jbCall'[o], JobQuiet(o), JobFreed(o), JobAccounted(j)', j \in jbNoticed', j \in jbFinished')
    BY <1>3, <1>4, <1>5, <1>7, <2>1, <2>3, <2>4, <2>6, <2>8, <2>9, JobsAssumption
       DEF JobBegun, JobAccount, JobAccounted, JobWaits, JobHeld, JobEnds, JobCut, JobCollects, JobLive
  <2>12. jbTold' \subseteq Jobs /\ jbFinished' \subseteq Jobs /\ jbNoticed' \subseteq Jobs /\ jbDropped' \subseteq Jobs
    BY <1>4, <2>9 DEF JobsTyped
  <2> QED  BY <1>1, <1>3, <1>4, <2>2, <2>4, <2>6, <2>8, <2>10, <2>11, <2>12, JobCallMoves
<1> QED  BY <1>3, <1>6, <1>7

LEMMA JobForegroundResult ==
  ASSUME JobsInv, NEW o \in Owners, Jb!ForegroundResult(o)
  PROVE  JobsInv'
<1>1. PICK j : j = jbCall[o].job
  OBVIOUS
<1>2. PICK c : c = jbCall[o]
  OBVIOUS
<1> DEFINE to == IF c.done THEN "abort" ELSE IF c.pc = "settled" THEN "remove" ELSE "hand-over"
<1>3. /\ c.pc \in {"live", "settled"} /\ c.job = j /\ jbProd' = jbProd /\ jbJob' = jbJob
      /\ jbService' = jbService /\ jbBase' = jbBase /\ jbRelease' = jbRelease /\ UNCHANGED Jb!history
      /\ Jb!Step(o, to)
  BY <1>1, <1>2 DEF Jb!ForegroundResult, Jb!output, Jb!system
<1>4. /\ jbCall[o].pc # "idle" /\ j \in Jobs /\ jbJob[j] \in JobRecords /\ jbJob[j].owner = o
      /\ JobsTyped /\ jbJob[j].status # "none"
  BY <1>1, <1>2, <1>3, JobNow DEF JobsInv
<1>5. JobBegun(j, jbJob[j], jbProd[j], c, JobQuiet(o), JobFreed(o), JobAccounted(j), j \in jbNoticed, j \in jbFinished)
  BY <1>1, <1>2, <1>4, JobOwn
<1>6. to \in {"abort", "remove", "hand-over"} /\ (to = "remove" => c.pc = "settled")
  OBVIOUS
<1> HIDE DEF to
<1>7. to \in JobCallPcs
  BY <1>6 DEF JobCallPcs, JobCollects, JobHeld, JobCut, JobEnds
<1>8. jbCall'[o].pc = to /\ jbCall'[o].job = j
  BY <1>1, <1>3, <1>4, <1>6, <1>7, JobStepIs
<1>9. JobBegun(j, jbJob[j], jbProd[j], jbCall'[o], JobQuiet(o), JobFreed(o), JobAccounted(j), j \in jbNoticed, j \in jbFinished)
  BY <1>3, <1>4, <1>5, <1>6, <1>8 DEF JobBegun, JobAccount, JobWaits, JobHeld, JobEnds, JobCut, JobCollects, JobLive
<1> QED  BY <1>1, <1>3, <1>4, <1>7, <1>9, JobGoes

LEMMA JobRead ==
  ASSUME JobsInv, NEW o \in Owners, Jb!Read(o)
  PROVE  JobsInv'
<1>1. PICK j : j = jbCall[o].job
  OBVIOUS
<1>2. PICK c : c = jbCall[o]
  OBVIOUS
<1> DEFINE to == IF jbJob[j].status \in JobLive THEN "shown" ELSE IF c.pc = "output" THEN "ended" ELSE "remove"
<1>3. /\ c.pc \in {"hand-over", "output"} /\ c.job = j /\ jbProd' = jbProd
      /\ jbService' = jbService /\ jbBase' = jbBase /\ jbRelease' = jbRelease /\ UNCHANGED Jb!history
      /\ \/ ~Jb!Found(o, j) /\ Jb!Step(o, "idle") /\ jbJob' = jbJob
         \/ Jb!Found(o, j) /\ Jb!Step(o, to) /\ jbJob' = [jbJob EXCEPT ![j].foreground = FALSE]
  BY <1>1, <1>2 DEF Jb!Read, Jb!Reads, Jb!output, Jb!system, Jb!Live, JobLive
<1>4. /\ jbCall[o].pc # "idle" /\ j \in Jobs /\ jbJob[j] \in JobRecords
      /\ c.pc = "hand-over" => jbJob[j].owner = o
      /\ JobsTyped /\ jbJob[j].status # "none"
  BY <1>1, <1>2, <1>3, JobNow DEF JobsInv
<1>5. jbJob[j].owner = o => JobBegun(j, jbJob[j], jbProd[j], c, JobQuiet(o), JobFreed(o), JobAccounted(j), j \in jbNoticed, j \in jbFinished)
  BY <1>1, <1>2, <1>4, JobOwn
<1>6. CASE ~Jb!Found(o, j) /\ Jb!Step(o, "idle") /\ jbJob' = jbJob
  <2>1. "idle" \in JobCallPcs
    BY DEF JobCallPcs
  <2>2. jbCall'[o].pc = "idle" /\ jbCall'[o].job = "none"
    BY <1>1, <1>4, <1>6, <2>1, JobStepIs
  <2>3. jbJob[j].owner = o /\ JobQuiet(o) => ~jbJob[j].listed
    BY <1>6 DEF Jb!Found, JobQuiet
  <2>4. jbJob[j].owner = o =>
          JobBegun(j, jbJob[j], jbProd[j], jbCall'[o], JobQuiet(o), JobFreed(o), JobAccounted(j), j \in jbNoticed, j \in jbFinished)
    BY <1>3, <1>4, <1>5, <2>2, <2>3, JobsAssumption, SMTT(30) DEF JobBegun, JobAccount, JobWaits, JobHeld, JobEnds, JobCut, JobCollects, JobLive
  <2> QED  BY <1>1, <1>3, <1>4, <1>6, <2>1, <2>4, JobGoes
<1>7. CASE Jb!Found(o, j) /\ Jb!Step(o, to) /\ jbJob' = [jbJob EXCEPT ![j].foreground = FALSE]
  <2>1. PICK b \in JobRecords : b = jbJob[j]
    BY <1>4
  <2>2. /\ to \in {"shown", "ended", "remove"} /\ (to = "shown" <=> b.status \in JobLive)
        /\ to = "remove" => c.pc = "hand-over"
    BY <1>3, <2>1
  <2> HIDE DEF to
  <2>3. to \in JobCallPcs
    BY <2>2 DEF JobCallPcs, JobCollects, JobHeld, JobCut, JobEnds
  <2>4. jbCall'[o].pc = to /\ jbCall'[o].job = j
    BY <1>1, <1>4, <1>7, <2>2, <2>3, JobStepIs
  <2> DEFINE d == [b EXCEPT !.foreground = FALSE]
  <2>5. /\ d \in JobRecords /\ d.status = b.status /\ d.owner = b.owner /\ d.cause = b.cause /\ d.waiters = b.waiters
        /\ ~d.foreground
        /\ d.listed <=> b.listed
    BY DEF JobRecords
  <2>6. jbJob' = [jbJob EXCEPT ![j] = d]
    BY <1>7, <2>1
  <2> HIDE DEF d
  <2>7. jbJob' \in [Jobs -> JobRecords] /\ jbJob'[j] = d /\ \A k \in Jobs \ {j} : jbJob'[k] = jbJob[k]
    BY <1>4, <2>5, <2>6 DEF JobsTyped
  <2>8. jbTold' = jbTold /\ jbFinished' = jbFinished /\ jbNoticed' = jbNoticed /\ jbDropped' = jbDropped
    BY <1>3 DEF Jb!history
  <2>9. \A k \in Jobs \ {j} : JobLeft(k)
    BY <1>3, <2>7, <2>8 DEF JobLeft, JobAlike
  <2>10. jbJob[j].owner = o
    BY <1>7 DEF Jb!Found
  <2>11. b.status \in JobLive \/ b.status = "settled"
    BY <1>4, <2>1 DEF JobRecords, JobLive
  <2>12. JobBegun(j, jbJob'[j], jbProd[j], jbCall'[o], JobQuiet(o), JobFreed(o), JobAccounted(j)', j \in jbNoticed', j \in jbFinished')
    BY <1>3, <1>5, <2>1, <2>2, <2>4, <2>5, <2>7, <2>8, <2>10, <2>11
       DEF JobBegun, JobAccount, JobAccounted, JobWaits, JobHeld, JobEnds, JobCut, JobCollects, JobLive
  <2>13. jbTold' \subseteq Jobs /\ jbFinished' \subseteq Jobs /\ jbNoticed' \subseteq Jobs /\ jbDropped' \subseteq Jobs
    BY <1>4, <2>8 DEF JobsTyped
  <2>14. /\ jbJob'[j].status # "none" /\ jbJob'[j].owner = jbJob[j].owner
         /\ to \in JobCallPcs /\ Jb!Step(o, to) /\ jbCall[o].pc # "idle"
    BY <1>4, <1>7, <2>1, <2>3, <2>5, <2>7, Zenon
  <2>15. jbJob[j].owner # o => JobLeft(j)
    BY <2>10
  <2> QED  BY <1>1, <1>3, <2>7, <2>9, <2>10, <2>12, <2>13, <2>14, <2>15, JobCallMoves, ZenonT(60)
<1> QED  BY <1>3, <1>6, <1>7

LEMMA JobKill ==
  ASSUME JobsInv, NEW o \in Owners, Jb!Kill(o)
  PROVE  JobsInv'
<1>1. PICK j : j = jbCall[o].job
  OBVIOUS
<1>2. PICK c : c = jbCall[o]
  OBVIOUS
<1>3. /\ c.pc \in {"kill", "abort"} /\ c.job = j /\ jbProd' = jbProd
      /\ jbService' = jbService /\ jbBase' = jbBase /\ jbRelease' = jbRelease /\ UNCHANGED Jb!history
      /\ \/ Jb!Found(o, j) /\ Jb!Step(o, IF c.pc = "kill" THEN "ended" ELSE "reap") /\ Jb!Kills(j)
         \/ ~Jb!Found(o, j) /\ Jb!Step(o, IF c.pc = "kill" THEN "idle" ELSE "reap") /\ jbJob' = jbJob
  BY <1>1, <1>2 DEF Jb!Kill, Jb!output, Jb!system
<1>4. /\ jbCall[o].pc # "idle" /\ j \in Jobs /\ jbJob[j] \in JobRecords
      /\ c.pc = "abort" => jbJob[j].owner = o
      /\ JobsTyped /\ jbJob[j].status # "none"
  BY <1>1, <1>2, <1>3, JobNow DEF JobsInv
<1>5. jbJob[j].owner = o => JobBegun(j, jbJob[j], jbProd[j], c, JobQuiet(o), JobFreed(o), JobAccounted(j), j \in jbNoticed, j \in jbFinished)
  BY <1>1, <1>2, <1>4, JobOwn
<1>6. CASE jbJob' = jbJob /\ ~Jb!Found(o, j)
  <2> DEFINE to == IF c.pc = "kill" THEN "idle" ELSE "reap"
  <2>1. Jb!Step(o, to) /\ to \in {"idle", "reap"} /\ (to = "idle" => c.pc = "kill") /\ (to = "reap" => c.pc = "abort")
    BY <1>3, <1>6
  <2> HIDE DEF to
  <2>2. to \in JobCallPcs
    BY <2>1 DEF JobCallPcs, JobCollects, JobHeld, JobCut, JobEnds
  <2>3. jbCall'[o].pc = to /\ jbCall'[o].job = IF to = "idle" THEN "none" ELSE j
    BY <1>1, <1>4, <2>1, <2>2, JobStepIs
  <2>4. jbJob[j].owner = o =>
          JobBegun(j, jbJob[j], jbProd[j], jbCall'[o], JobQuiet(o), JobFreed(o), JobAccounted(j), j \in jbNoticed, j \in jbFinished)
    BY <1>3, <1>4, <1>5, <2>1, <2>3, JobsAssumption DEF JobBegun, JobAccount, JobWaits, JobHeld, JobEnds, JobCut, JobCollects, JobLive
  <2> QED  BY <1>1, <1>3, <1>4, <1>6, <2>1, <2>2, <2>4, JobGoes
<1>7. CASE Jb!Found(o, j) /\ Jb!Step(o, IF c.pc = "kill" THEN "ended" ELSE "reap") /\ Jb!Kills(j)
  <2> DEFINE to == IF c.pc = "kill" THEN "ended" ELSE "reap"
  <2>1. Jb!Step(o, to) /\ to \in {"ended", "reap"} /\ (to = "ended" => c.pc = "kill") /\ (to = "reap" => c.pc = "abort")
    BY <1>3, <1>7
  <2> HIDE DEF to
  <2>2. to \in JobCallPcs
    BY <2>1 DEF JobCallPcs, JobCollects, JobHeld, JobCut, JobEnds
  <2>3. jbCall'[o].pc = to /\ jbCall'[o].job = j
    BY <1>1, <1>4, <2>1, <2>2, JobStepIs
  <2>4. jbJob[j].owner = o
    BY <1>7 DEF Jb!Found
  <2>5. CASE jbJob[j].status \notin JobLive
    <3>1. jbJob' = jbJob /\ jbJob[j].status = "settled"
      BY <1>4, <1>7, <2>5 DEF Jb!Kills, Jb!Live, JobLive, JobRecords
    <3>2. JobBegun(j, jbJob[j], jbProd[j], jbCall'[o], JobQuiet(o), JobFreed(o), JobAccounted(j), j \in jbNoticed, j \in jbFinished)
      BY <1>3, <1>5, <2>1, <2>3, <2>4, <3>1, SMTT(30) DEF JobBegun, JobAccount, JobWaits, JobHeld, JobEnds, JobCut, JobCollects, JobLive
    <3> QED  BY <1>1, <1>3, <1>4, <2>1, <2>2, <2>4, <3>1, <3>2, JobGoes
  <2>6. CASE jbJob[j].status \in JobLive
    <3>1. PICK b \in JobRecords : b = jbJob[j]
      BY <1>4
    <3> DEFINE d == [[b EXCEPT !.status = "stopping"] EXCEPT !.cause = "kill"]
    <3>2. /\ d \in JobRecords /\ d.status = "stopping" /\ d.owner = b.owner /\ d.cause = "kill" /\ d.waiters = b.waiters
          /\ d.foreground <=> b.foreground
          /\ d.listed <=> b.listed
      BY DEF JobRecords
    <3>3. jbJob' = [jbJob EXCEPT ![j].status = "stopping", ![j].cause = "kill"]
      BY <1>7, <2>6 DEF Jb!Kills, Jb!Live, JobLive
    <3>4. jbJob' = [jbJob EXCEPT ![j] = d]
      BY <1>4, <3>1, <3>3 DEF JobsTyped
    <3> HIDE DEF d
    <3>5. jbJob' \in [Jobs -> JobRecords] /\ jbJob'[j] = d /\ \A k \in Jobs \ {j} : jbJob'[k] = jbJob[k]
      BY <1>4, <3>2, <3>4 DEF JobsTyped
    <3>6. jbTold' = jbTold /\ jbFinished' = jbFinished /\ jbNoticed' = jbNoticed /\ jbDropped' = jbDropped
      BY <1>3 DEF Jb!history
    <3>7. \A k \in Jobs \ {j} : JobLeft(k)
      BY <1>3, <3>5, <3>6 DEF JobLeft, JobAlike
    <3>8. JobBegun(j, jbJob'[j], jbProd[j], jbCall'[o], JobQuiet(o), JobFreed(o), JobAccounted(j)', j \in jbNoticed', j \in jbFinished')
      BY <1>3, <1>5, <2>1, <2>3, <2>4, <2>6, <3>1, <3>2, <3>5, <3>6
         DEF JobBegun, JobAccount, JobAccounted, JobWaits, JobHeld, JobEnds, JobCut, JobCollects, JobLive
    <3>9. jbTold' \subseteq Jobs /\ jbFinished' \subseteq Jobs /\ jbNoticed' \subseteq Jobs /\ jbDropped' \subseteq Jobs
      BY <1>4, <3>6 DEF JobsTyped
    <3> QED  BY <1>1, <1>3, <1>4, <2>1, <2>2, <2>4, <3>1, <3>2, <3>5, <3>7, <3>8, <3>9, JobCallMoves
  <2> QED  BY <2>5, <2>6
<1> QED  BY <1>3, <1>6, <1>7

LEMMA JobForgets ==
  ASSUME JobsTyped, NEW js, Jb!Forget(js)
  PROVE  /\ jbJob' \in [Jobs -> JobRecords]
         /\ \A k \in Jobs : /\ jbJob'[k].status = jbJob[k].status /\ jbJob'[k].owner = jbJob[k].owner
                            /\ jbJob'[k].cause = jbJob[k].cause /\ jbJob'[k].waiters = jbJob[k].waiters
                            /\ jbJob'[k].foreground <=> jbJob[k].foreground
                            /\ jbJob'[k].listed <=> jbJob[k].listed /\ k \notin js
<1>1. jbJob' = [k \in Jobs |-> [jbJob[k] EXCEPT !.listed = @ /\ k \notin js]]
  BY DEF Jb!Forget
<1>2. ASSUME NEW k \in Jobs
      PROVE  /\ jbJob'[k] \in JobRecords
             /\ jbJob'[k].status = jbJob[k].status /\ jbJob'[k].owner = jbJob[k].owner
             /\ jbJob'[k].cause = jbJob[k].cause /\ jbJob'[k].waiters = jbJob[k].waiters
             /\ jbJob'[k].foreground <=> jbJob[k].foreground
             /\ jbJob'[k].listed <=> jbJob[k].listed /\ k \notin js
  <2>1. PICK b \in JobRecords : b = jbJob[k]
    BY DEF JobsTyped
  <2> DEFINE listed == b.listed /\ k \notin js
             d == [b EXCEPT !.listed = listed]
  <2>2. jbJob'[k] = d
    BY <1>1, <2>1
  <2>3. listed \in BOOLEAN
    OBVIOUS
  <2>4. listed <=> b.listed /\ k \notin js
    OBVIOUS
  <2> HIDE DEF listed
  <2>5. /\ d \in JobRecords /\ d.status = b.status /\ d.owner = b.owner /\ d.cause = b.cause /\ d.waiters = b.waiters
        /\ d.foreground = b.foreground /\ d.listed = listed
    BY <2>3 DEF JobRecords
  <2> HIDE DEF d
  <2> QED  BY <2>1, <2>2, <2>4, <2>5
<1>3. jbJob' \in [Jobs -> JobRecords]
  BY <1>1, <1>2
<1> QED  BY <1>2, <1>3

LEMMA JobRemove ==
  ASSUME JobsInv, NEW o \in Owners, Jb!Remove(o)
  PROVE  JobsInv'
<1>1. PICK j : j = jbCall[o].job
  OBVIOUS
<1>2. PICK c : c = jbCall[o]
  OBVIOUS
<1> DEFINE to == IF c.pc = "remove" THEN "finished" ELSE "idle"
           js == {k \in {j} : Jb!Found(o, k) /\ jbJob[k].status = "settled"}
<1>3. /\ c.pc \in {"remove", "drop"} /\ c.job = j /\ jbProd' = jbProd
      /\ jbService' = jbService /\ jbBase' = jbBase /\ jbRelease' = jbRelease
      /\ jbTold' = jbTold /\ jbFinished' = jbFinished /\ jbNoticed' = jbNoticed
      /\ jbDropped' = IF c.pc = "drop" THEN jbDropped \cup {j} ELSE jbDropped
      /\ Jb!Step(o, to) /\ Jb!Forget(js)
  BY <1>1, <1>2 DEF Jb!Remove, Jb!system
<1>4. /\ jbCall[o].pc # "idle" /\ j \in Jobs /\ jbJob[j] \in JobRecords /\ jbJob[j].owner = o
      /\ JobsTyped /\ jbJob[j].status # "none"
  BY <1>1, <1>2, <1>3, JobNow DEF JobsInv
<1>5. JobBegun(j, jbJob[j], jbProd[j], c, JobQuiet(o), JobFreed(o), JobAccounted(j), j \in jbNoticed, j \in jbFinished)
  BY <1>1, <1>2, <1>4, JobOwn
<1>6. /\ to \in {"finished", "idle"} /\ (to = "finished" <=> c.pc = "remove") /\ (to = "idle" <=> c.pc = "drop")
      /\ to \in JobCallPcs
  BY <1>3 DEF JobCallPcs, JobCollects, JobHeld, JobCut, JobEnds
<1>7. \A k \in Jobs \ {j} : k \notin js
  OBVIOUS
<1>8. j \in js => jbJob[j].status = "settled"
  OBVIOUS
<1>9. jbJob[j].status = "settled" /\ jbJob[j].listed /\ JobQuiet(o) => j \in js
  BY <1>4 DEF Jb!Found, JobQuiet
<1> HIDE DEF to, js
<1>10. jbCall'[o].pc = to /\ jbCall'[o].job = IF to = "idle" THEN "none" ELSE j
  BY <1>1, <1>3, <1>4, <1>6, JobStepIs
<1>11. /\ jbJob' \in [Jobs -> JobRecords]
       /\ \A k \in Jobs : /\ jbJob'[k].status = jbJob[k].status /\ jbJob'[k].owner = jbJob[k].owner
                          /\ jbJob'[k].cause = jbJob[k].cause /\ jbJob'[k].waiters = jbJob[k].waiters
                          /\ jbJob'[k].foreground <=> jbJob[k].foreground
                          /\ jbJob'[k].listed <=> jbJob[k].listed /\ k \notin js
  BY <1>3, <1>4, JobForgets
<1>12. \A k \in Jobs \ {j} : JobLeft(k)
  BY <1>3, <1>7, <1>11 DEF JobLeft, JobAlike
<1>13. JobAccounted(j)' <=> JobAccounted(j) \/ c.pc = "drop"
  BY <1>3 DEF JobAccounted
<1>14. JobBegun(j, jbJob'[j], jbProd[j], jbCall'[o], JobQuiet(o), JobFreed(o), JobAccounted(j)', j \in jbNoticed', j \in jbFinished')
  BY <1>3, <1>4, <1>5, <1>6, <1>8, <1>10, <1>11, <1>13, JobsAssumption
     DEF JobBegun, JobAccount, JobWaits, JobHeld, JobEnds, JobCut, JobCollects, JobLive
<1>15. jbTold' \subseteq Jobs /\ jbFinished' \subseteq Jobs /\ jbNoticed' \subseteq Jobs /\ jbDropped' \subseteq Jobs
  BY <1>3, <1>4 DEF JobsTyped
<1> QED  BY <1>1, <1>3, <1>4, <1>6, <1>11, <1>12, <1>14, <1>15, JobCallMoves

LEMMA JobReturn ==
  ASSUME JobsInv, NEW o \in Owners, Jb!Return(o)
  PROVE  JobsInv'
<1>1. PICK j : j = jbCall[o].job
  OBVIOUS
<1>2. PICK c : c = jbCall[o]
  OBVIOUS
<1> DEFINE ends == {k \in {j} : c.pc \in {"ended", "finished"} /\ jbJob[k].owner = o}
<1>3. /\ c.pc \in {"started", "shown", "ended", "finished"} /\ c.job = j /\ jbProd' = jbProd /\ jbJob' = jbJob
      /\ jbService' = jbService /\ jbBase' = jbBase /\ jbRelease' = jbRelease /\ jbNoticed' = jbNoticed
      /\ Jb!Step(o, "idle")
      /\ \/ jbDropped' = jbDropped \cup ends /\ jbTold' = jbTold /\ jbFinished' = jbFinished
         \/ /\ jbTold' = jbTold \cup ends /\ jbDropped' = jbDropped
            /\ jbFinished' = IF c.pc = "finished" THEN jbFinished \cup ends ELSE jbFinished
  BY <1>1, <1>2 DEF Jb!Return, Jb!system, Jb!output
<1>4. /\ jbCall[o].pc # "idle" /\ j \in Jobs /\ jbJob[j] \in JobRecords /\ jbJob[j].owner = o
      /\ JobsTyped /\ jbJob[j].status # "none" /\ "idle" \in JobCallPcs
  BY <1>1, <1>2, <1>3, JobNow DEF JobsInv, JobCallPcs
<1>5. JobBegun(j, jbJob[j], jbProd[j], c, JobQuiet(o), JobFreed(o), JobAccounted(j), j \in jbNoticed, j \in jbFinished)
  BY <1>1, <1>2, <1>4, JobOwn
<1>6. /\ ends \subseteq {j}
      /\ j \in ends <=> c.pc \in {"ended", "finished"}
  BY <1>4
<1> HIDE DEF ends
<1>7. jbCall'[o].pc = "idle" /\ jbCall'[o].job = "none"
  BY <1>1, <1>3, <1>4, JobStepIs
<1>8. \A k \in Jobs \ {j} : JobLeft(k)
  BY <1>3, <1>6 DEF JobLeft, JobAlike
<1>9. /\ JobAccounted(j)' <=> JobAccounted(j) \/ c.pc \in {"ended", "finished"}
      /\ j \in jbFinished' => j \in jbFinished \/ c.pc = "finished"
  BY <1>3, <1>6 DEF JobAccounted
<1>10. JobBegun(j, jbJob'[j], jbProd[j], jbCall'[o], JobQuiet(o), JobFreed(o), JobAccounted(j)', j \in jbNoticed', j \in jbFinished')
  BY <1>3, <1>4, <1>5, <1>7, <1>9, JobsAssumption
     DEF JobBegun, JobAccount, JobWaits, JobHeld, JobEnds, JobCut, JobCollects, JobLive
<1>11. jbTold' \subseteq Jobs /\ jbFinished' \subseteq Jobs /\ jbNoticed' \subseteq Jobs /\ jbDropped' \subseteq Jobs
  BY <1>3, <1>4, <1>6 DEF JobsTyped
<1>12. jbJob' \in [Jobs -> JobRecords]
  BY <1>3, <1>4 DEF JobsTyped
<1> QED  BY <1>1, <1>3, <1>4, <1>8, <1>10, <1>11, <1>12, JobCallMoves

\* The turn of a call is cancelled, and a call is dispatched on a job.
LEMMA JobAbort ==
  ASSUME JobsInv, NEW o \in Owners, Jb!Abort(o)
  PROVE  JobsInv'
<1>1. PICK c \in JobCalls : c = jbCall[o]
  BY DEF JobsInv, JobsTyped
<1> DEFINE d == [c EXCEPT !.done = TRUE]
<1>2. /\ jbCall' = [jbCall EXCEPT ![o] = d] /\ c.pc # "idle" /\ jbJob' = jbJob /\ jbProd' = jbProd
      /\ jbService' = jbService /\ jbBase' = jbBase /\ jbRelease' = jbRelease
      /\ jbTold' = jbTold /\ jbFinished' = jbFinished /\ jbNoticed' = jbNoticed /\ jbDropped' = jbDropped
  BY <1>1 DEF Jb!Abort, Jb!history
<1>3. d \in JobCalls /\ d.pc = c.pc /\ d.job = c.job /\ d.made = c.made
  BY DEF JobCalls
<1> HIDE DEF d
<1>4. JobsTyped /\ JobAims(o, jbCall[o]) /\ c.job \in Jobs /\ jbJob[c.job].status # "none" /\ JobKept(c.job)
  BY <1>1, <1>2, JobNow DEF JobsInv
<1>5. jbCall' \in [Owners -> JobCalls] /\ jbCall'[o] = d /\ \A u \in Owners \ {o} : jbCall'[u] = jbCall[u]
  BY <1>2, <1>3, <1>4 DEF JobsTyped
<1>6. JobsTyped'
  BY <1>1, <1>2, <1>3, <1>4, <1>5 DEF JobsTyped
<1>7. JobAims(o, jbCall[o])'
  BY <1>1, <1>2, <1>3, <1>4, <1>5 DEF JobAims
<1>8. \A k \in Jobs : JobLeft(k)
  BY <1>2 DEF JobLeft, JobAlike
<1>9. JobKept(c.job)'
  <2>1. PICK j \in Jobs : j = c.job
    BY <1>4
  <2>2. PICK u : u = jbJob[j].owner
    OBVIOUS
  <2>3. u \in Owners /\ JobBegun(j, jbJob[j], jbProd[j], jbCall[u], JobQuiet(u), JobFreed(u), JobAccounted(j), j \in jbNoticed, j \in jbFinished)
    BY <1>4, <2>1, <2>2 DEF JobKept, JobFacts, JobBegun
  <2>4. jbCall'[u].pc = jbCall[u].pc /\ jbCall'[u].job = jbCall[u].job
    BY <1>1, <1>3, <1>5, <2>3
  <2>5. JobBegun(j, jbJob'[j], jbProd'[j], jbCall'[u], JobQuiet(u)', JobFreed(u)', JobAccounted(j)', j \in jbNoticed', j \in jbFinished')
    BY <1>2, <2>3, <2>4 DEF JobBegun, JobAccount, JobQuiet, JobFreed, JobAccounted
  <2> QED  BY <1>2, <1>4, <2>1, <2>2, <2>5 DEF JobKept, JobFacts
<1>10. PICK j \in Jobs : j = c.job
  BY <1>4
<1>11. jbJob'[j].status # "none" /\ jbJob[j].owner = jbJob'[j].owner
  BY <1>2, <1>4, <1>10
<1>12. JobKept(j)'
  BY <1>9, <1>10
<1> QED  BY <1>1, <1>2, <1>3, <1>5, <1>6, <1>7, <1>8, <1>10, <1>11, <1>12, JobMoves

LEMMA JobDispatched ==
  ASSUME JobsTyped, NEW o \in Owners, NEW j \in Jobs, NEW place \in JobCallPcs, Jb!Dispatch(o, place, j)
  PROVE  /\ jbCall' \in [Owners -> JobCalls] /\ \A u \in Owners \ {o} : jbCall'[u] = jbCall[u]
         /\ jbCall'[o].pc = place /\ jbCall'[o].job = j
         /\ \A u \in Owners : jbCall'[u].made <= MaxCalls[u]
<1>1. PICK n \in Nat : n = jbCall[o].made
  BY DEF JobsTyped, JobCalls
<1> DEFINE d == [pc |-> place, job |-> j, done |-> FALSE, made |-> n + 1]
<1>2. jbCall' = [jbCall EXCEPT ![o] = d] /\ n < MaxCalls[o]
  BY <1>1 DEF Jb!Dispatch, JobsTyped
<1>3. d \in JobCalls /\ d.pc = place /\ d.job = j /\ d.made = n + 1
  BY DEF JobCalls
<1> HIDE DEF d
<1>4. jbCall' \in [Owners -> JobCalls] /\ jbCall'[o] = d /\ \A u \in Owners \ {o} : jbCall'[u] = jbCall[u]
  BY <1>2, <1>3 DEF JobsTyped
<1>5. MaxCalls[o] \in Nat /\ n + 1 <= MaxCalls[o]
  BY <1>2, JobsAssumption
<1>6. \A u \in Owners : jbCall'[u].made <= MaxCalls[u]
  BY <1>3, <1>4, <1>5 DEF JobsTyped
<1> QED  BY <1>3, <1>4, <1>6

LEMMA JobStart ==
  ASSUME JobsInv, NEW o \in Owners, NEW j \in Jobs, NEW place \in {"output", "output-wait", "kill"}, Jb!Start(o, j, place)
  PROVE  JobsInv'
<1>1. /\ JobsTyped /\ JobAims(o, jbCall[o]) /\ JobKept(j) /\ jbJob[j].status # "none"
      /\ jbCall[o].pc = "idle" /\ jbCall[o].job = "none" /\ Jb!Dispatch(o, place, j)
  BY DEF JobsInv, JobAims, Jb!Start, Jb!Dispatch, Jb!None
<1>2. /\ jbJob' = jbJob /\ jbProd' = jbProd /\ jbService' = jbService /\ jbBase' = jbBase /\ jbRelease' = jbRelease
      /\ jbTold' = jbTold /\ jbFinished' = jbFinished /\ jbNoticed' = jbNoticed /\ jbDropped' = jbDropped
  BY DEF Jb!Start, Jb!output, Jb!system, Jb!history
<1>3. place \in JobCallPcs
  BY DEF JobCallPcs, JobCollects
<1>4. /\ jbCall' \in [Owners -> JobCalls] /\ \A u \in Owners \ {o} : jbCall'[u] = jbCall[u]
      /\ jbCall'[o].pc = place /\ jbCall'[o].job = j
      /\ \A u \in Owners : jbCall'[u].made <= MaxCalls[u]
  BY <1>1, <1>3, JobDispatched
<1>5. JobsTyped'
  BY <1>1, <1>2, <1>4 DEF JobsTyped
<1>6. JobAims(o, jbCall[o])'
  BY <1>1, <1>2, <1>4, JobsAssumption DEF JobAims
<1>7. \A k \in Jobs : JobLeft(k)
  BY <1>2 DEF JobLeft, JobAlike
<1>8. JobKept(j)'
  <2>1. PICK u : u = jbJob[j].owner
    OBVIOUS
  <2>2. u \in Owners /\ JobBegun(j, jbJob[j], jbProd[j], jbCall[u], JobQuiet(u), JobFreed(u), JobAccounted(j), j \in jbNoticed, j \in jbFinished)
    BY <1>1, <2>1 DEF JobKept, JobFacts, JobBegun
  <2>3. JobBegun(j, jbJob'[j], jbProd'[j], jbCall'[u], JobQuiet(u)', JobFreed(u)', JobAccounted(j)', j \in jbNoticed', j \in jbFinished')
    <3>1. CASE u = o
      BY <1>1, <1>2, <1>4, <2>2, <3>1, JobsAssumption
         DEF JobBegun, JobAccount, JobQuiet, JobFreed, JobAccounted, JobWaits, JobHeld, JobEnds, JobCut, JobCollects
    <3>2. CASE u # o
      BY <1>2, <1>4, <2>2, <3>2 DEF JobBegun, JobAccount, JobQuiet, JobFreed, JobAccounted
    <3> QED  BY <3>1, <3>2
  <2> QED  BY <1>1, <1>2, <2>1, <2>3 DEF JobKept, JobFacts
<1> QED  BY <1>1, <1>2, <1>4, <1>5, <1>6, <1>7, <1>8, JobMoves

LEMMA JobLaunch ==
  ASSUME JobsInv, NEW o \in Owners, NEW j \in Jobs, NEW f \in BOOLEAN, Jb!Launch(o, j, f)
  PROVE  JobsInv'
<1> DEFINE place == IF f THEN "wait" ELSE "started"
           b == [[[[Jb!NoJob EXCEPT !.status = "running"] EXCEPT !.owner = o] EXCEPT !.foreground = f] EXCEPT !.listed = TRUE]
<1>1. /\ JobsTyped /\ JobAims(o, jbCall[o]) /\ JobKept(j) /\ jbJob[j].status = "none" /\ jbRelease[o] = "none"
      /\ jbCall[o].pc = "idle" /\ jbCall[o].job = "none" /\ Jb!Dispatch(o, place, j)
  BY DEF JobsInv, JobAims, Jb!Launch, Jb!Dispatch, Jb!None
<1>2. /\ jbJob' = [jbJob EXCEPT ![j] = b] /\ jbProd' = [jbProd EXCEPT ![j] = "run"]
      /\ jbService' = jbService /\ jbBase' = jbBase /\ jbRelease' = jbRelease
      /\ jbTold' = jbTold /\ jbFinished' = jbFinished /\ jbNoticed' = jbNoticed /\ jbDropped' = jbDropped
  BY DEF Jb!Launch, Jb!output, Jb!system, Jb!history
<1>3. /\ b \in JobRecords /\ b.status = "running" /\ b.owner = o /\ b.cause = "producer" /\ b.waiters = 0
      /\ b.foreground <=> f
      /\ b.listed
  BY DEF JobRecords, Jb!NoJob, Jb!None
<1>4. place \in {"wait", "started"} /\ (f <=> place = "wait") /\ place \in JobCallPcs
  BY DEF JobCallPcs, JobCollects, JobHeld
<1> HIDE DEF b, place
<1>5. /\ jbCall' \in [Owners -> JobCalls] /\ \A u \in Owners \ {o} : jbCall'[u] = jbCall[u]
      /\ jbCall'[o].pc = place /\ jbCall'[o].job = j
      /\ \A u \in Owners : jbCall'[u].made <= MaxCalls[u]
  BY <1>1, <1>4, JobDispatched
<1>6. /\ jbJob' \in [Jobs -> JobRecords] /\ jbJob'[j] = b /\ \A k \in Jobs \ {j} : jbJob'[k] = jbJob[k]
      /\ jbProd' \in [Jobs -> {"none", "run", "settle", "notify", "gone"}] /\ jbProd'[j] = "run"
      /\ \A k \in Jobs \ {j} : jbProd'[k] = jbProd[k]
  BY <1>1, <1>2, <1>3 DEF JobsTyped
<1>7. JobsTyped'
  BY <1>1, <1>2, <1>5, <1>6 DEF JobsTyped
<1>8. JobAims(o, jbCall[o])'
  BY <1>3, <1>4, <1>5, <1>6, JobsAssumption DEF JobAims
<1>9. \A k \in Jobs \ {j} : JobLeft(k)
  BY <1>2, <1>6 DEF JobLeft, JobAlike
<1>10. jbJob[j].owner = "none" /\ j \notin jbNoticed /\ j \notin jbFinished
  BY <1>1 DEF JobKept, JobFacts
<1>11. JobKept(j)'
  <2>1. ~JobFreed(o)'
    BY <1>1, <1>2 DEF JobFreed
  <2>2. j \notin jbNoticed' /\ j \notin jbFinished'
    BY <1>2, <1>10
  <2>3. JobBegun(j, jbJob'[j], jbProd'[j], jbCall'[o], JobQuiet(o)', JobFreed(o)', JobAccounted(j)', j \in jbNoticed', j \in jbFinished')
    BY <1>3, <1>4, <1>5, <1>6, <2>1, <2>2
       DEF JobBegun, JobAccount, JobWaits, JobHeld, JobEnds, JobCut, JobCollects, JobLive
  <2>4. jbJob'[j].owner = o /\ jbJob'[j].status = "running"
    BY <1>3, <1>6
  <2> QED  BY <2>3, <2>4 DEF JobKept, JobFacts
<1>12. jbJob'[j].status # "none"
  BY <1>3, <1>6
<1> QED  BY <1>1, <1>2, <1>5, <1>7, <1>8, <1>9, <1>10, <1>11, <1>12, JobMoves

\* The producer of a job.
LEMMA JobProduces ==
  ASSUME JobsInv, NEW j \in Jobs, Jb!Write(j) \/ Jb!Produced(j) \/ Jb!Settle(j) \/ Jb!Notify(j)
  PROVE  JobsInv'
<1>1. /\ JobsTyped /\ JobKept(j) /\ jbJob[j] \in JobRecords /\ jbProd[j] \in {"none", "run", "settle", "notify", "gone"}
      /\ jbCall' = jbCall /\ jbService' = jbService /\ jbBase' = jbBase /\ jbRelease' = jbRelease
      /\ jbTold' = jbTold /\ jbFinished' = jbFinished /\ jbDropped' = jbDropped
  BY DEF JobsInv, JobsTyped, Jb!Write, Jb!Produced, Jb!Settle, Jb!Notify, Jb!system, Jb!history
<1>2. PICK b \in JobRecords : b = jbJob[j]
  BY <1>1
<1>3. CASE Jb!Write(j)
  <2>1. jbJob' = jbJob /\ jbProd' = jbProd /\ jbNoticed' = jbNoticed
    BY <1>3 DEF Jb!Write, Jb!history
  <2>2. JobsTyped'
    BY <1>1, <2>1 DEF JobsTyped
  <2>3. \A k \in Jobs : JobLeft(k) /\ JobKept(k)
    BY <1>1, <2>1 DEF JobLeft, JobAlike, JobsInv
  <2>4. \A k \in Jobs : JobKept(k)'
    BY <1>1, <2>3, JobStays
  <2>5. \A o \in Owners : JobAims(o, jbCall[o])'
    BY <1>1, <2>1 DEF JobsInv, JobAims
  <2> QED  BY <2>2, <2>4, <2>5 DEF JobsInv
<1>4. ASSUME NEW d \in JobRecords, NEW p \in {"settle", "notify", "gone"}, jbJob' = [jbJob EXCEPT ![j] = d],
             jbProd' = [jbProd EXCEPT ![j] = p], b.status # "none", d.owner = b.owner, d.status # "none",
             jbNoticed' \in SUBSET Jobs, \A k \in Jobs \ {j} : k \in jbNoticed' <=> k \in jbNoticed,
             \A u \in Owners : u = b.owner =>
               JobBegun(j, d, p, jbCall[u], JobQuiet(u), JobFreed(u), JobAccounted(j)', j \in jbNoticed', j \in jbFinished)
      PROVE  JobsInv'
  <2>1. /\ jbJob' \in [Jobs -> JobRecords] /\ jbJob'[j] = d /\ \A k \in Jobs \ {j} : jbJob'[k] = jbJob[k]
        /\ jbProd' \in [Jobs -> {"none", "run", "settle", "notify", "gone"}] /\ jbProd'[j] = p
        /\ \A k \in Jobs \ {j} : jbProd'[k] = jbProd[k]
    BY <1>1, <1>4 DEF JobsTyped
  <2>2. JobsTyped'
    BY <1>1, <1>4, <2>1 DEF JobsTyped
  <2>3. \A k \in Jobs \ {j} : JobLeft(k)
    BY <1>1, <1>4, <2>1 DEF JobLeft, JobAlike
  <2>4. PICK u \in Owners : u = b.owner
    BY <1>1, <1>2, <1>4 DEF JobKept, JobFacts, JobBegun
  <2>5. JobBegun(j, jbJob'[j], jbProd'[j], jbCall'[u], JobQuiet(u)', JobFreed(u)', JobAccounted(j)', j \in jbNoticed', j \in jbFinished')
    <3>1. /\ JobQuiet(u)' <=> JobQuiet(u)
          /\ JobFreed(u)' <=> JobFreed(u)
      BY <1>1 DEF JobQuiet, JobFreed
    <3>2. JobBegun(j, d, p, jbCall[u], JobQuiet(u), JobFreed(u), JobAccounted(j)', j \in jbNoticed', j \in jbFinished)
      BY <1>4, <2>4
    <3> QED  BY <1>1, <2>1, <3>1, <3>2 DEF JobBegun
  <2>6. JobKept(j)'
    BY <1>4, <2>1, <2>4, <2>5 DEF JobKept, JobFacts
  <2> QED  BY <1>1, <1>2, <1>4, <2>1, <2>2, <2>3, <2>4, <2>6, JobMoves
<1>5. ASSUME NEW u \in Owners, u = b.owner, b.status # "none"
      PROVE  JobBegun(j, b, jbProd[j], jbCall[u], JobQuiet(u), JobFreed(u), JobAccounted(j), j \in jbNoticed, j \in jbFinished)
  BY <1>1, <1>2, <1>5 DEF JobKept, JobFacts
<1>6. b.status = "none" => jbProd[j] = "none"
  BY <1>1, <1>2 DEF JobKept, JobFacts
<1>7. b.status # "none" => b.status \in JobLive \/ b.status = "settled"
  BY DEF JobRecords, JobLive
<1>8. CASE Jb!Produced(j)
  <2>1. /\ jbProd[j] = "run" /\ jbJob' = jbJob /\ jbProd' = [jbProd EXCEPT ![j] = "settle"] /\ jbNoticed' = jbNoticed
    BY <1>8 DEF Jb!Produced, Jb!history
  <2>2. jbJob' = [jbJob EXCEPT ![j] = b] /\ b.status # "none" /\ jbNoticed' \in SUBSET Jobs
    BY <1>1, <1>2, <1>6, <2>1 DEF JobsTyped
  <2>3. JobAccounted(j)' <=> JobAccounted(j)
    BY <1>1, <2>1 DEF JobAccounted
  <2>4. ASSUME NEW u \in Owners, u = b.owner
        PROVE  JobBegun(j, b, "settle", jbCall[u], JobQuiet(u), JobFreed(u), JobAccounted(j)', j \in jbNoticed', j \in jbFinished)
    BY <1>5, <2>1, <2>2, <2>3, <2>4 DEF JobBegun, JobAccount, JobLive
  <2> QED  BY <1>4, <2>1, <2>2, <2>4
<1>9. CASE Jb!Settle(j)
  <2> DEFINE p == IF Jb!Notifies(j) THEN "notify" ELSE "gone"
             d == [[b EXCEPT !.status = "settled"] EXCEPT !.waiters = 0]
  <2>1. /\ jbProd[j] = "settle" /\ jbProd' = [jbProd EXCEPT ![j] = p] /\ jbNoticed' = jbNoticed
        /\ jbJob' = [jbJob EXCEPT ![j].status = "settled", ![j].waiters = 0]
    BY <1>9 DEF Jb!Settle, Jb!history
  <2>2. jbJob' = [jbJob EXCEPT ![j] = d]
    BY <1>1, <1>2, <2>1 DEF JobsTyped
  <2>3. /\ d \in JobRecords /\ d.status = "settled" /\ d.owner = b.owner /\ d.cause = b.cause /\ d.waiters = 0
        /\ d.foreground <=> b.foreground
        /\ d.listed <=> b.listed
    BY DEF JobRecords
  <2> HIDE DEF d
  <2>4. /\ p \in {"notify", "gone"}
        /\ p = "notify" <=> ~b.foreground /\ b.waiters = 0 /\ b.cause = "producer" /\ jbBase
    BY <1>2 DEF Jb!Notifies
  <2> HIDE DEF p
  <2>5. b.status # "none" /\ jbNoticed' \in SUBSET Jobs
    BY <1>1, <1>6, <2>1 DEF JobsTyped
  <2>6. JobAccounted(j)' <=> JobAccounted(j)
    BY <1>1, <2>1 DEF JobAccounted
  <2>7. ASSUME NEW u \in Owners, u = b.owner
        PROVE  JobBegun(j, d, p, jbCall[u], JobQuiet(u), JobFreed(u), JobAccounted(j)', j \in jbNoticed', j \in jbFinished)
    <3>1. JobBegun(j, b, "settle", jbCall[u], JobQuiet(u), JobFreed(u), JobAccounted(j), j \in jbNoticed, j \in jbFinished)
      BY <1>5, <2>1, <2>5, <2>7
    <3>2. b.status \in JobLive /\ b.listed
      BY <1>7, <2>5, <3>1 DEF JobBegun
    <3>3. JobQuiet(u) => jbBase
      BY DEF JobQuiet
    <3> QED  BY <2>1, <2>3, <2>4, <2>6, <3>1, <3>2, <3>3
             DEF JobBegun, JobAccount, JobWaits, JobHeld, JobEnds, JobCut, JobCollects, JobLive
  <2> QED  BY <1>4, <2>1, <2>2, <2>3, <2>4, <2>5, <2>7, ZenonT(60)
<1>10. CASE Jb!Notify(j)
  <2>1. jbProd[j] = "notify" /\ jbJob' = jbJob /\ jbProd' = [jbProd EXCEPT ![j] = "gone"] /\ jbNoticed' = jbNoticed \cup {j}
    BY <1>10 DEF Jb!Notify
  <2>2. jbJob' = [jbJob EXCEPT ![j] = b] /\ b.status # "none" /\ jbNoticed' \in SUBSET Jobs
    BY <1>1, <1>2, <1>6, <2>1 DEF JobsTyped
  <2>3. JobAccounted(j)' /\ j \in jbNoticed'
    BY <2>1 DEF JobAccounted
  <2>4. ASSUME NEW u \in Owners, u = b.owner
        PROVE  JobBegun(j, b, "gone", jbCall[u], JobQuiet(u), JobFreed(u), JobAccounted(j)', j \in jbNoticed', j \in jbFinished)
    BY <1>5, <2>1, <2>2, <2>3, <2>4 DEF JobBegun, JobAccount, JobHeld, JobEnds, JobLive
  <2> QED  BY <1>4, <2>1, <2>2, <2>4
<1> QED  BY <1>3, <1>8, <1>9, <1>10

\* What a step that stops jobs, or drops their records, leaves of a job.
JobsKeep ==
  /\ jbJob' \in [Jobs -> JobRecords]
  /\ \A k \in Jobs : /\ jbJob'[k].owner = jbJob[k].owner /\ jbJob'[k].waiters = jbJob[k].waiters
                     /\ jbJob'[k].status \in JobLive <=> jbJob[k].status \in JobLive
                     /\ jbJob'[k].status = "settled" <=> jbJob[k].status = "settled"
                     /\ jbJob'[k].status = "none" <=> jbJob[k].status = "none"
                     /\ jbJob'[k].foreground <=> jbJob[k].foreground
                     /\ jbJob'[k].listed => jbJob[k].listed

LEMMA JobsTornDown ==
  ASSUME JobsTyped, NEW js, Jb!TearDown(js)
  PROVE  /\ JobsKeep
         /\ \A k \in Jobs : jbJob'[k].listed <=> jbJob[k].listed
         /\ \A k \in Jobs \ js : jbJob'[k] = jbJob[k]
<1>1. jbJob' = [k \in Jobs |-> IF k \in js /\ jbJob[k].listed /\ jbJob[k].status \in JobLive
                               THEN [[jbJob[k] EXCEPT !.status = "stopping"] EXCEPT !.cause = "teardown"]
                               ELSE jbJob[k]]
  <2>1. \A k \in Jobs : [jbJob[k] EXCEPT !.status = "stopping", !.cause = "teardown"]
                          = [[jbJob[k] EXCEPT !.status = "stopping"] EXCEPT !.cause = "teardown"]
    OBVIOUS
  <2> QED  BY <2>1 DEF Jb!TearDown, Jb!Live, JobLive
<1>2. ASSUME NEW k \in Jobs
      PROVE  /\ jbJob'[k] \in JobRecords
             /\ jbJob'[k].owner = jbJob[k].owner /\ jbJob'[k].waiters = jbJob[k].waiters
             /\ jbJob'[k].status \in JobLive <=> jbJob[k].status \in JobLive
             /\ jbJob'[k].status = "settled" <=> jbJob[k].status = "settled"
             /\ jbJob'[k].status = "none" <=> jbJob[k].status = "none"
             /\ jbJob'[k].foreground <=> jbJob[k].foreground
             /\ jbJob'[k].listed <=> jbJob[k].listed
             /\ k \notin js => jbJob'[k] = jbJob[k]
  <2>1. PICK b \in JobRecords : b = jbJob[k]
    BY DEF JobsTyped
  <2>2. CASE k \in js /\ jbJob[k].listed /\ jbJob[k].status \in JobLive
    <3> DEFINE d == [[b EXCEPT !.status = "stopping"] EXCEPT !.cause = "teardown"]
    <3>1. jbJob'[k] = d
      BY <1>1, <2>1, <2>2
    <3>2. /\ d \in JobRecords /\ d.status = "stopping" /\ d.owner = b.owner /\ d.waiters = b.waiters
          /\ d.foreground = b.foreground /\ d.listed = b.listed
      BY DEF JobRecords
    <3> HIDE DEF d
    <3> QED  BY <2>1, <2>2, <3>1, <3>2 DEF JobLive
  <2>3. CASE ~(k \in js /\ jbJob[k].listed /\ jbJob[k].status \in JobLive)
    <3>1. jbJob'[k] = b
      BY <1>1, <2>1, <2>3
    <3> QED  BY <2>1, <3>1
  <2> QED  BY <2>2, <2>3
<1>3. jbJob' \in [Jobs -> JobRecords]
  BY <1>1, <1>2
<1> QED  BY <1>2, <1>3 DEF JobsKeep

\* A step that no call and no producer takes, and that nobody's end is told in.
JobsRest ==
  /\ jbProd' = jbProd /\ jbCall' = jbCall
  /\ jbTold' = jbTold /\ jbFinished' = jbFinished /\ jbNoticed' = jbNoticed /\ jbDropped' = jbDropped
  /\ jbRelease' \in [Owners -> {"none", "waiting", "released", "given-up"}]

LEMMA JobsTurn ==
  ASSUME JobsInv, JobsKeep, JobsRest,
         \A k \in Jobs : jbJob[k].status # "none" =>
           \/ /\ jbJob'[k].listed <=> jbJob[k].listed
              /\ ~JobQuiet(jbJob[k].owner)' /\ ~JobFreed(jbJob[k].owner)'
           \/ jbJob[k].status = "settled" /\ ~JobQuiet(jbJob[k].owner)' /\ (JobFreed(jbJob[k].owner)' => ~jbJob'[k].listed)
           \/ /\ JobAlike(jbJob[k], jbJob'[k])
              /\ JobQuiet(jbJob[k].owner)' <=> JobQuiet(jbJob[k].owner)
              /\ JobFreed(jbJob[k].owner)' <=> JobFreed(jbJob[k].owner)
  PROVE  JobsInv'
<1>1. JobsTyped'
  BY DEF JobsInv, JobsTyped, JobsKeep, JobsRest
<1>2. ASSUME NEW o \in Owners PROVE JobAims(o, jbCall[o])'
  <2>1. PICK c \in JobCalls : c = jbCall[o] /\ c = jbCall'[o] /\ JobAims(o, c)
    BY DEF JobsInv, JobsTyped, JobsRest
  <2>2. c.job \in Jobs \/ c.job = "none"
    BY DEF JobCalls
  <2>3. c.job # "none" => (jbJob'[c.job].status = "none" <=> jbJob[c.job].status = "none") /\ jbJob'[c.job].owner = jbJob[c.job].owner
    BY <2>2 DEF JobsKeep
  <2>4. c.job = "none" => c.pc = "idle"
    BY <2>1 DEF JobAims
  <2> QED  BY <2>1, <2>3, <2>4 DEF JobAims
<1>3. ASSUME NEW k \in Jobs PROVE JobKept(k)'
  <2>1. JobKept(k) /\ JobsKeep
    BY DEF JobsInv
  <2>2. PICK u : u = jbJob[k].owner
    OBVIOUS
  <2>3. /\ jbJob'[k].owner = u /\ jbProd'[k] = jbProd[k] /\ jbCall'[u] = jbCall[u]
        /\ k \in jbNoticed' <=> k \in jbNoticed
        /\ k \in jbFinished' <=> k \in jbFinished
        /\ JobAccounted(k)' <=> JobAccounted(k)
    BY <2>2 DEF JobsKeep, JobsRest, JobAccounted
  <2>4. CASE jbJob[k].status = "none"
    BY <2>1, <2>3, <2>4 DEF JobKept, JobFacts, JobsKeep
  <2>5. CASE jbJob[k].status # "none"
    <3>1. JobBegun(k, jbJob[k], jbProd[k], jbCall[u], JobQuiet(u), JobFreed(u), JobAccounted(k), k \in jbNoticed, k \in jbFinished)
      BY <2>1, <2>2, <2>5 DEF JobKept, JobFacts
    <3>2. \/ /\ jbJob'[k].listed <=> jbJob[k].listed
             /\ ~JobQuiet(u)' /\ ~JobFreed(u)'
          \/ jbJob[k].status = "settled" /\ ~JobQuiet(u)' /\ (JobFreed(u)' => ~jbJob'[k].listed)
          \/ /\ JobAlike(jbJob[k], jbJob'[k])
             /\ JobQuiet(u)' <=> JobQuiet(u)
             /\ JobFreed(u)' <=> JobFreed(u)
      BY <2>2, <2>3, <2>5
    <3>3. /\ jbJob'[k].owner = jbJob[k].owner /\ jbJob'[k].waiters = jbJob[k].waiters
          /\ jbJob'[k].status \in JobLive <=> jbJob[k].status \in JobLive
          /\ jbJob'[k].status = "settled" <=> jbJob[k].status = "settled"
          /\ jbJob'[k].status # "none"
          /\ jbJob'[k].foreground <=> jbJob[k].foreground
      BY <2>1, <2>5 DEF JobsKeep
    <3>4. JobBegun(k, jbJob'[k], jbProd'[k], jbCall'[u], JobQuiet(u)', JobFreed(u)', JobAccounted(k)', k \in jbNoticed', k \in jbFinished')
      <4>1. CASE /\ jbJob'[k].listed <=> jbJob[k].listed
                 /\ ~JobQuiet(u)' /\ ~JobFreed(u)'
        BY <2>3, <3>1, <3>3, <4>1 DEF JobBegun
      <4>2. CASE jbJob[k].status = "settled" /\ ~JobQuiet(u)' /\ (JobFreed(u)' => ~jbJob'[k].listed)
        BY <2>3, <3>1, <3>3, <4>2, SMTT(30) DEF JobBegun, JobLive
      <4>3. CASE /\ JobAlike(jbJob[k], jbJob'[k])
                 /\ JobQuiet(u)' <=> JobQuiet(u)
                 /\ JobFreed(u)' <=> JobFreed(u)
        BY <2>3, <3>1, <4>3 DEF JobBegun, JobAccount, JobAlike
      <4> QED  BY <3>2, <4>1, <4>2, <4>3
    <3> QED  BY <2>3, <3>3, <3>4 DEF JobKept, JobFacts
  <2> QED  BY <2>4, <2>5
<1> QED  BY <1>1, <1>2, <1>3 DEF JobsInv

LEMMA JobsStopped ==
  ASSUME JobsInv, Jb!Stop \/ Jb!Stopped \/ Jb!CancelBase
  PROVE  JobsInv'
<1>1. JobsTyped
  BY DEF JobsInv
<1>2. JobsRest
  BY <1>1 DEF Jb!Stop, Jb!Stopped, Jb!CancelBase, Jb!history, JobsRest, JobsTyped
<1>3. CASE Jb!Stop
  <2>1. JobsKeep /\ \A k \in Jobs : jbJob'[k].listed <=> jbJob[k].listed
    BY <1>1, <1>3, JobsTornDown DEF Jb!Stop
  <2>2. \A u : ~JobQuiet(u)' /\ ~JobFreed(u)'
    BY <1>3 DEF Jb!Stop, JobQuiet, JobFreed
  <2> QED  BY <1>2, <2>1, <2>2, JobsTurn
<1>4. CASE Jb!Stopped
  <2>1. Jb!Forget(Jobs) /\ \A k \in Jobs : jbProd[k] \in {"none", "gone"}
    BY <1>4 DEF Jb!Stopped, Jb!None
  <2>2. /\ jbJob' \in [Jobs -> JobRecords]
        /\ \A k \in Jobs : /\ jbJob'[k].status = jbJob[k].status /\ jbJob'[k].owner = jbJob[k].owner
                           /\ jbJob'[k].waiters = jbJob[k].waiters
                           /\ jbJob'[k].foreground <=> jbJob[k].foreground
                           /\ ~jbJob'[k].listed
    BY <1>1, <2>1, JobForgets
  <2>3. JobsKeep
    BY <2>2 DEF JobsKeep
  <2>4. \A u : ~JobQuiet(u)' /\ ~JobFreed(u)'
    BY <1>4 DEF Jb!Stopped, JobQuiet, JobFreed
  <2>5. ASSUME NEW k \in Jobs, jbJob[k].status # "none" PROVE jbJob[k].status = "settled"
    <3>1. JobKept(k) /\ jbJob[k] \in JobRecords /\ jbProd[k] \in {"none", "gone"}
      BY <1>1, <2>1 DEF JobsInv, JobsTyped
    <3>2. jbJob[k].status \in JobLive => jbProd[k] \in {"run", "settle"}
      BY <2>5, <3>1 DEF JobKept, JobFacts, JobBegun
    <3>3. jbJob[k].status \in {"none", "running", "stopping", "settled"}
      BY <3>1 DEF JobRecords
    <3> QED  BY <2>5, <3>1, <3>2, <3>3 DEF JobLive
  <2> QED  BY <1>2, <2>3, <2>4, <2>5, JobsTurn
<1>5. CASE Jb!CancelBase
  <2>1. jbJob' = jbJob /\ jbService' = jbService /\ jbRelease' = jbRelease /\ ~jbBase'
    BY <1>5 DEF Jb!CancelBase
  <2>2. JobsKeep
    BY <1>1, <2>1 DEF JobsKeep, JobsTyped
  <2>3. \A k \in Jobs : jbJob[k].status # "none" => JobKept(k)
    BY DEF JobsInv
  <2>4. \A u : ~JobQuiet(u)' /\ (JobFreed(u)' <=> JobFreed(u))
    BY <2>1 DEF JobQuiet, JobFreed
  <2>5. ASSUME NEW k \in Jobs, jbJob[k].status # "none"
        PROVE  \/ /\ jbJob'[k].listed <=> jbJob[k].listed
                  /\ ~JobQuiet(jbJob[k].owner)' /\ ~JobFreed(jbJob[k].owner)'
               \/ /\ jbJob[k].status = "settled" /\ ~JobQuiet(jbJob[k].owner)'
                  /\ JobFreed(jbJob[k].owner)' => ~jbJob'[k].listed
    <3>1. JobFreed(jbJob[k].owner) => jbJob[k].status = "settled" /\ ~jbJob[k].listed
      BY <2>3, <2>5 DEF JobKept, JobFacts, JobBegun
    <3> QED  BY <2>1, <2>4, <3>1
  <2> QED  BY <1>2, <2>2, <2>5, JobsTurn
<1> QED  BY <1>3, <1>4, <1>5

\* The release of an owner touches its own jobs only.
LEMMA JobsReleased ==
  ASSUME JobsInv, NEW o \in Owners, Jb!Release(o) \/ Jb!Released(o)
  PROVE  JobsInv'
<1>1. JobsTyped /\ jbRelease \in [Owners -> {"none", "waiting", "released", "given-up"}]
  BY DEF JobsInv, JobsTyped
<1>2. /\ jbService' = jbService /\ jbBase' = jbBase
      /\ jbRelease[o] \in {"none", "waiting"}
      /\ jbProd' = jbProd /\ jbCall' = jbCall
      /\ jbTold' = jbTold /\ jbFinished' = jbFinished /\ jbNoticed' = jbNoticed /\ jbDropped' = jbDropped
  BY DEF Jb!Release, Jb!Released, Jb!history
<1>3. PICK to \in {"waiting", "released", "given-up"} :
        /\ jbRelease' = [jbRelease EXCEPT ![o] = to]
        /\ \/ to = "waiting" /\ jbService = "active" /\ Jb!TearDown(Jb!Owned(o))
           \/ to = "released" /\ jbService # "active" /\ jbJob' = jbJob
           \/ to = "released" /\ Jb!Releasable(o) /\ Jb!Forget({j \in Jb!Owned(o) : jbJob[j].status = "settled"})
           \/ to = "given-up" /\ jbJob' = jbJob
  BY DEF Jb!Release, Jb!Released
<1>4. /\ jbRelease' \in [Owners -> {"none", "waiting", "released", "given-up"}] /\ jbRelease'[o] = to
      /\ \A u \in Owners \ {o} : jbRelease'[u] = jbRelease[u]
  BY <1>1, <1>3
<1>5. JobsRest
  BY <1>2, <1>4 DEF JobsRest
<1>6. \A u \in Owners \ {o} : (JobQuiet(u)' <=> JobQuiet(u)) /\ (JobFreed(u)' <=> JobFreed(u))
  BY <1>2, <1>4 DEF JobQuiet, JobFreed
<1>7. ~JobQuiet(o)' /\ (JobFreed(o)' => to = "released" /\ jbService = "active")
  BY <1>2, <1>4 DEF JobQuiet, JobFreed
<1>8. \A k \in Jobs : jbJob[k].status # "none" => jbJob[k].owner \in Owners
  BY DEF JobsInv, JobKept, JobFacts, JobBegun
<1>9. CASE to = "waiting" /\ Jb!TearDown(Jb!Owned(o))
  <2>1. /\ JobsKeep
        /\ \A k \in Jobs : jbJob'[k].listed <=> jbJob[k].listed
        /\ \A k \in Jobs : jbJob[k].owner # o => jbJob'[k] = jbJob[k]
    BY <1>1, <1>9, JobsTornDown DEF Jb!Owned
  <2>2. ASSUME NEW k \in Jobs, jbJob[k].status # "none"
        PROVE  \/ /\ jbJob'[k].listed <=> jbJob[k].listed
                  /\ ~JobQuiet(jbJob[k].owner)' /\ ~JobFreed(jbJob[k].owner)'
               \/ /\ JobAlike(jbJob[k], jbJob'[k])
                  /\ JobQuiet(jbJob[k].owner)' <=> JobQuiet(jbJob[k].owner)
                  /\ JobFreed(jbJob[k].owner)' <=> JobFreed(jbJob[k].owner)
    <3>1. PICK u \in Owners : u = jbJob[k].owner
      BY <1>8, <2>2
    <3>2. jbJob'[k].owner = u
      BY <2>1, <3>1 DEF JobsKeep
    <3>3. CASE u = o
      BY <1>7, <1>9, <2>1, <3>1, <3>2, <3>3, SMTT(30)
    <3>4. CASE u # o
      BY <1>6, <2>1, <3>1, <3>4 DEF JobAlike
    <3> QED  BY <3>3, <3>4
  <2> QED  BY <1>5, <2>1, <2>2, JobsTurn
<1>10. CASE jbJob' = jbJob /\ (to = "released" => jbService # "active")
  <2>1. JobsKeep
    BY <1>1, <1>10 DEF JobsKeep, JobsTyped
  <2>2. ASSUME NEW k \in Jobs, jbJob[k].status # "none"
        PROVE  \/ /\ jbJob'[k].listed <=> jbJob[k].listed
                  /\ ~JobQuiet(jbJob[k].owner)' /\ ~JobFreed(jbJob[k].owner)'
               \/ /\ JobAlike(jbJob[k], jbJob'[k])
                  /\ JobQuiet(jbJob[k].owner)' <=> JobQuiet(jbJob[k].owner)
                  /\ JobFreed(jbJob[k].owner)' <=> JobFreed(jbJob[k].owner)
    <3>1. PICK u \in Owners : u = jbJob[k].owner
      BY <1>8, <2>2
    <3>2. CASE u = o
      BY <1>7, <1>10, <3>1, <3>2
    <3>3. CASE u # o
      BY <1>6, <1>10, <3>1, <3>3 DEF JobAlike
    <3> QED  BY <3>2, <3>3
  <2> QED  BY <1>5, <2>1, <2>2, JobsTurn
<1>11. CASE to = "released" /\ Jb!Releasable(o) /\ Jb!Forget({j \in Jb!Owned(o) : jbJob[j].status = "settled"})
  <2>1. PICK js : js = {j \in Jb!Owned(o) : jbJob[j].status = "settled"}
    OBVIOUS
  <2>2. /\ jbJob' \in [Jobs -> JobRecords]
        /\ \A k \in Jobs : /\ jbJob'[k].status = jbJob[k].status /\ jbJob'[k].owner = jbJob[k].owner
                           /\ jbJob'[k].cause = jbJob[k].cause /\ jbJob'[k].waiters = jbJob[k].waiters
                           /\ jbJob'[k].foreground <=> jbJob[k].foreground
                           /\ jbJob'[k].listed <=> jbJob[k].listed /\ k \notin js
    BY <1>1, <1>11, <2>1, JobForgets
  <2>3. JobsKeep
    BY <2>2 DEF JobsKeep
  <2>4. ASSUME NEW k \in Jobs, jbJob[k].status # "none"
        PROVE  \/ /\ jbJob[k].status = "settled" /\ ~JobQuiet(jbJob[k].owner)'
                  /\ JobFreed(jbJob[k].owner)' => ~jbJob'[k].listed
               \/ /\ JobAlike(jbJob[k], jbJob'[k])
                  /\ JobQuiet(jbJob[k].owner)' <=> JobQuiet(jbJob[k].owner)
                  /\ JobFreed(jbJob[k].owner)' <=> JobFreed(jbJob[k].owner)
    <3>1. PICK u \in Owners : u = jbJob[k].owner
      BY <1>8, <2>4
    <3>2. jbJob'[k].owner = u
      BY <2>2, <3>1
    <3>3. CASE u = o
      <4>1. jbJob[k].status \notin JobLive /\ jbJob[k] \in JobRecords
        BY <1>1, <1>11, <3>1, <3>3 DEF Jb!Releasable, Jb!Owned, Jb!Live, JobLive, JobsTyped
      <4>2. jbJob[k].status = "settled"
        BY <2>4, <4>1 DEF JobRecords, JobLive
      <4>3. ~jbJob'[k].listed
        BY <2>1, <2>2, <3>1, <3>3, <4>2 DEF Jb!Owned
      <4> QED  BY <1>7, <3>1, <3>2, <3>3, <4>2, <4>3
    <3>4. CASE u # o
      <4>1. k \notin js
        BY <2>1, <3>1, <3>4 DEF Jb!Owned
      <4>2. JobAlike(jbJob[k], jbJob'[k])
        BY <2>2, <4>1 DEF JobAlike
      <4> QED  BY <1>6, <3>1, <3>2, <3>4, <4>2
    <3> QED  BY <3>3, <3>4
  <2> QED  BY <1>5, <2>3, <2>4, JobsTurn
<1> QED  BY <1>3, <1>9, <1>10, <1>11

LEMMA JobsStep == JobsInv /\ [Jb!Next]_(Jb!vars) => JobsInv'
<1> SUFFICES ASSUME JobsInv, [Jb!Next]_(Jb!vars) PROVE JobsInv'
  OBVIOUS
<1>1. CASE UNCHANGED Jb!vars
  <2>1. /\ jbJob' = jbJob /\ jbProd' = jbProd /\ jbCall' = jbCall /\ jbService' = jbService /\ jbBase' = jbBase /\ jbRelease' = jbRelease
        /\ jbTold' = jbTold /\ jbFinished' = jbFinished /\ jbNoticed' = jbNoticed /\ jbDropped' = jbDropped
    BY <1>1 DEF Jb!vars, Jb!system, Jb!history
  <2> QED  BY <2>1 DEF JobsInv, JobsTyped, JobAims, JobKept, JobQuiet, JobFreed, JobAccounted
<1>2. ASSUME NEW o \in Owners, Jb!CallStep(o) PROVE JobsInv'
  BY <1>2, JobWaited, JobWaitReturns, JobForegroundResult, JobRead, JobKill, JobRemove, JobReturn DEF Jb!CallStep
<1>3. ASSUME NEW o \in Owners, NEW j \in Jobs, \/ \E f \in BOOLEAN : Jb!Launch(o, j, f)
                                               \/ \E place \in {"output", "output-wait", "kill"} : Jb!Start(o, j, place)
      PROVE  JobsInv'
  BY <1>3, JobLaunch, JobStart
<1>4. ASSUME NEW o \in Owners, Jb!Abort(o) \/ Jb!Release(o) \/ Jb!Released(o) PROVE JobsInv'
  BY <1>4, JobAbort, JobsReleased
<1>5. ASSUME NEW j \in Jobs, Jb!Write(j) \/ Jb!Produced(j) \/ Jb!Settle(j) \/ Jb!Notify(j) PROVE JobsInv'
  BY <1>5, JobProduces
<1>6. ASSUME Jb!Stop \/ Jb!Stopped \/ Jb!CancelBase PROVE JobsInv'
  BY <1>6, JobsStopped
<1> QED  BY <1>1, <1>2, <1>3, <1>4, <1>5, <1>6 DEF Jb!Next

\* What the inductive invariants say to a reader of the properties.
LEMMA JobsReport == JobsInv /\ RingsInv => Jb!JobsReported
<1> SUFFICES ASSUME JobsInv, RingsInv PROVE Jb!JobsReported
  OBVIOUS
<1>1. Jb!TypeOK
  <2>1. JobsTyped
    BY DEF JobsInv
  <2>2. ASSUME NEW j \in Jobs PROVE jbCursor[j] \in 0..jbRing[j].total /\ jbRing[j].earliest \in 0..jbRing[j].total
    BY DEF RingsInv, RingKept
  <2>3. ASSUME NEW o \in Owners PROVE jbCall[o].job \in Jobs \cup {"none"} /\ jbCall[o].made \in 0..MaxCalls[o]
    <3>1. jbCall[o] \in JobCalls /\ jbCall[o].made <= MaxCalls[o] /\ MaxCalls[o] \in Nat
      BY <2>1, JobsAssumption DEF JobsTyped
    <3>2. jbCall[o].job \in Jobs \cup {"none"} /\ jbCall[o].made \in Nat
      BY <3>1 DEF JobCalls
    <3> QED  BY <3>1, <3>2
  <2>4. jbJob \in [Jobs -> JobRecords] /\ jbProd \in [Jobs -> {"none", "run", "settle", "notify", "gone"}]
    BY <2>1 DEF JobsTyped
  <2>5. UNION {jbTold, jbFinished, jbNoticed, jbDropped} \subseteq Jobs
    BY <2>1 DEF JobsTyped
  <2> QED  BY <2>2, <2>3, <2>4, <2>5 DEF Jb!TypeOK, Jb!None, JobRecords
<1>2. Jb!EndReported
  <2> SUFFICES ASSUME NEW j \in Jobs, jbJob[j].status = "settled", jbProd[j] = "gone", jbService = "active", jbBase,
                      jbRelease[jbJob[j].owner] = "none",
                      jbCall[jbJob[j].owner].pc = "idle" \/ jbCall[jbJob[j].owner].job # j
               PROVE  j \in UNION {jbTold, jbNoticed, jbDropped}
    BY DEF Jb!EndReported
  <2>1. JobBegun(j, jbJob[j], jbProd[j], jbCall[jbJob[j].owner], JobQuiet(jbJob[j].owner), JobFreed(jbJob[j].owner),
                 JobAccounted(j), j \in jbNoticed, j \in jbFinished)
    BY DEF JobsInv, JobKept, JobFacts
  <2>2. PICK o \in Owners : o = jbJob[j].owner
    BY <2>1 DEF JobBegun
  <2>3. JobAims(o, jbCall[o]) /\ JobQuiet(o)
    BY <2>2 DEF JobsInv, JobQuiet
  <2>4. jbCall[o].job # j
    BY <2>2, <2>3, JobsAssumption DEF JobAims
  <2>5. JobAccounted(j)
    BY <2>1, <2>2, <2>3, <2>4 DEF JobBegun, JobAccount
  <2> QED  BY <2>5 DEF JobAccounted
<1>3. Jb!ForegroundReportsOnce
  <2>1. ASSUME NEW j \in Jobs, j \in jbFinished, j \in jbNoticed PROVE FALSE
    BY <2>1 DEF JobsInv, JobKept, JobFacts, JobBegun
  <2> QED  BY <2>1 DEF Jb!ForegroundReportsOnce, JobsInv, JobsTyped
<1>4. Jb!ReleaseLeavesNothing
  <2> SUFFICES ASSUME NEW o \in Owners, jbRelease[o] = "released", jbService = "active", NEW j \in Jobs, jbJob[j].owner = o
               PROVE  jbJob[j].status = "settled" /\ ~jbJob[j].listed
    BY DEF Jb!ReleaseLeavesNothing, Jb!Owned
  <2>1. JobFreed(o) /\ o # "none"
    BY JobsAssumption DEF JobFreed
  <2> QED  BY <2>1 DEF JobsInv, JobKept, JobFacts, JobBegun
<1> QED  BY <1>1, <1>2, <1>3, <1>4 DEF Jb!JobsReported

LEMMA JobsInFocus == ServicesInit /\ focus = "jobs" => Jb!Init
BY DEF ServicesInit, ServiceInit

LEMMA JobsOnly ==
  ASSUME [ServicesNext]_<<focus, vars, slots>>, focus = "jobs" \/ focus' = "jobs"
  PROVE  focus = "jobs" /\ [Jb!Next]_(Jb!vars)
<1>1. CASE UNCHANGED <<focus, vars, slots>>
  BY <1>1 DEF slots, Jb!vars, Jb!output, Jb!system, Jb!history
<1>2. CASE focus = "log" /\ Next /\ UNCHANGED <<focus, slots>>
  BY <1>2
<1>3. CASE ServiceNext /\ UNCHANGED <<focus, vars>>
  BY <1>3 DEF ServiceNext
<1> QED  BY <1>1, <1>2, <1>3 DEF ServicesNext

EndsKept == focus = "jobs" => JobsInv /\ RingsInv

LEMMA EndsAlwaysKept == ServicesSpec => []EndsKept
<1>1. ServicesInit => EndsKept
  BY JobsInFocus, JobsInit, RingsInit DEF EndsKept
<1>2. EndsKept /\ [ServicesNext]_<<focus, vars, slots>> => EndsKept'
  BY JobsOnly, JobsStep, RingsStep DEF EndsKept
<1> QED  BY <1>1, <1>2, PTL DEF ServicesSpec

\* No settlement of a background job is silent: while its session and the
\* service live, its end is told by a result, announced, or was collected by a
\* call cut short; a result that rendered it in the foreground is never also
\* announced, and a Release that succeeds leaves no live and no listed job
\* (service.go: settle, Wait, Read, Kill, Remove, stop and Release).
THEOREM JobsAlwaysReported == ServicesSpec => []JobsReported
<1>1. EndsKept => JobsReported
  BY JobsReport DEF EndsKept, JobsReported
<1> QED  BY <1>1, EndsAlwaysKept, PTL

\* A reader of a job's output gets it consecutively, or is told that it does
\* not and goes on at a whole character, and that only where more than the
\* live retention is unread (service.go: write, trim, settle and Read).
THEOREM JobOutputAlwaysKept == ServicesSpec => []JobOutputKept
<1>1. EndsKept => JobOutputKept
  BY RingsKeepOutput DEF EndsKept, JobOutputKept
<1> QED  BY <1>1, EndsAlwaysKept, PTL
=============================================================================
