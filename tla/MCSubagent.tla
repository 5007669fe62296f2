----------------------------- MODULE MCSubagent -----------------------------
\* Instance of Subagent: a person's session, three child sessions (two levels)
\* and two calls at once.
EXTENDS Subagent, TLC
CONSTANTS r, c1, c2, c3, t1, t2
MCIds == <<c1, c2, c3>>
Bound(active, sessions, stops, calls, jobs, interrupts, faults) ==
  [active |-> active, sessions |-> sessions, stops |-> stops, calls |-> calls, jobs |-> jobs, interrupts |-> interrupts, faults |-> faults]
\* Three calls on a pool of two or of one; two calls while the registry and the
\* service stop, with an interrupt or with a fault, and with both but no stop;
\* three calls for one child with a background job, an interrupt, a fault and a stop.
Plans == {Bound(2, 3, 0, 3, 0, 0, 0), Bound(1, 2, 0, 3, 0, 0, 0),
          Bound(2, 2, 2, 2, 0, 1, 0), Bound(2, 2, 2, 2, 0, 0, 1), Bound(2, 2, 0, 2, 0, 1, 1),
          Bound(1, 1, 1, 3, 1, 1, 1)}
JobPlan == {Bound(2, 3, 0, 2, 1, 1, 0)}
Symmetry == Permutations({t1, t2})
=============================================================================
