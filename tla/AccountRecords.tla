--------------------------- MODULE AccountRecords ---------------------------
(***************************************************************************)
(* What the credential store promises to every process that shares its      *)
(* file: a modification is decided on a record nobody changes before it is  *)
(* committed, and it changes that record and no other.                      *)
(***************************************************************************)
CONSTANTS Clients, Routes, NoBase

VARIABLES
  records,  \* one credential for each provider route
  seen      \* the record each client is deciding on, or NoBase

vars == <<records, seen>>

Init == seen = [c \in Clients |-> NoBase]

Begin(c) ==
  /\ seen[c] = NoBase
  /\ \E r \in Routes : seen' = [seen EXCEPT ![c] = [route |-> r, base |-> records[r]]]
  /\ UNCHANGED records

\* A client gives up, or dies.
Abort(c) ==
  /\ seen[c] # NoBase /\ seen' = [seen EXCEPT ![c] = NoBase]
  /\ UNCHANGED records

Commit(c) ==
  /\ seen[c] # NoBase
  /\ records[seen[c].route] = seen[c].base
  /\ \A r \in Routes : r # seen[c].route => records'[r] = records[r]
  /\ seen' = [seen EXCEPT ![c] = NoBase]

Next == \E c \in Clients : Begin(c) \/ Abort(c) \/ Commit(c)

Spec == Init /\ [][Next]_vars
=============================================================================
