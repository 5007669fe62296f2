---------------------------- MODULE StoreProofs ----------------------------
(***************************************************************************)
(* Proofs about the services of Services that keep files: the credential    *)
(* store, attachments, guarded files, artifacts and settings.               *)
(* For every value of the constants, and along every behaviour of the       *)
(* composition, the parts below keep what the run of MCServices checks on   *)
(* a small instance.                                                        *)
(*                                                                          *)
(* A section proves one part.  It names the slots x1, x2, ... after the     *)
(* part's variables, gives the inductive invariant, shows that the part's   *)
(* Init and every step of its Next keep it, and lifts that to ServicesSpec: *)
(* a step of the composition is a step of the part in focus (the lemmas     *)
(* whose names end in InFocus and Only).                                    *)
(***************************************************************************)
EXTENDS Services, Integers, Sequences, FiniteSetTheorems, WellFoundedInduction, SequenceTheorems, TLAPS

-----------------------------------------------------------------------------
(* Accounts: the credential file.                                          *)

\* The variables of Accounts, under their names there.
acRecords == x1
acLock == x2
acOp == x3
acLife == x4
acIssued == x5
acExpired == x6
acSpent == x7
acReplays == x8
acLost == x9
acLeft == x10

USE DEF acRecords, acLock, acOp, acLife, acIssued, acExpired, acSpent, acReplays, acLost, acLeft

Credentials == [kind : {"none", "api-key", "oauth"}, access : Nat, refresh : Nat]

Kinds == {"none", "refresh", "login", "logout"}
Operations ==
  [pc : {"idle", "locking", "locked", "mutating", "exchanging", "writing", "renamed"}, kind : Kinds, route : Routes \cup {"none"}, doc : [Routes -> Credentials],
   next : Credentials, cut : BOOLEAN]

AccountsTyped ==
  /\ acRecords \in [Routes -> Credentials]
  /\ acOp \in [Clients -> Operations]
  /\ acIssued \in Nat /\ acSpent \subseteq 1..acIssued

\* An operation that has the lock, and what it knows then.
Locked == {"locked", "mutating", "exchanging", "writing", "renamed"}

OperationOf(c, o, holder, document) ==
  /\ o.pc \in Locked => holder = c
  /\ o.pc # "idle" => o.route \in Routes
  /\ o.pc \in Ac!Deciding => o.doc = document
  /\ o.pc = "exchanging" => o.kind = "refresh"

\* The refresh token an operation is going to store, and a refresh that has one.
Hand(o) == IF o.pc \in {"idle", "renamed"} THEN 0 ELSE o.next.refresh
Renews(o) == o.kind = "refresh" /\ o.pc \in {"exchanging", "writing"}

\* A refresh token is in one record, or in one hand, or in the hand of the
\* refresh that keeps it in its record.
HandOf(c, o) ==
  /\ Hand(o) <= acIssued
  /\ Hand(o) \in acSpent => Hand(o) \in acLost
  /\ \A d \in Clients \ {c} : Hand(o) # 0 => Hand(acOp[d]) # Hand(o)
  /\ \A r \in Routes : Hand(o) # 0 /\ acRecords[r].refresh = Hand(o) => Renews(o) /\ o.route = r

RecordsApart ==
  /\ \A r \in Routes : acRecords[r].refresh <= acIssued
  /\ \A r, s \in Routes : r # s /\ acRecords[r].refresh # 0 => acRecords[s].refresh # acRecords[r].refresh

\* A spent token is in a record only while its successor is in hand, or lost.
SpentHeld ==
  \A r \in Routes : acRecords[r].refresh \in acSpent =>
    \/ acRecords[r].refresh \in acLost
    \/ \E c \in Clients : Renews(acOp[c]) /\ acOp[c].route = r

AccountsInv ==
  /\ AccountsTyped /\ RecordsApart /\ SpentHeld /\ acReplays \subseteq acLost
  /\ \A c \in Clients : OperationOf(c, acOp[c], acLock, acRecords) /\ HandOf(c, acOp[c])

\* A step of one client that leaves the file alone and spends no token.
LEMMA AccountsQuiet ==
  ASSUME AccountsInv, NEW c \in Clients,
         acOp' \in [Clients -> Operations], \A d \in Clients \ {c} : acOp'[d] = acOp[d],
         acRecords' = acRecords, acSpent' = acSpent, acIssued' \in Nat, acIssued' >= acIssued,
         acLost \subseteq acLost', acReplays' \subseteq acLost',
         \A d \in Clients \ {c} : acLock = d => acLock' = d,
         OperationOf(c, acOp[c], acLock, acRecords)', HandOf(c, acOp[c])',
         Renews(acOp[c]) =>
           \/ Renews(acOp'[c]) /\ acOp'[c].route = acOp[c].route
           \/ (acRecords[acOp[c].route].refresh \in acSpent => acRecords[acOp[c].route].refresh \in acLost')
  PROVE  AccountsInv'
<1>1. AccountsTyped' /\ RecordsApart'
  <2>1. acSpent' \subseteq 1..acIssued'
    BY DEF AccountsInv, AccountsTyped
  <2> QED  BY <2>1 DEF AccountsInv, AccountsTyped, RecordsApart, Credentials
<1>2. SpentHeld'
  <2> SUFFICES ASSUME NEW r \in Routes, acRecords[r].refresh \in acSpent, acRecords[r].refresh \notin acLost'
               PROVE  \E d \in Clients : Renews(acOp'[d]) /\ acOp'[d].route = r
    BY DEF SpentHeld
  <2>1. PICK d \in Clients : Renews(acOp[d]) /\ acOp[d].route = r
    BY DEF AccountsInv, SpentHeld
  <2>2. CASE d = c
    BY <2>1, <2>2
  <2>3. CASE d # c
    BY <2>1, <2>3
  <2> QED  BY <2>2, <2>3
<1>3. ASSUME NEW d \in Clients PROVE (OperationOf(d, acOp[d], acLock, acRecords) /\ HandOf(d, acOp[d]))'
  <2>1. CASE d = c
    BY <2>1
  <2>2. CASE d # c
    <3>1. acOp'[d] = acOp[d] /\ OperationOf(d, acOp[d], acLock, acRecords) /\ HandOf(d, acOp[d])
      BY <2>2 DEF AccountsInv
    <3>2. OperationOf(d, acOp[d], acLock, acRecords)'
      BY <2>2, <3>1 DEF OperationOf
    <3>3. Hand(acOp'[d]) <= acIssued'
      BY <3>1 DEF HandOf, Hand, AccountsInv, AccountsTyped, Operations, Credentials
    <3>4. \A e \in Clients \ {d} : Hand(acOp'[d]) # 0 => Hand(acOp'[e]) # Hand(acOp'[d])
      BY <2>2, <3>1 DEF HandOf
    <3> QED  BY <3>1, <3>2, <3>3, <3>4 DEF HandOf, Hand, Renews
  <2> QED  BY <2>1, <2>2
<1> QED  BY <1>1, <1>2, <1>3 DEF AccountsInv
LEMMA AccountsFacts ==
  ASSUME AccountsInv, NEW c \in Clients
  PROVE  /\ acOp[c] \in Operations /\ DOMAIN acOp = Clients
         /\ acOp[c].next \in Credentials /\ acOp[c].route \in Routes \cup {"none"} /\ acOp[c].doc \in [Routes -> Credentials]
         /\ acOp[c].kind \in Kinds /\ acOp[c].cut \in BOOLEAN
         /\ OperationOf(c, acOp[c], acLock, acRecords) /\ HandOf(c, acOp[c])
         /\ Hand(acOp[c]) \in Nat
BY DEF AccountsInv, AccountsTyped, Operations, Credentials, Hand

LEMMA RestingIs ==
  /\ Ac!Resting \in Operations /\ Ac!Resting.pc = "idle"
  /\ Ac!Resting.next = Ac!NoCred /\ Ac!NoCred \in Credentials /\ Ac!NoCred.refresh = 0
<1>1. Ac!NoCred \in Credentials /\ Ac!NoCred.refresh = 0
  BY DEF Ac!NoCred, Ac!Cred, Credentials
<1>2. [r \in Routes |-> Ac!NoCred] \in [Routes -> Credentials]
  BY <1>1
<1> QED  BY <1>1, <1>2 DEF Ac!Resting, Operations, Kinds

\* An operation ends, with its lock or without one.
LEMMA AccountsReturn ==
  ASSUME AccountsInv, NEW c \in Clients, Ac!Return(c),
         acRecords' = acRecords, acSpent' = acSpent, acIssued' = acIssued,
         acLost \subseteq acLost', acReplays' \subseteq acLost',
         acLock' = acLock \/ (acLock = c /\ acLock' = Ac!Free),
         Renews(acOp[c]) /\ acRecords[acOp[c].route].refresh \in acSpent => acRecords[acOp[c].route].refresh \in acLost'
  PROVE  AccountsInv'
<1>1. acOp' = [acOp EXCEPT ![c] = Ac!Resting] /\ Ac!Resting \in Operations /\ Ac!Resting.pc = "idle"
  BY RestingIs DEF Ac!Return
<1>2. acOp \in [Clients -> Operations] /\ acIssued \in Nat /\ acSpent \subseteq 1..acIssued
  BY DEF AccountsInv, AccountsTyped
<1>3. acOp' \in [Clients -> Operations] /\ (\A d \in Clients \ {c} : acOp'[d] = acOp[d]) /\ acOp'[c].pc = "idle"
  BY <1>1, <1>2
<1>4. OperationOf(c, acOp[c], acLock, acRecords)'
  BY <1>3 DEF OperationOf, Locked, Ac!Deciding
<1>5. Hand(acOp'[c]) = 0
  BY <1>3 DEF Hand
<1>6. HandOf(c, acOp[c])'
  BY <1>2, <1>5 DEF HandOf
<1> QED  BY <1>2, <1>3, <1>4, <1>6, AccountsQuiet

\* An operation begins.
LEMMA AccountsModify ==
  ASSUME AccountsInv, NEW c \in Clients, NEW r \in Routes, NEW kind \in Kinds, NEW cred \in Credentials,
         acOp[c] = Ac!Resting, Ac!Modify(c, kind, r, cred),
         acRecords' = acRecords, acSpent' = acSpent, acLock' = acLock, acLost' = acLost, acReplays' = acReplays,
         \/ cred.refresh = 0 /\ acIssued' = acIssued
         \/ cred.refresh \in {0, acIssued'} /\ acIssued' = acIssued + 1
  PROVE  AccountsInv'
<1> DEFINE o == [Ac!Resting EXCEPT !.pc = "locking", !.kind = kind, !.route = r, !.next = cred]
<1>1. o \in Operations /\ o.pc = "locking" /\ o.next = cred /\ o.route = r
  <2>1. [s \in Routes |-> Ac!NoCred] \in [Routes -> Credentials]
    BY RestingIs
  <2> QED  BY <2>1, Zenon DEF Ac!Resting, Operations, Kinds
<1>2. acOp \in [Clients -> Operations] /\ acIssued \in Nat /\ acSpent \subseteq 1..acIssued
      /\ acReplays \subseteq acLost /\ RecordsApart /\ acOp[c].pc = "idle"
  BY RestingIs DEF AccountsInv, AccountsTyped
<1>3. acOp' = [acOp EXCEPT ![c] = o]
  BY DEF Ac!Modify
<1> HIDE DEF o
<1>4. acOp' \in [Clients -> Operations] /\ (\A d \in Clients \ {c} : acOp'[d] = acOp[d]) /\ acOp'[c] = o
  BY <1>1, <1>2, <1>3
<1>5. OperationOf(c, acOp[c], acLock, acRecords)'
  BY <1>1, <1>4 DEF OperationOf, Locked, Ac!Deciding
<1>6. Hand(acOp'[c]) = cred.refresh
  BY <1>1, <1>4 DEF Hand
<1>7. acIssued' \in Nat /\ acIssued' >= acIssued /\ cred.refresh <= acIssued'
  BY <1>2
<1>8. HandOf(c, acOp[c])'
  <2>1. CASE cred.refresh = 0
    BY <1>2, <1>6, <1>7, <2>1 DEF HandOf
  <2>2. CASE cred.refresh = acIssued + 1
    <3>1. acIssued + 1 \notin acSpent
      BY <1>2
    <3>2. \A d \in Clients \ {c} : Hand(acOp'[d]) # acIssued + 1
      <4> SUFFICES ASSUME NEW d \in Clients \ {c} PROVE Hand(acOp[d]) # acIssued + 1
        BY <1>4
      <4> QED  BY <1>2, AccountsFacts DEF HandOf
    <3>3. \A s \in Routes : acRecords[s].refresh # acIssued + 1
      BY <1>2 DEF RecordsApart, AccountsInv, AccountsTyped, Credentials
    <3> QED  BY <1>6, <1>7, <2>2, <3>1, <3>2, <3>3 DEF HandOf
  <2> QED  BY <2>1, <2>2
<1>9. ~Renews(acOp[c])
  BY <1>2 DEF Renews
<1> QED  BY <1>2, <1>4, <1>5, <1>7, <1>8, <1>9, AccountsQuiet

\* An operation goes on, with the same token or none in hand.
LEMMA AccountsGoOn ==
  ASSUME AccountsInv, NEW c \in Clients, NEW o \in Operations, acOp' = [acOp EXCEPT ![c] = o],
         acRecords' = acRecords, acSpent' = acSpent, acIssued' = acIssued, acLost' = acLost, acReplays' = acReplays,
         \A d \in Clients \ {c} : acLock = d => acLock' = d,
         OperationOf(c, o, acLock', acRecords'), Hand(o) = Hand(acOp[c]),
         o.route = acOp[c].route, Renews(acOp[c]) => Renews(o)
  PROVE  AccountsInv'
<1>1. acOp \in [Clients -> Operations] /\ acIssued \in Nat /\ acReplays \subseteq acLost
  BY DEF AccountsInv, AccountsTyped
<1>2. acOp' \in [Clients -> Operations] /\ (\A d \in Clients \ {c} : acOp'[d] = acOp[d]) /\ acOp'[c] = o
  BY <1>1
<1>3. OperationOf(c, acOp[c], acLock, acRecords)'
  BY <1>2 DEF OperationOf
<1>4. HandOf(c, acOp[c])
  BY DEF AccountsInv
<1>5. HandOf(c, acOp[c])'
  BY <1>2, <1>4 DEF HandOf
<1> QED  BY <1>1, <1>2, <1>3, <1>5, AccountsQuiet
\* A refresh keeps the token of the record it renews, or has the next one.
LEMMA AccountsRenews ==
  ASSUME AccountsInv, NEW c \in Clients, NEW o \in Operations, acOp' = [acOp EXCEPT ![c] = o],
         acRecords' = acRecords, acIssued' \in Nat, acIssued' >= acIssued, acLost' = acLost, acReplays' = acReplays, acLock' = acLock,
         acOp[c].pc = "mutating", acOp[c].kind = "refresh", Renews(o), o.route = acOp[c].route, o.doc = acOp[c].doc,
         \/ /\ o.next.refresh = acRecords[o.route].refresh /\ acSpent' = acSpent
         \/ /\ o.next.refresh = acIssued + 1 /\ acIssued' = acIssued + 1
            /\ acSpent' = acSpent \cup {acRecords[o.route].refresh} /\ acRecords[o.route].refresh # 0
  PROVE  AccountsInv'
<1> DEFINE r == acOp[c].route
           t == acRecords[r].refresh
<1>1. /\ acOp \in [Clients -> Operations] /\ acIssued \in Nat /\ acSpent \subseteq 1..acIssued /\ acReplays \subseteq acLost
      /\ acRecords \in [Routes -> Credentials] /\ RecordsApart /\ SpentHeld
  BY DEF AccountsInv, AccountsTyped
<1>2. r \in Routes /\ acLock = c /\ o.doc = acRecords /\ t \in Nat /\ t <= acIssued
  BY <1>1, AccountsFacts DEF OperationOf, Locked, Ac!Deciding, Credentials, RecordsApart
<1>3. acOp' \in [Clients -> Operations] /\ (\A d \in Clients \ {c} : acOp'[d] = acOp[d]) /\ acOp'[c] = o
  BY <1>1
<1>4. \A d \in Clients \ {c} : ~Renews(acOp[d])
  BY <1>2, AccountsFacts DEF OperationOf, Locked, Renews
<1>5. \A d \in Clients \ {c} : t # 0 => Hand(acOp[d]) # t
  BY <1>2, <1>4, AccountsFacts DEF HandOf
<1>6. t \in acSpent => t \in acLost
  <2>1. ~Renews(acOp[c])
    BY DEF Renews
  <2> QED  BY <1>1, <1>2, <1>4, <2>1 DEF SpentHeld
<1>7. o.pc \in {"exchanging", "writing"} /\ Hand(o) = o.next.refresh /\ o.route = r /\ o.kind = "refresh"
  BY DEF Renews, Hand
<1> HIDE DEF r, t
<1>8. AccountsTyped'
  <2>1. acSpent' \subseteq acSpent \cup {t} /\ (acSpent' # acSpent => t # 0)
    BY <1>7 DEF r, t
  <2>2. acSpent' \subseteq 1..acIssued'
    BY <1>1, <1>2, <2>1
  <2> QED  BY <1>1, <1>3, <2>2 DEF AccountsTyped
<1>9. RecordsApart'
  BY <1>1 DEF RecordsApart, Credentials
<1>10. SpentHeld'
  <2> SUFFICES ASSUME NEW s \in Routes, acRecords[s].refresh \in acSpent', acRecords[s].refresh \notin acLost
               PROVE  \E d \in Clients : Renews(acOp'[d]) /\ acOp'[d].route = s
    BY DEF SpentHeld
  <2>1. CASE s = r
    BY <1>3, <1>7, <2>1
  <2>2. CASE s # r
    <3>1. t # 0 => acRecords[s].refresh # t
      BY <1>1, <1>2, <2>2 DEF RecordsApart, t
    <3>2. acRecords[s].refresh \in acSpent
      BY <3>1, <1>7 DEF t
    <3>3. ~Renews(acOp[c])
      BY DEF Renews
    <3> QED  BY <1>1, <1>4, <3>2, <3>3 DEF SpentHeld
  <2> QED  BY <2>1, <2>2
<1>11. ASSUME NEW d \in Clients PROVE OperationOf(d, acOp[d], acLock, acRecords)'
  <2>1. CASE d = c
    BY <1>2, <1>3, <1>7, <2>1 DEF OperationOf
  <2>2. CASE d # c
    BY <1>3, <2>2, AccountsFacts DEF OperationOf
  <2> QED  BY <2>1, <2>2
<1>12. \A d \in Clients \ {c} : Hand(o) # 0 => Hand(acOp[d]) # Hand(o)
  <2> SUFFICES ASSUME NEW d \in Clients \ {c}, Hand(o) # 0 PROVE Hand(acOp[d]) # Hand(o)
    OBVIOUS
  <2>1. Hand(acOp[d]) <= acIssued /\ Hand(acOp[d]) \in Nat
    BY AccountsFacts DEF HandOf
  <2> QED  BY <1>1, <1>5, <1>7, <2>1 DEF t
<1>13. HandOf(c, acOp[c])'
  <2>1. Hand(o) <= acIssued'
    BY <1>1, <1>2, <1>7 DEF t
  <2>2. Hand(o) \in acSpent' => Hand(o) \in acLost
    <3>1. acIssued + 1 \notin acSpent /\ acIssued + 1 # t
      BY <1>1, <1>2
    <3> QED  BY <1>6, <1>7, <3>1 DEF t
  <2>3. \A s \in Routes : Hand(o) # 0 /\ acRecords[s].refresh = Hand(o) => s = r
    <3> SUFFICES ASSUME NEW s \in Routes, Hand(o) # 0, acRecords[s].refresh = Hand(o) PROVE s = r
      OBVIOUS
    <3>1. acRecords[s].refresh <= acIssued /\ acRecords[s].refresh \in Nat
      BY <1>1 DEF RecordsApart, Credentials
    <3>2. Hand(o) = acRecords[r].refresh
      BY <1>1, <1>7, <3>1
    <3> QED  BY <1>1, <1>2, <3>2 DEF RecordsApart
  <2> QED  BY <1>3, <1>7, <1>12, <2>1, <2>2, <2>3 DEF HandOf
<1>14. ASSUME NEW d \in Clients \ {c} PROVE HandOf(d, acOp[d])'
  <2>1. HandOf(d, acOp[d]) /\ Hand(acOp[d]) \in Nat /\ acOp'[d] = acOp[d]
    BY <1>3, AccountsFacts
  <2>2. Hand(acOp[d]) <= acIssued'
    BY <1>1, <2>1 DEF HandOf
  <2>3. Hand(acOp[d]) \in acSpent' => Hand(acOp[d]) \in acLost
    BY <1>5, <1>7, <2>1 DEF HandOf, t
  <2>4. \A e \in Clients \ {d} : Hand(acOp[d]) # 0 => Hand(acOp'[e]) # Hand(acOp[d])
    BY <1>3, <1>12, <2>1 DEF HandOf
  <2> QED  BY <2>1, <2>2, <2>3, <2>4 DEF HandOf
<1> QED  BY <1>1, <1>8, <1>9, <1>10, <1>11, <1>13, <1>14 DEF AccountsInv
\* The rename replaces the record the operation decided on.
LEMMA AccountsWrites ==
  ASSUME AccountsInv, NEW c \in Clients, Ac!WriteDocument(c)
  PROVE  AccountsInv'
<1> DEFINE r == acOp[c].route
           h == Hand(acOp[c])
           o == [acOp[c] EXCEPT !.pc = "renamed"]
<1>1. /\ acOp \in [Clients -> Operations] /\ acIssued \in Nat /\ acReplays \subseteq acLost /\ acSpent \subseteq 1..acIssued
      /\ acRecords \in [Routes -> Credentials] /\ RecordsApart /\ SpentHeld
  BY DEF AccountsInv, AccountsTyped
<1>2. acOp[c].pc = "writing" /\ acLock' = acLock /\ acIssued' = acIssued /\ acSpent' = acSpent /\ acReplays' = acReplays
      /\ acLost' = acLost /\ acOp' = [acOp EXCEPT ![c] = o]
  BY <1>1 DEF Ac!WriteDocument, Ac!Step, Operations
<1>3. /\ r \in Routes /\ acLock = c /\ acOp[c].doc = acRecords /\ h = acOp[c].next.refresh /\ acOp[c].next \in Credentials
      /\ h \in Nat /\ HandOf(c, acOp[c])
  BY <1>1, <1>2, AccountsFacts DEF OperationOf, Locked, Ac!Deciding, Hand
<1>4. o \in Operations /\ o.pc = "renamed" /\ o.kind = acOp[c].kind /\ o.route = r
  BY <1>1 DEF Operations
<1>5. acRecords' = [acRecords EXCEPT ![r] = acOp[c].next]
  BY <1>3 DEF Ac!WriteDocument, Ac!Written
<1> HIDE DEF r, h, o
<1>6. acOp' \in [Clients -> Operations] /\ (\A d \in Clients \ {c} : acOp'[d] = acOp[d]) /\ acOp'[c] = o
  BY <1>1, <1>2, <1>4
<1>7. acRecords' \in [Routes -> Credentials] /\ acRecords'[r].refresh = h /\ \A s \in Routes \ {r} : acRecords'[s] = acRecords[s]
  BY <1>1, <1>3, <1>5
<1>8. \A d \in Clients \ {c} : ~Renews(acOp[d])
  BY <1>3, AccountsFacts DEF OperationOf, Locked, Renews
<1>9. \A s \in Routes \ {r} : h # 0 => acRecords[s].refresh # h
  BY <1>3 DEF HandOf, h, r
<1>10. Hand(o) = 0
  BY <1>4 DEF Hand
<1>11. AccountsTyped'
  BY <1>1, <1>2, <1>6, <1>7 DEF AccountsTyped
<1>12. RecordsApart'
  <2>1. \A s \in Routes : acRecords'[s].refresh <= acIssued
    <3> SUFFICES ASSUME NEW s \in Routes PROVE acRecords'[s].refresh <= acIssued
      OBVIOUS
    <3>1. CASE s = r
      BY <1>3, <1>7, <3>1 DEF HandOf, h
    <3>2. CASE s # r
      BY <1>1, <1>7, <3>2 DEF RecordsApart
    <3> QED  BY <3>1, <3>2
  <2>2. ASSUME NEW s \in Routes, NEW u \in Routes, s # u, acRecords'[s].refresh # 0
        PROVE  acRecords'[u].refresh # acRecords'[s].refresh
    <3>1. CASE s = r
      BY <1>7, <1>9, <2>2, <3>1
    <3>2. CASE u = r
      BY <1>7, <1>9, <2>2, <3>2
    <3>3. CASE s # r /\ u # r
      BY <1>1, <1>7, <2>2, <3>3 DEF RecordsApart
    <3> QED  BY <3>1, <3>2, <3>3
  <2> QED  BY <1>2, <2>1, <2>2 DEF RecordsApart
<1>13. SpentHeld'
  <2> SUFFICES ASSUME NEW s \in Routes, acRecords'[s].refresh \in acSpent PROVE acRecords'[s].refresh \in acLost
    BY <1>2 DEF SpentHeld
  <2>1. CASE s = r
    BY <1>3, <1>7, <2>1 DEF HandOf, h
  <2>2. CASE s # r
    <3>1. acRecords[s].refresh \in acSpent /\ acRecords'[s] = acRecords[s]
      BY <1>7, <2>2
    <3>2. PICK d \in Clients : acRecords[s].refresh \in acLost \/ (Renews(acOp[d]) /\ acOp[d].route = s)
      BY <1>1, <3>1 DEF SpentHeld
    <3> QED  BY <1>8, <2>2, <3>1, <3>2 DEF r
  <2> QED  BY <2>1, <2>2
<1>14. ASSUME NEW d \in Clients PROVE OperationOf(d, acOp[d], acLock, acRecords)'
  <2>1. CASE d = c
    BY <1>2, <1>3, <1>4, <1>6, <2>1 DEF OperationOf, Locked, Ac!Deciding
  <2>2. CASE d # c
    <3>1. acOp'[d] = acOp[d] /\ OperationOf(d, acOp[d], acLock, acRecords) /\ acOp[d].pc \notin Locked
      BY <1>3, <1>6, <2>2, AccountsFacts DEF OperationOf
    <3> QED  BY <1>2, <3>1 DEF OperationOf, Locked, Ac!Deciding
  <2> QED  BY <2>1, <2>2
<1>15. HandOf(c, acOp[c])'
  BY <1>1, <1>2, <1>6, <1>10 DEF HandOf
<1>16. ASSUME NEW d \in Clients \ {c} PROVE HandOf(d, acOp[d])'
  <2>1. HandOf(d, acOp[d]) /\ acOp'[d] = acOp[d]
    BY <1>6, AccountsFacts
  <2>2. \A e \in Clients \ {d} : Hand(acOp[d]) # 0 => Hand(acOp'[e]) # Hand(acOp[d])
    BY <1>6, <1>10, <2>1 DEF HandOf
  <2>3. Hand(acOp[d]) # 0 => h # Hand(acOp[d])
    BY <2>1 DEF HandOf, h
  <2>4. \A s \in Routes : Hand(acOp[d]) # 0 /\ acRecords'[s].refresh = Hand(acOp[d]) =>
                            Renews(acOp[d]) /\ acOp[d].route = s
    BY <1>7, <2>1, <2>3 DEF HandOf
  <2> QED  BY <1>2, <2>1, <2>2, <2>4 DEF HandOf
<1> QED  BY <1>1, <1>2, <1>11, <1>12, <1>13, <1>14, <1>15, <1>16 DEF AccountsInv

LEMMA AccountsInit == Ac!Init => AccountsInv
<1> SUFFICES ASSUME Ac!Init PROVE AccountsInv
  OBVIOUS
<1>1. /\ Ac!NoCred \in Credentials /\ Ac!ApiKey \in Credentials /\ Ac!NoCred.refresh = 0 /\ Ac!ApiKey.refresh = 0
  BY DEF Ac!NoCred, Ac!ApiKey, Ac!Cred, Credentials
<1>2. acIssued \in Nat /\ acSpent = {} /\ acReplays = {}
  BY DEF Ac!Init
<1>3. acOp \in [Clients -> Operations] /\ \A c \in Clients : acOp[c].pc = "idle"
  BY RestingIs DEF Ac!Init
<1>4. acRecords \in [Routes -> Credentials] /\ RecordsApart
  <2> DEFINE grant == Ac!Cred("oauth", 1, 1)
  <2>1. grant \in Credentials /\ grant.refresh = 1
    BY DEF Ac!Cred, Credentials
  <2> HIDE DEF grant
  <2>2. CASE acRecords \in {[r \in Routes |-> cred] : cred \in {Ac!NoCred, Ac!ApiKey}}
    <3>1. acRecords \in [Routes -> Credentials] /\ \A r \in Routes : acRecords[r].refresh = 0
      BY <1>1, <2>2
    <3> QED  BY <1>2, <3>1 DEF RecordsApart
  <2>3. ASSUME NEW s \in Routes, acRecords = [r \in Routes |-> IF r = s THEN grant ELSE Ac!NoCred], acIssued = 1
        PROVE  acRecords \in [Routes -> Credentials] /\ RecordsApart
    <3>1. acRecords \in [Routes -> Credentials]
      BY <1>1, <2>1, <2>3
    <3>2. \A r \in Routes : acRecords[r].refresh = IF r = s THEN 1 ELSE 0
      BY <1>1, <2>1, <2>3
    <3> QED  BY <2>3, <3>1, <3>2 DEF RecordsApart
  <2> QED  BY <2>2, <2>3 DEF Ac!Init, grant
<1>5. \A c \in Clients : Hand(acOp[c]) = 0
  BY <1>3 DEF Hand
<1>6. AccountsTyped /\ SpentHeld
  BY <1>2, <1>3, <1>4 DEF AccountsTyped, SpentHeld
<1>7. \A c \in Clients : OperationOf(c, acOp[c], acLock, acRecords) /\ HandOf(c, acOp[c])
  BY <1>2, <1>3, <1>5 DEF OperationOf, HandOf, Locked, Ac!Deciding
<1> QED  BY <1>2, <1>4, <1>6, <1>7 DEF AccountsInv
\* Every step of a client keeps the invariant.
LEMMA AccountsCalls ==
  ASSUME AccountsInv, NEW c \in Clients, NEW r \in Routes,
         Ac!PrepareCall(c, r) \/ Ac!Login(c, r) \/ Ac!Logout(c, r)
  PROVE  AccountsInv'
<1>1. /\ Ac!NoCred \in Credentials /\ Ac!ApiKey \in Credentials /\ Ac!NoCred.refresh = 0 /\ Ac!ApiKey.refresh = 0
      /\ acIssued \in Nat
  BY DEF Ac!NoCred, Ac!ApiKey, Ac!Cred, Credentials, AccountsInv, AccountsTyped
<1>2. "refresh" \in Kinds /\ "login" \in Kinds /\ "logout" \in Kinds
  BY DEF Kinds
<1>3. CASE Ac!PrepareCall(c, r)
  BY <1>1, <1>2, <1>3, AccountsModify DEF Ac!PrepareCall
<1>4. CASE Ac!Login(c, r)
  <2>1. CASE Ac!Modify(c, "login", r, Ac!ApiKey) /\ acIssued' = acIssued
    BY <1>1, <1>2, <1>4, <2>1, AccountsModify DEF Ac!Login
  <2>2. CASE acIssued' = acIssued + 1 /\ \E cred \in Ac!Granted(acIssued') : Ac!Modify(c, "login", r, cred)
    <3>1. PICK cred \in Ac!Granted(acIssued') : Ac!Modify(c, "login", r, cred)
      BY <2>2
    <3>2. cred \in Credentials /\ cred.refresh \in {0, acIssued'}
      BY <1>1, <2>2, <3>1 DEF Ac!Granted, Ac!Cred, Credentials
    <3> QED  BY <1>2, <1>4, <2>2, <3>1, <3>2, AccountsModify DEF Ac!Login
  <2> QED  BY <1>4, <2>1, <2>2 DEF Ac!Login
<1>5. CASE Ac!Logout(c, r)
  BY <1>1, <1>2, <1>5, AccountsModify DEF Ac!Logout
<1> QED  BY <1>3, <1>4, <1>5

LEMMA AccountsGoesOn ==
  ASSUME AccountsInv, NEW c \in Clients,
         Ac!Cancel(c) \/ Ac!Lock(c) \/ Ac!ReadDocument(c) \/ Ac!MutateReplaces(c) \/ Ac!Refreshed(c)
  PROVE  AccountsInv'
<1>1. /\ acOp[c] \in Operations /\ OperationOf(c, acOp[c], acLock, acRecords)
      /\ acRecords \in [Routes -> Credentials] /\ DOMAIN acOp = Clients
  BY AccountsFacts DEF AccountsInv, AccountsTyped
<1>2. CASE Ac!Cancel(c)
  <2> DEFINE o == [acOp[c] EXCEPT !.cut = TRUE]
  <2>1. o \in Operations /\ o.pc = acOp[c].pc /\ o.kind = acOp[c].kind /\ o.route = acOp[c].route
        /\ o.doc = acOp[c].doc /\ o.next = acOp[c].next
    BY <1>1, Zenon DEF Operations
  <2>2. acOp' = [acOp EXCEPT ![c] = o]
    BY <1>2 DEF Ac!Cancel
  <2> HIDE DEF o
  <2>3. OperationOf(c, o, acLock', acRecords') /\ Hand(o) = Hand(acOp[c]) /\ (Renews(acOp[c]) => Renews(o))
    BY <1>1, <1>2, <2>1 DEF Ac!Cancel, OperationOf, Hand, Renews
  <2> QED  BY <1>2, <2>1, <2>2, <2>3, AccountsGoOn, Zenon DEF Ac!Cancel
<1>3. CASE Ac!Lock(c)
  <2> DEFINE o == [acOp[c] EXCEPT !.pc = "locked"]
  <2>1. o \in Operations /\ o.pc = "locked" /\ o.kind = acOp[c].kind /\ o.route = acOp[c].route
        /\ o.doc = acOp[c].doc /\ o.next = acOp[c].next
    BY <1>1 DEF Operations
  <2>2. acOp' = [acOp EXCEPT ![c] = o]
    BY <1>3 DEF Ac!Lock, Ac!Step
  <2> HIDE DEF o
  <2>3. OperationOf(c, o, acLock', acRecords') /\ Hand(o) = Hand(acOp[c]) /\ ~Renews(acOp[c])
    BY <1>1, <1>3, <2>1 DEF Ac!Lock, OperationOf, Hand, Renews, Ac!Deciding
  <2>4. acLock \notin Clients
    BY <1>3, AccountsAssumption DEF Ac!Lock, Ac!Free
  <2> QED  BY <1>3, <2>1, <2>2, <2>3, <2>4, AccountsGoOn, Zenon DEF Ac!Lock
<1>4. CASE Ac!ReadDocument(c)
  <2> DEFINE o == [acOp[c] EXCEPT !.pc = "mutating", !.doc = acRecords]
  <2>1. o \in Operations /\ o.pc = "mutating" /\ o.kind = acOp[c].kind /\ o.route = acOp[c].route
        /\ o.doc = acRecords /\ o.next = acOp[c].next
    BY <1>1, Zenon DEF Operations
  <2>2. acOp' = [acOp EXCEPT ![c] = o]
    BY <1>4, Zenon DEF Ac!ReadDocument
  <2> HIDE DEF o
  <2>3. OperationOf(c, o, acLock', acRecords') /\ Hand(o) = Hand(acOp[c]) /\ ~Renews(acOp[c])
    BY <1>1, <1>4, <2>1 DEF Ac!ReadDocument, OperationOf, Hand, Renews, Locked
  <2> QED  BY <1>4, <2>1, <2>2, <2>3, AccountsGoOn, Zenon DEF Ac!ReadDocument
<1>5. CASE Ac!MutateReplaces(c) \/ Ac!Refreshed(c)
  <2> DEFINE o == [acOp[c] EXCEPT !.pc = "writing"]
  <2>1. o \in Operations /\ o.pc = "writing" /\ o.kind = acOp[c].kind /\ o.route = acOp[c].route
        /\ o.doc = acOp[c].doc /\ o.next = acOp[c].next
    BY <1>1 DEF Operations
  <2>2. acOp' = [acOp EXCEPT ![c] = o] /\ acOp[c].pc \in {"mutating", "exchanging"}
    BY <1>5 DEF Ac!MutateReplaces, Ac!Refreshed, Ac!Step
  <2> HIDE DEF o
  <2>3. OperationOf(c, o, acLock', acRecords') /\ Hand(o) = Hand(acOp[c]) /\ (Renews(acOp[c]) => Renews(o))
    BY <1>1, <1>5, <2>1, <2>2 DEF Ac!MutateReplaces, Ac!Refreshed, OperationOf, Hand, Renews, Locked, Ac!Deciding
  <2> QED  BY <1>5, <2>1, <2>2, <2>3, AccountsGoOn, Zenon DEF Ac!MutateReplaces, Ac!Refreshed
<1> QED  BY <1>2, <1>3, <1>4, <1>5

LEMMA AccountsEnds ==
  ASSUME AccountsInv, NEW c \in Clients,
         \/ Ac!LockRefused(c) \/ Ac!ReadFails(c) \/ Ac!MutateGone(c) \/ Ac!RefreshFails(c)
         \/ Ac!AnswerLost(c) \/ Ac!WriteFails(c) \/ Ac!ModifyReturns(c) \/ Ac!Crash(c)
  PROVE  AccountsInv'
<1>1. /\ OperationOf(c, acOp[c], acLock, acRecords) /\ acReplays \subseteq acLost /\ SpentHeld
      /\ acOp[c].route \in Routes \cup {"none"}
  BY AccountsFacts DEF AccountsInv
<1>2. acOp[c].pc \in Ac!Deciding => acLock = c /\ acOp[c].route \in Routes /\ Ac!Base(c) = acRecords[acOp[c].route]
  BY <1>1 DEF OperationOf, Ac!Deciding, Locked, Ac!Base
<1>3. Ac!Losing(c) = acLost \cup ({Ac!Base(c).refresh} \cap acSpent)
  BY DEF Ac!Losing
<1>4. CASE Ac!LockRefused(c)
  <2>1. ~Renews(acOp[c])
    BY <1>4 DEF Ac!LockRefused, Renews
  <2> QED  BY <1>1, <1>4, <2>1, AccountsReturn DEF Ac!LockRefused
<1>5. CASE Ac!ReadFails(c) \/ Ac!MutateGone(c) \/ Ac!ModifyReturns(c)
  <2>1. acOp[c].pc \in {"locked", "mutating", "renamed"}
    BY <1>5 DEF Ac!ReadFails, Ac!MutateGone, Ac!ModifyReturns
  <2>2. ~Renews(acOp[c]) /\ acLock = c
    BY <1>1, <2>1 DEF Renews, OperationOf, Locked
  <2> QED  BY <1>1, <1>5, <2>2, AccountsReturn DEF Ac!ReadFails, Ac!MutateGone, Ac!ModifyReturns, Ac!Unlock
<1>6. CASE Ac!RefreshFails(c)
  <2>1. acOp[c].pc = "mutating" /\ acOp[c].pc \in Ac!Deciding
    BY <1>6 DEF Ac!RefreshFails, Ac!Deciding
  <2>2. ~Renews(acOp[c]) /\ acLock = c
    BY <1>2, <2>1 DEF Renews
  <2>3. acReplays' \subseteq acLost
    <3>1. CASE acReplays' = acReplays
      BY <1>1, <3>1
    <3>2. CASE Ac!Presented(c) \in acSpent /\ acReplays' = acReplays \union {Ac!Presented(c)}
      <4>1. acRecords[acOp[c].route].refresh \in acSpent
        BY <1>2, <2>1, <3>2 DEF Ac!Presented
      <4>2. \A d \in Clients : ~Renews(acOp[d])
        BY <2>2, AccountsFacts DEF Renews, OperationOf, Locked
      <4> QED  BY <1>1, <1>2, <2>1, <3>2, <4>1, <4>2 DEF SpentHeld, Ac!Presented
    <3> QED  BY <1>6, <3>1, <3>2 DEF Ac!RefreshFails
  <2> QED  BY <1>6, <2>2, <2>3, AccountsReturn DEF Ac!RefreshFails, Ac!Unlock
<1>7. CASE Ac!AnswerLost(c) \/ Ac!WriteFails(c)
  <2>1. acOp[c].pc \in Ac!Deciding
    BY <1>7 DEF Ac!AnswerLost, Ac!WriteFails, Ac!Deciding
  <2>2. acLost' = Ac!Losing(c) \/ (acLost' = acLost /\ ~Renews(acOp[c]))
    BY <1>7 DEF Ac!AnswerLost, Ac!WriteFails, Renews
  <2>3. /\ acLost \subseteq acLost' /\ acReplays' \subseteq acLost'
        /\ Renews(acOp[c]) /\ acRecords[acOp[c].route].refresh \in acSpent => acRecords[acOp[c].route].refresh \in acLost'
    BY <1>1, <1>2, <1>3, <1>7, <2>1, <2>2 DEF Ac!AnswerLost, Ac!WriteFails
  <2> QED  BY <1>2, <1>7, <2>1, <2>3, AccountsReturn DEF Ac!AnswerLost, Ac!WriteFails, Ac!Unlock
<1>8. CASE Ac!Crash(c)
  <2>1. acLost' = Ac!Losing(c) \/ (acLost' = acLost /\ ~Renews(acOp[c]))
    BY <1>8 DEF Ac!Crash, Renews
  <2>2. Renews(acOp[c]) => acOp[c].pc \in Ac!Deciding
    BY DEF Renews, Ac!Deciding
  <2>3. /\ acLost \subseteq acLost' /\ acReplays' \subseteq acLost'
        /\ Renews(acOp[c]) /\ acRecords[acOp[c].route].refresh \in acSpent => acRecords[acOp[c].route].refresh \in acLost'
    BY <1>1, <1>2, <1>3, <1>8, <2>1, <2>2 DEF Ac!Crash
  <2> QED  BY <1>8, <2>3, AccountsReturn DEF Ac!Crash
<1> QED  BY <1>4, <1>5, <1>6, <1>7, <1>8
LEMMA AccountsRefreshes ==
  ASSUME AccountsInv, NEW c \in Clients, Ac!MutateKeeps(c) \/ Ac!Refreshes(c)
  PROVE  AccountsInv'
<1>1. /\ acOp[c] \in Operations /\ OperationOf(c, acOp[c], acLock, acRecords) /\ acOp[c].pc = "mutating" /\ acOp[c].kind = "refresh"
      /\ acRecords \in [Routes -> Credentials] /\ acIssued \in Nat
  BY AccountsFacts DEF AccountsInv, AccountsTyped, Ac!MutateKeeps, Ac!Refreshes
<1>2. acOp[c].route \in Routes /\ Ac!Base(c) = acRecords[acOp[c].route]
  BY <1>1 DEF OperationOf, Ac!Deciding, Ac!Base
<1>3. CASE Ac!MutateKeeps(c)
  <2> DEFINE o == [acOp[c] EXCEPT !.pc = "writing", !.next = Ac!Base(c)]
  <2>1. /\ o \in Operations /\ o.pc = "writing" /\ o.kind = "refresh" /\ o.route = acOp[c].route
        /\ o.doc = acOp[c].doc /\ o.next = Ac!Base(c)
    BY <1>1, <1>2, Zenon DEF Operations
  <2>2. acOp' = [acOp EXCEPT ![c] = o]
    BY <1>3, Zenon DEF Ac!MutateKeeps
  <2> HIDE DEF o
  <2>3. Renews(o) /\ o.next.refresh = acRecords[o.route].refresh
    BY <1>2, <2>1 DEF Renews
  <2>4. /\ acRecords' = acRecords /\ acIssued' = acIssued /\ acSpent' = acSpent
        /\ acLost' = acLost /\ acReplays' = acReplays /\ acLock' = acLock
    BY <1>3 DEF Ac!MutateKeeps
  <2>5. acIssued' \in Nat /\ acIssued' >= acIssued
    BY <1>1, <2>4
  <2> QED  BY <1>1, <2>1, <2>2, <2>3, <2>4, <2>5, AccountsRenews, Zenon
<1>4. CASE Ac!Refreshes(c)
  <2>1. PICK refresh \in Ac!Renewals(c, acIssued') :
          /\ acSpent' = IF refresh = Ac!Presented(c) THEN acSpent ELSE acSpent \union {Ac!Presented(c)}
          /\ acOp' = [acOp EXCEPT ![c].pc = "exchanging", ![c].next = Ac!Cred("oauth", acIssued', refresh)]
    BY <1>4, Zenon DEF Ac!Refreshes
  <2>2. acIssued' = acIssued + 1 /\ Ac!Presented(c) = acRecords[acOp[c].route].refresh /\ Ac!Presented(c) # 0
    BY <1>2, <1>4 DEF Ac!Refreshes, Ac!Presented
  <2>3. refresh \in {Ac!Presented(c), acIssued + 1}
    BY <2>1, <2>2 DEF Ac!Renewals
  <2> DEFINE new == Ac!Cred("oauth", acIssued + 1, refresh)
             o == [acOp[c] EXCEPT !.pc = "exchanging", !.next = new]
  <2>4. new \in Credentials /\ new.refresh = refresh
    BY <1>1, <1>2, <2>2, <2>3 DEF Ac!Cred, Credentials
  <2>5. acOp' = [acOp EXCEPT ![c] = [acOp[c] EXCEPT !.pc = "exchanging", !.next = new]]
    BY <2>1, <2>2, Zenon
  <2> HIDE DEF new
  <2>6. /\ o \in Operations /\ o.pc = "exchanging" /\ o.kind = "refresh" /\ o.route = acOp[c].route
        /\ o.doc = acOp[c].doc /\ o.next = new
    BY <1>1, <2>4, Zenon DEF Operations
  <2>7. acOp' = [acOp EXCEPT ![c] = o]
    BY <2>5
  <2> HIDE DEF o
  <2>8. Renews(o) /\ acIssued' \in Nat /\ acIssued' >= acIssued
    BY <1>1, <2>2, <2>6 DEF Renews
  <2>9. \/ o.next.refresh = acRecords[o.route].refresh /\ acSpent' = acSpent
        \/ /\ o.next.refresh = acIssued + 1 /\ acIssued' = acIssued + 1
           /\ acSpent' = acSpent \cup {acRecords[o.route].refresh} /\ acRecords[o.route].refresh # 0
    BY <2>1, <2>2, <2>3, <2>4, <2>6
  <2>10. acRecords' = acRecords /\ acLost' = acLost /\ acReplays' = acReplays /\ acLock' = acLock
    BY <1>4 DEF Ac!Refreshes
  <2> QED  BY <1>1, <2>6, <2>7, <2>8, <2>9, <2>10, AccountsRenews, Zenon
<1> QED  BY <1>3, <1>4

LEMMA AccountsStep == AccountsInv /\ [Ac!Next]_(Ac!vars) => AccountsInv'
<1> SUFFICES ASSUME AccountsInv, [Ac!Next]_(Ac!vars) PROVE AccountsInv'
  OBVIOUS
<1>1. ASSUME UNCHANGED <<acRecords, acLock, acOp, acIssued, acSpent, acReplays, acLost>> PROVE AccountsInv'
  BY <1>1 DEF AccountsInv, AccountsTyped, RecordsApart, SpentHeld, HandOf
<1>2. CASE Ac!Expire \/ \E c \in Clients : Ac!Stop(c)
  BY <1>1, <1>2 DEF Ac!Expire, Ac!Stop
<1>3. CASE \E c \in Clients : Ac!WriteDocument(c)
  BY <1>3, AccountsWrites
<1>4. ASSUME NEW c \in Clients, NEW r \in Routes, Ac!PrepareCall(c, r) \/ Ac!Login(c, r) \/ Ac!Logout(c, r)
      PROVE  AccountsInv'
  BY <1>4, AccountsCalls
<1>5. ASSUME NEW c \in Clients, Ac!Cancel(c) \/ Ac!Lock(c) \/ Ac!ReadDocument(c) \/ Ac!MutateReplaces(c) \/ Ac!Refreshed(c)
      PROVE  AccountsInv'
  BY <1>5, AccountsGoesOn
<1>6. ASSUME NEW c \in Clients, Ac!MutateKeeps(c) \/ Ac!Refreshes(c) PROVE AccountsInv'
  BY <1>6, AccountsRefreshes
<1>7. ASSUME NEW c \in Clients,
             \/ Ac!LockRefused(c) \/ Ac!ReadFails(c) \/ Ac!MutateGone(c) \/ Ac!RefreshFails(c)
             \/ Ac!AnswerLost(c) \/ Ac!WriteFails(c) \/ Ac!ModifyReturns(c) \/ Ac!Crash(c)
      PROVE  AccountsInv'
  BY <1>7, AccountsEnds
<1>8. CASE UNCHANGED Ac!vars
  BY <1>1, <1>8 DEF Ac!vars
<1> QED  BY <1>2, <1>3, <1>4, <1>5, <1>6, <1>7, <1>8 DEF Ac!Next

-----------------------------------------------------------------------------
(* Accounts implements AccountRecords.                                     *)

\* What Seen is at a client.
LEMMA SeenIs ==
  ASSUME NEW c \in Clients
  PROVE  Ac!Seen[c] = IF acOp[c].pc \in Ac!Deciding THEN [route |-> acOp[c].route, base |-> Ac!Base(c)] ELSE Ac!NoBase
BY DEF Ac!Seen
LEMMA NotSeen == ASSUME NEW c \in Clients, AccountsInv, acOp[c].pc \in Ac!Deciding PROVE Ac!Seen[c] # Ac!NoBase
<1>1. acOp[c].route \in Routes
  BY AccountsFacts DEF OperationOf, Ac!Deciding
<1>2. Ac!Seen[c].route = acOp[c].route
  <2>1. Ac!Seen[c] = [route |-> acOp[c].route, base |-> Ac!Base(c)]
    BY SeenIs
  <2> QED  BY <2>1
<1>3. Ac!NoBase.route = "none"
  BY DEF Ac!NoBase
<1> QED  BY <1>1, <1>2, <1>3, AccountsAssumption

\* A step that changes what one client sees, and no other.
LEMMA SeenElsewhere ==
  ASSUME AccountsInv, NEW c \in Clients, \A d \in Clients \ {c} : acOp'[d] = acOp[d]
  PROVE  Ac!Seen' = [Ac!Seen EXCEPT ![c] = Ac!Seen'[c]]
<1>1. \A d \in Clients \ {c} : Ac!Seen'[d] = Ac!Seen[d]
  BY DEF Ac!Seen, Ac!Base
<1> QED  BY <1>1, Zenon DEF Ac!Seen

\* A client that leaves the operation it was deciding, or was not deciding.
LEMMA AccountsAbort ==
  ASSUME AccountsInv, NEW c \in Clients, acOp'[c].pc \notin Ac!Deciding, \A d \in Clients \ {c} : acOp'[d] = acOp[d],
         acRecords' = acRecords
  PROVE  [Ac!Abstract!Next]_(Ac!Abstract!vars)
<1>1. Ac!Seen' = [Ac!Seen EXCEPT ![c] = Ac!Seen'[c]]
  BY SeenElsewhere
<1>2. Ac!Seen'[c] = Ac!NoBase
  BY DEF Ac!Seen
<1>3. CASE Ac!Seen[c] = Ac!NoBase
  <2>1. Ac!Seen' = Ac!Seen
    BY <1>1, <1>2, <1>3, Zenon DEF Ac!Seen
  <2> QED  BY <2>1 DEF Ac!Abstract!vars
<1>4. CASE Ac!Seen[c] # Ac!NoBase
  BY <1>1, <1>2, <1>4 DEF Ac!Abstract!Next, Ac!Abstract!Abort
<1> QED  BY <1>3, <1>4

\* A client that goes on deciding on the record it saw.
LEMMA AccountsDecides ==
  ASSUME AccountsInv, NEW c \in Clients, acOp[c].pc \in Ac!Deciding, acOp'[c].pc \in Ac!Deciding,
         acOp'[c].route = acOp[c].route, acOp'[c].doc = acOp[c].doc,
         \A d \in Clients \ {c} : acOp'[d] = acOp[d], acRecords' = acRecords
  PROVE  [Ac!Abstract!Next]_(Ac!Abstract!vars)
<1>1. Ac!Seen' = [Ac!Seen EXCEPT ![c] = Ac!Seen'[c]]
  BY SeenElsewhere
<1>2. Ac!Seen'[c] = Ac!Seen[c]
  BY DEF Ac!Seen, Ac!Base
<1>3. Ac!Seen' = Ac!Seen
  BY <1>1, <1>2, Zenon DEF Ac!Seen
<1> QED  BY <1>3 DEF Ac!Abstract!vars
\* Every step of the file's clients is a step of AccountRecords, or none.
LEMMA AccountsSimulate == AccountsInv /\ [Ac!Next]_(Ac!vars) => [Ac!Abstract!Next]_(Ac!Abstract!vars)
<1> SUFFICES ASSUME AccountsInv, [Ac!Next]_(Ac!vars) PROVE [Ac!Abstract!Next]_(Ac!Abstract!vars)
  OBVIOUS
<1>1. ASSUME acRecords' = acRecords, acOp' = acOp PROVE [Ac!Abstract!Next]_(Ac!Abstract!vars)
  BY <1>1 DEF Ac!Abstract!vars, Ac!Seen, Ac!Base
<1>2. acOp \in [Clients -> Operations] /\ acRecords \in [Routes -> Credentials]
  BY DEF AccountsInv, AccountsTyped
<1>3. CASE UNCHANGED Ac!vars \/ Ac!Expire \/ \E c \in Clients : Ac!Stop(c)
  BY <1>1, <1>3 DEF Ac!vars, Ac!Expire, Ac!Stop
<1>4. ASSUME NEW c \in Clients, NEW r \in Routes, Ac!PrepareCall(c, r) \/ Ac!Login(c, r) \/ Ac!Logout(c, r)
      PROVE  [Ac!Abstract!Next]_(Ac!Abstract!vars)
  <2>1. \E kind \in Kinds, next \in {Ac!NoCred, Ac!ApiKey} \cup Ac!Granted(acIssued') : Ac!Modify(c, kind, r, next)
    BY <1>4 DEF Ac!PrepareCall, Ac!Login, Ac!Logout, Kinds
  <2>2. acRecords' = acRecords
    BY <1>4 DEF Ac!PrepareCall, Ac!Login, Ac!Logout
  <2>3. acOp'[c].pc = "locking" /\ \A d \in Clients \ {c} : acOp'[d] = acOp[d]
    BY <1>2, <2>1 DEF Ac!Modify, Ac!Resting
  <2> QED  BY <2>2, <2>3, AccountsAbort DEF Ac!Deciding
<1>5. ASSUME NEW c \in Clients, Ac!Cancel(c) PROVE [Ac!Abstract!Next]_(Ac!Abstract!vars)
  <2>1. /\ acRecords' = acRecords /\ acOp'[c].pc = acOp[c].pc /\ acOp'[c].route = acOp[c].route /\ acOp'[c].doc = acOp[c].doc
        /\ \A d \in Clients \ {c} : acOp'[d] = acOp[d]
    BY <1>2, <1>5 DEF Ac!Cancel, Operations
  <2> QED  BY <2>1, AccountsAbort, AccountsDecides
<1>6. ASSUME NEW c \in Clients,
             \/ Ac!LockRefused(c) \/ Ac!ReadFails(c) \/ Ac!MutateGone(c) \/ Ac!RefreshFails(c)
             \/ Ac!AnswerLost(c) \/ Ac!WriteFails(c) \/ Ac!ModifyReturns(c) \/ Ac!Crash(c)
      PROVE  [Ac!Abstract!Next]_(Ac!Abstract!vars)
  <2>1. acRecords' = acRecords /\ Ac!Return(c)
    BY <1>6 DEF Ac!LockRefused, Ac!ReadFails, Ac!MutateGone, Ac!RefreshFails, Ac!AnswerLost, Ac!WriteFails,
                Ac!ModifyReturns, Ac!Crash, Ac!Unlock
  <2>2. acOp'[c].pc = "idle" /\ \A d \in Clients \ {c} : acOp'[d] = acOp[d]
    BY <1>2, <2>1, RestingIs DEF Ac!Return
  <2> QED  BY <2>1, <2>2, AccountsAbort DEF Ac!Deciding
<1>7. ASSUME NEW c \in Clients, Ac!Lock(c) PROVE [Ac!Abstract!Next]_(Ac!Abstract!vars)
  <2>1. acRecords' = acRecords /\ acOp'[c].pc = "locked" /\ \A d \in Clients \ {c} : acOp'[d] = acOp[d]
    BY <1>2, <1>7 DEF Ac!Lock, Ac!Step, Operations
  <2> QED  BY <2>1, AccountsAbort DEF Ac!Deciding
<1>8. ASSUME NEW c \in Clients, Ac!ReadDocument(c) PROVE [Ac!Abstract!Next]_(Ac!Abstract!vars)
  <2>1. /\ acRecords' = acRecords /\ acOp[c].pc = "locked" /\ acOp'[c].pc = "mutating" /\ acOp'[c].doc = acRecords
        /\ acOp'[c].route = acOp[c].route /\ \A d \in Clients \ {c} : acOp'[d] = acOp[d]
    BY <1>2, <1>8 DEF Ac!ReadDocument, Operations
  <2>2. acOp[c].route \in Routes
    BY <2>1, AccountsFacts DEF OperationOf
  <2>3. Ac!Seen[c] = Ac!NoBase
    BY <2>1, SeenIs, Zenon DEF Ac!Deciding
  <2>4. Ac!Seen'[c] = [route |-> acOp[c].route, base |-> acRecords[acOp[c].route]]
    BY <2>1, <2>2 DEF Ac!Seen, Ac!Deciding, Ac!Base
  <2>5. Ac!Seen' = [Ac!Seen EXCEPT ![c] = Ac!Seen'[c]]
    BY <2>1, SeenElsewhere
  <2>6. Ac!Abstract!Begin(c)
    BY <2>1, <2>2, <2>3, <2>4, <2>5 DEF Ac!Abstract!Begin
  <2> QED  BY <2>6 DEF Ac!Abstract!Next
<1>9. ASSUME NEW c \in Clients, Ac!MutateReplaces(c) \/ Ac!MutateKeeps(c) \/ Ac!Refreshes(c) \/ Ac!Refreshed(c)
      PROVE  [Ac!Abstract!Next]_(Ac!Abstract!vars)
  <2>1. /\ acRecords' = acRecords /\ acOp[c].pc \in {"mutating", "exchanging"} /\ acOp'[c].pc \in {"exchanging", "writing"}
        /\ acOp'[c].route = acOp[c].route /\ acOp'[c].doc = acOp[c].doc
        /\ \A d \in Clients \ {c} : acOp'[d] = acOp[d]
    BY <1>2, <1>9 DEF Ac!MutateReplaces, Ac!MutateKeeps, Ac!Refreshes, Ac!Refreshed, Ac!Step, Operations
  <2> QED  BY <2>1, AccountsDecides DEF Ac!Deciding
<1>10. ASSUME NEW c \in Clients, Ac!WriteDocument(c) PROVE [Ac!Abstract!Next]_(Ac!Abstract!vars)
  <2>1. acOp[c].pc = "writing" /\ acOp'[c].pc = "renamed" /\ \A d \in Clients \ {c} : acOp'[d] = acOp[d]
    BY <1>2, <1>10 DEF Ac!WriteDocument, Ac!Step, Operations
  <2>2. acOp[c].route \in Routes /\ acOp[c].doc = acRecords
    BY <2>1, AccountsFacts DEF OperationOf, Ac!Deciding
  <2>3. acRecords' = [acRecords EXCEPT ![acOp[c].route] = acOp[c].next]
    BY <1>10, <2>2 DEF Ac!WriteDocument, Ac!Written
  <2>4. Ac!Seen[c] = [route |-> acOp[c].route, base |-> acRecords[acOp[c].route]]
    BY <2>1, <2>2, SeenIs DEF Ac!Deciding, Ac!Base
  <2>5. Ac!Seen'[c] = Ac!NoBase
    BY <2>1 DEF Ac!Seen, Ac!Deciding
  <2>6. Ac!Seen' = [Ac!Seen EXCEPT ![c] = Ac!Seen'[c]]
    BY <2>1, SeenElsewhere
  <2>7. Ac!Seen[c] # Ac!NoBase
    BY <2>1, NotSeen DEF Ac!Deciding
  <2>8. Ac!Seen[c].route = acOp[c].route /\ Ac!Seen[c].base = acRecords[acOp[c].route]
    BY <2>4
  <2>9. \A r \in Routes : r # acOp[c].route => acRecords'[r] = acRecords[r]
    BY <1>2, <2>2, <2>3
  <2>10. Ac!Abstract!Commit(c)
    BY <2>5, <2>6, <2>7, <2>8, <2>9 DEF Ac!Abstract!Commit
  <2> QED  BY <2>10 DEF Ac!Abstract!Next
<1> QED  BY <1>3, <1>4, <1>5, <1>6, <1>7, <1>8, <1>9, <1>10 DEF Ac!Next

-----------------------------------------------------------------------------
(* The theorems, for the service in focus.                                 *)

\* What a behaviour of the composition is for the service in focus.
LEMMA AccountsInFocus == ServicesInit /\ focus = "accounts" => Ac!Init
BY DEF ServicesInit, ServiceInit

LEMMA AccountsOnly ==
  ASSUME [ServicesNext]_<<focus, vars, slots>>, focus = "accounts" \/ focus' = "accounts"
  PROVE  focus = "accounts" /\ focus' = "accounts" /\ [Ac!Next]_(Ac!vars)
<1>1. CASE UNCHANGED <<focus, vars, slots>>
  BY <1>1 DEF slots, Ac!vars
<1>2. CASE focus = "log" /\ Next /\ UNCHANGED <<focus, slots>>
  BY <1>2
<1>3. CASE ServiceNext /\ UNCHANGED <<focus, vars>>
  BY <1>3 DEF ServiceNext
<1> QED  BY <1>1, <1>2, <1>3 DEF ServicesNext

AccountsKept == focus = "accounts" => AccountsInv

LEMMA AccountsAlwaysKept == ServicesSpec => []AccountsKept
<1>1. ServicesInit => AccountsKept
  BY AccountsInFocus, AccountsInit DEF AccountsKept
<1>2. AccountsKept /\ [ServicesNext]_<<focus, vars, slots>> => AccountsKept'
  BY AccountsOnly, AccountsStep DEF AccountsKept
<1> QED  BY <1>1, <1>2, PTL DEF ServicesSpec

\* No refresh token the provider replaced is lost from the file, or presented
\* again, but through a fault (Modify, refreshOpenAI, refreshAnthropic).
THEOREM GrantAlwaysKept == ServicesSpec => []GrantKept
<1>1. AccountsKept => GrantKept
  <2> SUFFICES ASSUME AccountsInv PROVE Ac!GrantKept
    BY DEF AccountsKept, GrantKept
  <2>1. \A c \in Clients : Renews(acOp[c]) => acLock = c /\ acOp[c].pc \in {"exchanging", "writing"}
    BY AccountsFacts DEF Renews, OperationOf, Locked
  <2> QED  BY <2>1 DEF AccountsInv, SpentHeld, Ac!GrantKept
<1> QED  BY <1>1, AccountsAlwaysKept, PTL

\* The credential file shared by any number of processes behaves as
\* AccountRecords: no modification is decided on a record another process
\* replaced, and none touches another route (Modify, withLock).
THEOREM AccountsAlwaysImplement == ServicesSpec => AccountsImplement
<1> DEFINE Step == focus = "accounts" => [Ac!Abstract!Next]_(Ac!Abstract!vars)
<1>1. ServicesInit => (focus = "accounts" => Ac!Abstract!Init)
  <2> SUFFICES ASSUME ServicesInit, focus = "accounts" PROVE Ac!Abstract!Init
    OBVIOUS
  <2>1. \A c \in Clients : acOp[c].pc = "idle"
    BY AccountsInFocus, RestingIs DEF Ac!Init
  <2> QED  BY <2>1 DEF Ac!Abstract!Init, Ac!Seen, Ac!Deciding
<1>2. AccountsKept /\ [ServicesNext]_<<focus, vars, slots>> => [Step]_<<focus, slots>>
  BY AccountsOnly, AccountsSimulate DEF AccountsKept
<1> HIDE DEF Step
<1>3. ServicesSpec => [][Step]_<<focus, slots>>
  BY <1>2, AccountsAlwaysKept, PTL DEF ServicesSpec
<1>4. ServicesSpec => (focus = "accounts" => Ac!Abstract!Init)
  BY <1>1, PTL DEF ServicesSpec
<1> QED  BY <1>3, <1>4 DEF AccountsImplement, Step
-----------------------------------------------------------------------------
(* Attachments: the image store.                                           *)

\* The variables of Attachments, under their names there.
imPrefix == x1
imEntry == x2
imBytes == x3
imStore == x4
imOp == x5
imObserver == x6
imRefs == x7
imDamaged == x8
imLeft == x9

USE DEF imPrefix, imEntry, imBytes, imStore, imOp, imObserver, imRefs, imDamaged, imLeft

Synced == {"none", "volatile", "durable"}
ImageOps ==
  [pc : {"idle", "converting", "normalizing", "publish", "staged", "linked", "prefix-synced", "reading", "notifying", "done"},
   digest : Digests \cup {"none"}]

ImagesTyped ==
  /\ imPrefix \in Synced /\ imEntry \in [Digests -> Synced] /\ imBytes \in [Digests -> {"good", "bad"}]
  /\ imStore \in [running : BOOLEAN, stop : {"no", "waiting", "stopped"}, late : BOOLEAN]
  /\ imOp \in [Ops \cup Peers -> ImageOps]
  /\ imObserver \in [stage : {"on", "withdrawing", "off"}, calls : Nat, quiet : BOOLEAN]
  /\ imRefs \subseteq Digests

\* The object is there with its bytes, unless somebody damaged it.
Present(d, stages, entry, bytes, damaged) == d \notin damaged => entry[d] \in stages /\ bytes[d] = "good"

\* What an operation has reached.
ImageOf(k, o, prefix, entry, bytes, damaged) ==
  /\ o.pc \notin {"idle", "done"} => o.digest \in Digests
  /\ o.pc \in {"reading", "notifying"} => k \in Ops
  /\ o.pc \in {"staged", "linked", "prefix-synced"} => prefix # "none"
  /\ o.pc = "linked" => Present(o.digest, {"volatile", "durable"}, entry, bytes, damaged)
  /\ o.pc = "prefix-synced" => Present(o.digest, {"durable"}, entry, bytes, damaged)

\* A returned reference survives a power loss.
Durable(prefix, entry, bytes, refs, damaged) ==
  \A d \in refs : Present(d, {"durable"}, entry, bytes, damaged) /\ (d \notin damaged => prefix = "durable")

\* The observer's callbacks are counted, and none starts once it is withdrawn.
Notifying(op) == {k \in Ops : op[k].pc = "notifying"}
Observed(op, observer) ==
  /\ observer.calls = Cardinality(Notifying(op))
  /\ observer.stage = "off" /\ observer.quiet => Notifying(op) = {}

\* A stopped store admits nothing.
StoreStops(op, store) ==
  /\ store.stop # "no" => ~store.running
  /\ store.stop = "stopped" /\ ~store.late => \A k \in Ops : op[k].pc \in {"idle", "done"}

ImagesInv ==
  /\ ImagesTyped
  /\ \A k \in Ops \cup Peers : ImageOf(k, imOp[k], imPrefix, imEntry, imBytes, imDamaged)
  /\ Durable(imPrefix, imEntry, imBytes, imRefs, imDamaged)
  /\ Observed(imOp, imObserver)
  /\ StoreStops(imOp, imStore)

LEMMA ImagesInit == Im!Init => ImagesInv
<1> SUFFICES ASSUME Im!Init PROVE ImagesInv
  OBVIOUS
<1>1. \A k \in Ops \cup Peers : imOp[k] \in ImageOps /\ imOp[k].pc = "idle"
  BY DEF Im!Init, Im!Everyone, Im!Resting, Im!NoDigest, ImageOps
<1>2. ImagesTyped
  BY <1>1 DEF Im!Init, Im!Everyone, ImagesTyped, Synced
<1>3. \A k \in Ops \cup Peers : ImageOf(k, imOp[k], imPrefix, imEntry, imBytes, imDamaged)
  BY <1>1 DEF ImageOf
<1>4. Durable(imPrefix, imEntry, imBytes, imRefs, imDamaged)
  BY DEF Im!Init, Durable
<1>5. Notifying(imOp) = {}
  BY <1>1 DEF Notifying
<1>6. Observed(imOp, imObserver)
  BY <1>5, FS_EmptySet, Zenon DEF Im!Init, Observed
<1>7. StoreStops(imOp, imStore)
  BY DEF Im!Init, StoreStops
<1> QED  BY <1>2, <1>3, <1>4, <1>6, <1>7 DEF ImagesInv

\* One operation goes from one stage to another; the prefix directory may be
\* created.
LEMMA ImagesMove ==
  ASSUME ImagesInv, NEW k \in Ops \cup Peers, NEW o \in ImageOps, imOp' = [imOp EXCEPT ![k] = o],
         imEntry' = imEntry, imBytes' = imBytes, imDamaged' = imDamaged, imRefs' = imRefs, imStore' = imStore,
         imPrefix' = imPrefix \/ (imPrefix = "none" /\ imPrefix' = "volatile"),
         ImageOf(k, o, imPrefix', imEntry, imBytes, imDamaged),
         k \in Ops /\ o.pc \notin {"idle", "done"} => imOp[k].pc \notin {"idle", "done"} \/ imStore.running,
         imObserver' \in [stage : {"on", "withdrawing", "off"}, calls : Nat, quiet : BOOLEAN],
         Observed(imOp', imObserver')
  PROVE  ImagesInv'
<1>1. imOp \in [Ops \cup Peers -> ImageOps] /\ imPrefix \in Synced
  BY DEF ImagesInv, ImagesTyped
<1>2. imOp' \in [Ops \cup Peers -> ImageOps] /\ imOp'[k] = o /\ \A j \in (Ops \cup Peers) \ {k} : imOp'[j] = imOp[j]
  BY <1>1
<1>3. ImagesTyped'
  BY <1>1, <1>2 DEF ImagesInv, ImagesTyped, Synced
<1>4. ASSUME NEW j \in Ops \cup Peers PROVE ImageOf(j, imOp'[j], imPrefix', imEntry', imBytes', imDamaged')
  <2>1. CASE j = k
    BY <1>2, <2>1
  <2>2. CASE j # k
    <3>1. ImageOf(j, imOp[j], imPrefix, imEntry, imBytes, imDamaged)
      BY DEF ImagesInv
    <3> QED  BY <1>2, <2>2, <3>1 DEF ImageOf
  <2> QED  BY <2>1, <2>2
<1>5. Durable(imPrefix', imEntry', imBytes', imRefs', imDamaged')
  BY DEF ImagesInv, Durable
<1>6. StoreStops(imOp', imStore')
  BY <1>2 DEF ImagesInv, StoreStops
<1> QED  BY <1>3, <1>4, <1>5, <1>6 DEF ImagesInv

\* ... and no callback starts or ends.
LEMMA ImagesQuiet ==
  ASSUME ImagesInv, NEW k \in Ops \cup Peers, NEW o \in ImageOps, imOp' = [imOp EXCEPT ![k] = o],
         imEntry' = imEntry, imBytes' = imBytes, imDamaged' = imDamaged, imRefs' = imRefs, imStore' = imStore, imObserver' = imObserver,
         imPrefix' = imPrefix \/ (imPrefix = "none" /\ imPrefix' = "volatile"),
         ImageOf(k, o, imPrefix', imEntry, imBytes, imDamaged),
         k \in Ops /\ o.pc \notin {"idle", "done"} => imOp[k].pc \notin {"idle", "done"} \/ imStore.running,
         imOp[k].pc # "notifying", o.pc # "notifying"
  PROVE  ImagesInv'
<1>1. imOp \in [Ops \cup Peers -> ImageOps]
  BY DEF ImagesInv, ImagesTyped
<1>2. Notifying(imOp') = Notifying(imOp)
  BY <1>1 DEF Notifying
<1>3. Observed(imOp', imObserver') /\ imObserver' \in [stage : {"on", "withdrawing", "off"}, calls : Nat, quiet : BOOLEAN]
  BY <1>2, Zenon DEF ImagesInv, ImagesTyped, Observed
<1> QED  BY <1>3, ImagesMove, Zenon

\* How the actions change an operation.
LEMMA ImagesFacts ==
  ASSUME ImagesInv, NEW k \in Ops \cup Peers
  PROVE  /\ imOp[k] \in ImageOps /\ ImageOf(k, imOp[k], imPrefix, imEntry, imBytes, imDamaged)
         /\ \A to : Im!At(k, to) => imOp' = [imOp EXCEPT ![k] = [pc |-> to, digest |-> imOp[k].digest]]
         /\ Im!Ends(k) => imOp' = [imOp EXCEPT ![k] = [pc |-> "done", digest |-> "none"]]
         /\ [pc |-> "done", digest |-> "none"] \in ImageOps
         /\ imOp[k].digest \in Digests \cup {"none"}
         /\ Notifying(imOp) \subseteq Ops /\ IsFiniteSet(Notifying(imOp))
<1>1. imOp \in [Ops \cup Peers -> ImageOps]
  BY DEF ImagesInv, ImagesTyped
<1>2. imOp[k] = [pc |-> imOp[k].pc, digest |-> imOp[k].digest] /\ imOp[k].digest \in Digests \cup {"none"}
  BY <1>1 DEF ImageOps
<1>3. ASSUME NEW to, Im!At(k, to) PROVE imOp' = [imOp EXCEPT ![k] = [pc |-> to, digest |-> imOp[k].digest]]
  <2>1. imOp' = [imOp EXCEPT ![k].pc = to]
    BY <1>3 DEF Im!At
  <2>2. [imOp[k] EXCEPT !.pc = to] = [pc |-> to, digest |-> imOp[k].digest]
    BY <1>2
  <2> QED  BY <1>1, <2>1, <2>2, Zenon
<1>4. ASSUME Im!Ends(k) PROVE imOp' = [imOp EXCEPT ![k] = [pc |-> "done", digest |-> "none"]]
  <2>1. imOp' = [imOp EXCEPT ![k] = [Im!Resting EXCEPT !.pc = "done"]]
    BY <1>4 DEF Im!Ends
  <2>2. [Im!Resting EXCEPT !.pc = "done"] = [pc |-> "done", digest |-> "none"]
    BY DEF Im!Resting, Im!NoDigest
  <2> QED  BY <2>1, <2>2, Zenon
<1>5. Notifying(imOp) \subseteq Ops /\ IsFiniteSet(Notifying(imOp))
  BY AttachmentsAssumption, FS_Subset DEF Notifying
<1>6. ImageOf(k, imOp[k], imPrefix, imEntry, imBytes, imDamaged)
  BY DEF ImagesInv
<1> QED  BY <1>1, <1>2, <1>3, <1>4, <1>5, <1>6 DEF ImageOps

LEMMA ImagesEnds ==
  ASSUME ImagesInv, NEW k \in Ops \cup Peers, Im!Ends(k), imOp[k].pc # "notifying",
         imPrefix' = imPrefix, imEntry' = imEntry, imBytes' = imBytes, imDamaged' = imDamaged, imRefs' = imRefs, imStore' = imStore,
         imObserver' = imObserver
  PROVE  ImagesInv'
<1> DEFINE o == [pc |-> "done", digest |-> "none"]
<1>1. o \in ImageOps /\ imOp' = [imOp EXCEPT ![k] = o] /\ o.pc = "done"
  BY ImagesFacts
<1> HIDE DEF o
<1>2. ImageOf(k, o, imPrefix', imEntry, imBytes, imDamaged)
  BY <1>1 DEF ImageOf
<1> QED  BY <1>1, <1>2, ImagesQuiet, Zenon

\* The operation goes to a stage that needs no more than it has.
LEMMA ImagesGoesTo ==
  ASSUME ImagesInv, NEW k \in Ops \cup Peers,
         NEW to \in {"converting", "normalizing", "publish", "staged", "linked", "reading"},
         NEW d \in Digests, imOp' = [imOp EXCEPT ![k] = [pc |-> to, digest |-> d]], imOp[k].pc # "notifying",
         imPrefix' = imPrefix \/ (imPrefix = "none" /\ imPrefix' = "volatile"),
         imEntry' = imEntry, imBytes' = imBytes, imDamaged' = imDamaged, imRefs' = imRefs, imStore' = imStore, imObserver' = imObserver,
         to = "reading" => k \in Ops,
         to \in {"staged", "linked"} => imPrefix' # "none",
         to = "linked" => Present(d, {"volatile", "durable"}, imEntry, imBytes, imDamaged),
         k \in Ops => imOp[k].pc \notin {"idle", "done"} \/ imStore.running
  PROVE  ImagesInv'
<1> DEFINE o == [pc |-> to, digest |-> d]
<1>1. o \in ImageOps /\ o.pc = to /\ o.digest = d /\ imOp' = [imOp EXCEPT ![k] = o]
  BY DEF ImageOps
<1> HIDE DEF o
<1>2. ImageOf(k, o, imPrefix', imEntry, imBytes, imDamaged)
  BY <1>1 DEF ImageOf
<1>3. o.pc # "notifying"
  BY <1>1
<1> QED  BY <1>1, <1>2, <1>3, ImagesQuiet, Zenon

\* Link: the object is published for the first time, or shared.
LEMMA ImagesLink ==
  ASSUME ImagesInv, NEW k \in Ops \cup Peers, Im!Link(k)
  PROVE  ImagesInv'
<1> DEFINE d == imOp[k].digest
<1>1. imOp[k].pc = "staged" /\ d \in Digests /\ imPrefix # "none"
  BY ImagesFacts DEF Im!Link, ImageOf
<1>2. /\ imPrefix' = imPrefix /\ imStore' = imStore /\ imObserver' = imObserver /\ imRefs' = imRefs /\ imDamaged' = imDamaged
      /\ \/ /\ imEntry[d] = "none" /\ Im!At(k, "linked")
            /\ imEntry' = [imEntry EXCEPT ![d] = "volatile"] /\ imBytes' = [imBytes EXCEPT ![d] = "good"]
         \/ imEntry[d] # "none" /\ imBytes[d] = "good" /\ Im!At(k, "linked") /\ imEntry' = imEntry /\ imBytes' = imBytes
         \/ Im!Ends(k) /\ imEntry' = imEntry /\ imBytes' = imBytes
  BY DEF Im!Link
<1>3. CASE Im!Ends(k) /\ imEntry' = imEntry /\ imBytes' = imBytes
  BY <1>1, <1>2, <1>3, ImagesEnds
<1>4. imEntry \in [Digests -> Synced] /\ imBytes \in [Digests -> {"good", "bad"}] /\ imOp \in [Ops \cup Peers -> ImageOps]
  BY DEF ImagesInv, ImagesTyped
<1>5. Im!At(k, "linked") => imOp' = [imOp EXCEPT ![k] = [pc |-> "linked", digest |-> d]]
  BY ImagesFacts
<1> HIDE DEF d
<1>6. CASE imEntry[d] # "none" /\ imBytes[d] = "good" /\ Im!At(k, "linked") /\ imEntry' = imEntry /\ imBytes' = imBytes
  <2>1. Present(d, {"volatile", "durable"}, imEntry, imBytes, imDamaged)
    BY <1>1, <1>4, <1>6 DEF Present, Synced
  <2> QED  BY <1>1, <1>2, <1>5, <1>6, <2>1, ImagesGoesTo
<1>7. CASE /\ imEntry[d] = "none" /\ Im!At(k, "linked")
           /\ imEntry' = [imEntry EXCEPT ![d] = "volatile"] /\ imBytes' = [imBytes EXCEPT ![d] = "good"]
  <2> DEFINE o == [pc |-> "linked", digest |-> d]
  <2>1. o \in ImageOps /\ o.pc = "linked" /\ o.digest = d /\ imOp' = [imOp EXCEPT ![k] = o]
    BY <1>1, <1>5, <1>7 DEF ImageOps
  <2> HIDE DEF o
  <2>2. imOp' \in [Ops \cup Peers -> ImageOps] /\ imOp'[k] = o /\ \A j \in (Ops \cup Peers) \ {k} : imOp'[j] = imOp[j]
    BY <1>4, <2>1
  <2>3. /\ imEntry' \in [Digests -> Synced] /\ imBytes' \in [Digests -> {"good", "bad"}]
        /\ imEntry'[d] = "volatile" /\ imBytes'[d] = "good"
        /\ \A e \in Digests \ {d} : imEntry'[e] = imEntry[e] /\ imBytes'[e] = imBytes[e]
    BY <1>1, <1>4, <1>7 DEF Synced
  <2>4. \A e \in Digests : Present(e, {"durable"}, imEntry, imBytes, imDamaged) => Present(e, {"durable"}, imEntry', imBytes', imDamaged)
    BY <1>7, <2>3 DEF Present
  <2>5. \A e \in Digests : Present(e, {"volatile", "durable"}, imEntry, imBytes, imDamaged)
                           => Present(e, {"volatile", "durable"}, imEntry', imBytes', imDamaged)
    BY <1>7, <2>3 DEF Present
  <2>6. ImagesTyped'
    BY <1>2, <2>2, <2>3 DEF ImagesInv, ImagesTyped
  <2>7. ASSUME NEW j \in Ops \cup Peers PROVE ImageOf(j, imOp'[j], imPrefix', imEntry', imBytes', imDamaged')
    <3>1. CASE j = k
      <4>1. Present(d, {"volatile", "durable"}, imEntry', imBytes', imDamaged)
        BY <2>3 DEF Present
      <4> QED  BY <1>1, <1>2, <2>1, <2>2, <3>1, <4>1 DEF ImageOf
    <3>2. CASE j # k
      <4>1. ImageOf(j, imOp[j], imPrefix, imEntry, imBytes, imDamaged)
        BY DEF ImagesInv
      <4> QED  BY <1>2, <2>2, <2>4, <2>5, <3>2, <4>1 DEF ImageOf
    <3> QED  BY <3>1, <3>2
  <2>8. Durable(imPrefix', imEntry', imBytes', imRefs', imDamaged')
    BY <1>2, <2>4 DEF ImagesInv, ImagesTyped, Durable
  <2>9. Notifying(imOp') = Notifying(imOp)
    BY <1>1, <2>1, <2>2 DEF Notifying
  <2>10. Observed(imOp', imObserver')
    BY <1>2, <2>9 DEF ImagesInv, Observed
  <2>11. StoreStops(imOp', imStore')
    BY <1>1, <1>2, <2>2 DEF ImagesInv, StoreStops
  <2> QED  BY <2>6, <2>7, <2>8, <2>10, <2>11 DEF ImagesInv
<1> QED  BY <1>2, <1>3, <1>6, <1>7 DEF d

\* syncDirectories: every entry of the prefix becomes durable.
LEMMA ImagesSync ==
  ASSUME ImagesInv, NEW k \in Ops \cup Peers, Im!SyncPrefix(k)
  PROVE  ImagesInv'
<1> DEFINE d == imOp[k].digest
           o == [pc |-> "prefix-synced", digest |-> d]
<1>1. imOp[k].pc = "linked" /\ d \in Digests /\ imPrefix # "none" /\ Present(d, {"volatile", "durable"}, imEntry, imBytes, imDamaged)
  BY ImagesFacts DEF Im!SyncPrefix, ImageOf
<1>2. /\ imPrefix' = imPrefix /\ imStore' = imStore /\ imObserver' = imObserver /\ imRefs' = imRefs /\ imDamaged' = imDamaged
      /\ imBytes' = imBytes /\ imEntry' = [e \in Digests |-> IF imEntry[e] = "volatile" THEN "durable" ELSE imEntry[e]]
      /\ imOp' = [imOp EXCEPT ![k] = o]
  BY ImagesFacts DEF Im!SyncPrefix
<1>3. imEntry \in [Digests -> Synced] /\ imBytes \in [Digests -> {"good", "bad"}] /\ imOp \in [Ops \cup Peers -> ImageOps]
  BY DEF ImagesInv, ImagesTyped
<1>4. o \in ImageOps /\ o.pc = "prefix-synced" /\ o.digest = d
  BY <1>1 DEF ImageOps
<1> HIDE DEF d, o
<1>5. imOp' \in [Ops \cup Peers -> ImageOps] /\ imOp'[k] = o /\ \A j \in (Ops \cup Peers) \ {k} : imOp'[j] = imOp[j]
  BY <1>2, <1>3, <1>4
<1>6. imEntry' \in [Digests -> Synced] /\ \A e \in Digests : imEntry[e] \in {"volatile", "durable"} => imEntry'[e] = "durable"
  BY <1>2, <1>3 DEF Synced
<1>7. \A e \in Digests : Present(e, {"volatile", "durable"}, imEntry, imBytes, imDamaged) => Present(e, {"durable"}, imEntry', imBytes', imDamaged')
  BY <1>2, <1>6 DEF Present
<1>8. \A e : /\ Present(e, {"durable"}, imEntry, imBytes, imDamaged) => Present(e, {"volatile", "durable"}, imEntry, imBytes, imDamaged)
             /\ Present(e, {"durable"}, imEntry', imBytes', imDamaged') => Present(e, {"volatile", "durable"}, imEntry', imBytes', imDamaged')
  BY DEF Present
<1>9. ImagesTyped'
  BY <1>2, <1>5, <1>6 DEF ImagesInv, ImagesTyped
<1>10. ASSUME NEW j \in Ops \cup Peers PROVE ImageOf(j, imOp'[j], imPrefix', imEntry', imBytes', imDamaged')
  <2>1. CASE j = k
    <3>1. Present(d, {"durable"}, imEntry', imBytes', imDamaged')
      BY <1>1, <1>7 DEF d
    <3>2. d \in Digests /\ imPrefix' # "none"
      BY <1>1, <1>2 DEF d
    <3> QED  BY <1>4, <1>5, <2>1, <3>1, <3>2 DEF ImageOf
  <2>2. CASE j # k
    <3>1. ImageOf(j, imOp[j], imPrefix, imEntry, imBytes, imDamaged)
      BY DEF ImagesInv
    <3> QED  BY <1>2, <1>5, <1>7, <1>8, <2>2, <3>1 DEF ImageOf
  <2> QED  BY <2>1, <2>2
<1>11. Durable(imPrefix', imEntry', imBytes', imRefs', imDamaged')
  BY <1>2, <1>7, <1>8 DEF ImagesInv, ImagesTyped, Durable
<1>12. Notifying(imOp') = Notifying(imOp)
  BY <1>1, <1>4, <1>5 DEF Notifying, d
<1>13. Observed(imOp', imObserver')
  BY <1>2, <1>12, Zenon DEF ImagesInv, Observed
<1>14. StoreStops(imOp', imStore')
  BY <1>1, <1>2, <1>5 DEF ImagesInv, StoreStops, d
<1> QED  BY <1>9, <1>10, <1>11, <1>13, <1>14 DEF ImagesInv

\* publish returns: the reference is handed out.
LEMMA ImagesPublished ==
  ASSUME ImagesInv, NEW k \in Ops \cup Peers, Im!Published(k)
  PROVE  ImagesInv'
<1> DEFINE d == imOp[k].digest
           o == [pc |-> "done", digest |-> "none"]
<1>1. imOp[k].pc = "prefix-synced" /\ d \in Digests /\ imPrefix # "none" /\ Present(d, {"durable"}, imEntry, imBytes, imDamaged)
  BY ImagesFacts DEF Im!Published, ImageOf
<1>2. /\ imEntry' = imEntry /\ imBytes' = imBytes /\ imStore' = imStore /\ imObserver' = imObserver /\ imDamaged' = imDamaged
      /\ imRefs' = imRefs \cup {d} /\ imPrefix' = (IF imPrefix = "volatile" THEN "durable" ELSE imPrefix)
      /\ imOp' = [imOp EXCEPT ![k] = o]
  BY ImagesFacts DEF Im!Published
<1>3. imPrefix \in Synced /\ imOp \in [Ops \cup Peers -> ImageOps]
  BY DEF ImagesInv, ImagesTyped
<1>4. o \in ImageOps /\ o.pc = "done"
  BY ImagesFacts
<1> HIDE DEF d, o
<1>5. imOp' \in [Ops \cup Peers -> ImageOps] /\ imOp'[k] = o /\ \A j \in (Ops \cup Peers) \ {k} : imOp'[j] = imOp[j]
  BY <1>2, <1>3, <1>4
<1>6. imPrefix' = "durable"
  BY <1>1, <1>2, <1>3 DEF Synced
<1>7. ImagesTyped'
  BY <1>1, <1>2, <1>5, <1>6 DEF ImagesInv, ImagesTyped, Synced
<1>8. ASSUME NEW j \in Ops \cup Peers PROVE ImageOf(j, imOp'[j], imPrefix', imEntry', imBytes', imDamaged')
  <2>1. CASE j = k
    BY <1>4, <1>5, <2>1 DEF ImageOf
  <2>2. CASE j # k
    <3>1. ImageOf(j, imOp[j], imPrefix, imEntry, imBytes, imDamaged)
      BY DEF ImagesInv
    <3> QED  BY <1>2, <1>5, <1>6, <2>2, <3>1 DEF ImageOf
  <2> QED  BY <2>1, <2>2
<1>9. Durable(imPrefix', imEntry', imBytes', imRefs', imDamaged')
  BY <1>1, <1>2, <1>6 DEF ImagesInv, Durable
<1>10. Notifying(imOp') = Notifying(imOp)
  BY <1>1, <1>4, <1>5 DEF Notifying, d
<1>11. Observed(imOp', imObserver')
  BY <1>2, <1>10, Zenon DEF ImagesInv, Observed
<1>12. StoreStops(imOp', imStore')
  BY <1>2, <1>4, <1>5 DEF ImagesInv, StoreStops
<1> QED  BY <1>7, <1>8, <1>9, <1>11, <1>12 DEF ImagesInv

\* ReadImage fails to find the object and calls the observer, if it is still
\* registered; the callback returns.
LEMMA ImagesNotifies ==
  ASSUME ImagesInv, NEW k \in Ops \cup Peers, Im!ReadReturns(k) \/ Im!Notified(k)
  PROVE  ImagesInv'
<1> DEFINE d == imOp[k].digest
           quiet == [pc |-> "done", digest |-> "none"]
           calling == [pc |-> "notifying", digest |-> d]
<1>1. k \in Ops /\ d \in Digests /\ imOp[k].pc \in {"reading", "notifying"}
  BY ImagesFacts DEF Im!ReadReturns, Im!Notified, ImageOf
<1>2. /\ imPrefix' = imPrefix /\ imEntry' = imEntry /\ imBytes' = imBytes /\ imStore' = imStore /\ imRefs' = imRefs /\ imDamaged' = imDamaged
  BY DEF Im!ReadReturns, Im!Notified
<1>3. /\ imOp \in [Ops \cup Peers -> ImageOps]
      /\ imObserver \in [stage : {"on", "withdrawing", "off"}, calls : Nat, quiet : BOOLEAN]
      /\ imObserver.calls = Cardinality(Notifying(imOp)) /\ (imObserver.stage = "off" /\ imObserver.quiet => Notifying(imOp) = {})
  BY DEF ImagesInv, ImagesTyped, Observed
<1>4. IsFiniteSet(Notifying(imOp))
  BY ImagesFacts
<1>5. calling \in ImageOps /\ calling.pc = "notifying" /\ quiet \in ImageOps /\ quiet.pc = "done"
  BY <1>1 DEF ImageOps
<1>6. CASE imOp[k].pc = "reading" /\ Im!Ends(k) /\ imObserver' = imObserver
  BY <1>2, <1>6, ImagesEnds
<1>7. CASE /\ imOp[k].pc = "reading" /\ imObserver.stage = "on" /\ Im!At(k, "notifying")
           /\ imObserver' = [imObserver EXCEPT !.calls = imObserver.calls + 1]
  <2>1. imOp' = [imOp EXCEPT ![k] = calling]
    BY <1>7, ImagesFacts
  <2> HIDE DEF calling
  <2>2. Notifying(imOp') = Notifying(imOp) \cup {k} /\ k \notin Notifying(imOp)
    BY <1>1, <1>3, <1>5, <1>7, <2>1 DEF Notifying
  <2>3. Cardinality(Notifying(imOp')) = imObserver.calls + 1
    BY <1>3, <1>4, <2>2, FS_AddElement, ZenonT(60)
  <2>4. /\ imObserver' \in [stage : {"on", "withdrawing", "off"}, calls : Nat, quiet : BOOLEAN]
        /\ imObserver'.calls = imObserver.calls + 1 /\ imObserver'.stage = "on"
    BY <1>3, <1>7
  <2>5. Observed(imOp', imObserver')
    BY <2>3, <2>4 DEF Observed
  <2>6. ImageOf(k, calling, imPrefix', imEntry, imBytes, imDamaged)
    <3>1. calling.digest = d
      BY DEF calling
    <3> QED  BY <1>1, <1>5, <3>1 DEF ImageOf
  <2>7. imOp[k].pc \notin {"idle", "done"}
    BY <1>7
  <2> HIDE DEF d
  <2> QED  BY <1>2, <1>5, <2>1, <2>4, <2>5, <2>6, <2>7, ImagesMove, Zenon
<1>8. CASE imOp[k].pc = "notifying" /\ Im!Ends(k) /\ imObserver' = [imObserver EXCEPT !.calls = imObserver.calls - 1]
  <2>1. imOp' = [imOp EXCEPT ![k] = quiet]
    BY <1>8, ImagesFacts
  <2> HIDE DEF quiet
  <2>2. Notifying(imOp') = Notifying(imOp) \ {k} /\ k \in Notifying(imOp)
    BY <1>1, <1>3, <1>5, <1>8, <2>1 DEF Notifying
  <2>3. Cardinality(Notifying(imOp')) = imObserver.calls - 1 /\ imObserver.calls - 1 \in Nat
    <3>1. Cardinality(Notifying(imOp')) = imObserver.calls - 1
      BY <1>3, <1>4, <2>2, FS_RemoveElement, ZenonT(60)
    <3>2. imObserver.calls # 0
      BY <1>3, <1>4, <2>2, FS_EmptySet
    <3> QED  BY <1>3, <3>1, <3>2
  <2>4. /\ imObserver' \in [stage : {"on", "withdrawing", "off"}, calls : Nat, quiet : BOOLEAN]
        /\ imObserver'.calls = imObserver.calls - 1 /\ imObserver'.stage = imObserver.stage /\ imObserver'.quiet = imObserver.quiet
    BY <1>3, <1>8, <2>3
  <2>5. Observed(imOp', imObserver')
    BY <1>3, <2>2, <2>3, <2>4 DEF Observed
  <2>6. ImageOf(k, quiet, imPrefix', imEntry, imBytes, imDamaged)
    BY <1>5 DEF ImageOf
  <2> HIDE DEF d
  <2> QED  BY <1>2, <1>5, <2>1, <2>4, <2>5, <2>6, ImagesMove, Zenon
<1> QED  BY <1>6, <1>7, <1>8 DEF Im!ReadReturns, Im!Notified

\* The observer is withdrawn; the store stops.
LEMMA ImagesStops ==
  ASSUME ImagesInv, Im!Withdraw \/ Im!Withdrawn \/ Im!Stop \/ Im!Stopped
  PROVE  ImagesInv'
<1>1. /\ imPrefix' = imPrefix /\ imEntry' = imEntry /\ imBytes' = imBytes /\ imRefs' = imRefs /\ imDamaged' = imDamaged /\ imOp' = imOp
  BY Zenon DEF Im!Withdraw, Im!Withdrawn, Im!Stop, Im!Stopped
<1>2. /\ imStore \in [running : BOOLEAN, stop : {"no", "waiting", "stopped"}, late : BOOLEAN]
      /\ imObserver \in [stage : {"on", "withdrawing", "off"}, calls : Nat, quiet : BOOLEAN]
      /\ StoreStops(imOp, imStore) /\ Observed(imOp, imObserver)
  BY DEF ImagesInv, ImagesTyped
<1>3. CASE Im!Withdraw \/ Im!Withdrawn
  <2>1. /\ imObserver' \in [stage : {"on", "withdrawing", "off"}, calls : Nat, quiet : BOOLEAN]
        /\ imObserver'.calls = imObserver.calls /\ imStore' = imStore
        /\ imObserver'.stage = "off" /\ imObserver'.quiet => imObserver.calls = 0
    BY <1>2, <1>3, Zenon DEF Im!Withdraw, Im!Withdrawn
  <2>2. imObserver.calls = 0 => Notifying(imOp) = {}
    <3>1. \A k \in Ops : k \notin Notifying(imOp) \/ IsFiniteSet(Notifying(imOp))
      BY ImagesFacts
    <3>2. Notifying(imOp) # {} => IsFiniteSet(Notifying(imOp))
      BY <3>1 DEF Notifying
    <3> QED  BY <1>2, <3>2, FS_EmptySet, Zenon DEF Observed
  <2>3. Observed(imOp', imObserver')
    BY <1>1, <1>2, <2>1, <2>2 DEF Observed
  <2> QED  BY <1>1, <2>1, <2>3 DEF ImagesInv, ImagesTyped
<1>4. CASE Im!Stop \/ Im!Stopped
  <2>1. imObserver' = imObserver /\ imStore' \in [running : BOOLEAN, stop : {"no", "waiting", "stopped"}, late : BOOLEAN]
    BY <1>2, <1>4, Zenon DEF Im!Stop, Im!Stopped
  <2>2. StoreStops(imOp', imStore')
    <3>1. CASE Im!Stop
      BY <1>2, <3>1 DEF Im!Stop, StoreStops
    <3>2. CASE Im!Stopped
      <4>1. /\ imStore.stop = "waiting" /\ imStore'.running = imStore.running
            /\ ~imStore'.late => Im!Running = {}
        BY <1>2, <3>2, Zenon DEF Im!Stopped
      <4>2. Im!Running = {} => \A k \in Ops : imOp[k].pc \in {"idle", "done"}
        BY DEF Im!Running
      <4> QED  BY <1>1, <1>2, <4>1, <4>2 DEF StoreStops
    <3> QED  BY <1>4, <3>1, <3>2
  <2> QED  BY <1>1, <2>1, <2>2 DEF ImagesInv, ImagesTyped
<1> QED  BY <1>3, <1>4

\* A power loss: what was not synced may be gone, and nothing runs any more.
LEMMA ImagesLoss ==
  ASSUME ImagesInv, Im!PowerLoss
  PROVE  ImagesInv'
<1>1. /\ imPrefix \in Synced /\ imEntry \in [Digests -> Synced] /\ imBytes \in [Digests -> {"good", "bad"}] /\ imRefs \subseteq Digests
  BY DEF ImagesInv, ImagesTyped
<1>2. /\ imBytes' = imBytes /\ imRefs' = imRefs /\ imDamaged' = imDamaged
      /\ imObserver' = [stage |-> "off", calls |-> 0, quiet |-> TRUE]
      /\ imStore' = [running |-> FALSE, stop |-> "stopped", late |-> FALSE]
      /\ imOp' = [k \in Ops \cup Peers |-> [pc |-> "done", digest |-> "none"]]
  BY DEF Im!PowerLoss, Im!Resting, Im!NoDigest, Im!Everyone
<1>3. PICK keep \in SUBSET Digests, prefixKept \in BOOLEAN :
        /\ imPrefix = "durable" => prefixKept
        /\ imPrefix' = IF imPrefix # "none" /\ prefixKept THEN "durable" ELSE "none"
        /\ imEntry' = [d \in Digests |->
             IF imPrefix' # "none" /\ (imEntry[d] = "durable" \/ (imEntry[d] = "volatile" /\ d \in keep))
             THEN "durable" ELSE "none"]
  BY Zenon DEF Im!PowerLoss
<1>4. /\ imPrefix' \in Synced /\ imEntry' \in [Digests -> Synced]
      /\ imPrefix = "durable" => imPrefix' = "durable" /\ \A d \in Digests : imEntry[d] = "durable" => imEntry'[d] = "durable"
  BY <1>3 DEF Synced
<1>5. \A k \in Ops \cup Peers : imOp'[k] \in ImageOps /\ imOp'[k].pc = "done"
  BY <1>2 DEF ImageOps
<1>6. ImagesTyped'
  BY <1>1, <1>2, <1>4, <1>5 DEF ImagesTyped
<1>7. \A k \in Ops \cup Peers : ImageOf(k, imOp'[k], imPrefix', imEntry', imBytes', imDamaged')
  BY <1>5 DEF ImageOf
<1>8. Durable(imPrefix', imEntry', imBytes', imRefs', imDamaged')
  BY <1>1, <1>2, <1>4 DEF ImagesInv, Durable, Present
<1>9. Notifying(imOp') = {}
  BY <1>5 DEF Notifying
<1>10. Observed(imOp', imObserver')
  BY <1>2, <1>9, FS_EmptySet DEF Observed
<1>11. StoreStops(imOp', imStore')
  BY <1>2, <1>5 DEF StoreStops
<1> QED  BY <1>6, <1>7, <1>8, <1>10, <1>11 DEF ImagesInv

\* Somebody alters or removes an object: nothing is promised of it any more.
LEMMA ImagesDamage ==
  ASSUME ImagesInv, NEW d \in Digests, Im!Damage(d)
  PROVE  ImagesInv'
<1>1. imEntry \in [Digests -> Synced] /\ imBytes \in [Digests -> {"good", "bad"}]
  BY DEF ImagesInv, ImagesTyped
<1>2. /\ imPrefix' = imPrefix /\ imStore' = imStore /\ imOp' = imOp /\ imObserver' = imObserver /\ imRefs' = imRefs
      /\ imDamaged' = imDamaged \cup {d}
      /\ \/ imEntry' = [imEntry EXCEPT ![d] = "none"] /\ imBytes' = imBytes
         \/ imBytes' = [imBytes EXCEPT ![d] = "bad"] /\ imEntry' = imEntry
  BY DEF Im!Damage
<1>3. /\ imEntry' \in [Digests -> Synced] /\ imBytes' \in [Digests -> {"good", "bad"}]
      /\ \A e \in Digests \ {d} : imEntry'[e] = imEntry[e] /\ imBytes'[e] = imBytes[e]
  BY <1>1, <1>2 DEF Synced
<1>4. ASSUME NEW e \in Digests, NEW stages PROVE Present(e, stages, imEntry, imBytes, imDamaged) => Present(e, stages, imEntry', imBytes', imDamaged')
  BY <1>2, <1>3 DEF Present
<1>5. ImagesTyped'
  BY <1>2, <1>3 DEF ImagesInv, ImagesTyped
<1>6. ASSUME NEW k \in Ops \cup Peers PROVE ImageOf(k, imOp'[k], imPrefix', imEntry', imBytes', imDamaged')
  <2>1. ImageOf(k, imOp[k], imPrefix, imEntry, imBytes, imDamaged)
    BY DEF ImagesInv
  <2> QED  BY <1>2, <1>4, <2>1, Zenon DEF ImageOf
<1>7. Durable(imPrefix', imEntry', imBytes', imRefs', imDamaged')
  <2>1. imRefs \subseteq Digests /\ Durable(imPrefix, imEntry, imBytes, imRefs, imDamaged)
    BY DEF ImagesInv, ImagesTyped
  <2> QED  BY <1>2, <1>4, <2>1 DEF Durable
<1>8. Observed(imOp', imObserver') /\ StoreStops(imOp', imStore')
  BY <1>2 DEF ImagesInv
<1> QED  BY <1>5, <1>6, <1>7, <1>8 DEF ImagesInv

LEMMA ImagesStep == ImagesInv /\ [Im!Next]_(Im!vars) => ImagesInv'
<1> SUFFICES ASSUME ImagesInv, [Im!Next]_(Im!vars) PROVE ImagesInv'
  OBVIOUS
<1>1. CASE UNCHANGED Im!vars
  BY <1>1 DEF Im!vars, ImagesInv, ImagesTyped
<1>2. ASSUME NEW k \in Ops \cup Peers, NEW d \in Digests, Im!SaveImage(k, d) \/ Im!CommitImage(k, d) \/ Im!ReadImage(k, d)
      PROVE  ImagesInv'
  <2>1. PICK to \in {"converting", "publish", "reading"} : Im!Begin(k, d, to) /\ (to = "reading" => k \in Ops)
    BY <1>2 DEF Im!SaveImage, Im!CommitImage, Im!ReadImage
  <2>2. /\ imPrefix' = imPrefix /\ imEntry' = imEntry /\ imBytes' = imBytes /\ imDamaged' = imDamaged /\ imRefs' = imRefs
        /\ imStore' = imStore /\ imObserver' = imObserver
    BY <1>2 DEF Im!SaveImage, Im!CommitImage, Im!ReadImage
  <2>3. /\ imOp[k].pc = "idle" /\ (k \in Ops => imStore.running)
        /\ imOp' = [imOp EXCEPT ![k] = [pc |-> to, digest |-> d]]
    BY <2>1 DEF Im!Begin
  <2> QED  BY <2>1, <2>2, <2>3, ImagesGoesTo, Zenon
<1>3. ASSUME NEW k \in Ops \cup Peers, Im!Convert(k) \/ Im!Normalized(k) \/ Im!SaveFails(k) \/ Im!Stage(k)
      PROVE  ImagesInv'
  <2>1. /\ imEntry' = imEntry /\ imBytes' = imBytes /\ imDamaged' = imDamaged /\ imRefs' = imRefs
        /\ imStore' = imStore /\ imObserver' = imObserver
        /\ imOp[k].pc \in Im!Saving
    BY <1>3 DEF Im!Convert, Im!Normalized, Im!SaveFails, Im!Stage, Im!Saving
  <2>2. imOp[k].pc # "notifying" /\ imOp[k].pc \notin {"idle", "done"} /\ imOp[k].digest \in Digests
    BY <2>1, ImagesFacts DEF Im!Saving, ImageOf
  <2>3. CASE Im!Ends(k) /\ imPrefix' = imPrefix
    BY <2>1, <2>2, <2>3, ImagesEnds
  <2>4. CASE \E to \in {"normalizing", "publish"} : Im!At(k, to) /\ imPrefix' = imPrefix
    <3>1. PICK to \in {"normalizing", "publish"} : Im!At(k, to) /\ imPrefix' = imPrefix
      BY <2>4
    <3>2. imOp' = [imOp EXCEPT ![k] = [pc |-> to, digest |-> imOp[k].digest]]
      BY <3>1, ImagesFacts
    <3> QED  BY <2>1, <2>2, <3>1, <3>2, ImagesGoesTo, Zenon
  <2>5. CASE Im!Stage(k)
    <3>1. /\ Im!At(k, "staged") /\ imPrefix' = (IF imPrefix = "none" THEN "volatile" ELSE imPrefix)
      BY <2>5 DEF Im!Stage
    <3>2. imOp' = [imOp EXCEPT ![k] = [pc |-> "staged", digest |-> imOp[k].digest]]
      BY <3>1, ImagesFacts
    <3>3. /\ imPrefix' = imPrefix \/ (imPrefix = "none" /\ imPrefix' = "volatile")
          /\ imPrefix' # "none"
      BY <3>1
    <3> QED  BY <2>1, <2>2, <3>2, <3>3, ImagesGoesTo, Zenon
  <2> QED  BY <1>3, <2>3, <2>4, <2>5 DEF Im!Convert, Im!Normalized, Im!SaveFails
<1> QED  BY <1>1, <1>2, <1>3, ImagesLink, ImagesSync, ImagesPublished, ImagesNotifies, ImagesStops, ImagesLoss, ImagesDamage
         DEF Im!Next, Im!Everyone

LEMMA ImagesInFocus == ServicesInit /\ focus = "images" => Im!Init
BY DEF ServicesInit, ServiceInit

LEMMA ImagesOnly ==
  ASSUME [ServicesNext]_<<focus, vars, slots>>, focus = "images" \/ focus' = "images"
  PROVE  focus = "images" /\ [Im!Next]_(Im!vars)
<1>1. CASE UNCHANGED <<focus, vars, slots>>
  BY <1>1 DEF slots, Im!vars
<1>2. CASE focus = "log" /\ Next /\ UNCHANGED <<focus, slots>>
  BY <1>2
<1>3. CASE ServiceNext /\ UNCHANGED <<focus, vars>>
  BY <1>3 DEF ServiceNext
<1> QED  BY <1>1, <1>2, <1>3 DEF ServicesNext

ImagesKept == focus = "images" => ImagesInv

\* A returned reference names durable bytes unless somebody damaged them, also
\* after a power loss; a withdrawn observer and a stopped store are at rest
\* (SaveImage, publish, syncDirectories, ObserveUnavailable, Stop).
THEOREM ReferencesAlwaysDurable == ServicesSpec => []ReferencesDurable
<1>1. ServicesInit => ImagesKept
  BY ImagesInFocus, ImagesInit DEF ImagesKept
<1>2. ImagesKept /\ [ServicesNext]_<<focus, vars, slots>> => ImagesKept'
  BY ImagesOnly, ImagesStep DEF ImagesKept
<1>3. ImagesKept => ReferencesDurable
  <2> SUFFICES ASSUME ImagesInv PROVE Im!ReferencesDurable
    BY DEF ImagesKept, ReferencesDurable
  <2>1. \A d \in imRefs \ imDamaged : imPrefix # "none" /\ imEntry[d] # "none" /\ imBytes[d] = "good"
    BY DEF ImagesInv, Durable, Present
  <2>2. imObserver.stage = "off" /\ imObserver.quiet => \A k \in Ops : imOp[k].pc # "notifying"
    BY DEF ImagesInv, Observed, Notifying
  <2>3. imStore.stop = "stopped" /\ ~imStore.late => Im!Running = {}
    BY DEF ImagesInv, StoreStops, Im!Running
  <2> QED  BY <2>1, <2>2, <2>3 DEF Im!ReferencesDurable
<1> QED  BY <1>1, <1>2, <1>3, PTL DEF ServicesSpec

-----------------------------------------------------------------------------
(* FileGuard: the guarded file tools.                                      *)

\* The variables of FileGuard, under their names there.
fiFile == x1
fiObs == x2
fiLock == x3
fiOp == x4
fiReads == x5
fiStaged == x6
fiStuck == x7
fiRaced == x8
fiLeft == x9

USE DEF fiFile, fiObs, fiLock, fiOp, fiReads, fiStaged, fiStuck, fiRaced, fiLeft

FileOps ==
  [pc : {"idle", "approval", "admit", "stage", "publish", "record"}, kind : {"write", "edit"}, new : FileContents \cup {"absent"},
   exists : BOOLEAN, canceled : BOOLEAN]

FilesTyped ==
  /\ fiOp \in [Sessions -> FileOps] /\ DOMAIN fiObs = Sessions /\ DOMAIN fiReads = Readers
  /\ fiStaged \subseteq Sessions

\* A call that mutates has the target's lock and its session to itself, and
\* what it is going to replace is what the session saw.
FileOf(s, o, target, seen, holder, opened, races) ==
  /\ o.pc \in {"admit", "stage", "publish", "record"} => holder = s
  /\ o.pc # "idle" => \A r \in Readers : r[1] = s => opened[r] = "unseen"
  /\ o.pc \in {"stage", "publish"} /\ o.exists /\ s \notin races => target = seen[s]

FilesInv ==
  /\ FilesTyped
  /\ \A s \in Sessions : FileOf(s, fiOp[s], fiFile, fiObs, fiLock, fiReads, fiRaced)
  /\ \A s \in fiStaged : fiOp[s].pc = "publish" \/ s \in fiStuck

LEMMA FilesInit == Fi!Init => FilesInv
<1> SUFFICES ASSUME Fi!Init PROVE FilesInv
  OBVIOUS
<1>1. \A s \in Sessions : fiOp[s] \in FileOps /\ fiOp[s].pc = "idle"
  BY DEF Fi!Init, Fi!Idle, Fi!Absent, FileOps
<1>2. FilesTyped
  BY <1>1 DEF Fi!Init, FilesTyped
<1>3. \A s \in Sessions : FileOf(s, fiOp[s], fiFile, fiObs, fiLock, fiReads, fiRaced)
  BY <1>1 DEF FileOf
<1> QED  BY <1>2, <1>3 DEF Fi!Init, FilesInv

\* A step of one session's call.
LEMMA FilesMove ==
  ASSUME FilesInv, NEW s \in Sessions, NEW o \in FileOps, fiOp' = [fiOp EXCEPT ![s] = o],
         fiFile' = fiFile \/ fiLock = s, \A t \in Sessions \ {s} : fiObs'[t] = fiObs[t], DOMAIN fiObs' = Sessions,
         \A t \in Sessions \ {s} : fiLock = t => fiLock' = t,
         fiReads' = fiReads, \A t \in Sessions \ {s} : t \in fiRaced => t \in fiRaced',
         FileOf(s, o, fiFile', fiObs', fiLock', fiReads', fiRaced'),
         fiStuck \subseteq fiStuck', fiStaged' \subseteq fiStaged \cup {s},
         s \in fiStaged' => o.pc = "publish" \/ s \in fiStuck'
  PROVE  FilesInv'
<1>1. fiOp \in [Sessions -> FileOps] /\ fiStaged \subseteq Sessions
  BY DEF FilesInv, FilesTyped
<1>2. fiOp' \in [Sessions -> FileOps] /\ fiOp'[s] = o /\ \A t \in Sessions \ {s} : fiOp'[t] = fiOp[t]
  BY <1>1
<1>3. FilesTyped'
  BY <1>1, <1>2 DEF FilesInv, FilesTyped
<1>4. ASSUME NEW t \in Sessions PROVE FileOf(t, fiOp'[t], fiFile', fiObs', fiLock', fiReads', fiRaced')
  <2>1. CASE t = s
    BY <1>2, <2>1
  <2>2. CASE t # s
    <3>1. FileOf(t, fiOp[t], fiFile, fiObs, fiLock, fiReads, fiRaced)
      BY DEF FilesInv
    <3>2. fiOp[t].pc \in {"stage", "publish"} => fiFile' = fiFile
      BY <2>2, <3>1 DEF FileOf
    <3> QED  BY <1>2, <2>2, <3>1, <3>2 DEF FileOf
  <2> QED  BY <2>1, <2>2
<1>5. \A t \in fiStaged' : fiOp'[t].pc = "publish" \/ t \in fiStuck'
  BY <1>1, <1>2 DEF FilesInv
<1> QED  BY <1>3, <1>4, <1>5 DEF FilesInv

LEMMA FilesFacts ==
  ASSUME FilesInv, NEW s \in Sessions
  PROVE  /\ fiOp[s] \in FileOps /\ FileOf(s, fiOp[s], fiFile, fiObs, fiLock, fiReads, fiRaced)
         /\ Fi!Idle \in FileOps /\ Fi!Idle.pc = "idle"
         /\ s \in fiStaged => fiOp[s].pc = "publish" \/ s \in fiStuck
<1>1. fiOp \in [Sessions -> FileOps]
  BY DEF FilesInv, FilesTyped
<1>3. Fi!Idle \in FileOps /\ Fi!Idle.pc = "idle"
  BY DEF Fi!Idle, Fi!Absent, FileOps
<1> QED  BY <1>1, <1>3 DEF FilesInv

LEMMA FilesAt ==
  ASSUME FilesInv, NEW s \in Sessions, NEW to \in {"approval", "admit", "publish", "record", "idle"}, Fi!At(s, to)
  PROVE  \E o \in FileOps : o.pc = to /\ o.exists = fiOp[s].exists /\ fiOp' = [fiOp EXCEPT ![s] = o]
<1> DEFINE o == [fiOp[s] EXCEPT !.pc = to]
<1>1. fiOp \in [Sessions -> FileOps] /\ fiOp' = [fiOp EXCEPT ![s].pc = to]
  BY DEF FilesInv, FilesTyped, Fi!At
<1>2. o \in FileOps /\ o.pc = to /\ o.exists = fiOp[s].exists
  BY <1>1 DEF FileOps
<1>3. fiOp' = [fiOp EXCEPT ![s] = o]
  BY <1>1
<1> QED  BY <1>2, <1>3, Zenon

\* A call returns and gives the lock back.
LEMMA FilesReturn ==
  ASSUME FilesInv, NEW s \in Sessions, Fi!Return(s), fiOp[s].pc \in {"admit", "stage", "publish", "record"},
         fiFile' = fiFile, \A t \in Sessions \ {s} : fiObs'[t] = fiObs[t], DOMAIN fiObs' = Sessions, fiReads' = fiReads,
         fiRaced' = fiRaced, fiStuck \subseteq fiStuck', fiStaged' \subseteq fiStaged, s \in fiStaged' => s \in fiStuck'
  PROVE  FilesInv'
<1>1. fiLock' = "free" /\ fiOp' = [fiOp EXCEPT ![s] = Fi!Idle]
  BY DEF Fi!Return
<1>2. fiLock = s
  BY FilesFacts DEF FileOf
<1>3. FileOf(s, Fi!Idle, fiFile', fiObs', fiLock', fiReads', fiRaced')
  BY FilesFacts DEF FileOf
<1> QED  BY <1>1, <1>2, <1>3, FilesFacts, FilesMove, Zenon

\* The guard under the lock: what is replaced is what the session saw.
LEMMA FilesAdmit ==
  ASSUME FilesInv, NEW s \in Sessions, Fi!Admit(s)
  PROVE  FilesInv'
<1>1. fiOp[s] \in FileOps /\ FileOf(s, fiOp[s], fiFile, fiObs, fiLock, fiReads, fiRaced)
  BY FilesFacts
<1>2. /\ fiOp[s].pc = "admit" /\ Fi!Admits(s, fiOp[s].kind, TRUE)
      /\ fiFile' = fiFile /\ fiObs' = fiObs /\ fiLock' = fiLock /\ fiReads' = fiReads /\ fiStaged' = fiStaged
      /\ fiStuck' = fiStuck /\ fiRaced' = fiRaced
  BY Zenon DEF Fi!Admit
<1>3. PICK c \in FileContents : fiOp' = [fiOp EXCEPT ![s].pc = "stage", ![s].new = c, ![s].exists = fiFile # Fi!Absent]
  BY Zenon DEF Fi!Admit
<1>4. fiOp \in [Sessions -> FileOps]
  BY DEF FilesInv, FilesTyped
<1> DEFINE o == [fiOp[s] EXCEPT !.pc = "stage", !.new = c, !.exists = fiFile # Fi!Absent]
<1>5. fiOp' = [fiOp EXCEPT ![s] = o]
  BY <1>3, <1>4, Zenon
<1>6. o \in FileOps /\ o.pc = "stage" /\ o.exists = (fiFile # Fi!Absent)
  BY <1>1, Zenon DEF FileOps
<1> HIDE DEF o
<1>7. fiFile # Fi!Absent => fiFile = fiObs[s]
  BY <1>2 DEF Fi!Admits, Fi!AdmitWrite, Fi!ObservedContent
<1>8. FileOf(s, o, fiFile', fiObs', fiLock', fiReads', fiRaced')
  BY <1>1, <1>2, <1>6, <1>7, Zenon DEF FileOf
<1>9. s \in fiStaged' => o.pc = "publish" \/ s \in fiStuck'
  BY <1>2, FilesFacts
<1>10. DOMAIN fiObs' = Sessions
  BY <1>2 DEF FilesInv, FilesTyped
<1> QED  BY <1>2, <1>5, <1>6, <1>8, <1>9, <1>10, FilesMove, Zenon

LEMMA FilesStep == FilesInv /\ [Fi!Next]_(Fi!vars) => FilesInv'
<1> SUFFICES ASSUME FilesInv, [Fi!Next]_(Fi!vars) PROVE FilesInv'
  OBVIOUS
<1>0. fiOp \in [Sessions -> FileOps] /\ DOMAIN fiObs = Sessions /\ DOMAIN fiReads = Readers
  BY DEF FilesInv, FilesTyped
<1>1. CASE UNCHANGED Fi!vars
  BY <1>1 DEF Fi!vars, FilesInv, FilesTyped
<1>2. ASSUME NEW r \in Readers, Fi!ReadOpen(r) \/ Fi!ReadRecord(r) \/ Fi!ReadFails(r) PROVE FilesInv'
  <2>1. /\ fiFile' = fiFile /\ fiLock' = fiLock /\ fiOp' = fiOp /\ fiStaged' = fiStaged /\ fiStuck' = fiStuck /\ fiRaced' = fiRaced
        /\ DOMAIN fiObs' = Sessions /\ DOMAIN fiReads' = Readers
        /\ \A q \in Readers \ {r} : fiReads'[q] = fiReads[q]
    BY <1>0, <1>2 DEF Fi!ReadOpen, Fi!ReadRecord, Fi!ReadFails
  <2>2. r[1] \in Sessions => fiOp[r[1]].pc = "idle"
    <3> SUFFICES ASSUME r[1] \in Sessions, fiOp[r[1]].pc # "idle" PROVE FALSE
      OBVIOUS
    <3>1. fiReads[r] = "unseen"
      BY FilesFacts DEF FileOf
    <3> QED  BY <1>2, <3>1, FilesAssumption DEF Fi!ReadOpen, Fi!ReadRecord, Fi!ReadFails, Fi!Present, Fi!Unseen
  <2>3. \A s \in Sessions : s # r[1] => fiObs'[s] = fiObs[s]
    BY <1>0, <1>2 DEF Fi!ReadOpen, Fi!ReadRecord, Fi!ReadFails
  <2>4. ASSUME NEW s \in Sessions PROVE FileOf(s, fiOp'[s], fiFile', fiObs', fiLock', fiReads', fiRaced')
    <3>1. FileOf(s, fiOp[s], fiFile, fiObs, fiLock, fiReads, fiRaced)
      BY FilesFacts
    <3>2. CASE fiOp[s].pc = "idle"
      BY <2>1, <3>2 DEF FileOf
    <3>3. CASE fiOp[s].pc # "idle"
      <4>1. s # r[1]
        BY <2>2, <3>3
      <4> QED  BY <2>1, <2>3, <3>1, <4>1 DEF FileOf
    <3> QED  BY <3>2, <3>3
  <2> QED  BY <2>1, <2>4 DEF FilesInv, FilesTyped
<1>3. ASSUME NEW s \in Sessions, NEW kind \in {"write", "edit"}, Fi!Check(s, kind) PROVE FilesInv'
  <2>1. /\ fiFile' = fiFile /\ fiObs' = fiObs /\ fiLock' = fiLock /\ fiReads' = fiReads /\ fiStaged' = fiStaged
        /\ fiStuck' = fiStuck /\ fiRaced' = fiRaced
        /\ fiOp[s].pc = "idle" /\ ~Fi!Reading(s)
    BY <1>3 DEF Fi!Check
  <2>2. PICK to \in {"approval", "idle"} : fiOp' = [fiOp EXCEPT ![s] = [Fi!Idle EXCEPT !.pc = to, !.kind = kind]]
    BY <1>3, Zenon DEF Fi!Check
  <2> DEFINE o == [Fi!Idle EXCEPT !.pc = to, !.kind = kind]
  <2>3. o \in FileOps /\ o.pc \in {"approval", "idle"} /\ fiOp' = [fiOp EXCEPT ![s] = o]
    BY <2>2, Zenon DEF Fi!Idle, Fi!Absent, FileOps
  <2> HIDE DEF o
  <2>4. FileOf(s, o, fiFile', fiObs', fiLock', fiReads', fiRaced')
    BY <2>1, <2>3 DEF FileOf, Fi!Reading, Fi!Unseen
  <2>5. s \in fiStaged' => s \in fiStuck'
    BY <2>1, FilesFacts
  <2>6. DOMAIN fiObs' = Sessions
    BY <1>0, <2>1
  <2> QED  BY <2>1, <2>3, <2>4, <2>5, <2>6, FilesMove, Zenon
<1>4. ASSUME NEW s \in Sessions, Fi!Denied(s) \/ Fi!Execute(s) \/ Fi!Cancel(s) PROVE FilesInv'
  <2>1. /\ fiFile' = fiFile /\ fiObs' = fiObs /\ fiReads' = fiReads /\ fiStaged' = fiStaged /\ fiStuck' = fiStuck
        /\ DOMAIN fiObs' = Sessions
    BY <1>0, <1>4 DEF Fi!Denied, Fi!Execute, Fi!Cancel
  <2>2. fiOp[s] \in FileOps /\ FileOf(s, fiOp[s], fiFile, fiObs, fiLock, fiReads, fiRaced)
    BY FilesFacts
  <2>3. CASE Fi!Denied(s) \/ Fi!Execute(s)
    <3>1. PICK to \in {"idle", "admit"} : /\ Fi!At(s, to) /\ fiOp[s].pc = "approval"
                                          /\ \/ to = "idle" /\ fiLock' = fiLock /\ fiRaced' = fiRaced
                                             \/ to = "admit" /\ fiLock = "free" /\ fiLock' = s /\ fiRaced' = fiRaced \ {s}
      BY <2>3 DEF Fi!Denied, Fi!Execute
    <3>2. PICK o \in FileOps : fiOp' = [fiOp EXCEPT ![s] = o] /\ o.pc = to
      BY <3>1, FilesAt
    <3>3. FileOf(s, o, fiFile', fiObs', fiLock', fiReads', fiRaced')
      BY <2>1, <2>2, <3>1, <3>2 DEF FileOf
    <3>4. s \in fiStaged' => s \in fiStuck'
      BY <2>1, <3>1, FilesFacts
    <3>5. \A t \in Sessions \ {s} : (fiLock = t => fiLock' = t) /\ (t \in fiRaced => t \in fiRaced')
      BY <3>1, FilesAssumption
    <3> QED  BY <2>1, <3>2, <3>3, <3>4, <3>5, FilesMove, Zenon
  <2>4. CASE Fi!Cancel(s)
    <3> DEFINE o == [fiOp[s] EXCEPT !.canceled = TRUE]
    <3>1. fiOp' = [fiOp EXCEPT ![s].canceled = TRUE] /\ fiLock' = fiLock /\ fiRaced' = fiRaced
      BY <2>4 DEF Fi!Cancel
    <3>2. o \in FileOps /\ fiOp' = [fiOp EXCEPT ![s] = o] /\ o.pc = fiOp[s].pc /\ o.exists = fiOp[s].exists
      BY <1>0, <2>2, <3>1, Zenon DEF FileOps
    <3> HIDE DEF o
    <3>3. FileOf(s, o, fiFile', fiObs', fiLock', fiReads', fiRaced')
      BY <2>1, <2>2, <3>1, <3>2 DEF FileOf
    <3>4. s \in fiStaged' => o.pc = "publish" \/ s \in fiStuck'
      BY <2>1, <3>2, FilesFacts
    <3> QED  BY <2>1, <3>1, <3>2, <3>3, <3>4, FilesMove, Zenon
  <2> QED  BY <1>4, <2>3, <2>4
<1>5. ASSUME NEW s \in Sessions,
             Fi!Refuse(s) \/ (Fi!Stage(s) /\ fiOp[s].canceled) \/ Fi!StageFails(s) \/ Fi!PublishAborted(s) \/ Fi!LinkFails(s) \/ Fi!RecordWritten(s)
      PROVE  FilesInv'
  <2>1. /\ Fi!Return(s) /\ fiOp[s].pc \in {"admit", "stage", "publish", "record"}
        /\ fiFile' = fiFile /\ fiReads' = fiReads /\ fiRaced' = fiRaced
        /\ DOMAIN fiObs' = Sessions /\ \A t \in Sessions \ {s} : fiObs'[t] = fiObs[t]
    BY <1>0, <1>5, Zenon DEF Fi!Refuse, Fi!Stage, Fi!StageFails, Fi!PublishAborted, Fi!LinkFails, Fi!RecordWritten
  <2>2. CASE Fi!StageFails(s) \/ Fi!PublishAborted(s) \/ Fi!LinkFails(s)
    <3>1. fiStuck \subseteq fiStuck' /\ fiStaged' \subseteq fiStaged /\ (s \in fiStaged' => s \in fiStuck')
      BY <2>2 DEF Fi!StageFails, Fi!PublishAborted, Fi!LinkFails, Fi!Unstage
    <3> QED  BY <2>1, <3>1, FilesReturn
  <2>3. CASE Fi!Refuse(s) \/ (Fi!Stage(s) /\ fiOp[s].canceled) \/ Fi!RecordWritten(s)
    <3>1. fiStuck' = fiStuck /\ fiStaged' = fiStaged /\ fiOp[s].pc # "publish"
      BY <2>3, Zenon DEF Fi!Refuse, Fi!Stage, Fi!RecordWritten
    <3>2. s \in fiStaged' => s \in fiStuck'
      BY <3>1, FilesFacts
    <3> QED  BY <2>1, <3>1, <3>2, FilesReturn
  <2> QED  BY <1>5, <2>2, <2>3
<1>6. ASSUME NEW s \in Sessions, (Fi!Stage(s) /\ ~fiOp[s].canceled) \/ Fi!Replace(s) \/ Fi!Link(s) PROVE FilesInv'
  <2>1. PICK to \in {"publish", "record"} :
          /\ Fi!At(s, to) /\ fiObs' = fiObs /\ fiLock' = fiLock /\ fiReads' = fiReads /\ fiRaced' = fiRaced
          /\ fiStuck \subseteq fiStuck'
          /\ \/ fiOp[s].pc = "stage" /\ to = "publish" /\ fiFile' = fiFile /\ fiStaged' = fiStaged \cup {s}
             \/ fiOp[s].pc = "publish" /\ to = "record" /\ fiStaged' \subseteq fiStaged /\ (s \in fiStaged' => s \in fiStuck')
    BY <1>6 DEF Fi!Stage, Fi!Replace, Fi!Link, Fi!Unstage
  <2>2. fiOp[s] \in FileOps /\ FileOf(s, fiOp[s], fiFile, fiObs, fiLock, fiReads, fiRaced) /\ DOMAIN fiObs' = Sessions
    BY <1>0, <2>1, FilesFacts
  <2>3. fiLock = s
    BY <2>1, <2>2 DEF FileOf
  <2>4. PICK o \in FileOps : fiOp' = [fiOp EXCEPT ![s] = o] /\ o.pc = to /\ o.exists = fiOp[s].exists
    BY <2>1, FilesAt
  <2>5. FileOf(s, o, fiFile', fiObs', fiLock', fiReads', fiRaced')
    BY <2>1, <2>2, <2>4 DEF FileOf
  <2>6. fiStaged' \subseteq fiStaged \cup {s} /\ (s \in fiStaged' => o.pc = "publish" \/ s \in fiStuck')
    BY <2>1, <2>4
  <2> QED  BY <2>1, <2>2, <2>3, <2>4, <2>5, <2>6, FilesMove, Zenon
<1>7. ASSUME NEW c \in FileContents \cup {Fi!Absent}, Fi!Outside(c) PROVE FilesInv'
  <2>1. /\ fiObs' = fiObs /\ fiLock' = fiLock /\ fiOp' = fiOp /\ fiReads' = fiReads /\ fiStaged' = fiStaged /\ fiStuck' = fiStuck
        /\ fiRaced' = fiRaced \cup {s \in Sessions : fiOp[s].pc \in {"stage", "publish"}}
    BY <1>7 DEF Fi!Outside
  <2>2. ASSUME NEW s \in Sessions PROVE FileOf(s, fiOp'[s], fiFile', fiObs', fiLock', fiReads', fiRaced')
    <3>1. FileOf(s, fiOp[s], fiFile, fiObs, fiLock, fiReads, fiRaced)
      BY FilesFacts
    <3> QED  BY <2>1, <3>1 DEF FileOf
  <2> QED  BY <2>1, <2>2 DEF FilesInv, FilesTyped
<1>8. ASSUME NEW s \in Sessions, Fi!Stage(s) PROVE FilesInv'
  BY <1>5, <1>6, <1>8
<1> QED  BY <1>1, <1>2, <1>3, <1>4, <1>5, <1>6, <1>7, <1>8, FilesAdmit DEF Fi!Next

LEMMA FilesPublish == FilesInv /\ [Fi!Next]_(Fi!vars) => Fi!PublishesSeen
<1> SUFFICES ASSUME FilesInv, [Fi!Next]_(Fi!vars), NEW s \in Sessions, fiOp[s].pc = "publish", fiOp'[s].pc = "record"
             PROVE  fiFile = Fi!Absent \/ fiFile = fiObs[s] \/ (fiOp[s].exists /\ s \in fiRaced)
  BY DEF Fi!PublishesSeen
<1>1. fiOp \in [Sessions -> FileOps] /\ FileOf(s, fiOp[s], fiFile, fiObs, fiLock, fiReads, fiRaced)
  BY FilesFacts DEF FilesInv, FilesTyped
<1>2. CASE fiOp[s].exists
  BY <1>1, <1>2 DEF FileOf
<1>3. CASE ~fiOp[s].exists
  <2> SUFFICES ASSUME fiFile # Fi!Absent PROVE FALSE
    OBVIOUS
  <2>1. fiOp' # fiOp
    OBVIOUS
  <2>2. \E t \in Sessions :
          \/ \E kind \in {"write", "edit"} : Fi!Check(t, kind)
          \/ Fi!Denied(t) \/ Fi!Execute(t) \/ Fi!Admit(t) \/ Fi!Refuse(t) \/ Fi!Stage(t) \/ Fi!StageFails(t)
          \/ Fi!PublishAborted(t) \/ Fi!Replace(t) \/ Fi!Link(t) \/ Fi!LinkFails(t) \/ Fi!RecordWritten(t) \/ Fi!Cancel(t)
    <3>1. ~UNCHANGED Fi!vars
      BY <2>1 DEF Fi!vars
    <3>2. \A r \in Readers : ~Fi!ReadOpen(r) /\ ~Fi!ReadRecord(r) /\ ~Fi!ReadFails(r)
      BY <2>1 DEF Fi!ReadOpen, Fi!ReadRecord, Fi!ReadFails
    <3>3. \A c \in FileContents \cup {Fi!Absent} : ~Fi!Outside(c)
      BY <2>1 DEF Fi!Outside
    <3> QED  BY <3>1, <3>2, <3>3 DEF Fi!Next
  <2>3. PICK t \in Sessions :
          \/ \E kind \in {"write", "edit"} : Fi!Check(t, kind)
          \/ Fi!Denied(t) \/ Fi!Execute(t) \/ Fi!Admit(t) \/ Fi!Refuse(t) \/ Fi!Stage(t) \/ Fi!StageFails(t)
          \/ Fi!PublishAborted(t) \/ Fi!Replace(t) \/ Fi!Link(t) \/ Fi!LinkFails(t) \/ Fi!RecordWritten(t) \/ Fi!Cancel(t)
    BY <2>2
  <2>4. \A u \in Sessions \ {t} : fiOp'[u] = fiOp[u]
    BY <1>1, <2>3, Zenon DEF Fi!Check, Fi!Denied, Fi!Execute, Fi!Admit, Fi!Refuse, Fi!Stage, Fi!StageFails, Fi!PublishAborted,
       Fi!Replace, Fi!Link, Fi!LinkFails, Fi!RecordWritten, Fi!Cancel, Fi!At, Fi!Return
  <2>5. s = t
    BY <2>4
  <2>6. fiOp'[s].pc # "record"
    <3>1. Fi!Idle.pc = "idle" /\ fiOp[s] \in FileOps
      BY FilesFacts
    <3>2. CASE Fi!StageFails(s) \/ Fi!PublishAborted(s) \/ Fi!LinkFails(s)
      <4>1. fiOp' = [fiOp EXCEPT ![s] = Fi!Idle]
        BY <3>2 DEF Fi!StageFails, Fi!PublishAborted, Fi!LinkFails, Fi!Return
      <4> QED  BY <1>1, <3>1, <4>1
    <3>3. CASE Fi!Cancel(s)
      <4>1. fiOp' = [fiOp EXCEPT ![s].canceled = TRUE]
        BY <3>3 DEF Fi!Cancel
      <4>2. fiOp'[s].pc = fiOp[s].pc
        BY <1>1, <3>1, <4>1 DEF FileOps
      <4> QED  BY <4>2
    <3> QED  BY <1>3, <2>3, <2>5, <3>2, <3>3, Zenon DEF Fi!Check, Fi!Denied, Fi!Execute, Fi!Admit, Fi!Refuse, Fi!Stage,
             Fi!Replace, Fi!Link, Fi!RecordWritten
  <2> QED  BY <2>6
<1> QED  BY <1>2, <1>3

LEMMA FilesInFocus == ServicesInit /\ focus = "files" => Fi!Init
BY DEF ServicesInit, ServiceInit

LEMMA FilesOnly ==
  ASSUME [ServicesNext]_<<focus, vars, slots>>, focus = "files" \/ focus' = "files"
  PROVE  focus = "files" /\ [Fi!Next]_(Fi!vars)
<1>1. CASE UNCHANGED <<focus, vars, slots>>
  BY <1>1 DEF slots, Fi!vars
<1>2. CASE focus = "log" /\ Next /\ UNCHANGED <<focus, slots>>
  BY <1>2
<1>3. CASE ServiceNext /\ UNCHANGED <<focus, vars>>
  BY <1>3 DEF ServiceNext
<1> QED  BY <1>1, <1>2, <1>3 DEF ServicesNext

FilesKept == focus = "files" => FilesInv

\* A write or an edit replaces only what its session saw, or creates; what it
\* stages is gone when it returns, unless the removal failed (admitWrite,
\* writeAtomic).
THEOREM FileAlwaysKept == ServicesSpec => FileKept
<1> DEFINE Step == focus = "files" => Fi!PublishesSeen /\ Fi!StagingGone'
<1>1. ServicesInit => FilesKept
  BY FilesInFocus, FilesInit DEF FilesKept
<1>2. FilesKept /\ [ServicesNext]_<<focus, vars, slots>> => FilesKept'
  BY FilesOnly, FilesStep DEF FilesKept
<1>3. FilesKept /\ [ServicesNext]_<<focus, vars, slots>> => [Step]_<<focus, slots>>
  <2> SUFFICES ASSUME FilesInv, [ServicesNext]_<<focus, vars, slots>>, focus = "files" PROVE Fi!PublishesSeen /\ Fi!StagingGone'
    BY DEF FilesKept
  <2>1. [Fi!Next]_(Fi!vars)
    BY FilesOnly
  <2>2. FilesInv'
    BY <2>1, FilesStep
  <2>3. Fi!StagingGone'
    BY <2>2 DEF FilesInv, Fi!StagingGone
  <2> QED  BY <2>1, <2>3, FilesPublish
<1> HIDE DEF Step
<1>4. ServicesSpec => [][Step]_<<focus, slots>>
  BY <1>1, <1>2, <1>3, PTL DEF ServicesSpec
<1> QED  BY <1>4 DEF FileKept, Step

-----------------------------------------------------------------------------
(* Spill: the artifacts of tool calls.                                     *)

\* The variables of Spill, under their names there.
spTree == x1
spFiles == x2
spLayout == x3
spStore == x4
spCall == x5
spSweeper == x6
spRaced == x7
spLeft == x8

USE DEF spTree, spFiles, spLayout, spStore, spCall, spSweeper, spRaced, spLeft

\* A call that was admitted and has not released its artifact.
Admitted == {"attempt", "partition", "session", "inspect", "open", "writing"}
SpillPcs == Admitted \cup {"idle", "refused", "failed", "broken", "committed", "discarded"}
SpillOps == [pc : SpillPcs, tries : Nat, spoilt : BOOLEAN]

SpillTyped ==
  /\ spTree \subseteq {"partition", "session"}
  /\ spStore \in [running : BOOLEAN, open : Nat, stop : {"no", "draining", "cancelled", "stopped"}, late : BOOLEAN]
  /\ DOMAIN spCall = SpillCalls /\ \A k \in SpillCalls : spCall[k] \in SpillOps

\* What a call has: the layout lock, directories that only another process can
\* have pruned, its file.
SpillOf(k, to, tree, files, layout, raced) ==
  /\ to \in {"partition", "session", "inspect", "open"} => layout = k
  /\ to = "session" => "partition" \in tree \/ k \in raced
  /\ to \in {"inspect", "open"} => "session" \in tree \/ k \in raced
  /\ to \in {"writing", "committed"} => k \in files
  /\ to = "failed" => k \in raced

InTree(tree, files) ==
  /\ files # {} => "session" \in tree
  /\ "session" \in tree => "partition" \in tree

\* The open artifacts are counted, and the cleanup waits for them.
Counted(calls, store) ==
  /\ store.open = Cardinality({k \in SpillCalls : calls[k].pc \in Admitted})
  /\ store.stop # "no" => ~store.running
  /\ store.stop \in {"cancelled", "stopped"} /\ ~store.late => \A k \in SpillCalls : calls[k].pc \notin Admitted

SpillInv ==
  /\ SpillTyped
  /\ \A k \in SpillCalls : SpillOf(k, spCall[k].pc, spTree, spFiles, spLayout, spRaced)
  /\ InTree(spTree, spFiles)
  /\ Counted(spCall, spStore)
  /\ DOMAIN spSweeper = Sp!Sweepers
  /\ spStore.stop = "stopped" => spSweeper["own"].pc = "done"

LEMMA SpillInit == Sp!Init => SpillInv
<1> SUFFICES ASSUME Sp!Init PROVE SpillInv
  OBVIOUS
<1>1. \A k \in SpillCalls : spCall[k] = [pc |-> "idle", tries |-> 0, spoilt |-> FALSE] /\ DOMAIN spCall = SpillCalls
  BY DEF Sp!Init
<1>0. DOMAIN spCall = SpillCalls
  BY DEF Sp!Init
<1>2. SpillTyped
  BY <1>0, <1>1 DEF Sp!Init, SpillTyped, SpillOps, SpillPcs
<1>3. \A k \in SpillCalls : SpillOf(k, spCall[k].pc, spTree, spFiles, spLayout, spRaced)
  BY <1>1 DEF SpillOf
<1>4. {k \in SpillCalls : spCall[k].pc \in Admitted} = {}
  BY <1>1 DEF Admitted
<1>5. Counted(spCall, spStore)
  BY <1>4, FS_EmptySet, Zenon DEF Sp!Init, Counted
<1>6. InTree(spTree, spFiles)
  BY DEF Sp!Init, InTree
<1> QED  BY <1>2, <1>3, <1>5, <1>6 DEF Sp!Init, SpillInv

\* A call goes from one step to the next, between admission and release.
LEMMA SpillMove ==
  ASSUME SpillInv, NEW k \in SpillCalls, NEW to \in SpillPcs, DOMAIN spCall' = SpillCalls,
         \A j \in SpillCalls \ {k} : spCall'[j] = spCall[j],
         spCall'[k].pc = to, spCall'[k] \in SpillOps,
         spSweeper' = spSweeper, spRaced' = spRaced,
         spTree \subseteq spTree', spTree' \subseteq {"partition", "session"},
         \A j \in SpillCalls \ {k} : (j \in spFiles => j \in spFiles') /\ (spLayout = j => spLayout' = j),
         SpillOf(k, to, spTree', spFiles', spLayout', spRaced'), InTree(spTree', spFiles'),
         \/ spStore' = spStore /\ (spCall[k].pc \in Admitted <=> to \in Admitted)
         \/ spStore.running /\ spStore' = [spStore EXCEPT !.open = spStore.open + 1] /\ spCall[k].pc \notin Admitted /\ to \in Admitted
         \/ spStore' = [spStore EXCEPT !.open = spStore.open - 1] /\ spCall[k].pc \in Admitted /\ to \notin Admitted
  PROVE  SpillInv'
<1> DEFINE busy == {j \in SpillCalls : spCall[j].pc \in Admitted}
           busy1 == {j \in SpillCalls : spCall'[j].pc \in Admitted}
<1>1. /\ spStore \in [running : BOOLEAN, open : Nat, stop : {"no", "draining", "cancelled", "stopped"}, late : BOOLEAN]
      /\ spStore.open = Cardinality(busy) /\ IsFiniteSet(busy)
      /\ spStore.stop # "no" => ~spStore.running
      /\ spStore.stop \in {"cancelled", "stopped"} /\ ~spStore.late => \A j \in SpillCalls : spCall[j].pc \notin Admitted
      /\ spStore.stop = "stopped" => spSweeper["own"].pc = "done"
  <2>1. IsFiniteSet(busy)
    BY SpillAssumption, FS_Subset
  <2> QED  BY <2>1 DEF SpillInv, SpillTyped, Counted
<1>2. /\ spStore' \in [running : BOOLEAN, open : Nat, stop : {"no", "draining", "cancelled", "stopped"}, late : BOOLEAN]
      /\ spStore'.open = Cardinality(busy1)
      /\ spStore'.running = spStore.running /\ spStore'.stop = spStore.stop /\ spStore'.late = spStore.late
  <2>1. CASE spStore' = spStore /\ (spCall[k].pc \in Admitted <=> to \in Admitted)
    <3>1. busy1 = busy
      BY <2>1
    <3> QED  BY <1>1, <2>1, <3>1, Zenon
  <2>2. CASE spStore' = [spStore EXCEPT !.open = spStore.open + 1] /\ spCall[k].pc \notin Admitted /\ to \in Admitted
    <3>1. busy1 = busy \cup {k} /\ k \notin busy
      BY <2>2
    <3> HIDE DEF busy, busy1
    <3>2. Cardinality(busy \cup {k}) = Cardinality(busy) + 1
      BY <1>1, <3>1, FS_AddElement, Zenon
    <3> QED  BY <1>1, <2>2, <3>1, <3>2
  <2>3. CASE spStore' = [spStore EXCEPT !.open = spStore.open - 1] /\ spCall[k].pc \in Admitted /\ to \notin Admitted
    <3>1. busy1 = busy \ {k} /\ k \in busy
      BY <2>3
    <3> HIDE DEF busy, busy1
    <3>2. Cardinality(busy1) = spStore.open - 1
      BY <1>1, <3>1, FS_RemoveElement, Zenon
    <3>3. spStore.open # 0
      BY <1>1, <3>1, FS_EmptySet
    <3> QED  BY <1>1, <2>3, <3>2, <3>3
  <2> QED  BY <2>1, <2>2, <2>3
<1>3. SpillTyped'
  BY <1>2 DEF SpillInv, SpillTyped
<1>4. ASSUME NEW j \in SpillCalls PROVE SpillOf(j, spCall'[j].pc, spTree', spFiles', spLayout', spRaced')
  <2>1. CASE j = k
    BY <2>1
  <2>2. CASE j # k
    <3>1. SpillOf(j, spCall[j].pc, spTree, spFiles, spLayout, spRaced) /\ spCall'[j] = spCall[j]
      BY <2>2 DEF SpillInv
    <3> QED  BY <2>2, <3>1 DEF SpillOf
  <2> QED  BY <2>1, <2>2
<1>5. Counted(spCall', spStore')
  BY <1>1, <1>2 DEF Counted
<1> QED  BY <1>1, <1>2, <1>3, <1>4, <1>5 DEF SpillInv

\* A step of a sweep: expired files and empty directories go.
LEMMA SpillSweeps ==
  ASSUME SpillInv, spCall' = spCall, spStore' = spStore, spLayout' = spLayout, DOMAIN spSweeper' = Sp!Sweepers,
         spFiles' \subseteq spFiles, \A k \in SpillCalls : k \in spFiles => k \in spFiles',
         spTree' \subseteq spTree, spRaced \subseteq spRaced', InTree(spTree', spFiles'),
         spTree' = spTree \/ Sp!InCreate \subseteq spRaced',
         spSweeper["own"].pc = "done" => spSweeper'["own"].pc = "done"
  PROVE  SpillInv'
<1>1. SpillTyped'
  BY DEF SpillInv, SpillTyped
<1>2. ASSUME NEW k \in SpillCalls PROVE SpillOf(k, spCall'[k].pc, spTree', spFiles', spLayout', spRaced')
  <2>1. SpillOf(k, spCall[k].pc, spTree, spFiles, spLayout, spRaced)
    BY DEF SpillInv
  <2>2. spCall[k].pc \in {"session", "inspect", "open"} => k \in Sp!InCreate
    BY DEF Sp!InCreate
  <2> QED  BY <2>1, <2>2 DEF SpillOf
<1> QED  BY <1>1, <1>2 DEF SpillInv

LEMMA SpillFacts ==
  ASSUME SpillInv, NEW k \in SpillCalls
  PROVE  /\ SpillOf(k, spCall[k].pc, spTree, spFiles, spLayout, spRaced) /\ InTree(spTree, spFiles)
         /\ spCall[k].pc \in SpillPcs /\ spTree \subseteq {"partition", "session"} /\ DOMAIN spCall = SpillCalls
         /\ spCall[k] \in SpillOps
         /\ spStore \in [running : BOOLEAN, open : Nat, stop : {"no", "draining", "cancelled", "stopped"}, late : BOOLEAN]
BY DEF SpillInv, SpillTyped, SpillOps

LEMMA SpillAt ==
  ASSUME SpillInv, NEW k \in SpillCalls, NEW to \in SpillPcs, Sp!At(k, to)
  PROVE  /\ DOMAIN spCall' = SpillCalls /\ \A j \in SpillCalls \ {k} : spCall'[j] = spCall[j]
         /\ spCall'[k].pc = to /\ spCall'[k] \in SpillOps
<1>1. spCall' = [spCall EXCEPT ![k].pc = to] /\ DOMAIN spCall = SpillCalls /\ spCall[k] \in SpillOps
  BY SpillFacts DEF Sp!At
<1>2. spCall'[k] = [spCall[k] EXCEPT !.pc = to]
  BY <1>1
<1>3. [spCall[k] EXCEPT !.pc = to] \in SpillOps /\ [spCall[k] EXCEPT !.pc = to].pc = to
  BY <1>1 DEF SpillOps
<1> QED  BY <1>1, <1>2, <1>3

\* A call of Create goes on with the store as it is.
LEMMA SpillGoesOn ==
  ASSUME SpillInv, NEW k \in SpillCalls, NEW to \in SpillPcs, Sp!At(k, to), spStore' = spStore,
         spSweeper' = spSweeper, spRaced' = spRaced, spFiles \subseteq spFiles', spTree \subseteq spTree',
         spTree' \subseteq {"partition", "session"}, InTree(spTree', spFiles'),
         \A j \in SpillCalls \ {k} : spLayout = j => spLayout' = j,
         SpillOf(k, to, spTree', spFiles', spLayout', spRaced'), spCall[k].pc \in Admitted <=> to \in Admitted
  PROVE  SpillInv'
BY SpillAt, SpillMove

\* It releases its artifact.
LEMMA SpillReleases ==
  ASSUME SpillInv, NEW k \in SpillCalls, NEW to \in {"failed", "broken", "committed", "discarded"}, Sp!At(k, to), Sp!Release,
         spSweeper' = spSweeper, spRaced' = spRaced, spTree' = spTree, spFiles' \subseteq spFiles,
         \A j \in SpillCalls \ {k} : (j \in spFiles => j \in spFiles') /\ (spLayout = j => spLayout' = j),
         SpillOf(k, to, spTree', spFiles', spLayout', spRaced'), spCall[k].pc \in Admitted
  PROVE  SpillInv'
<1>1. to \in SpillPcs /\ to \notin Admitted
  BY DEF SpillPcs, Admitted
<1>2. spStore' = [spStore EXCEPT !.open = spStore.open - 1]
  BY DEF Sp!Release
<1>3. InTree(spTree', spFiles') /\ spTree' \subseteq {"partition", "session"}
  BY SpillFacts DEF InTree
<1> QED  BY <1>1, <1>2, <1>3, SpillAt, SpillMove

LEMMA SpillCreates ==
  ASSUME SpillInv, NEW k \in SpillCalls,
         \/ Sp!Create(k) \/ Sp!CreateClosed(k) \/ Sp!Attempt(k) \/ Sp!MakePartition(k) \/ Sp!MakeSession(k)
         \/ Sp!Inspect(k) \/ Sp!DirectoryFails(k) \/ Sp!Open(k) \/ Sp!OpenFails(k)
         \/ Sp!NameTaken(k) \/ Sp!CreateFails(k)
  PROVE  SpillInv'
<1>1. /\ SpillOf(k, spCall[k].pc, spTree, spFiles, spLayout, spRaced) /\ InTree(spTree, spFiles)
      /\ spCall[k].pc \in SpillPcs /\ spTree \subseteq {"partition", "session"} /\ DOMAIN spCall = SpillCalls
      /\ spCall[k] \in SpillOps
  BY SpillFacts
<1>2. CASE Sp!Create(k)
  <2>1. /\ spCall[k].pc = "idle" /\ spStore.running /\ Sp!At(k, "attempt") /\ spStore' = [spStore EXCEPT !.open = spStore.open + 1]
        /\ spTree' = spTree /\ spFiles' = spFiles /\ spLayout' = spLayout /\ spSweeper' = spSweeper /\ spRaced' = spRaced
    BY <1>2 DEF Sp!Create
  <2>2. "attempt" \in SpillPcs /\ "attempt" \in Admitted /\ "idle" \notin Admitted
    BY DEF SpillPcs, Admitted
  <2>3. SpillOf(k, "attempt", spTree', spFiles', spLayout', spRaced')
    BY DEF SpillOf
  <2>4. /\ DOMAIN spCall' = SpillCalls /\ \A j \in SpillCalls \ {k} : spCall'[j] = spCall[j]
        /\ spCall'[k].pc = "attempt" /\ spCall'[k] \in SpillOps
    BY <2>1, <2>2, SpillAt
  <2> QED  BY <1>1, <2>1, <2>2, <2>3, <2>4, SpillMove
<1>3. CASE Sp!CreateClosed(k)
  <2>1. "refused" \in SpillPcs /\ "refused" \notin Admitted /\ spCall[k].pc \notin Admitted /\ Sp!At(k, "refused")
    BY <1>3 DEF Sp!CreateClosed, SpillPcs, Admitted
  <2>2. SpillOf(k, "refused", spTree', spFiles', spLayout', spRaced')
    BY DEF SpillOf
  <2> QED  BY <1>1, <1>3, <2>1, <2>2, SpillGoesOn DEF Sp!CreateClosed
<1>4. CASE Sp!Attempt(k)
  <2>1. /\ spCall[k].pc = "attempt" /\ spLayout = "nobody" /\ spLayout' = k
        /\ spTree' = spTree /\ spFiles' = spFiles /\ spStore' = spStore /\ spSweeper' = spSweeper /\ spRaced' = spRaced
        /\ spCall' = [spCall EXCEPT ![k].pc = "partition", ![k].tries = spCall[k].tries + 1]
    BY <1>4 DEF Sp!Attempt, Sp!Nobody
  <2>2. DOMAIN spCall' = SpillCalls /\ \A j \in SpillCalls \ {k} : spCall'[j] = spCall[j]
    BY <1>1, <2>1
  <2>3. "partition" \in SpillPcs /\ "partition" \in Admitted /\ "attempt" \in Admitted
    BY DEF SpillPcs, Admitted
  <2>4. SpillOf(k, "partition", spTree', spFiles', spLayout', spRaced')
    BY <2>1 DEF SpillOf
  <2>5. \A j \in SpillCalls \ {k} : spLayout # j
    BY <2>1, SpillAssumption
  <2>6. spCall'[k].pc = "partition" /\ spCall'[k] \in SpillOps
    <3>1. spCall'[k] = [spCall[k] EXCEPT !.pc = "partition", !.tries = spCall[k].tries + 1]
      BY <1>1, <2>1
    <3>2. /\ [spCall[k] EXCEPT !.pc = "partition", !.tries = spCall[k].tries + 1] \in SpillOps
          /\ [spCall[k] EXCEPT !.pc = "partition", !.tries = spCall[k].tries + 1].pc = "partition"
      <4>1. PICK r \in SpillOps : r = spCall[k]
        BY <1>1
      <4>2. r.tries + 1 \in Nat
        BY DEF SpillOps
      <4>3. PICK n \in Nat : n = r.tries + 1
        BY <4>2
      <4>4. [r EXCEPT !.pc = "partition", !.tries = n] \in SpillOps /\ [r EXCEPT !.pc = "partition", !.tries = n].pc = "partition"
        BY <2>3, Zenon DEF SpillOps
      <4> QED  BY <4>1, <4>3, <4>4
    <3> QED  BY <3>1, <3>2
  <2> QED  BY <1>1, <2>1, <2>2, <2>3, <2>4, <2>5, <2>6, SpillMove
<1>5. CASE Sp!MakePartition(k)
  <2>1. /\ spCall[k].pc = "partition" /\ Sp!At(k, "session") /\ spTree' = spTree \cup {"partition"}
        /\ spFiles' = spFiles /\ spLayout' = spLayout /\ spStore' = spStore /\ spSweeper' = spSweeper /\ spRaced' = spRaced
    BY <1>5 DEF Sp!MakePartition
  <2>2. "session" \in SpillPcs /\ "session" \in Admitted /\ "partition" \in Admitted
    BY DEF SpillPcs, Admitted
  <2>3. SpillOf(k, "session", spTree', spFiles', spLayout', spRaced') /\ InTree(spTree', spFiles')
    BY <1>1, <2>1 DEF SpillOf, InTree
  <2> QED  BY <1>1, <2>1, <2>2, <2>3, SpillGoesOn
<1>6. CASE Sp!MakeSession(k)
  <2>1. /\ spCall[k].pc = "session" /\ Sp!At(k, "inspect") /\ spTree' = spTree \cup {"session"} /\ "partition" \in spTree
        /\ spFiles' = spFiles /\ spLayout' = spLayout /\ spStore' = spStore /\ spSweeper' = spSweeper /\ spRaced' = spRaced
    BY <1>6 DEF Sp!MakeSession
  <2>2. "session" \in Admitted /\ "inspect" \in SpillPcs /\ "inspect" \in Admitted
    BY DEF SpillPcs, Admitted
  <2>3. SpillOf(k, "inspect", spTree', spFiles', spLayout', spRaced') /\ InTree(spTree', spFiles')
    BY <1>1, <2>1 DEF SpillOf, InTree
  <2> QED  BY <1>1, <2>1, <2>2, <2>3, SpillGoesOn
<1>7. CASE Sp!Inspect(k)
  <2>1. /\ spCall[k].pc = "inspect" /\ Sp!At(k, "open") /\ spTree' = spTree
        /\ spFiles' = spFiles /\ spLayout' = spLayout /\ spStore' = spStore /\ spSweeper' = spSweeper /\ spRaced' = spRaced
    BY <1>7 DEF Sp!Inspect
  <2>2. "inspect" \in Admitted /\ "open" \in SpillPcs /\ "open" \in Admitted
    BY DEF SpillPcs, Admitted
  <2>3. SpillOf(k, "open", spTree', spFiles', spLayout', spRaced')
    BY <1>1, <2>1 DEF SpillOf
  <2> QED  BY <1>1, <2>1, <2>2, <2>3, SpillGoesOn
<1>8. CASE Sp!DirectoryFails(k) \/ (Sp!OpenFails(k) /\ Sp!Release)
  <2>1. /\ spCall[k].pc \in {"session", "inspect", "open"} /\ Sp!At(k, "failed") /\ Sp!Release
        /\ spTree' = spTree /\ spFiles' = spFiles /\ spLayout' = "nobody" /\ spSweeper' = spSweeper /\ spRaced' = spRaced
        /\ k \in spRaced
    <3>1. CASE Sp!DirectoryFails(k)
      BY <1>1, <3>1 DEF Sp!DirectoryFails, Sp!Nobody, SpillOf
    <3>2. CASE Sp!OpenFails(k) /\ Sp!Release
      <4>1. ~(spStore' = spStore)
        <5>1. spStore.open \in Nat /\ spStore' = [spStore EXCEPT !.open = spStore.open - 1]
              /\ spStore \in [running : BOOLEAN, open : Nat, stop : {"no", "draining", "cancelled", "stopped"}, late : BOOLEAN]
          BY <3>2, SpillFacts DEF Sp!Release
        <5>2. spStore'.open = spStore.open - 1
          BY <5>1
        <5> QED  BY <5>1, <5>2
      <4> QED  BY <1>1, <3>2, <4>1 DEF Sp!OpenFails, Sp!Nobody, SpillOf
    <3> QED  BY <1>8, <3>1, <3>2
  <2>2. spCall[k].pc \in Admitted /\ spLayout = k
    BY <1>1, <2>1 DEF Admitted, SpillOf
  <2>3. SpillOf(k, "failed", spTree', spFiles', spLayout', spRaced')
    BY <2>1 DEF SpillOf
  <2> QED  BY <2>1, <2>2, <2>3, SpillReleases
<1>9. CASE Sp!Open(k)
  <2>1. /\ spCall[k].pc = "open" /\ Sp!At(k, "writing") /\ spTree' = spTree /\ "session" \in spTree
        /\ spFiles' = spFiles \cup {k} /\ spLayout' = "nobody" /\ spStore' = spStore /\ spSweeper' = spSweeper /\ spRaced' = spRaced
    BY <1>9 DEF Sp!Open, Sp!Nobody
  <2>2. "writing" \in SpillPcs /\ "open" \in Admitted /\ "writing" \in Admitted
    BY DEF SpillPcs, Admitted
  <2>3. SpillOf(k, "writing", spTree', spFiles', spLayout', spRaced') /\ InTree(spTree', spFiles') /\ spLayout = k
    BY <1>1, <2>1 DEF SpillOf, InTree
  <2> QED  BY <1>1, <2>1, <2>2, <2>3, SpillGoesOn
<1>10. CASE (Sp!OpenFails(k) /\ ~Sp!Release) \/ Sp!NameTaken(k)
  <2>1. /\ spCall[k].pc = "open" /\ Sp!At(k, "attempt") /\ spTree' = spTree
        /\ spFiles' = spFiles /\ spLayout' = "nobody" /\ spStore' = spStore /\ spSweeper' = spSweeper /\ spRaced' = spRaced
    BY <1>10 DEF Sp!OpenFails, Sp!NameTaken, Sp!Nobody
  <2>2. "attempt" \in SpillPcs /\ "open" \in Admitted /\ "attempt" \in Admitted
    BY DEF SpillPcs, Admitted
  <2>3. SpillOf(k, "attempt", spTree', spFiles', spLayout', spRaced') /\ spLayout = k
    BY <1>1, <2>1 DEF SpillOf
  <2> QED  BY <1>1, <2>1, <2>2, <2>3, SpillGoesOn
<1>11. CASE Sp!CreateFails(k)
  <2>1. /\ spCall[k].pc \in {"attempt", "partition", "session", "inspect", "open"} /\ Sp!At(k, "broken") /\ Sp!Release
        /\ spLayout' = IF spCall[k].pc = "attempt" THEN spLayout ELSE "nobody"
        /\ spTree' = spTree /\ spFiles' = spFiles /\ spSweeper' = spSweeper /\ spRaced' = spRaced
    BY <1>11 DEF Sp!CreateFails, Sp!Nobody
  <2>2. spCall[k].pc \in Admitted /\ \A j \in SpillCalls \ {k} : spLayout = j => spLayout' = j
    BY <1>1, <2>1 DEF Admitted, SpillOf
  <2>3. SpillOf(k, "broken", spTree', spFiles', spLayout', spRaced')
    BY DEF SpillOf
  <2> QED  BY <2>1, <2>2, <2>3, SpillReleases
<1> QED  BY <1>2, <1>3, <1>4, <1>5, <1>6, <1>7, <1>8, <1>9, <1>10, <1>11

LEMMA SpillWrites ==
  ASSUME SpillInv, NEW k \in SpillCalls, Sp!WriteFails(k) \/ Sp!Commit(k) \/ Sp!CommitFails(k) \/ Sp!Discard(k)
  PROVE  SpillInv'
<1>1. /\ SpillOf(k, spCall[k].pc, spTree, spFiles, spLayout, spRaced) /\ InTree(spTree, spFiles)
      /\ spCall[k].pc = "writing" /\ spTree \subseteq {"partition", "session"} /\ DOMAIN spCall = SpillCalls
      /\ spCall[k] \in SpillOps /\ "writing" \in Admitted /\ "writing" \in SpillPcs
  BY SpillFacts DEF Sp!WriteFails, Sp!Commit, Sp!CommitFails, Sp!Discard, Admitted, SpillPcs
<1>2. CASE Sp!WriteFails(k)
  <2>1. /\ spCall' = [spCall EXCEPT ![k].spoilt = TRUE]
        /\ spTree' = spTree /\ spFiles' = spFiles /\ spLayout' = spLayout /\ spStore' = spStore /\ spSweeper' = spSweeper /\ spRaced' = spRaced
    BY <1>2 DEF Sp!WriteFails
  <2>2. DOMAIN spCall' = SpillCalls /\ \A j \in SpillCalls \ {k} : spCall'[j] = spCall[j]
    BY <1>1, <2>1
  <2>3. spCall'[k].pc = "writing" /\ spCall'[k] \in SpillOps
    <3>1. spCall'[k] = [spCall[k] EXCEPT !.spoilt = TRUE]
      BY <1>1, <2>1
    <3>2. [spCall[k] EXCEPT !.spoilt = TRUE] \in SpillOps /\ [spCall[k] EXCEPT !.spoilt = TRUE].pc = spCall[k].pc
      BY <1>1, Zenon DEF SpillOps
    <3> QED  BY <1>1, <3>1, <3>2
  <2> QED  BY <1>1, <2>1, <2>2, <2>3, SpillMove, Zenon
<1>3. CASE Sp!Commit(k)
  <2>1. SpillOf(k, "committed", spTree', spFiles', spLayout', spRaced')
    BY <1>1, <1>3 DEF Sp!Commit, SpillOf
  <2> QED  BY <1>1, <1>3, <2>1, SpillReleases DEF Sp!Commit
<1>4. CASE Sp!CommitFails(k) \/ Sp!Discard(k)
  <2>1. /\ Sp!At(k, "discarded") /\ Sp!Release /\ spFiles' = spFiles \ {k}
        /\ spTree' = spTree /\ spLayout' = spLayout /\ spSweeper' = spSweeper /\ spRaced' = spRaced
    BY <1>4 DEF Sp!CommitFails, Sp!Discard
  <2>2. SpillOf(k, "discarded", spTree', spFiles', spLayout', spRaced')
    BY DEF SpillOf
  <2> QED  BY <1>1, <2>1, <2>2, SpillReleases
<1> QED  BY <1>2, <1>3, <1>4

LEMMA SpillSweep ==
  ASSUME SpillInv,
         \/ \E s \in Sp!Sweepers : Sp!SweepList(s) \/ Sp!SweepFile(s) \/ Sp!SweepPrune(s) \/ Sp!SweepWorkspace(s)
         \/ Sp!SweepCancelled
  PROVE  SpillInv'
<1>1. "own" \in Sp!Sweepers /\ Sp!Own = "own" /\ Sp!Nobody = "nobody" /\ DOMAIN spSweeper = Sp!Sweepers /\ InTree(spTree, spFiles)
  BY DEF Sp!Sweepers, Sp!Own, Sp!Nobody, SpillInv
\* Whoever is in Create holds the layout lock.
<1>2. spLayout = "nobody" => Sp!InCreate = {}
  <2> SUFFICES ASSUME spLayout = "nobody", NEW k \in SpillCalls, spCall[k].pc \in {"session", "inspect", "open"} PROVE FALSE
    BY DEF Sp!InCreate
  <2> QED  BY SpillFacts, SpillAssumption DEF SpillOf
<1>3. ASSUME NEW s \in Sp!Sweepers, Sp!SweepList(s) PROVE SpillInv'
  <2>1. /\ spTree' = spTree /\ spFiles' = spFiles /\ spLayout' = spLayout /\ spStore' = spStore /\ spCall' = spCall /\ spRaced' = spRaced
        /\ DOMAIN spSweeper' = DOMAIN spSweeper /\ spSweeper[s].pc = "start" /\ \A u \in Sp!Sweepers \ {s} : spSweeper'[u] = spSweeper[u]
    BY <1>1, <1>3 DEF Sp!SweepList
  <2> QED  BY <1>1, <2>1, SpillSweeps
<1>4. ASSUME NEW s \in Sp!Sweepers, Sp!SweepFile(s) PROVE SpillInv'
  <2>1. PICK f \in spSweeper[s].todo :
          /\ spFiles' = IF f \in spFiles /\ Sp!Expired(f) THEN spFiles \ {f} ELSE spFiles
          /\ spSweeper' = [spSweeper EXCEPT ![s].todo = @ \ {f},
                             ![s].remaining = @ - (IF f \in spFiles /\ Sp!Expired(f) THEN 1 ELSE 0)]
    BY <1>4, Zenon DEF Sp!SweepFile
  <2>2. /\ spTree' = spTree /\ spLayout' = spLayout /\ spStore' = spStore /\ spCall' = spCall /\ spRaced' = spRaced
        /\ spSweeper[s].pc = "files"
    BY <1>4 DEF Sp!SweepFile
  <2>3. DOMAIN spSweeper' = DOMAIN spSweeper /\ \A u \in Sp!Sweepers \ {s} : spSweeper'[u] = spSweeper[u]
    BY <1>1, <2>1
  <2>4. spFiles' \subseteq spFiles /\ \A k \in SpillCalls : k \in spFiles => k \in spFiles'
    BY <2>1, SpillAssumption DEF Sp!Expired
  <2>5. InTree(spTree', spFiles')
    BY <1>1, <2>2, <2>4 DEF InTree
  <2> QED  BY <1>1, <2>2, <2>3, <2>4, <2>5, SpillSweeps
<1>5. ASSUME NEW s \in Sp!Sweepers, Sp!SweepPrune(s) PROVE SpillInv'
  <2>1. /\ spFiles' = spFiles /\ spLayout' = spLayout /\ spStore' = spStore /\ spCall' = spCall /\ spSweeper[s].pc = "files"
        /\ DOMAIN spSweeper' = DOMAIN spSweeper /\ \A u \in Sp!Sweepers \ {s} : spSweeper'[u] = spSweeper[u]
    BY <1>1, <1>5 DEF Sp!SweepPrune
  <2>2. CASE spTree' = spTree /\ spRaced' = spRaced
    BY <1>1, <2>1, <2>2, SpillSweeps
  <2>3. CASE ~(spTree' = spTree /\ spRaced' = spRaced)
    <3>1. /\ Sp!Admits(s) /\ spFiles = {} /\ spTree' = spTree \ {"session"}
          /\ spRaced' = IF s = "own" THEN spRaced ELSE spRaced \cup Sp!InCreate
      BY <1>1, <1>5, <2>3 DEF Sp!SweepPrune
    <3>2. Sp!InCreate \subseteq spRaced'
      BY <1>1, <1>2, <3>1 DEF Sp!Admits
    <3>3. InTree(spTree', spFiles') /\ spTree' \subseteq spTree /\ spRaced \subseteq spRaced'
      BY <2>1, <3>1 DEF InTree
    <3> QED  BY <1>1, <2>1, <3>2, <3>3, SpillSweeps
  <2> QED  BY <2>2, <2>3
<1>6. ASSUME NEW s \in Sp!Sweepers, Sp!SweepWorkspace(s) PROVE SpillInv'
  <2>1. /\ spFiles' = spFiles /\ spLayout' = spLayout /\ spStore' = spStore /\ spCall' = spCall /\ spSweeper[s].pc = "workspace"
        /\ DOMAIN spSweeper' = DOMAIN spSweeper /\ \A u \in Sp!Sweepers \ {s} : spSweeper'[u] = spSweeper[u]
    BY <1>1, <1>6 DEF Sp!SweepWorkspace
  <2>2. CASE spTree' = spTree /\ spRaced' = spRaced
    BY <1>1, <2>1, <2>2, SpillSweeps
  <2>3. CASE ~(spTree' = spTree /\ spRaced' = spRaced)
    <3>1. spTree = {"partition"} /\ spTree' = {} /\ spRaced' = spRaced \cup Sp!InCreate
      BY <1>6, <2>3 DEF Sp!SweepWorkspace
    <3>2. InTree(spTree', spFiles')
      BY <1>1, <2>1, <3>1 DEF InTree
    <3> QED  BY <1>1, <2>1, <3>1, <3>2, SpillSweeps
  <2> QED  BY <2>2, <2>3
<1>7. CASE Sp!SweepCancelled
  <2>1. /\ spFiles' = spFiles /\ spLayout' = spLayout /\ spStore' = spStore /\ spCall' = spCall /\ spTree' = spTree /\ spRaced' = spRaced
        /\ DOMAIN spSweeper' = DOMAIN spSweeper /\ spSweeper["own"].pc \in {"start", "files"}
    BY <1>1, <1>7 DEF Sp!SweepCancelled
  <2> QED  BY <1>1, <2>1, SpillSweeps
<1> QED  BY <1>3, <1>4, <1>5, <1>6, <1>7

LEMMA SpillStops ==
  ASSUME SpillInv, Sp!Stop \/ Sp!StopDrained \/ Sp!StopTimeout \/ Sp!StopJoined
  PROVE  SpillInv'
<1>1. /\ spStore \in [running : BOOLEAN, open : Nat, stop : {"no", "draining", "cancelled", "stopped"}, late : BOOLEAN]
      /\ Counted(spCall, spStore)
  BY DEF SpillInv, SpillTyped
<1>2. /\ spTree' = spTree /\ spFiles' = spFiles /\ spLayout' = spLayout /\ spCall' = spCall /\ spSweeper' = spSweeper /\ spRaced' = spRaced
  BY DEF Sp!Stop, Sp!StopDrained, Sp!StopTimeout, Sp!StopJoined
<1>3. spStore'.open = spStore.open
      /\ spStore' \in [running : BOOLEAN, open : Nat, stop : {"no", "draining", "cancelled", "stopped"}, late : BOOLEAN]
  BY <1>1, Zenon DEF Sp!Stop, Sp!StopDrained, Sp!StopTimeout, Sp!StopJoined
<1>4. spStore.open = 0 => \A k \in SpillCalls : spCall[k].pc \notin Admitted
  <2> DEFINE busy == {k \in SpillCalls : spCall[k].pc \in Admitted}
  <2>1. IsFiniteSet(busy) /\ spStore.open = Cardinality(busy)
    BY <1>1, SpillAssumption, FS_Subset DEF Counted
  <2>2. spStore.open = 0 => busy = {}
    <3> HIDE DEF busy
    <3> QED  BY <2>1, FS_EmptySet, Zenon
  <2> QED  BY <2>2
<1>5. Counted(spCall', spStore')
  <2>1. CASE Sp!Stop
    BY <1>1, <1>2, <2>1 DEF Sp!Stop, Counted
  <2>2. CASE Sp!StopDrained
    BY <1>1, <1>2, <1>4, <2>2 DEF Sp!StopDrained, Sp!Drained, Counted
  <2>3. CASE Sp!StopTimeout
    BY <1>1, <1>2, <2>3 DEF Sp!StopTimeout, Counted
  <2>4. CASE Sp!StopJoined
    BY <1>1, <1>2, <2>4 DEF Sp!StopJoined, Counted
  <2> QED  BY <2>1, <2>2, <2>3, <2>4
<1>6. spStore'.stop = "stopped" => spSweeper'["own"].pc = "done"
  BY <1>1, <1>2, Zenon DEF Sp!Stop, Sp!StopDrained, Sp!StopTimeout, Sp!StopJoined, Sp!Own
<1> QED  BY <1>2, <1>3, <1>5, <1>6 DEF SpillInv, SpillTyped

LEMMA SpillStep == SpillInv /\ [Sp!Next]_(Sp!vars) => SpillInv'
<1> SUFFICES ASSUME SpillInv, [Sp!Next]_(Sp!vars) PROVE SpillInv'
  OBVIOUS
<1>1. CASE UNCHANGED Sp!vars
  BY <1>1 DEF Sp!vars, SpillInv, SpillTyped
<1>2. CASE Sp!Next
  BY <1>2, SpillCreates, SpillWrites, SpillSweep, SpillStops DEF Sp!Next
<1> QED  BY <1>1, <1>2

LEMMA SpillInFocus == ServicesInit /\ focus = "spill" => Sp!Init
BY DEF ServicesInit, ServiceInit

LEMMA SpillOnly ==
  ASSUME [ServicesNext]_<<focus, vars, slots>>, focus = "spill" \/ focus' = "spill"
  PROVE  focus = "spill" /\ [Sp!Next]_(Sp!vars)
<1>1. CASE UNCHANGED <<focus, vars, slots>>
  BY <1>1 DEF slots, Sp!vars
<1>2. CASE focus = "log" /\ Next /\ UNCHANGED <<focus, slots>>
  BY <1>2
<1>3. CASE ServiceNext /\ UNCHANGED <<focus, vars>>
  BY <1>3 DEF ServiceNext
<1> QED  BY <1>1, <1>2, <1>3 DEF ServicesNext

ArtifactsKept == focus = "spill" => SpillInv

\* A locator names a file of a directory that exists whatever sweeps run, only
\* another process's prune makes a create fail, and the cleanup returns nil
\* with no artifact open and no sweep of this process running (store.go,
\* sweep.go).
THEOREM SpillAlwaysKept == ServicesSpec => []SpillKept
<1>1. ServicesInit => ArtifactsKept
  BY SpillInFocus, SpillInit DEF ArtifactsKept
<1>2. ArtifactsKept /\ [ServicesNext]_<<focus, vars, slots>> => ArtifactsKept'
  BY SpillOnly, SpillStep DEF ArtifactsKept
<1>3. ArtifactsKept => SpillKept
  <2> SUFFICES ASSUME SpillInv PROVE Sp!SpillKept
    BY DEF ArtifactsKept, SpillKept
  <2>1. \A k \in SpillCalls : spCall[k].pc \in SpillPcs /\ SpillOf(k, spCall[k].pc, spTree, spFiles, spLayout, spRaced)
    BY SpillFacts
  <2>2. spStore.stop = "stopped" /\ ~spStore.late => \A k \in SpillCalls : spCall[k].pc \notin Admitted
    BY DEF SpillInv, Counted
  <2>3. spFiles # {} => spTree = {"partition", "session"}
    BY Zenon DEF SpillInv, SpillTyped, InTree
  <2>4. spStore.stop = "stopped" => spSweeper["own"].pc = "done"
    BY DEF SpillInv
  <2> QED  BY <2>1, <2>2, <2>3, <2>4 DEF Sp!SpillKept, Sp!Own, SpillOf, SpillPcs
<1> QED  BY <1>1, <1>2, <1>3, PTL DEF ServicesSpec
-----------------------------------------------------------------------------
(* Settings: a document is committed, followed and withdrawn.              *)

\* The variables of Settings, under their names there.
stFile == x1
stLock == x2
stHash == x3
stService == x4
stWriteMu == x5
stPoll == x6
stUpd == x7
stCommits == x8
stProv == x9
stDone == x10
stOverlap == x11
stLeft == x12

USE DEF stFile, stLock, stHash, stService, stWriteMu, stPoll, stUpd, stCommits, stProv, stDone, stOverlap, stLeft

Documents == [kind : {"document"}, edit : Int, upd : Nat]
Readable == Documents \cup {St!Absent}
Committers == Updaters \cup {"poller"}

Unwritten == {"begin", "mutated", "locking", "locked"}
Holding == {"mutated", "locking", "locked", "written", "persisted", "notifying"}
UpdatePcs == {"idle", "begin", "mutated", "locking", "locked", "written", "persisted", "notifying"}

Hubs == [stage : {"new", "started", "mounted", "unmounted", "stopped"}, document : Documents, revision : Nat]
Polls == [pc : {"off", "idle", "read", "changed", "publish"}, seen : Readable]
Updates == [pc : UpdatePcs, n : Nat, expected : Nat, doc : Documents, cut : BOOLEAN]
Rounds == [doc : Documents, todo : SUBSET Providers, now : Providers \cup {"nobody"}]
Followers == [stage : {"off", "starting", "watching", "disposing", "stopped"}, catalog : Documents \cup {St!NoDoc},
              calls : Int, quiet : BOOLEAN]

Bounds == [edits : Int, updates : 0..MaxUpdates, faults : Int]

SettingsTyped ==
  /\ stFile \in Readable \cup {St!Bad} /\ stLock \in Updaters \cup {"free", "other"} /\ stHash \in Readable
  /\ stService \in Hubs /\ stWriteMu \in Updaters \cup {"nobody"} /\ stPoll \in Polls
  /\ stUpd \in [Updaters -> Updates] /\ stCommits \in [Committers -> Rounds] /\ stProv \in [Providers -> Followers]
  /\ stOverlap \in BOOLEAN /\ stLeft \in Bounds

\* A document contains no update that failed or that is not written yet.
Written(d, updates, failed, used) ==
  /\ d.upd \notin failed /\ d.upd <= used
  /\ \A u \in Updaters : updates[u].pc \in Unwritten => updates[u].n # d.upd

WrittenAll(content, remembered, hub, seen, rounds, followers, updates, failed, used) ==
  /\ Written(content, updates, failed, used) /\ Written(remembered, updates, failed, used)
  /\ Written(hub.document, updates, failed, used) /\ Written(seen, updates, failed, used)
  /\ \A c \in Committers : Written(rounds[c].doc, updates, failed, used)
  /\ \A p \in Providers : Written(followers[p].catalog, updates, failed, used)

\* Updates under way have numbers of their own, and none of them failed.
NumberedOf(updates, failed, used) ==
  /\ failed \subseteq 1..used
  /\ \A u \in Updaters :
       /\ updates[u].pc # "idle" => updates[u].n \in 1..used /\ updates[u].n \notin failed
       /\ updates[u].pc \in Holding \ {"notifying"} => updates[u].doc.upd = updates[u].n
       /\ \A v \in Updaters \ {u} : updates[u].pc # "idle" /\ updates[v].pc # "idle" => updates[u].n # updates[v].n

\* The callbacks of a provider that run or are to run.
PendingOf(rounds, p) == {c \in Committers : rounds[c].now = p \/ p \in rounds[c].todo}

CountedOf(rounds, followers) ==
  /\ \A c \in Committers : /\ rounds[c].now \notin rounds[c].todo
                           /\ rounds[c].todo = {} /\ rounds[c].now = "nobody" => rounds[c] = St!Quiet
  /\ \A p \in Providers : /\ followers[p].calls = Cardinality(PendingOf(rounds, p))
                          /\ followers[p].quiet => followers[p].stage = "stopped" /\ PendingOf(rounds, p) = {}
                          /\ followers[p].stage = "stopped" => followers[p].catalog = St!NoDoc

\* What the service's stage, the locks and the goroutines say of each other.
HeldOf(hub, mutex, held, round, updates, rounds, followers) ==
  /\ hub.stage \in {"new", "started"} =>
       /\ round.pc = "off" /\ \A c \in Committers : rounds[c] = St!Quiet
       /\ \A p \in Providers : followers[p].stage = "off"
       /\ \A u \in Updaters : updates[u].pc \in {"idle", "begin", "mutated"}
  /\ round.pc \in {"read", "changed", "publish"} => rounds["poller"] = St!Quiet
  /\ \A u \in Updaters : /\ updates[u].pc # "notifying" => rounds[u] = St!Quiet
                         /\ updates[u].pc \in Holding => mutex = u
                         /\ held = u <=> updates[u].pc \in {"locked", "written"}

\* Without overlap the document is what was remembered, or is about to be; and
\* a provider has it, or a callback of the only commit brings it.
FollowedOf(overlapped, hub, remembered, round, updates, rounds, followers) ==
  ~overlapped /\ hub.stage = "mounted" =>
    /\ (\A u \in Updaters : updates[u].pc # "persisted") =>
         IF round.pc = "publish" THEN remembered = round.seen ELSE hub.document = St!Resolve(remembered)
    /\ \A u \in Updaters : updates[u].pc = "persisted" /\ round.pc # "publish" => remembered = updates[u].doc
    /\ \A c \in Committers : rounds[c] # St!Quiet => rounds[c].doc = hub.document
    /\ \A p \in Providers : followers[p].stage \in {"starting", "watching"} =>
         followers[p].catalog = hub.document \/ \E c \in Committers : rounds[c].now = p \/ p \in rounds[c].todo

SettingsInv ==
  /\ SettingsTyped
  /\ WrittenAll(stFile, stHash, stService, stPoll.seen, stCommits, stProv, stUpd, stDone, MaxUpdates - stLeft.updates)
  /\ NumberedOf(stUpd, stDone, MaxUpdates - stLeft.updates)
  /\ CountedOf(stCommits, stProv)
  /\ HeldOf(stService, stWriteMu, stLock, stPoll, stUpd, stCommits, stProv)
  /\ FollowedOf(stOverlap, stService, stHash, stPoll, stUpd, stCommits, stProv)

LEMMA SettingsNames ==
  /\ St!Absent = [kind |-> "absent", edit |-> 0, upd |-> 0] /\ St!Bad = [kind |-> "bad", edit |-> 0, upd |-> 0]
  /\ St!NoDoc = [kind |-> "none", edit |-> 0, upd |-> 0] /\ St!Defaults \in Documents
  /\ St!Defaults = [kind |-> "document", edit |-> 0, upd |-> 0]
  /\ St!Quiet = [doc |-> St!Defaults, todo |-> {}, now |-> "nobody"] /\ St!Quiet \in Rounds
  /\ St!Absent \notin Documents /\ St!Bad \notin Readable /\ St!NoDoc \notin Documents
BY DEF St!Absent, St!Bad, St!NoDoc, St!Defaults, St!Doc, St!Quiet, St!Nobody, Documents, Readable, Rounds

LEMMA SettingsInit == St!Init => SettingsInv
<1> SUFFICES ASSUME St!Init PROVE SettingsInv
  OBVIOUS
<1>1. /\ stFile \in Readable /\ stLock = "free" /\ stHash = St!Absent
      /\ stService = [stage |-> "new", document |-> St!Defaults, revision |-> 0] /\ stWriteMu = "nobody"
      /\ stPoll = [pc |-> "off", seen |-> St!Absent]
      /\ stUpd = [u \in Updaters |-> [pc |-> "idle", n |-> 0, expected |-> 0, doc |-> St!Defaults, cut |-> FALSE]]
      /\ stCommits = [c \in Committers |-> St!Quiet]
      /\ stProv = [p \in Providers |-> [stage |-> "off", catalog |-> St!NoDoc, calls |-> 0, quiet |-> FALSE]]
      /\ stDone = {} /\ stOverlap = FALSE /\ stLeft.updates = MaxUpdates
      /\ stFile.upd = 0
  BY SettingsNames DEF St!Init, St!Nobody, St!Poller, Readable, Documents, Committers, St!Doc
<1>2. stLeft \in Bounds
  BY SettingsAssumption, LogAssumption DEF St!Init, Bounds
<1>3. SettingsTyped
  <2>1. stService \in Hubs /\ stPoll \in Polls
    BY <1>1, SettingsNames DEF Hubs, Polls, Readable
  <2>2. stUpd \in [Updaters -> Updates]
    BY <1>1, SettingsNames DEF Updates, UpdatePcs
  <2>3. stCommits \in [Committers -> Rounds]
    BY <1>1, SettingsNames
  <2>4. stProv \in [Providers -> Followers]
    BY <1>1, SettingsNames DEF Followers
  <2> QED  BY <1>1, <1>2, <2>1, <2>2, <2>3, <2>4, Zenon DEF SettingsTyped, Readable
<1>4. MaxUpdates - stLeft.updates = 0
  BY <1>1, SettingsAssumption
<1>5. /\ St!Absent.upd = 0 /\ St!Defaults.upd = 0 /\ St!NoDoc.upd = 0 /\ St!Quiet.doc.upd = 0
      /\ St!Quiet.todo = {} /\ St!Quiet.now = "nobody"
  BY SettingsNames
<1>6. \A d : d.upd = 0 => Written(d, stUpd, stDone, 0)
  BY <1>1 DEF Written, Unwritten
<1>7. WrittenAll(stFile, stHash, stService, stPoll.seen, stCommits, stProv, stUpd, stDone, 0)
  BY <1>1, <1>5, <1>6, Zenon DEF WrittenAll
<1>8. NumberedOf(stUpd, stDone, 0)
  BY <1>1 DEF NumberedOf, Holding
<1>9. CountedOf(stCommits, stProv)
  <2>1. \A p \in Providers : PendingOf(stCommits, p) = {}
    BY <1>1, <1>5, SettingsAssumption DEF PendingOf
  <2> QED  BY <1>1, <1>5, <2>1, FS_EmptySet, Zenon DEF CountedOf
<1>10. HeldOf(stService, stWriteMu, stLock, stPoll, stUpd, stCommits, stProv)
  <2>1. \A u \in Updaters : u \in Committers /\ u # "free"
    BY SettingsAssumption DEF Committers
  <2> QED  BY <1>1, <2>1 DEF HeldOf, Holding, Committers
<1>11. FollowedOf(stOverlap, stService, stHash, stPoll, stUpd, stCommits, stProv)
  BY <1>1 DEF FollowedOf
<1> QED  BY <1>3, <1>4, <1>7, <1>8, <1>9, <1>10, <1>11 DEF SettingsInv

\* The update numbers given out so far.
LEMMA SettingsUsed ==
  ASSUME SettingsInv
  PROVE  /\ MaxUpdates - stLeft.updates \in Nat
         /\ stLeft.updates \in Int
BY SettingsAssumption DEF SettingsInv, SettingsTyped, Bounds

\* The service's lifecycle.
LEMMA SettingsStages ==
  ASSUME SettingsInv, St!Start \/ St!Mount \/ St!Unmount \/ St!Stop
  PROVE  SettingsInv'
<1>1. PICK o \in Hubs, r \in Polls : o = stService /\ r = stPoll
  BY DEF SettingsInv, SettingsTyped
<1>2. /\ stFile' = stFile /\ stLock' = stLock /\ stWriteMu' = stWriteMu /\ stUpd' = stUpd /\ stCommits' = stCommits
      /\ stProv' = stProv /\ stDone' = stDone /\ stOverlap' = stOverlap /\ stLeft' = stLeft
  BY DEF St!Start, St!Mount, St!Unmount, St!Stop
<1>3. PICK used \in Nat : used = MaxUpdates - stLeft.updates
  BY SettingsUsed
<1>4. /\ WrittenAll(stFile, stHash, o, r.seen, stCommits, stProv, stUpd, stDone, used)
      /\ HeldOf(o, stWriteMu, stLock, r, stUpd, stCommits, stProv)
      /\ FollowedOf(stOverlap, o, stHash, r, stUpd, stCommits, stProv)
  BY <1>1, <1>3 DEF SettingsInv
<1>5. ASSUME NEW hub \in Hubs, NEW round \in Polls, stService' = hub, stPoll' = round, stHash' \in Readable,
             WrittenAll(stFile, stHash', hub, round.seen, stCommits, stProv, stUpd, stDone, used),
             HeldOf(hub, stWriteMu, stLock, round, stUpd, stCommits, stProv),
             FollowedOf(stOverlap, hub, stHash', round, stUpd, stCommits, stProv)
      PROVE  SettingsInv'
  BY <1>2, <1>3, <1>5 DEF SettingsInv, SettingsTyped
<1>6. CASE St!Start
  <2> DEFINE q == [o EXCEPT !.stage = "started"]
  <2>1. stService' = q /\ stPoll' = r /\ stHash' = stHash /\ o.stage = "new"
    BY <1>1, <1>6 DEF St!Start
  <2>2. q \in Hubs /\ q.stage = "started" /\ q.document = o.document
    BY DEF Hubs
  <2> HIDE DEF q
  <2>3. WrittenAll(stFile, stHash, q, r.seen, stCommits, stProv, stUpd, stDone, used)
    BY <1>4, <2>2 DEF WrittenAll
  <2>4. HeldOf(q, stWriteMu, stLock, r, stUpd, stCommits, stProv)
    BY <1>4, <2>1, <2>2 DEF HeldOf
  <2>5. FollowedOf(stOverlap, q, stHash, r, stUpd, stCommits, stProv)
    BY <2>2 DEF FollowedOf
  <2> QED  BY <1>1, <1>5, <2>1, <2>2, <2>3, <2>4, <2>5 DEF SettingsInv, SettingsTyped
<1>7. CASE St!Mount
  <2> DEFINE q == [stage |-> "mounted", document |-> St!Resolve(stFile), revision |-> 1]
             t == [pc |-> "idle", seen |-> St!Absent]
  <2>1. stService' = q /\ stPoll' = t /\ stHash' = stFile /\ o.stage = "started" /\ stFile \in Readable
    BY <1>1, <1>7 DEF St!Mount, SettingsInv, SettingsTyped
  <2>2. St!Resolve(stFile) \in Documents /\ Written(St!Resolve(stFile), stUpd, stDone, used) /\ Written(St!Absent, stUpd, stDone, used)
    <3>1. Written(stFile, stUpd, stDone, used)
      BY <1>4 DEF WrittenAll
    <3>2. \A u \in Updaters : stUpd[u].pc \in Unwritten => stUpd[u].n # 0
      BY <1>3 DEF SettingsInv, NumberedOf, Unwritten
    <3>3. 0 \notin stDone
      BY <1>3 DEF SettingsInv, NumberedOf
    <3>4. Written(St!Absent, stUpd, stDone, used) /\ Written(St!Defaults, stUpd, stDone, used)
      BY <3>2, <3>3, SettingsNames DEF Written
    <3> QED  BY <2>1, <3>1, <3>4, SettingsNames DEF St!Resolve, Readable
  <2>3. q \in Hubs /\ q.stage = "mounted" /\ q.document = St!Resolve(stFile) /\ t \in Polls /\ t.pc = "idle" /\ t.seen = St!Absent
    BY <2>2 DEF Hubs, Polls, Readable
  <2> HIDE DEF q, t
  <2>4. WrittenAll(stFile, stFile, q, t.seen, stCommits, stProv, stUpd, stDone, used)
    BY <1>4, <2>2, <2>3 DEF WrittenAll
  <2>5. HeldOf(q, stWriteMu, stLock, t, stUpd, stCommits, stProv)
    BY <1>4, <2>3 DEF HeldOf
  <2>6. FollowedOf(stOverlap, q, stFile, t, stUpd, stCommits, stProv)
    BY <1>4, <2>1, <2>3 DEF FollowedOf, HeldOf
  <2> QED  BY <1>5, <2>1, <2>3, <2>4, <2>5, <2>6
<1>8. CASE St!Unmount
  <2> DEFINE q == [o EXCEPT !.stage = "unmounted"]
             t == [r EXCEPT !.pc = "off"]
  <2>1. stService' = q /\ stPoll' = t /\ stHash' = stHash /\ o.stage = "mounted"
    BY <1>1, <1>8 DEF St!Unmount
  <2>2. q \in Hubs /\ q.stage = "unmounted" /\ q.document = o.document /\ t \in Polls /\ t.pc = "off" /\ t.seen = r.seen
    BY DEF Hubs, Polls
  <2> HIDE DEF q, t
  <2>3. WrittenAll(stFile, stHash, q, t.seen, stCommits, stProv, stUpd, stDone, used)
    BY <1>4, <2>2 DEF WrittenAll
  <2>4. HeldOf(q, stWriteMu, stLock, t, stUpd, stCommits, stProv)
    BY <1>4, <2>1, <2>2 DEF HeldOf
  <2>5. FollowedOf(stOverlap, q, stHash, t, stUpd, stCommits, stProv)
    BY <2>2 DEF FollowedOf
  <2> QED  BY <1>5, <2>1, <2>2, <2>3, <2>4, <2>5 DEF SettingsInv, SettingsTyped
<1>9. CASE St!Stop
  <2> DEFINE q == [o EXCEPT !.stage = "stopped"]
  <2>1. stService' = q /\ stPoll' = r /\ stHash' = stHash /\ o.stage = "unmounted"
    BY <1>1, <1>9 DEF St!Stop
  <2>2. q \in Hubs /\ q.stage = "stopped" /\ q.document = o.document
    BY DEF Hubs
  <2> HIDE DEF q
  <2>3. WrittenAll(stFile, stHash, q, r.seen, stCommits, stProv, stUpd, stDone, used)
    BY <1>4, <2>2 DEF WrittenAll
  <2>4. HeldOf(q, stWriteMu, stLock, r, stUpd, stCommits, stProv)
    BY <1>4, <2>1, <2>2 DEF HeldOf
  <2>5. FollowedOf(stOverlap, q, stHash, r, stUpd, stCommits, stProv)
    BY <2>2 DEF FollowedOf
  <2> QED  BY <1>1, <1>5, <2>1, <2>2, <2>3, <2>4, <2>5 DEF SettingsInv, SettingsTyped
<1> QED  BY <1>6, <1>7, <1>8, <1>9

\* The names that several proofs below use.
LEMMA SettingsFacts ==
  ASSUME SettingsInv
  PROVE  /\ stFile \in Readable \cup {St!Bad} /\ stLock \in Updaters \cup {"free", "other"} /\ stHash \in Readable
         /\ stService \in Hubs /\ stWriteMu \in Updaters \cup {"nobody"} /\ stPoll \in Polls
         /\ stUpd \in [Updaters -> Updates] /\ stCommits \in [Committers -> Rounds] /\ stProv \in [Providers -> Followers]
         /\ stOverlap \in BOOLEAN /\ stLeft \in Bounds
         /\ CountedOf(stCommits, stProv)
         /\ HeldOf(stService, stWriteMu, stLock, stPoll, stUpd, stCommits, stProv)
         /\ FollowedOf(stOverlap, stService, stHash, stPoll, stUpd, stCommits, stProv)
         /\ \A p : IsFiniteSet(PendingOf(stCommits, p))
         /\ "nobody" \notin Providers /\ "poller" \in Committers /\ Updaters \subseteq Committers /\ "poller" \notin Updaters
<1>1. IsFiniteSet(Committers)
  BY SettingsAssumption, FS_AddElement DEF Committers
<1>2. \A p : IsFiniteSet(PendingOf(stCommits, p))
  BY <1>1, FS_Subset DEF PendingOf
<1> QED  BY <1>2, SettingsAssumption DEF SettingsInv, SettingsTyped, Committers

LEMMA SettingsNotify ==
  ASSUME SettingsInv, NEW c \in Committers, NEW p \in Providers, St!Notify(c, p)
  PROVE  SettingsInv'
<1>1. PICK g \in Rounds : g = stCommits[c]
  BY SettingsFacts
<1> DEFINE q == [g EXCEPT !.now = p, !.todo = g.todo \ {p}]
<1>2. /\ p \in g.todo /\ g.now = "nobody" /\ stCommits' = [stCommits EXCEPT ![c] = q]
      /\ stFile' = stFile /\ stLock' = stLock /\ stHash' = stHash /\ stService' = stService /\ stWriteMu' = stWriteMu
      /\ stPoll' = stPoll /\ stUpd' = stUpd /\ stProv' = stProv /\ stDone' = stDone /\ stOverlap' = stOverlap /\ stLeft' = stLeft
  BY <1>1, Zenon DEF St!Notify, St!Nobody
<1>3. q \in Rounds /\ q.now = p /\ q.todo = g.todo \ {p} /\ q.doc = g.doc
  BY Zenon DEF Rounds
<1> HIDE DEF q
<1>4. /\ stCommits' \in [Committers -> Rounds] /\ stCommits'[c] = q
      /\ \A d \in Committers \ {c} : stCommits'[d] = stCommits[d]
  BY <1>2, <1>3, SettingsFacts
<1>5. g # St!Quiet /\ q # St!Quiet
  BY <1>2, <1>3, SettingsNames, SettingsFacts
<1>6. \A r \in Providers : PendingOf(stCommits', r) = PendingOf(stCommits, r)
  BY <1>1, <1>2, <1>3, <1>4, SettingsFacts DEF PendingOf
<1>7. CountedOf(stCommits', stProv)
  <2>1. CountedOf(stCommits, stProv)
    BY SettingsFacts
  <2>2. \A d \in Committers : /\ stCommits'[d].now \notin stCommits'[d].todo
                              /\ stCommits'[d].todo = {} /\ stCommits'[d].now = "nobody" => stCommits'[d] = St!Quiet
    BY <1>3, <1>4, <2>1, SettingsFacts DEF CountedOf
  <2> QED  BY <1>6, <2>1, <2>2 DEF CountedOf
<1>8. HeldOf(stService, stWriteMu, stLock, stPoll, stUpd, stCommits', stProv)
  BY <1>1, <1>4, <1>5, SettingsFacts DEF HeldOf
<1>9. FollowedOf(stOverlap, stService, stHash, stPoll, stUpd, stCommits', stProv)
  <2>1. \A r \in Providers : (\E d \in Committers : stCommits'[d].now = r \/ r \in stCommits'[d].todo)
                             <=> (\E d \in Committers : stCommits[d].now = r \/ r \in stCommits[d].todo)
    <3>1. \A r \in Providers : PendingOf(stCommits', r) # {} <=> PendingOf(stCommits, r) # {}
      BY <1>6
    <3> QED  BY <3>1 DEF PendingOf
  <2>2. FollowedOf(stOverlap, stService, stHash, stPoll, stUpd, stCommits, stProv)
    BY SettingsFacts
  <2>3. \A d \in Committers : stCommits'[d] # St!Quiet => stCommits[d] # St!Quiet /\ stCommits'[d].doc = stCommits[d].doc
    BY <1>1, <1>3, <1>4, <1>5
  <2> QED  BY <2>1, <2>2, <2>3 DEF FollowedOf
<1>10. WrittenAll(stFile, stHash, stService, stPoll.seen, stCommits', stProv, stUpd, stDone, MaxUpdates - stLeft.updates)
  <2>1. \A d \in Committers : stCommits'[d].doc = stCommits[d].doc
    BY <1>1, <1>3, <1>4
  <2> QED  BY <2>1 DEF SettingsInv, WrittenAll
<1> QED  BY <1>2, <1>4, <1>7, <1>8, <1>9, <1>10 DEF SettingsInv, SettingsTyped

LEMMA SettingsNotified ==
  ASSUME SettingsInv, NEW c \in Committers, St!Notified(c)
  PROVE  SettingsInv'
<1>1. PICK g \in Rounds : g = stCommits[c]
  BY SettingsFacts
<1>2. PICK p \in Providers : p = g.now
  BY <1>1 DEF St!Notified, St!Nobody, Rounds
<1>3. PICK f \in Followers : f = stProv[p]
  BY SettingsFacts
<1> DEFINE q == IF g.todo = {} THEN St!Quiet ELSE [g EXCEPT !.now = "nobody"]
           installed == IF f.stage # "stopped" THEN g.doc ELSE f.catalog
           h == [f EXCEPT !.catalog = installed, !.calls = f.calls - 1]
<1>4. /\ stCommits' = [stCommits EXCEPT ![c] = q] /\ stProv' = [stProv EXCEPT ![p] = h]
      /\ stFile' = stFile /\ stLock' = stLock /\ stHash' = stHash /\ stService' = stService /\ stWriteMu' = stWriteMu
      /\ stPoll' = stPoll /\ stUpd' = stUpd /\ stDone' = stDone /\ stOverlap' = stOverlap /\ stLeft' = stLeft
  BY <1>1, <1>2, <1>3, Zenon DEF St!Notified, St!Nobody, St!Installs
<1>5. /\ q \in Rounds /\ q.now = "nobody" /\ q.todo = g.todo /\ (g.todo = {} => q = St!Quiet)
      /\ q = St!Quiet \/ q.doc = g.doc
  <2>1. CASE g.todo = {}
    BY <2>1, SettingsNames
  <2>2. CASE g.todo # {}
    BY <2>2 DEF Rounds
  <2> QED  BY <2>1, <2>2
<1> HIDE DEF q
<1>6. /\ h \in Followers /\ h.stage = f.stage /\ h.quiet = f.quiet /\ h.calls = f.calls - 1
      /\ h.catalog = IF f.stage # "stopped" THEN g.doc ELSE f.catalog
  <2>1. installed \in Documents \cup {St!NoDoc} /\ installed = IF f.stage # "stopped" THEN g.doc ELSE f.catalog
    BY DEF Followers, Rounds
  <2> HIDE DEF installed
  <2>2. PICK j \in Int : j = f.calls - 1
    BY DEF Followers
  <2>3. h = [f EXCEPT !.catalog = installed, !.calls = j]
    BY <2>2
  <2> HIDE DEF h
  <2>4. h \in Followers /\ h.stage = f.stage /\ h.calls = j /\ h.catalog = installed
    BY <2>1, <2>3, Zenon DEF Followers
  <2>5. h.quiet = f.quiet
    BY <2>1, <2>3 DEF Followers
  <2> QED  BY <2>1, <2>2, <2>4, <2>5
<1> HIDE DEF h, installed
<1>7. /\ stCommits' \in [Committers -> Rounds] /\ stCommits'[c] = q
      /\ \A d \in Committers \ {c} : stCommits'[d] = stCommits[d]
      /\ stProv' \in [Providers -> Followers] /\ stProv'[p] = h
      /\ \A r \in Providers \ {p} : stProv'[r] = stProv[r]
  BY <1>4, <1>5, <1>6, SettingsFacts
<1>8. g # St!Quiet /\ p # "nobody" /\ p \notin g.todo
  BY <1>1, <1>2, SettingsNames, SettingsFacts DEF CountedOf
<1>9. /\ \A r \in Providers \ {p} : PendingOf(stCommits', r) = PendingOf(stCommits, r)
      /\ PendingOf(stCommits', p) = PendingOf(stCommits, p) \ {c} /\ c \in PendingOf(stCommits, p)
  BY <1>1, <1>2, <1>5, <1>7, <1>8, SettingsFacts DEF PendingOf
<1>10. CountedOf(stCommits', stProv')
  <2>1. CountedOf(stCommits, stProv)
    BY SettingsFacts
  <2>2. \A d \in Committers : /\ stCommits'[d].now \notin stCommits'[d].todo
                              /\ stCommits'[d].todo = {} /\ stCommits'[d].now = "nobody" => stCommits'[d] = St!Quiet
    <3>1. "nobody" \notin g.todo
      BY SettingsFacts DEF Rounds
    <3> QED  BY <1>5, <1>7, <2>1, <3>1 DEF CountedOf
  <2>3. Cardinality(PendingOf(stCommits', p)) = f.calls - 1
    <3>1. IsFiniteSet(PendingOf(stCommits, p)) /\ Cardinality(PendingOf(stCommits, p)) = f.calls
      BY <1>3, <2>1, SettingsFacts DEF CountedOf
    <3> QED  BY <1>9, <3>1, FS_RemoveElement, ZenonT(60)
  <2>4. ~f.quiet /\ (f.stage = "stopped" => f.catalog = St!NoDoc)
    BY <1>3, <1>9, <2>1 DEF CountedOf
  <2>5. \A r \in Providers : /\ stProv'[r].calls = Cardinality(PendingOf(stCommits', r))
                             /\ stProv'[r].quiet => stProv'[r].stage = "stopped" /\ PendingOf(stCommits', r) = {}
                             /\ stProv'[r].stage = "stopped" => stProv'[r].catalog = St!NoDoc
    <3> SUFFICES ASSUME NEW r \in Providers
                 PROVE  /\ stProv'[r].calls = Cardinality(PendingOf(stCommits', r))
                        /\ stProv'[r].quiet => stProv'[r].stage = "stopped" /\ PendingOf(stCommits', r) = {}
                        /\ stProv'[r].stage = "stopped" => stProv'[r].catalog = St!NoDoc
      OBVIOUS
    <3>1. CASE r = p
      BY <1>6, <1>7, <2>3, <2>4, <3>1
    <3>2. CASE r # p
      <4>1. stProv'[r] = stProv[r] /\ PendingOf(stCommits', r) = PendingOf(stCommits, r)
        BY <1>7, <1>9, <3>2
      <4> QED  BY <2>1, <4>1 DEF CountedOf
    <3> QED  BY <3>1, <3>2
  <2> QED  BY <2>2, <2>5 DEF CountedOf
<1>11. HeldOf(stService, stWriteMu, stLock, stPoll, stUpd, stCommits', stProv')
  <2>1. \A r \in Providers : stProv'[r].stage = stProv[r].stage
    BY <1>3, <1>6, <1>7
  <2>2. \A d \in Committers : stCommits[d] = St!Quiet => stCommits'[d] = St!Quiet
    BY <1>1, <1>7, <1>8
  <2> QED  BY <2>1, <2>2, SettingsFacts DEF HeldOf
<1>12. FollowedOf(stOverlap, stService, stHash, stPoll, stUpd, stCommits', stProv')
  <2> SUFFICES ASSUME ~stOverlap, stService.stage = "mounted"
               PROVE  /\ \A d \in Committers : stCommits'[d] # St!Quiet => stCommits'[d].doc = stService.document
                      /\ \A r \in Providers : stProv'[r].stage \in {"starting", "watching"} =>
                           stProv'[r].catalog = stService.document \/ \E d \in Committers : stCommits'[d].now = r \/ r \in stCommits'[d].todo
    BY SettingsFacts DEF FollowedOf
  <2>1. FollowedOf(stOverlap, stService, stHash, stPoll, stUpd, stCommits, stProv)
    BY SettingsFacts
  <2>2. g.doc = stService.document
    BY <1>1, <1>8, <2>1 DEF FollowedOf
  <2>3. \A d \in Committers : stCommits'[d] # St!Quiet => stCommits'[d].doc = stService.document
    BY <1>5, <1>7, <2>1, <2>2 DEF FollowedOf
  <2>4. ASSUME NEW r \in Providers, stProv'[r].stage \in {"starting", "watching"}
        PROVE  stProv'[r].catalog = stService.document \/ \E d \in Committers : stCommits'[d].now = r \/ r \in stCommits'[d].todo
    <3>1. CASE r = p
      BY <1>6, <1>7, <2>2, <2>4, <3>1
    <3>2. CASE r # p
      <4>1. stProv'[r] = stProv[r] /\ PendingOf(stCommits', r) = PendingOf(stCommits, r)
        BY <1>7, <1>9, <3>2
      <4>2. stProv[r].catalog = stService.document \/ PendingOf(stCommits, r) # {}
        BY <2>1, <2>4, <4>1 DEF FollowedOf, PendingOf
      <4>3. PendingOf(stCommits', r) # {} => \E d \in Committers : stCommits'[d].now = r \/ r \in stCommits'[d].todo
        BY DEF PendingOf
      <4> QED  BY <4>1, <4>2, <4>3
    <3> QED  BY <3>1, <3>2
  <2> QED  BY <2>3, <2>4
<1>13. WrittenAll(stFile, stHash, stService, stPoll.seen, stCommits', stProv', stUpd, stDone, MaxUpdates - stLeft.updates)
  <2> DEFINE Fine(d) == Written(d, stUpd, stDone, MaxUpdates - stLeft.updates)
  <2>1. /\ \A d \in Committers : Fine(stCommits[d].doc)
        /\ \A r \in Providers : Fine(stProv[r].catalog)
        /\ Fine(stFile) /\ Fine(stHash) /\ Fine(stService.document) /\ Fine(stPoll.seen)
    BY DEF SettingsInv, WrittenAll
  <2>2. Fine(St!Quiet.doc)
    <3>1. /\ St!Quiet.doc.upd = 0 /\ MaxUpdates - stLeft.updates \in Nat
          /\ NumberedOf(stUpd, stDone, MaxUpdates - stLeft.updates)
      BY SettingsNames, SettingsUsed DEF SettingsInv
    <3> QED  BY <3>1 DEF Written, NumberedOf, Unwritten
  <2> HIDE DEF Fine
  <2>3. \A d \in Committers : Fine(stCommits'[d].doc)
    BY <1>1, <1>5, <1>7, <2>1, <2>2
  <2>4. \A r \in Providers : Fine(stProv'[r].catalog)
    BY <1>1, <1>3, <1>6, <1>7, <2>1
  <2> QED  BY <2>1, <2>3, <2>4 DEF WrittenAll, Fine
<1> QED  BY <1>4, <1>7, <1>10, <1>11, <1>12, <1>13 DEF SettingsInv, SettingsTyped

\* The defaults, an absent file and the missing catalog contain no update.
LEMMA SettingsBlank ==
  ASSUME SettingsInv, NEW d, d.upd = 0
  PROVE  Written(d, stUpd, stDone, MaxUpdates - stLeft.updates)
<1>1. MaxUpdates - stLeft.updates \in Nat /\ NumberedOf(stUpd, stDone, MaxUpdates - stLeft.updates)
  BY SettingsUsed DEF SettingsInv
<1> QED  BY <1>1 DEF Written, NumberedOf, Unwritten

\* One provider moves on; what it holds and what it is owed stay in step.
LEMMA FollowerMoves ==
  ASSUME SettingsInv, NEW p \in Providers, NEW f \in Followers, NEW h \in Followers, f = stProv[p],
         stProv' = [stProv EXCEPT ![p] = h],
         UNCHANGED <<stFile, stLock, stHash, stService, stWriteMu, stPoll, stUpd, stCommits, stDone, stOverlap, stLeft>>,
         h.calls = f.calls,
         h.catalog \in {f.catalog, stService.document, St!NoDoc},
         h.quiet => h.stage = "stopped" /\ PendingOf(stCommits, p) = {},
         h.stage = "stopped" => h.catalog = St!NoDoc,
         stService.stage \notin {"new", "started"},
         h.stage \in {"starting", "watching"} =>
           h.catalog = stService.document \/ (f.stage \in {"starting", "watching"} /\ h.catalog = f.catalog)
  PROVE  SettingsInv'
<1>1. /\ stFile' = stFile /\ stLock' = stLock /\ stHash' = stHash /\ stService' = stService /\ stWriteMu' = stWriteMu
      /\ stPoll' = stPoll /\ stUpd' = stUpd /\ stCommits' = stCommits /\ stDone' = stDone /\ stOverlap' = stOverlap /\ stLeft' = stLeft
  OBVIOUS
<1>2. /\ stProv' \in [Providers -> Followers] /\ stProv'[p] = h
      /\ \A r \in Providers \ {p} : stProv'[r] = stProv[r]
  BY SettingsFacts
<1>3. CountedOf(stCommits, stProv')
  <2>1. CountedOf(stCommits, stProv)
    BY SettingsFacts
  <2> QED  BY <1>2, <2>1 DEF CountedOf
<1>4. HeldOf(stService, stWriteMu, stLock, stPoll, stUpd, stCommits, stProv')
  BY SettingsFacts DEF HeldOf
<1>5. FollowedOf(stOverlap, stService, stHash, stPoll, stUpd, stCommits, stProv')
  <2>1. FollowedOf(stOverlap, stService, stHash, stPoll, stUpd, stCommits, stProv)
    BY SettingsFacts
  <2>2. ASSUME ~stOverlap, stService.stage = "mounted", NEW r \in Providers, stProv'[r].stage \in {"starting", "watching"}
        PROVE  stProv'[r].catalog = stService.document \/ \E c \in Committers : stCommits[c].now = r \/ r \in stCommits[c].todo
    <3>1. CASE r = p
      BY <1>2, <2>1, <2>2, <3>1 DEF FollowedOf
    <3>2. CASE r # p
      BY <1>2, <2>1, <2>2, <3>2 DEF FollowedOf
    <3> QED  BY <3>1, <3>2
  <2> QED  BY <2>1, <2>2 DEF FollowedOf
<1>6. WrittenAll(stFile, stHash, stService, stPoll.seen, stCommits, stProv', stUpd, stDone, MaxUpdates - stLeft.updates)
  <2> DEFINE Fine(d) == Written(d, stUpd, stDone, MaxUpdates - stLeft.updates)
  <2>1. /\ \A d \in Committers : Fine(stCommits[d].doc)
        /\ \A r \in Providers : Fine(stProv[r].catalog)
        /\ Fine(stFile) /\ Fine(stHash) /\ Fine(stService.document) /\ Fine(stPoll.seen)
    BY DEF SettingsInv, WrittenAll
  <2>2. Fine(St!NoDoc)
    BY SettingsNames, SettingsBlank
  <2> HIDE DEF Fine
  <2>3. Fine(h.catalog)
    BY <2>1, <2>2
  <2>4. \A r \in Providers : Fine(stProv'[r].catalog)
    BY <1>2, <2>1, <2>3
  <2> QED  BY <2>1, <2>4 DEF WrittenAll, Fine
<1> QED  BY <1>1, <1>2, <1>3, <1>4, <1>5, <1>6 DEF SettingsInv, SettingsTyped

LEMMA SettingsProviders ==
  ASSUME SettingsInv, NEW p \in Providers,
         \/ St!ProviderSnapshot(p) \/ St!ProviderWatch(p) \/ St!Unwatch(p)
         \/ St!Disposed(p) \/ St!DisposeTimeout(p)
  PROVE  SettingsInv'
<1>1. PICK f \in Followers : f = stProv[p]
  BY SettingsFacts
<1>2. UNCHANGED <<stFile, stLock, stHash, stService, stWriteMu, stPoll, stUpd, stCommits, stDone, stOverlap, stLeft>>
  BY DEF St!ProviderSnapshot, St!ProviderWatch, St!Unwatch, St!Disposed, St!DisposeTimeout
<1>3. /\ f.calls = Cardinality(PendingOf(stCommits, p))
      /\ f.quiet => f.stage = "stopped"
      /\ stService.stage \in {"new", "started"} => f.stage = "off"
  BY <1>1, SettingsFacts DEF CountedOf, HeldOf
<1>4. CASE St!ProviderSnapshot(p)
  <2> DEFINE h == [f EXCEPT !.stage = "starting", !.catalog = stService.document]
  <2>1. stProv' = [stProv EXCEPT ![p] = h] /\ stService.stage = "mounted" /\ f.stage = "off"
    BY <1>1, <1>4, Zenon DEF St!ProviderSnapshot
  <2>2. PICK d \in Documents : d = stService.document
    BY SettingsFacts DEF Hubs
  <2>3. h \in Followers /\ h.stage = "starting" /\ h.catalog = d /\ h.calls = f.calls
    BY <2>2, Zenon DEF Followers
  <2>4. h.quiet = f.quiet
    BY DEF Followers
  <2> HIDE DEF h
  <2> QED  BY <1>1, <1>2, <1>3, <2>1, <2>2, <2>3, <2>4, FollowerMoves, Zenon
<1>5. CASE St!ProviderWatch(p)
  <2> DEFINE h == [f EXCEPT !.stage = "watching"]
  <2>1. stProv' = [stProv EXCEPT ![p] = h] /\ f.stage = "starting"
    BY <1>1, <1>5 DEF St!ProviderWatch
  <2>2. h \in Followers /\ h.stage = "watching" /\ h.catalog = f.catalog /\ h.calls = f.calls
    BY DEF Followers
  <2>3. h.quiet = f.quiet
    BY DEF Followers
  <2> HIDE DEF h
  <2> QED  BY <1>1, <1>2, <1>3, <2>1, <2>2, <2>3, FollowerMoves, Zenon
<1>6. CASE St!Unwatch(p)
  <2> DEFINE h == [f EXCEPT !.stage = "disposing"]
  <2>1. stProv' = [stProv EXCEPT ![p] = h] /\ f.stage = "watching"
    BY <1>1, <1>6 DEF St!Unwatch
  <2>2. h \in Followers /\ h.stage = "disposing" /\ h.catalog = f.catalog /\ h.calls = f.calls
    BY DEF Followers
  <2>3. h.quiet = f.quiet
    BY DEF Followers
  <2> HIDE DEF h
  <2> QED  BY <1>1, <1>2, <1>3, <2>1, <2>2, <2>3, FollowerMoves, Zenon
<1>7. CASE St!Disposed(p)
  <2> DEFINE h == [f EXCEPT !.stage = "stopped", !.catalog = St!NoDoc, !.quiet = TRUE]
  <2>1. stProv' = [stProv EXCEPT ![p] = h] /\ f.stage = "disposing" /\ f.calls = 0
    BY <1>1, <1>7, Zenon DEF St!Disposed, St!Idle
  <2>2. h \in Followers /\ h.stage = "stopped" /\ h.catalog = St!NoDoc /\ h.calls = f.calls
    BY Zenon DEF Followers
  <2>3. PendingOf(stCommits, p) = {}
    BY <1>3, <2>1, SettingsFacts, FS_EmptySet, Zenon
  <2> HIDE DEF h
  <2> QED  BY <1>1, <1>2, <1>3, <2>1, <2>2, <2>3, FollowerMoves, Zenon
<1>8. CASE St!DisposeTimeout(p)
  <2> DEFINE h == [f EXCEPT !.stage = "stopped", !.catalog = St!NoDoc]
  <2>1. stProv' = [stProv EXCEPT ![p] = h] /\ f.stage = "disposing"
    BY <1>1, <1>8, Zenon DEF St!DisposeTimeout
  <2>2. h \in Followers /\ h.stage = "stopped" /\ h.catalog = St!NoDoc /\ h.calls = f.calls
    BY Zenon DEF Followers
  <2>3. h.quiet = f.quiet
    BY DEF Followers
  <2> HIDE DEF h
  <2> QED  BY <1>1, <1>2, <1>3, <2>1, <2>2, <2>3, FollowerMoves, Zenon
<1> QED  BY <1>4, <1>5, <1>6, <1>7, <1>8

\* An edit contains an update that the file contained, or none.
LEMMA SettingsOutside ==
  ASSUME SettingsInv,
         \/ \E content \in St!Contents : St!Edit(content)
         \/ St!OtherLocks \/ St!OtherUnlocks
  PROVE  SettingsInv'
<1>1. /\ stHash' = stHash /\ stService' = stService /\ stWriteMu' = stWriteMu
      /\ stPoll' = stPoll /\ stUpd' = stUpd /\ stCommits' = stCommits /\ stDone' = stDone /\ stOverlap' = stOverlap /\ stProv' = stProv
  BY DEF St!Edit, St!OtherLocks, St!OtherUnlocks
<1>2. CASE \E content \in St!Contents : St!Edit(content)
  <2>1. PICK content \in St!Contents : St!Edit(content)
    BY <1>2
  <2>2. stFile' = content /\ stLock' = stLock /\ stLeft' = [stLeft EXCEPT !.edits = stLeft.edits - 1]
    BY <2>1, Zenon DEF St!Edit, St!Spend
  <2>3. stLeft' \in Bounds /\ stLeft'.updates = stLeft.updates
    <3>1. PICK l \in Bounds : l = stLeft
      BY SettingsFacts DEF Bounds
    <3>2. PICK n \in Int : n = l.edits - 1
      BY DEF Bounds
    <3>3. stLeft' = [l EXCEPT !.edits = n]
      BY <2>2, <3>1, <3>2
    <3> QED  BY <3>1, <3>2, <3>3 DEF Bounds
  <2>4. /\ content \in Readable \cup {St!Bad}
        /\ content.upd = 0 \/ content.upd = stFile.upd
    <3>1. stLeft.edits \in Int /\ MaxEdits \in Nat
      BY SettingsFacts, SettingsAssumption DEF Bounds
    <3>2. stFile.upd \in Nat
      BY SettingsFacts, SettingsNames DEF Readable, Documents
    <3> QED  BY <2>1, <3>1, <3>2, SettingsNames DEF St!Contents, St!Doc, Readable, Documents
  <2>5. Written(content, stUpd, stDone, MaxUpdates - stLeft.updates)
    <3>1. CASE content.upd = 0
      BY <3>1, SettingsBlank
    <3>2. CASE content.upd = stFile.upd
      BY <3>2 DEF SettingsInv, WrittenAll, Written
    <3> QED  BY <2>4, <3>1, <3>2
  <2>6. WrittenAll(content, stHash, stService, stPoll.seen, stCommits, stProv, stUpd, stDone, MaxUpdates - stLeft.updates)
    BY <2>5 DEF SettingsInv, WrittenAll
  <2> QED  BY <1>1, <2>2, <2>3, <2>4, <2>6 DEF SettingsInv, SettingsTyped, Bounds
<1>3. CASE St!OtherLocks \/ St!OtherUnlocks
  <2>1. /\ stFile' = stFile /\ stLeft' = stLeft /\ stLock' \in {"free", "other"} /\ stLock \in {"free", "other"}
    BY <1>3 DEF St!OtherLocks, St!OtherUnlocks
  <2>2. "free" \notin Updaters /\ "other" \notin Updaters
    BY SettingsAssumption
  <2>3. HeldOf(stService, stWriteMu, stLock', stPoll, stUpd, stCommits, stProv)
    BY <2>1, <2>2, SettingsFacts DEF HeldOf
  <2> QED  BY <1>1, <2>1, <2>3 DEF SettingsInv, SettingsTyped
<1> QED  BY <1>2, <1>3

\* The poller, up to its commit.
LEMMA SettingsPoll ==
  ASSUME SettingsInv, St!PollRead \/ St!PollChanged \/ St!PollRemember
  PROVE  SettingsInv'
<1>1. PICK r \in Polls : r = stPoll
  BY SettingsFacts
<1>2. /\ stFile' = stFile /\ stLock' = stLock /\ stService' = stService /\ stWriteMu' = stWriteMu
      /\ stUpd' = stUpd /\ stCommits' = stCommits /\ stDone' = stDone /\ stOverlap' = stOverlap /\ stProv' = stProv /\ stLeft' = stLeft
  BY DEF St!PollRead, St!PollChanged, St!PollRemember
<1>3. PICK used \in Nat : used = MaxUpdates - stLeft.updates
  BY SettingsUsed
<1>4. /\ WrittenAll(stFile, stHash, stService, r.seen, stCommits, stProv, stUpd, stDone, used)
      /\ HeldOf(stService, stWriteMu, stLock, r, stUpd, stCommits, stProv)
      /\ FollowedOf(stOverlap, stService, stHash, r, stUpd, stCommits, stProv)
  BY <1>1, <1>3 DEF SettingsInv
<1>5. ASSUME NEW round \in Polls, stPoll' = round, stHash' \in {stHash, r.seen},
             round.seen \in {r.seen, stFile, St!Absent},
             r.pc # "off", round.pc # "off",
             round.pc \in {"read", "changed", "publish"} => stCommits["poller"] = St!Quiet,
             FollowedOf(stOverlap, stService, stHash', round, stUpd, stCommits, stProv)
      PROVE  SettingsInv'
  <2>1. stHash' \in Readable
    BY <1>5, SettingsFacts DEF Polls
  <2>2. Written(St!Absent, stUpd, stDone, used)
    BY <1>3, SettingsBlank, SettingsNames
  <2>3. WrittenAll(stFile, stHash', stService, round.seen, stCommits, stProv, stUpd, stDone, used)
    BY <1>4, <1>5, <2>2 DEF WrittenAll
  <2>4. HeldOf(stService, stWriteMu, stLock, round, stUpd, stCommits, stProv)
    BY <1>4, <1>5 DEF HeldOf
  <2> QED  BY <1>2, <1>3, <1>5, <2>1, <2>3, <2>4 DEF SettingsInv, SettingsTyped
<1>6. CASE St!PollRead
  <2> DEFINE t == [pc |-> "read", seen |-> stFile]
  <2>1. stPoll' = t /\ r.pc = "idle" /\ stFile # St!Bad /\ stHash' = stHash /\ St!Returned("poller")
    BY <1>1, <1>6 DEF St!PollRead, St!Poller
  <2>2. t \in Polls /\ t.pc = "read" /\ t.seen = stFile
    BY <2>1, SettingsFacts DEF Polls
  <2> HIDE DEF t
  <2>3. stCommits["poller"] = St!Quiet
    BY <2>1, SettingsFacts DEF St!Returned, St!Nobody, CountedOf
  <2>4. FollowedOf(stOverlap, stService, stHash, t, stUpd, stCommits, stProv)
    BY <1>4, <2>1, <2>2 DEF FollowedOf
  <2> QED  BY <1>5, <2>1, <2>2, <2>3, <2>4
<1>7. CASE St!PollChanged /\ r.seen = stHash
  <2> DEFINE t == [pc |-> "idle", seen |-> St!Absent]
  <2>1. stPoll' = t /\ r.pc = "read" /\ stHash' = stHash
    BY <1>1, <1>7 DEF St!PollChanged
  <2>2. t \in Polls /\ t.pc = "idle" /\ t.seen = St!Absent
    BY DEF Polls, Readable
  <2> HIDE DEF t
  <2>3. FollowedOf(stOverlap, stService, stHash, t, stUpd, stCommits, stProv)
    BY <1>4, <2>1, <2>2 DEF FollowedOf
  <2> QED  BY <1>5, <2>1, <2>2, <2>3
<1>8. CASE St!PollChanged /\ r.seen # stHash
  <2> DEFINE t == [r EXCEPT !.pc = "changed"]
  <2>1. stPoll' = t /\ r.pc = "read" /\ stHash' = stHash
    BY <1>1, <1>8 DEF St!PollChanged
  <2>2. t \in Polls /\ t.pc = "changed" /\ t.seen = r.seen
    BY DEF Polls
  <2> HIDE DEF t
  <2>3. FollowedOf(stOverlap, stService, stHash, t, stUpd, stCommits, stProv)
    BY <1>4, <2>1, <2>2 DEF FollowedOf
  <2>4. stCommits["poller"] = St!Quiet
    BY <1>4, <2>1 DEF HeldOf
  <2> QED  BY <1>5, <2>1, <2>2, <2>3, <2>4
<1>9. CASE St!PollRemember
  <2> DEFINE t == [r EXCEPT !.pc = "publish"]
  <2>1. stPoll' = t /\ r.pc = "changed" /\ stHash' = r.seen
    BY <1>1, <1>9 DEF St!PollRemember
  <2>2. t \in Polls /\ t.pc = "publish" /\ t.seen = r.seen
    BY DEF Polls
  <2> HIDE DEF t
  <2>3. FollowedOf(stOverlap, stService, r.seen, t, stUpd, stCommits, stProv)
    BY <1>4, <2>1, <2>2 DEF FollowedOf
  <2>4. stCommits["poller"] = St!Quiet
    BY <1>4, <2>1 DEF HeldOf
  <2> QED  BY <1>5, <2>1, <2>2, <2>3, <2>4
<1> QED  BY <1>6, <1>7, <1>8, <1>9

\* Nothing else publishes while Amid is false.
LEMMA SettingsAlone ==
  ASSUME SettingsInv, NEW c \in Committers, ~St!Amid(c)
  PROVE  /\ c # "poller" => stPoll.pc = "idle"
         /\ \A u \in Updaters \ {c} : stUpd[u].pc \notin {"written", "persisted"}
         /\ \A d \in Committers \ {c} : stCommits[d] = St!Quiet
         /\ \A p \in Providers : stProv[p].stage # "starting"
<1>1. DOMAIN stCommits = Committers
  BY SettingsFacts
<1> QED  BY <1>1 DEF St!Amid, St!Poller

\* What a commit changes: the document, its own round, and the count of the
\* callbacks owed to each provider that watches.
LEMMA SettingsCommit ==
  ASSUME SettingsInv, NEW c \in Committers, NEW doc \in Documents, stCommits[c] = St!Quiet, St!Commit(c, doc),
         stService.stage \notin {"new", "started"}
  PROVE  /\ stService' \in Hubs /\ stCommits' \in [Committers -> Rounds] /\ stProv' \in [Providers -> Followers]
         /\ stOverlap' \in BOOLEAN
         /\ stService'.stage = stService.stage
         /\ stService'.document \in {doc, stService.document}
         /\ \A d \in Committers \ {c} : stCommits'[d] = stCommits[d]
         /\ stCommits'[c].doc \in {doc, St!Defaults}
         /\ \A p \in Providers : stProv'[p].stage = stProv[p].stage /\ stProv'[p].catalog = stProv[p].catalog
         /\ CountedOf(stCommits', stProv')
         /\ ~stOverlap' => ~stOverlap /\ ~St!Amid(c)
         /\ stService.stage = "mounted" =>
              /\ stService'.document = doc
              /\ stCommits'[c] # St!Quiet => stCommits'[c].doc = doc
              /\ \A p \in Providers : stProv[p].stage = "watching" => p \in stCommits'[c].todo
<1> DEFINE out == stService.stage \in {"mounted", "unmounted"}
<1>1. PICK o \in Hubs : o = stService
  BY SettingsFacts
<1>2. stOverlap' = (stOverlap \/ St!Amid(c))
  BY DEF St!Commit
<1>3. stOverlap' \in BOOLEAN /\ (~stOverlap' => ~stOverlap /\ ~St!Amid(c))
  BY <1>2, Zenon
<1>4. CountedOf(stCommits, stProv) /\ St!Quiet \in Rounds /\ St!Quiet.doc = St!Defaults /\ St!Quiet.todo = {} /\ St!Quiet.now = "nobody"
  BY SettingsFacts, SettingsNames
<1>5. CASE ~out
  <2>1. stService' = stService /\ stCommits' = stCommits /\ stProv' = stProv
    BY <1>5 DEF St!Commit
  <2> QED  BY <1>3, <1>4, <1>5, <2>1, SettingsFacts
<1>6. CASE out
  <2> DEFINE watching == {p \in Providers : stProv[p].stage = "watching"}
             round == IF watching = {} THEN St!Quiet ELSE [doc |-> doc, todo |-> watching, now |-> "nobody"]
             q == [o EXCEPT !.document = doc, !.revision = o.revision + 1]
  <2>1. /\ stService' = q /\ stCommits' = [stCommits EXCEPT ![c] = round]
        /\ stProv' = [p \in Providers |-> [stProv[p] EXCEPT !.calls = stProv[p].calls + (IF p \in watching THEN 1 ELSE 0)]]
    BY <1>1, <1>6 DEF St!Commit, St!Watching, St!Nobody
  <2>2. q \in Hubs /\ q.stage = o.stage /\ q.document = doc
    <3>1. PICK n \in Nat : n = o.revision + 1
      BY DEF Hubs
    <3>2. q = [o EXCEPT !.document = doc, !.revision = n]
      BY <3>1
    <3> QED  BY <3>1, <3>2, Zenon DEF Hubs
  <2> HIDE DEF q
  <2>3. /\ round \in Rounds /\ round.todo = watching /\ round.now = "nobody"
        /\ round.doc \in {doc, St!Defaults}
        /\ round # St!Quiet => round.doc = doc
    <3>1. CASE watching = {}
      BY <1>4, <3>1
    <3>2. CASE watching # {}
      BY <3>2 DEF Rounds
    <3> QED  BY <3>1, <3>2
  <2>4. watching = {} => round = St!Quiet
    OBVIOUS
  <2> HIDE DEF round
  <2>5. /\ stCommits' \in [Committers -> Rounds] /\ stCommits'[c] = round
        /\ \A d \in Committers \ {c} : stCommits'[d] = stCommits[d]
    BY <2>1, <2>3, SettingsFacts
  <2>6. ASSUME NEW p \in Providers
        PROVE  /\ stProv'[p] \in Followers /\ stProv'[p].stage = stProv[p].stage /\ stProv'[p].catalog = stProv[p].catalog
               /\ stProv'[p].quiet = stProv[p].quiet
               /\ stProv'[p].calls = stProv[p].calls + (IF p \in watching THEN 1 ELSE 0)
    <3>1. PICK f \in Followers : f = stProv[p]
      BY SettingsFacts
    <3>2. PICK n \in Int : n = f.calls + (IF p \in watching THEN 1 ELSE 0)
      BY DEF Followers
    <3>3. stProv'[p] = [f EXCEPT !.calls = n]
      BY <2>1, <3>1, <3>2
    <3>4. PICK h : h = [f EXCEPT !.calls = n]
      BY Zenon
    <3>5. h \in Followers /\ h.stage = f.stage /\ h.catalog = f.catalog /\ h.calls = n
      BY <3>4 DEF Followers
    <3>6. h.quiet = f.quiet
      BY <3>4 DEF Followers
    <3> QED  BY <3>1, <3>2, <3>3, <3>4, <3>5, <3>6
  <2>7. stProv' \in [Providers -> Followers]
    <3>1. stProv' = [p \in Providers |-> stProv'[p]]
      BY <2>1
    <3> QED  BY <2>6, <3>1
  <2>8. ASSUME NEW p \in Providers
        PROVE  /\ stProv'[p].calls = Cardinality(PendingOf(stCommits', p))
               /\ stProv'[p].quiet => stProv'[p].stage = "stopped" /\ PendingOf(stCommits', p) = {}
               /\ stProv'[p].stage = "stopped" => stProv'[p].catalog = St!NoDoc
    <3>1. /\ IsFiniteSet(PendingOf(stCommits, p)) /\ Cardinality(PendingOf(stCommits, p)) = stProv[p].calls
          /\ stProv[p].calls \in Int
      BY <1>4, SettingsFacts DEF CountedOf, Followers
    <3>2. c \notin PendingOf(stCommits, p)
      BY <1>4, SettingsFacts DEF PendingOf
    <3>3. CASE p \in watching
      <4>1. PendingOf(stCommits', p) = PendingOf(stCommits, p) \cup {c}
        BY <2>3, <2>5, <3>3 DEF PendingOf
      <4>2. Cardinality(PendingOf(stCommits', p)) = stProv[p].calls + 1
        BY <3>1, <3>2, <4>1, FS_AddElement, ZenonT(60)
      <4>3. ~stProv[p].quiet /\ stProv[p].stage # "stopped"
        BY <1>4, <3>3 DEF CountedOf
      <4> QED  BY <2>6, <3>3, <4>2, <4>3
    <3>4. CASE p \notin watching
      <4>1. PendingOf(stCommits', p) = PendingOf(stCommits, p)
        BY <2>3, <2>5, <3>2, <3>4, SettingsFacts DEF PendingOf
      <4>2. stProv'[p].calls = stProv[p].calls
        BY <2>6, <3>1, <3>4
      <4> QED  BY <1>4, <2>6, <3>1, <4>1, <4>2 DEF CountedOf
    <3> QED  BY <3>3, <3>4
  <2>9. CountedOf(stCommits', stProv')
    <3>1. \A d \in Committers : /\ stCommits'[d].now \notin stCommits'[d].todo
                                /\ stCommits'[d].todo = {} /\ stCommits'[d].now = "nobody" => stCommits'[d] = St!Quiet
      BY <1>4, <2>3, <2>4, <2>5, SettingsFacts DEF CountedOf
    <3> QED  BY <2>8, <3>1 DEF CountedOf
  <2>10. \A p \in Providers : stProv[p].stage = "watching" => p \in stCommits'[c].todo
    BY <2>3, <2>5
  <2> QED  BY <1>1, <1>3, <2>1, <2>2, <2>3, <2>5, <2>6, <2>7, <2>9, <2>10
<1> QED  BY <1>5, <1>6

LEMMA SettingsPublish ==
  ASSUME SettingsInv, St!PollPublish
  PROVE  SettingsInv'
<1>1. PICK r \in Polls : r = stPoll
  BY SettingsFacts
<1> DEFINE t == [pc |-> "idle", seen |-> St!Absent]
           doc == St!Resolve(r.seen)
<1>2. /\ r.pc = "publish" /\ stPoll' = t /\ St!Commit("poller", doc)
      /\ stFile' = stFile /\ stLock' = stLock /\ stHash' = stHash /\ stWriteMu' = stWriteMu
      /\ stUpd' = stUpd /\ stDone' = stDone /\ stLeft' = stLeft
  BY <1>1 DEF St!PollPublish, St!Poller
<1>3. PICK used \in Nat : used = MaxUpdates - stLeft.updates
  BY SettingsUsed
<1>4. /\ WrittenAll(stFile, stHash, stService, r.seen, stCommits, stProv, stUpd, stDone, used)
      /\ HeldOf(stService, stWriteMu, stLock, r, stUpd, stCommits, stProv)
      /\ FollowedOf(stOverlap, stService, stHash, r, stUpd, stCommits, stProv)
  BY <1>1, <1>3 DEF SettingsInv
<1>5. t \in Polls /\ t.pc = "idle" /\ t.seen = St!Absent
  BY DEF Polls, Readable
<1>6. /\ stCommits["poller"] = St!Quiet /\ stService.stage \notin {"new", "started"}
  BY <1>2, <1>4 DEF HeldOf
<1>7. doc \in Documents
  BY SettingsNames DEF St!Resolve, Polls, Readable
<1>8. /\ Written(doc, stUpd, stDone, used) /\ Written(St!Absent, stUpd, stDone, used)
      /\ Written(St!Defaults, stUpd, stDone, used)
  BY <1>3, <1>4, SettingsBlank, SettingsNames DEF WrittenAll, St!Resolve
<1>9. doc = St!Resolve(r.seen)
  OBVIOUS
<1> HIDE DEF t, doc
<1>10. /\ stService' \in Hubs /\ stCommits' \in [Committers -> Rounds] /\ stProv' \in [Providers -> Followers]
       /\ stOverlap' \in BOOLEAN
       /\ stService'.stage = stService.stage
       /\ stService'.document \in {doc, stService.document}
       /\ \A d \in Committers \ {"poller"} : stCommits'[d] = stCommits[d]
       /\ stCommits'["poller"].doc \in {doc, St!Defaults}
       /\ \A p \in Providers : stProv'[p].stage = stProv[p].stage /\ stProv'[p].catalog = stProv[p].catalog
       /\ CountedOf(stCommits', stProv')
       /\ ~stOverlap' => ~stOverlap /\ ~St!Amid("poller")
       /\ stService.stage = "mounted" =>
            /\ stService'.document = doc
            /\ stCommits'["poller"] # St!Quiet => stCommits'["poller"].doc = doc
            /\ \A p \in Providers : stProv[p].stage = "watching" => p \in stCommits'["poller"].todo
  BY <1>2, <1>6, <1>7, SettingsFacts, SettingsCommit
<1>11. WrittenAll(stFile, stHash, stService', t.seen, stCommits', stProv', stUpd, stDone, used)
  <2> DEFINE Fine(d) == Written(d, stUpd, stDone, used)
  <2>1. /\ \A d \in Committers : Fine(stCommits[d].doc)
        /\ \A p \in Providers : Fine(stProv[p].catalog)
        /\ Fine(stFile) /\ Fine(stHash) /\ Fine(stService.document)
        /\ Fine(doc) /\ Fine(t.seen) /\ Fine(St!Defaults)
    BY <1>4, <1>5, <1>8 DEF WrittenAll
  <2> HIDE DEF Fine
  <2>2. Fine(stService'.document) /\ Fine(stCommits'["poller"].doc)
    BY <1>10, <2>1
  <2>3. /\ \A d \in Committers : Fine(stCommits'[d].doc)
        /\ \A p \in Providers : Fine(stProv'[p].catalog)
    BY <1>10, <2>1, <2>2
  <2> QED  BY <2>1, <2>2, <2>3 DEF WrittenAll, Fine
<1>12. HeldOf(stService', stWriteMu, stLock, t, stUpd, stCommits', stProv')
  <2>1. \A u \in Updaters : stCommits'[u] = stCommits[u]
    BY <1>10, SettingsFacts
  <2> QED  BY <1>4, <1>5, <1>6, <1>10, <2>1 DEF HeldOf
<1>13. FollowedOf(stOverlap', stService', stHash, t, stUpd, stCommits', stProv')
  <2> SUFFICES ASSUME ~stOverlap', stService'.stage = "mounted"
               PROVE  FollowedOf(stOverlap', stService', stHash, t, stUpd, stCommits', stProv')
    BY DEF FollowedOf
  <2>1. /\ \A u \in Updaters : stUpd[u].pc \notin {"written", "persisted"}
        /\ \A d \in Committers \ {"poller"} : stCommits[d] = St!Quiet
        /\ \A p \in Providers : stProv[p].stage # "starting"
    BY <1>10, SettingsAlone, SettingsFacts
  <2>2. stHash = r.seen
    BY <1>2, <1>4, <1>10, <2>1 DEF FollowedOf
  <2>3. stService'.document = St!Resolve(stHash)
    BY <1>9, <1>10, <2>2
  <2>4. \A d \in Committers : stCommits'[d] # St!Quiet => stCommits'[d].doc = stService'.document
    BY <1>10, <2>1
  <2>5. \A p \in Providers : stProv'[p].stage \in {"starting", "watching"} =>
          \E d \in Committers : stCommits'[d].now = p \/ p \in stCommits'[d].todo
    BY <1>10, <2>1, SettingsFacts
  <2> QED  BY <1>5, <2>1, <2>3, <2>4, <2>5 DEF FollowedOf
<1> QED  BY <1>2, <1>3, <1>5, <1>10, <1>11, <1>12, <1>13 DEF SettingsInv, SettingsTyped

\* How one update moves on: its number stays its own, or is a new one ...
NumberMoves(y, x, used, used1, failed, failed1) ==
  /\ used <= used1
  /\ x.pc # "idle" => (y.pc # "idle" /\ x.n = y.n) \/ (x.n = used + 1 /\ used1 = used + 1)
  /\ x.pc \in Unwritten => (y.pc \in Unwritten /\ x.n = y.n) \/ x.n > used
  /\ x.pc \in Holding \ {"notifying"} => x.doc.upd = x.n
  /\ failed1 = failed \/ (failed1 = failed \cup {y.n} /\ x.pc = "idle" /\ y.pc \in Unwritten)

\* ... and the mutex, the lock file and a round are its own while it holds them.
LockMoves(u, x, phase, round, mutex, mutex1, held, held1) ==
  /\ phase \in {"new", "started"} => x.pc \in {"idle", "begin", "mutated"}
  /\ x.pc # "notifying" => round = St!Quiet
  /\ mutex1 \in Updaters \cup {"nobody"}
  /\ mutex1 = mutex \/ mutex \in {u, "nobody"}
  /\ x.pc \in Holding => mutex1 = u
  /\ held1 \in Updaters \cup {"free", "other"}
  /\ \A v \in Updaters \ {u} : held1 = v <=> held = v
  /\ held1 = u <=> x.pc \in {"locked", "written"}

LEMMA UpdateMoves ==
  ASSUME SettingsInv, NEW u \in Updaters, NEW y \in Updates, NEW x \in Updates, y = stUpd[u],
         stUpd' = [stUpd EXCEPT ![u] = x],
         UNCHANGED <<stService, stPoll, stCommits, stProv, stOverlap>>,
         NEW used \in Nat, NEW used1 \in Nat, used = MaxUpdates - stLeft.updates, used1 = MaxUpdates - stLeft'.updates,
         stLeft' \in Bounds,
         NumberMoves(y, x, used, used1, stDone, stDone'),
         LockMoves(u, x, stService.stage, stCommits[u], stWriteMu, stWriteMu', stLock, stLock'),
         stFile' = stFile \/ (stFile' \in Readable /\ Written(stFile', stUpd', stDone', used1)),
         stHash' = stHash \/ (stHash' \in Readable /\ Written(stHash', stUpd', stDone', used1)),
         FollowedOf(stOverlap, stService, stHash', stPoll, stUpd', stCommits, stProv)
  PROVE  SettingsInv'
<1> USE DEF NumberMoves, LockMoves
<1>0. /\ stFile' \in Readable \cup {St!Bad} /\ stHash' \in Readable
      /\ stService' = stService /\ stPoll' = stPoll /\ stCommits' = stCommits /\ stProv' = stProv /\ stOverlap' = stOverlap
  BY SettingsFacts
<1>1. /\ stUpd' \in [Updaters -> Updates] /\ stUpd'[u] = x
      /\ \A v \in Updaters \ {u} : stUpd'[v] = stUpd[v]
  BY SettingsFacts
<1>2. /\ WrittenAll(stFile, stHash, stService, stPoll.seen, stCommits, stProv, stUpd, stDone, used)
      /\ NumberedOf(stUpd, stDone, used)
      /\ HeldOf(stService, stWriteMu, stLock, stPoll, stUpd, stCommits, stProv)
      /\ CountedOf(stCommits, stProv)
  BY DEF SettingsInv
<1>3. x.n \in Nat /\ y.n \in Nat
  BY DEF Updates
<1>4. \A v \in Updaters : stUpd[v].n \in Nat
  BY SettingsFacts DEF Updates
<1>5. NumberedOf(stUpd', stDone', used1)
  <2>1. stDone \subseteq 1..used /\ \A n \in 1..used : n \in 1..used1 /\ n # used + 1
    BY <1>2 DEF NumberedOf
  <2>2. y.pc # "idle" => y.n \in 1..used
    BY <1>2 DEF NumberedOf
  <2>3. stDone' \subseteq 1..used1
    BY <2>1, <2>2 DEF Unwritten
  <2>4. x.pc # "idle" => x.n \in 1..used1 /\ x.n \notin stDone'
    <3> SUFFICES ASSUME x.pc # "idle" PROVE x.n \in 1..used1 /\ x.n \notin stDone'
      OBVIOUS
    <3>1. stDone' = stDone
      OBVIOUS
    <3>2. CASE y.pc # "idle" /\ x.n = y.n
      BY <1>2, <2>1, <2>2, <3>1, <3>2 DEF NumberedOf
    <3>3. CASE x.n = used + 1 /\ used1 = used + 1
      BY <2>1, <3>1, <3>3
    <3> QED  BY <3>2, <3>3
  <2>5. ASSUME NEW v \in Updaters \ {u}, stUpd[v].pc # "idle"
        PROVE  /\ stUpd[v].n \in 1..used1 /\ stUpd[v].n \notin stDone'
               /\ x.pc # "idle" => x.n # stUpd[v].n
    <3>1. stUpd[v].n \in 1..used /\ stUpd[v].n \notin stDone
      BY <1>2, <2>5 DEF NumberedOf
    <3>2. y.pc # "idle" => y.n # stUpd[v].n
      BY <1>2, <2>5 DEF NumberedOf
    <3>3. stUpd[v].n # used + 1
      BY <2>1, <3>1
    <3> QED  BY <2>1, <3>1, <3>2, <3>3 DEF Unwritten
  <2>6. ASSUME NEW v \in Updaters
        PROVE  /\ stUpd'[v].pc # "idle" => stUpd'[v].n \in 1..used1 /\ stUpd'[v].n \notin stDone'
               /\ stUpd'[v].pc \in Holding \ {"notifying"} => stUpd'[v].doc.upd = stUpd'[v].n
               /\ \A w \in Updaters \ {v} : stUpd'[v].pc # "idle" /\ stUpd'[w].pc # "idle" => stUpd'[v].n # stUpd'[w].n
    <3>1. CASE v = u
      BY <1>1, <2>4, <2>5, <3>1
    <3>2. CASE v # u
      <4>1. \A w \in Updaters \ {v} : stUpd'[v].pc # "idle" /\ stUpd'[w].pc # "idle" => stUpd'[v].n # stUpd'[w].n
        <5> SUFFICES ASSUME NEW w \in Updaters \ {v}, stUpd'[v].pc # "idle", stUpd'[w].pc # "idle"
                     PROVE  stUpd'[v].n # stUpd'[w].n
          OBVIOUS
        <5>1. CASE w = u
          BY <1>1, <2>5, <3>2, <5>1
        <5>2. CASE w # u
          BY <1>1, <1>2, <3>2, <5>2 DEF NumberedOf
        <5> QED  BY <5>1, <5>2
      <4> QED  BY <1>1, <1>2, <2>5, <3>2, <4>1 DEF NumberedOf
    <3> QED  BY <3>1, <3>2
  <2> QED  BY <2>3, <2>6 DEF NumberedOf
<1>6. ASSUME NEW d, d.upd \in Nat, Written(d, stUpd, stDone, used)
      PROVE  Written(d, stUpd', stDone', used1)
  <2>1. \A v \in Updaters : stUpd'[v].pc \in Unwritten =>
          stUpd'[v].n \in Nat /\ ((stUpd[v].pc \in Unwritten /\ stUpd'[v].n = stUpd[v].n) \/ stUpd'[v].n > used)
    BY <1>1, <1>3, <1>4
  <2>2. \A n \in stDone' : n \in stDone \/ \E v \in Updaters : stUpd[v].pc \in Unwritten /\ stUpd[v].n = n
    OBVIOUS
  <2> QED  BY <1>6, <2>1, <2>2 DEF Written
<1>7. WrittenAll(stFile', stHash', stService, stPoll.seen, stCommits, stProv, stUpd', stDone', used1)
  <2>1. /\ stFile.upd \in Nat /\ stHash.upd \in Nat /\ stService.document.upd \in Nat /\ stPoll.seen.upd \in Nat
    BY SettingsFacts, SettingsNames DEF Readable, Documents, Hubs, Polls
  <2>2. \A c \in Committers : stCommits[c].doc.upd \in Nat
    BY SettingsFacts DEF Rounds, Documents
  <2>3. \A p \in Providers : stProv[p].catalog.upd \in Nat
    BY SettingsFacts, SettingsNames DEF Followers, Documents
  <2> DEFINE Fine(d) == Written(d, stUpd', stDone', used1)
  <2>4. Fine(stFile) /\ Fine(stHash) /\ Fine(stService.document) /\ Fine(stPoll.seen)
    BY <1>2, <1>6, <2>1, Zenon DEF WrittenAll
  <2>5. \A c \in Committers : Fine(stCommits[c].doc)
    BY <1>2, <1>6, <2>2, Zenon DEF WrittenAll
  <2>6. \A p \in Providers : Fine(stProv[p].catalog)
    BY <1>2, <1>6, <2>3, Zenon DEF WrittenAll
  <2>7. Fine(stFile') /\ Fine(stHash')
    BY <2>4
  <2> QED  BY <2>4, <2>5, <2>6, <2>7, Zenon DEF WrittenAll
<1>8. HeldOf(stService, stWriteMu', stLock', stPoll, stUpd', stCommits, stProv)
  <2>1. "nobody" \notin Updaters
    BY SettingsAssumption
  <2>2. ASSUME NEW v \in Updaters
        PROVE  /\ stUpd'[v].pc # "notifying" => stCommits[v] = St!Quiet
               /\ stUpd'[v].pc \in Holding => stWriteMu' = v
               /\ stLock' = v <=> stUpd'[v].pc \in {"locked", "written"}
    <3>1. CASE v = u
      BY <1>1, <3>1
    <3>2. CASE v # u
      BY <1>1, <1>2, <2>1, <3>2 DEF HeldOf
    <3> QED  BY <3>1, <3>2
  <2>3. stService.stage \in {"new", "started"} => \A v \in Updaters : stUpd'[v].pc \in {"idle", "begin", "mutated"}
    BY <1>1, <1>2 DEF HeldOf
  <2> QED  BY <1>2, <2>2, <2>3 DEF HeldOf
<1> QED  BY <1>0, <1>1, <1>2, <1>5, <1>7, <1>8, SettingsFacts DEF SettingsInv, SettingsTyped

\* Nothing that a provider follows is touched before the rename is remembered.
LEMMA UpdateFollowed ==
  ASSUME SettingsInv, NEW u \in Updaters, NEW x \in Updates, stUpd' = [stUpd EXCEPT ![u] = x],
         stUpd[u].pc # "persisted", x.pc # "persisted"
  PROVE  FollowedOf(stOverlap, stService, stHash, stPoll, stUpd', stCommits, stProv)
<1>1. /\ stUpd'[u] = x
      /\ \A v \in Updaters \ {u} : stUpd'[v] = stUpd[v]
  BY SettingsFacts
<1>2. \A v \in Updaters : (stUpd'[v].pc = "persisted" <=> stUpd[v].pc = "persisted") /\ (stUpd[v].pc = "persisted" => stUpd'[v] = stUpd[v])
  BY <1>1
<1> QED  BY <1>2, SettingsFacts DEF FollowedOf

\* What an update that holds a step knows.
LEMMA UpdateFacts ==
  ASSUME SettingsInv, NEW u \in Updaters, NEW y \in Updates, y = stUpd[u]
  PROVE  /\ stService.stage \in {"new", "started"} => y.pc \in {"idle", "begin", "mutated"}
         /\ y.pc # "notifying" => stCommits[u] = St!Quiet
         /\ y.pc \in Holding => stWriteMu = u
         /\ stLock = u <=> y.pc \in {"locked", "written"}
         /\ y.pc \in Holding \ {"notifying"} => y.doc.upd = y.n
         /\ "free" \notin Updaters /\ "nobody" \notin Updaters
BY SettingsFacts, SettingsAssumption DEF SettingsInv, HeldOf, NumberedOf

\* What a call of Update that returns leaves of itself.
LEMMA UpdateReturned ==
  ASSUME SettingsInv, NEW u \in Updaters
  PROVE  \E x \in Updates : St!Return(u) = [stUpd EXCEPT ![u] = x] /\ x.pc = "idle" /\ x.n = stUpd[u].n
<1>1. PICK y \in Updates : y = stUpd[u]
  BY SettingsFacts
<1>2. PICK x : x = [y EXCEPT !.pc = "idle", !.expected = 0, !.doc = St!Defaults, !.cut = FALSE]
  OBVIOUS
<1>3. x \in Updates /\ x.pc = "idle" /\ x.n = y.n
  BY <1>2, SettingsNames, Zenon DEF Updates, UpdatePcs
<1>4. St!Return(u) = [stUpd EXCEPT ![u] = x]
  BY <1>1, <1>2 DEF St!Return
<1> QED  BY <1>1, <1>3, <1>4, Zenon

\* A call that is refused, cancelled or failing before the rename.
LEMMA UpdateFails ==
  ASSUME SettingsInv, NEW u \in Updaters, St!Failed(u), stUpd[u].pc \in Unwritten,
         UNCHANGED <<stFile, stHash, stService, stPoll, stCommits, stProv, stOverlap>>,
         stLeft' \in Bounds, stLeft'.updates = stLeft.updates,
         stUpd[u].pc = "begin" => stWriteMu = "nobody",
         stLock' = IF stUpd[u].pc = "locked" THEN "free" ELSE stLock
  PROVE  SettingsInv'
<1>1. PICK y \in Updates : y = stUpd[u]
  BY SettingsFacts
<1>2. PICK x \in Updates : St!Return(u) = [stUpd EXCEPT ![u] = x] /\ x.pc = "idle" /\ x.n = y.n
  BY <1>1, UpdateReturned
<1>3. PICK used \in Nat : used = MaxUpdates - stLeft.updates
  BY SettingsUsed
<1>4. /\ stUpd' = [stUpd EXCEPT ![u] = x] /\ stDone' = stDone \cup {y.n} /\ stWriteMu' = "nobody"
      /\ stFile' = stFile /\ stHash' = stHash /\ stService' = stService /\ stPoll' = stPoll
      /\ stCommits' = stCommits /\ stProv' = stProv /\ stOverlap' = stOverlap
  BY <1>1, <1>2 DEF St!Failed, St!Nobody
<1>5. /\ stCommits[u] = St!Quiet
      /\ y.pc \in Holding => stWriteMu = u
      /\ stLock = u <=> y.pc \in {"locked", "written"}
      /\ "free" \notin Updaters /\ y.pc \in Unwritten
  BY <1>1, UpdateFacts DEF Unwritten
<1>6. stWriteMu \in {u, "nobody"}
  BY <1>1, <1>5 DEF Unwritten, Holding
<1>7. /\ stLock' \in Updaters \cup {"free", "other"}
      /\ \A v \in Updaters \ {u} : stLock' = v <=> stLock = v
      /\ stLock' # u
  <2>1. CASE y.pc = "locked"
    BY <1>1, <1>5, <2>1
  <2>2. CASE y.pc # "locked"
    BY <1>1, <1>5, <2>2, SettingsFacts DEF Unwritten
  <2> QED  BY <2>1, <2>2
<1>8. FollowedOf(stOverlap, stService, stHash, stPoll, stUpd', stCommits, stProv)
  BY <1>1, <1>2, <1>4, UpdateFollowed, Zenon DEF Unwritten
<1>9. x.pc \notin Unwritten \cup Holding
  BY <1>2 DEF Unwritten, Holding
<1>10. NumberMoves(y, x, used, used, stDone, stDone')
  BY <1>2, <1>4, <1>5, <1>9 DEF NumberMoves
<1>11. LockMoves(u, x, stService.stage, stCommits[u], stWriteMu, stWriteMu', stLock, stLock')
  BY <1>2, <1>4, <1>5, <1>6, <1>7, <1>9 DEF LockMoves
<1>12. used = MaxUpdates - stLeft'.updates
  BY <1>3
<1> QED  BY <1>1, <1>3, <1>4, <1>8, <1>10, <1>11, <1>12, UpdateMoves, Zenon

LEMMA SettingsRead ==
  ASSUME SettingsInv, NEW u \in Updaters, St!UpdateRead(u)
  PROVE  SettingsInv'
<1>1. PICK y \in Updates : y = stUpd[u]
  BY SettingsFacts
<1>2. PICK l \in Bounds : l = stLeft
  BY SettingsFacts
<1>3. PICK used \in Nat : used = MaxUpdates - l.updates
  BY <1>2, SettingsUsed
<1>4. PICK rev \in Nat :
        stUpd' = [stUpd EXCEPT ![u] = [pc |-> "begin", n |-> MaxUpdates + 1 - l.updates, expected |-> rev, doc |-> St!Defaults, cut |-> FALSE]]
  <2>1. PICK o \in Hubs : o = stService
    BY SettingsFacts
  <2>2. PICK rev \in {0, o.revision} :
          stUpd' = [stUpd EXCEPT ![u] = [pc |-> "begin", n |-> MaxUpdates + 1 - l.updates, expected |-> rev, doc |-> St!Defaults, cut |-> FALSE]]
    BY <1>2, <2>1, Zenon DEF St!UpdateRead
  <2>3. rev \in Nat
    BY <2>2 DEF Hubs
  <2> QED  BY <2>2, <2>3
<1> DEFINE x == [pc |-> "begin", n |-> used + 1, expected |-> rev, doc |-> St!Defaults, cut |-> FALSE]
<1>5. /\ y.pc = "idle" /\ l.updates > 0 /\ stLeft' = [l EXCEPT !.updates = l.updates - 1]
      /\ stUpd' = [stUpd EXCEPT ![u] = [pc |-> "begin", n |-> MaxUpdates + 1 - l.updates, expected |-> rev, doc |-> St!Defaults, cut |-> FALSE]]
      /\ stFile' = stFile /\ stHash' = stHash /\ stService' = stService /\ stPoll' = stPoll /\ stWriteMu' = stWriteMu
      /\ stCommits' = stCommits /\ stProv' = stProv /\ stOverlap' = stOverlap /\ stLock' = stLock /\ stDone' = stDone
  BY <1>1, <1>2, <1>4, Zenon DEF St!UpdateRead, St!Spend
<1>6. MaxUpdates + 1 - l.updates = used + 1
  BY <1>3, SettingsAssumption DEF Bounds
<1>7. stUpd' = [stUpd EXCEPT ![u] = x]
  BY <1>5, <1>6, Zenon
<1>8. x \in Updates /\ x.pc = "begin" /\ x.n = used + 1
  BY SettingsNames DEF Updates, UpdatePcs
<1> HIDE DEF x
<1>9. stLeft' \in Bounds /\ used + 1 = MaxUpdates - stLeft'.updates
  <2>1. PICK k \in 0..MaxUpdates : k = l.updates - 1
    BY <1>5, SettingsAssumption DEF Bounds
  <2>2. stLeft' = [l EXCEPT !.updates = k]
    BY <1>5, <2>1
  <2>3. stLeft' \in Bounds /\ stLeft'.updates = k
    BY <2>2 DEF Bounds
  <2> QED  BY <1>3, <2>1, <2>3, SettingsAssumption DEF Bounds
<1>10. FollowedOf(stOverlap, stService, stHash, stPoll, stUpd', stCommits, stProv)
  BY <1>1, <1>5, <1>7, <1>8, UpdateFollowed, Zenon
<1>11. x.pc \notin Holding /\ y.pc \notin Holding
  BY <1>5, <1>8 DEF Holding
<1>12. stCommits[u] = St!Quiet /\ stLock # u
  BY <1>1, <1>5, UpdateFacts
<1>13. used + 1 \in Nat /\ used <= used + 1 /\ used + 1 > used
  OBVIOUS
<1>14. NumberMoves(y, x, used, used + 1, stDone, stDone')
  BY <1>5, <1>8, <1>11, <1>13 DEF NumberMoves
<1>15. LockMoves(u, x, stService.stage, stCommits[u], stWriteMu, stWriteMu', stLock, stLock')
  BY <1>5, <1>8, <1>11, <1>12, SettingsFacts DEF LockMoves
<1>16. used = MaxUpdates - stLeft.updates
  BY <1>2, <1>3
<1>17. UNCHANGED <<stService, stPoll, stCommits, stProv, stOverlap>> /\ stFile' = stFile /\ stHash' = stHash
  BY <1>5
<1> QED  BY <1>1, <1>7, <1>8, <1>9, <1>10, <1>13, <1>14, <1>15, <1>16, <1>17, UpdateMoves, Zenon

\* The steps that change neither the file nor what is remembered.
LEMMA SettingsUpdates ==
  ASSUME SettingsInv, NEW u \in Updaters,
         \/ St!UpdateBegin(u) \/ St!UpdateProvider(u) \/ St!Cancel(u) \/ St!PersistLock(u)
         \/ St!PersistRefused(u) \/ St!PersistAborted(u) \/ St!UpdateReturns(u)
  PROVE  SettingsInv'
<1>1. PICK y \in Updates : y = stUpd[u]
  BY SettingsFacts
<1>2. PICK used \in Nat : used = MaxUpdates - stLeft.updates
  BY SettingsUsed
<1>3. /\ stService.stage \in {"new", "started"} => y.pc \in {"idle", "begin", "mutated"}
      /\ y.pc # "notifying" => stCommits[u] = St!Quiet
      /\ y.pc \in Holding => stWriteMu = u
      /\ stLock = u <=> y.pc \in {"locked", "written"}
      /\ y.pc \in Holding \ {"notifying"} => y.doc.upd = y.n
      /\ "free" \notin Updaters /\ "nobody" \notin Updaters
  BY <1>1, UpdateFacts
<1>4. stLeft \in Bounds /\ y.n \in Nat
  BY SettingsFacts DEF Updates
<1>5. CASE St!UpdateBegin(u) /\ ~St!Failed(u)
  <2>1. PICK d \in Documents : d = [stService.document EXCEPT !.upd = y.n]
    <3>1. PICK e \in Documents : e = stService.document
      BY SettingsFacts DEF Hubs
    <3>2. [e EXCEPT !.upd = y.n] \in Documents
      BY <1>4 DEF Documents
    <3> QED  BY <3>1, <3>2
  <2>2. d.upd = y.n
    <3>1. PICK e \in Documents : e = stService.document
      BY SettingsFacts DEF Hubs
    <3>2. d = [e EXCEPT !.upd = y.n]
      BY <2>1, <3>1
    <3> QED  BY <3>2 DEF Documents
  <2> DEFINE x == [y EXCEPT !.pc = "mutated", !.doc = d]
  <2>3. /\ y.pc = "begin" /\ stWriteMu = "nobody" /\ stWriteMu' = u /\ stUpd' = [stUpd EXCEPT ![u] = x]
        /\ stFile' = stFile /\ stHash' = stHash /\ stService' = stService /\ stPoll' = stPoll
        /\ stCommits' = stCommits /\ stProv' = stProv /\ stOverlap' = stOverlap /\ stLock' = stLock /\ stDone' = stDone
        /\ stLeft' = stLeft
    BY <1>1, <1>5, <2>1, Zenon DEF St!UpdateBegin, St!Nobody
  <2>4. x \in Updates /\ x.pc = "mutated" /\ x.n = y.n /\ x.doc = d
    BY Zenon DEF Updates, UpdatePcs
  <2> HIDE DEF x
  <2>5. FollowedOf(stOverlap, stService, stHash, stPoll, stUpd', stCommits, stProv)
    BY <1>1, <2>3, <2>4, UpdateFollowed, Zenon
  <2>6. x.pc \in Unwritten /\ y.pc \in Unwritten
    BY <2>3, <2>4 DEF Unwritten
  <2>7. NumberMoves(y, x, used, used, stDone, stDone')
    BY <1>3, <2>2, <2>3, <2>4, <2>6 DEF NumberMoves, Holding
  <2>8. LockMoves(u, x, stService.stage, stCommits[u], stWriteMu, stWriteMu', stLock, stLock')
    BY <1>3, <2>2, <2>3, <2>4, <2>6, SettingsFacts DEF LockMoves, Holding
  <2> QED  BY <1>1, <1>2, <1>4, <2>3, <2>4, <2>5, <2>7, <2>8, UpdateMoves, Zenon
<1>6. CASE St!UpdateBegin(u) /\ St!Failed(u)
  <2>1. /\ St!Failed(u) /\ y.pc = "begin" /\ stWriteMu = "nobody" /\ stLock' = stLock /\ stLeft' = stLeft
        /\ UNCHANGED <<stFile, stHash, stService, stPoll, stCommits, stProv, stOverlap>>
    BY <1>1, <1>6 DEF St!UpdateBegin, St!Nobody
  <2> QED  BY <1>1, <1>4, <2>1, UpdateFails DEF Unwritten
<1>7. CASE St!Cancel(u)
  <2> DEFINE x == [y EXCEPT !.cut = TRUE]
  <2>1. /\ y.pc \in {"begin", "mutated", "locking", "locked", "written"} /\ stWriteMu' = stWriteMu /\ stUpd' = [stUpd EXCEPT ![u] = x]
        /\ stFile' = stFile /\ stHash' = stHash /\ stService' = stService /\ stPoll' = stPoll
        /\ stCommits' = stCommits /\ stProv' = stProv /\ stOverlap' = stOverlap /\ stLock' = stLock /\ stDone' = stDone
        /\ stLeft' = stLeft
    BY <1>1, <1>7 DEF St!Cancel
  <2>2. x \in Updates /\ x.pc = y.pc /\ x.n = y.n /\ x.doc = y.doc
    BY Zenon DEF Updates
  <2> HIDE DEF x
  <2>3. FollowedOf(stOverlap, stService, stHash, stPoll, stUpd', stCommits, stProv)
    BY <1>1, <2>1, <2>2, UpdateFollowed, Zenon
  <2>4. NumberMoves(y, x, used, used, stDone, stDone')
    BY <1>3, <2>1, <2>2 DEF NumberMoves, Unwritten, Holding
  <2>5. LockMoves(u, x, stService.stage, stCommits[u], stWriteMu, stWriteMu', stLock, stLock')
    BY <1>3, <2>1, <2>2, SettingsFacts DEF LockMoves, Unwritten, Holding
  <2> QED  BY <1>1, <1>2, <1>4, <2>1, <2>2, <2>3, <2>4, <2>5, UpdateMoves, Zenon
<1>8. CASE St!PersistLock(u)
  <2> DEFINE x == [y EXCEPT !.pc = "locked"]
  <2>1. /\ y.pc = "locking" /\ stLock = "free" /\ stLock' = u
        /\ stWriteMu' = stWriteMu /\ stUpd' = [stUpd EXCEPT ![u] = x]
        /\ stFile' = stFile /\ stHash' = stHash /\ stService' = stService /\ stPoll' = stPoll
        /\ stCommits' = stCommits /\ stProv' = stProv /\ stOverlap' = stOverlap /\ stDone' = stDone /\ stLeft' = stLeft
    BY <1>1, <1>8 DEF St!PersistLock
  <2>2. x \in Updates /\ x.pc = "locked" /\ x.n = y.n /\ x.doc = y.doc
    BY DEF Updates, UpdatePcs
  <2> HIDE DEF x
  <2>3. FollowedOf(stOverlap, stService, stHash, stPoll, stUpd', stCommits, stProv)
    BY <1>1, <2>1, <2>2, UpdateFollowed, Zenon
  <2>4. /\ x.pc \in Unwritten /\ y.pc \in Unwritten /\ y.pc \in Holding \ {"notifying"}
    BY <2>1, <2>2 DEF Unwritten, Holding
  <2>5. NumberMoves(y, x, used, used, stDone, stDone')
    BY <1>3, <2>1, <2>2, <2>4 DEF NumberMoves, Holding
  <2>6. LockMoves(u, x, stService.stage, stCommits[u], stWriteMu, stWriteMu', stLock, stLock')
    BY <1>3, <2>1, <2>2, <2>4, SettingsFacts DEF LockMoves, Holding
  <2> QED  BY <1>1, <1>2, <1>4, <2>1, <2>2, <2>3, <2>5, <2>6, UpdateMoves, Zenon
<1>9. CASE St!PersistRefused(u)
  <2>1. /\ St!Failed(u) /\ y.pc = "locking" /\ stLock' = stLock /\ stLeft' = stLeft
        /\ UNCHANGED <<stFile, stHash, stService, stPoll, stCommits, stProv, stOverlap>>
    BY <1>1, <1>9 DEF St!PersistRefused
  <2> QED  BY <1>1, <1>4, <2>1, UpdateFails DEF Unwritten
<1>10. CASE St!PersistAborted(u)
  <2>1. /\ St!Failed(u) /\ y.pc = "locked" /\ stLock' = "free"
        /\ UNCHANGED <<stFile, stHash, stService, stPoll, stCommits, stProv, stOverlap>>
    BY <1>1, <1>10 DEF St!PersistAborted, St!Unlock
  <2>2. stLeft' \in Bounds /\ stLeft'.updates = stLeft.updates
    <3>1. PICK l \in Bounds : l = stLeft
      BY SettingsFacts
    <3>2. PICK n \in Int : n = l.faults - 1
      BY DEF Bounds
    <3>3. stLeft' = l \/ stLeft' = [l EXCEPT !.faults = n]
      BY <1>10, <3>1, <3>2 DEF St!PersistAborted, St!Spend
    <3> QED  BY <3>1, <3>2, <3>3 DEF Bounds
  <2> QED  BY <1>1, <2>1, <2>2, UpdateFails DEF Unwritten
<1>11. CASE St!UpdateReturns(u)
  <2>1. /\ y.pc = "notifying" /\ St!Returned(u) /\ stUpd' = St!Return(u) /\ stWriteMu' = "nobody"
        /\ stCommits' = [stCommits EXCEPT ![u] = St!Quiet]
        /\ stFile' = stFile /\ stHash' = stHash /\ stService' = stService /\ stPoll' = stPoll
        /\ stProv' = stProv /\ stOverlap' = stOverlap /\ stLock' = stLock /\ stDone' = stDone /\ stLeft' = stLeft
    BY <1>1, <1>11 DEF St!UpdateReturns, St!Nobody
  <2>2. stCommits[u] = St!Quiet
    BY <2>1, SettingsFacts DEF St!Returned, St!Nobody, CountedOf
  <2>3. stCommits' = stCommits
    BY <2>1, <2>2, SettingsFacts
  <2>4. PICK x \in Updates : St!Return(u) = [stUpd EXCEPT ![u] = x] /\ x.pc = "idle" /\ x.n = y.n
    BY <1>1, UpdateReturned
  <2>5. FollowedOf(stOverlap, stService, stHash, stPoll, stUpd', stCommits, stProv)
    BY <1>1, <2>1, <2>4, UpdateFollowed, Zenon
  <2>6. /\ x.pc \notin Unwritten \cup Holding /\ y.pc \in Holding
    BY <2>1, <2>4 DEF Unwritten, Holding
  <2>7. NumberMoves(y, x, used, used, stDone, stDone')
    BY <1>3, <2>1, <2>2, <2>4, <2>6 DEF NumberMoves, Holding
  <2>8. LockMoves(u, x, stService.stage, stCommits[u], stWriteMu, stWriteMu', stLock, stLock')
    BY <1>3, <2>1, <2>2, <2>4, <2>6, SettingsFacts DEF LockMoves, Holding
  <2> QED  BY <1>1, <1>2, <1>4, <2>1, <2>3, <2>4, <2>5, <2>7, <2>8, UpdateMoves, Zenon
<1>12. CASE St!UpdateProvider(u) /\ stService.stage = "mounted"
  <2> DEFINE x == [y EXCEPT !.pc = "locking"]
  <2>1. /\ y.pc = "mutated" /\ stLock' = stLock
        /\ stWriteMu' = stWriteMu /\ stUpd' = [stUpd EXCEPT ![u] = x]
        /\ stFile' = stFile /\ stHash' = stHash /\ stService' = stService /\ stPoll' = stPoll
        /\ stCommits' = stCommits /\ stProv' = stProv /\ stOverlap' = stOverlap /\ stDone' = stDone /\ stLeft' = stLeft
    BY <1>1, <1>12 DEF St!UpdateProvider
  <2>2. x \in Updates /\ x.pc = "locking" /\ x.n = y.n /\ x.doc = y.doc
    BY DEF Updates, UpdatePcs
  <2> HIDE DEF x
  <2>3. FollowedOf(stOverlap, stService, stHash, stPoll, stUpd', stCommits, stProv)
    BY <1>1, <2>1, <2>2, UpdateFollowed, Zenon
  <2>4. /\ x.pc \in Unwritten /\ y.pc \in Unwritten /\ y.pc \in Holding \ {"notifying"}
    BY <2>1, <2>2 DEF Unwritten, Holding
  <2>5. NumberMoves(y, x, used, used, stDone, stDone')
    BY <1>3, <2>1, <2>2, <2>4 DEF NumberMoves, Holding
  <2>6. LockMoves(u, x, stService.stage, stCommits[u], stWriteMu, stWriteMu', stLock, stLock')
    BY <1>3, <1>12, <2>1, <2>2, <2>4, SettingsFacts DEF LockMoves, Holding
  <2> QED  BY <1>1, <1>2, <1>4, <2>1, <2>2, <2>3, <2>5, <2>6, UpdateMoves, Zenon
<1>13. CASE St!UpdateProvider(u) /\ stService.stage # "mounted"
  <2>1. /\ St!Failed(u) /\ y.pc = "mutated" /\ stLock' = stLock /\ stLeft' = stLeft
        /\ UNCHANGED <<stFile, stHash, stService, stPoll, stCommits, stProv, stOverlap>>
    BY <1>1, <1>13 DEF St!UpdateProvider
  <2> QED  BY <1>1, <1>4, <2>1, UpdateFails DEF Unwritten
<1> QED  BY <1>5, <1>6, <1>7, <1>8, <1>9, <1>10, <1>11, <1>12, <1>13, <1>1

\* The update of a document that is written is not to be taken back.
LEMMA UpdateWritten ==
  ASSUME SettingsInv, NEW u \in Updaters, NEW y \in Updates, y = stUpd[u], NEW x \in Updates,
         y.pc \in {"locked", "written", "persisted"}, x.pc \notin Unwritten,
         stUpd' = [stUpd EXCEPT ![u] = x], NEW used \in Nat, used = MaxUpdates - stLeft.updates
  PROVE  Written(y.doc, stUpd', stDone, used)
<1>1. /\ stUpd'[u] = x
      /\ \A v \in Updaters \ {u} : stUpd'[v] = stUpd[v]
  BY SettingsFacts
<1>2. NumberedOf(stUpd, stDone, used)
  BY DEF SettingsInv
<1>3. y.doc.upd = y.n /\ y.n \in 1..used /\ y.n \notin stDone
  BY <1>2 DEF NumberedOf, Holding
<1>4. \A v \in Updaters \ {u} : stUpd[v].pc \in Unwritten => stUpd[v].n # y.n
  BY <1>2 DEF NumberedOf, Unwritten
<1> QED  BY <1>1, <1>3, <1>4 DEF Written

LEMMA SettingsPersist ==
  ASSUME SettingsInv, NEW u \in Updaters, St!PersistRename(u) \/ St!PersistRemember(u)
  PROVE  SettingsInv'
<1>1. PICK y \in Updates : y = stUpd[u]
  BY SettingsFacts
<1>2. PICK used \in Nat : used = MaxUpdates - stLeft.updates
  BY SettingsUsed
<1>3. /\ stService.stage \in {"new", "started"} => y.pc \in {"idle", "begin", "mutated"}
      /\ y.pc # "notifying" => stCommits[u] = St!Quiet
      /\ y.pc \in Holding => stWriteMu = u
      /\ stLock = u <=> y.pc \in {"locked", "written"}
      /\ y.pc \in Holding \ {"notifying"} => y.doc.upd = y.n
      /\ "free" \notin Updaters /\ "nobody" \notin Updaters
  BY <1>1, UpdateFacts
<1>4. stLeft \in Bounds /\ y.n \in Nat /\ y.doc \in Readable
  BY SettingsFacts DEF Updates, Readable
<1>5. CASE St!PersistRename(u)
  <2> DEFINE x == [y EXCEPT !.pc = "written"]
  <2>1. /\ y.pc = "locked" /\ stFile' = y.doc /\ stUpd' = [stUpd EXCEPT ![u] = x]
        /\ stHash' = stHash /\ stService' = stService /\ stPoll' = stPoll /\ stWriteMu' = stWriteMu
        /\ stCommits' = stCommits /\ stProv' = stProv /\ stOverlap' = stOverlap /\ stLock' = stLock /\ stDone' = stDone
        /\ stLeft' = stLeft
    BY <1>1, <1>5 DEF St!PersistRename
  <2>2. x \in Updates /\ x.pc = "written" /\ x.n = y.n /\ x.doc = y.doc
    BY DEF Updates, UpdatePcs
  <2> HIDE DEF x
  <2>3. FollowedOf(stOverlap, stService, stHash, stPoll, stUpd', stCommits, stProv)
    BY <1>1, <2>1, <2>2, UpdateFollowed, Zenon
  <2>4. Written(y.doc, stUpd', stDone, used)
    BY <1>1, <1>2, <2>1, <2>2, UpdateWritten, Zenon DEF Unwritten
  <2>5. NumberMoves(y, x, used, used, stDone, stDone')
    BY <1>3, <2>1, <2>2 DEF NumberMoves, Unwritten, Holding
  <2>6. LockMoves(u, x, stService.stage, stCommits[u], stWriteMu, stWriteMu', stLock, stLock')
    BY <1>3, <2>1, <2>2, SettingsFacts DEF LockMoves, Holding
  <2> QED  BY <1>1, <1>2, <1>4, <2>1, <2>2, <2>3, <2>4, <2>5, <2>6, UpdateMoves, Zenon
<1>6. CASE St!PersistRemember(u)
  <2> DEFINE x == [y EXCEPT !.pc = "persisted"]
  <2>1. /\ y.pc = "written" /\ stHash' = y.doc /\ stUpd' = [stUpd EXCEPT ![u] = x] /\ stLock' = "free"
        /\ stFile' = stFile /\ stService' = stService /\ stPoll' = stPoll /\ stWriteMu' = stWriteMu
        /\ stCommits' = stCommits /\ stProv' = stProv /\ stOverlap' = stOverlap /\ stDone' = stDone
        /\ stLeft' = stLeft
    BY <1>1, <1>6 DEF St!PersistRemember, St!Unlock
  <2>2. x \in Updates /\ x.pc = "persisted" /\ x.n = y.n /\ x.doc = y.doc
    BY DEF Updates, UpdatePcs
  <2> HIDE DEF x
  <2>3. FollowedOf(stOverlap, stService, y.doc, stPoll, stUpd', stCommits, stProv)
    <3>1. FollowedOf(stOverlap, stService, stHash, stPoll, stUpd, stCommits, stProv)
      BY SettingsFacts
    <3>2. /\ stUpd'[u] = x
          /\ \A v \in Updaters \ {u} : stUpd'[v] = stUpd[v]
      BY <2>1, <2>2, SettingsFacts
    <3>3. \A v \in Updaters \ {u} : stUpd[v].pc # "persisted"
      BY <1>3, <2>1, SettingsFacts DEF HeldOf, Holding
    <3>4. \A v \in Updaters : stUpd'[v].pc = "persisted" => v = u /\ stUpd'[v].doc = y.doc
      BY <2>2, <3>2, <3>3
    <3>5. stUpd'[u].pc = "persisted"
      BY <2>2, <3>2
    <3> QED  BY <3>1, <3>4, <3>5 DEF FollowedOf
  <2>4. Written(y.doc, stUpd', stDone, used)
    BY <1>1, <1>2, <2>1, <2>2, UpdateWritten, Zenon DEF Unwritten
  <2>5. NumberMoves(y, x, used, used, stDone, stDone')
    BY <1>3, <2>1, <2>2 DEF NumberMoves, Unwritten, Holding
  <2>6. LockMoves(u, x, stService.stage, stCommits[u], stWriteMu, stWriteMu', stLock, stLock')
    BY <1>3, <2>1, <2>2, SettingsFacts DEF LockMoves, Holding
  <2> QED  BY <1>1, <1>2, <1>4, <2>1, <2>2, <2>3, <2>4, <2>5, <2>6, UpdateMoves, Zenon
<1> QED  BY <1>5, <1>6

LEMMA SettingsUpdateCommit ==
  ASSUME SettingsInv, NEW u \in Updaters, St!UpdateCommit(u)
  PROVE  SettingsInv'
<1>1. PICK y \in Updates : y = stUpd[u]
  BY SettingsFacts
<1>2. PICK used \in Nat : used = MaxUpdates - stLeft.updates
  BY SettingsUsed
<1>3. /\ stService.stage \in {"new", "started"} => y.pc \in {"idle", "begin", "mutated"}
      /\ y.pc # "notifying" => stCommits[u] = St!Quiet
      /\ y.pc \in Holding => stWriteMu = u
      /\ stLock = u <=> y.pc \in {"locked", "written"}
      /\ "free" \notin Updaters /\ "nobody" \notin Updaters
  BY <1>1, UpdateFacts
<1> DEFINE x == [y EXCEPT !.pc = "notifying"]
<1>4. /\ y.pc = "persisted" /\ St!Commit(u, y.doc) /\ stUpd' = [stUpd EXCEPT ![u] = x]
      /\ stFile' = stFile /\ stLock' = stLock /\ stHash' = stHash /\ stWriteMu' = stWriteMu
      /\ stPoll' = stPoll /\ stDone' = stDone /\ stLeft' = stLeft
  BY <1>1 DEF St!UpdateCommit
<1>5. x \in Updates /\ x.pc = "notifying" /\ x.n = y.n /\ y.n \in Nat /\ y.doc \in Documents
  BY DEF Updates, UpdatePcs
<1> HIDE DEF x
<1>6. /\ stUpd' \in [Updaters -> Updates] /\ stUpd'[u] = x
      /\ \A v \in Updaters \ {u} : stUpd'[v] = stUpd[v]
  BY <1>4, <1>5, SettingsFacts
<1>7. stCommits[u] = St!Quiet /\ stService.stage \notin {"new", "started"} /\ stWriteMu = u
  BY <1>3, <1>4 DEF Holding
<1>8. /\ stService' \in Hubs /\ stCommits' \in [Committers -> Rounds] /\ stProv' \in [Providers -> Followers]
      /\ stOverlap' \in BOOLEAN
      /\ stService'.stage = stService.stage
      /\ stService'.document \in {y.doc, stService.document}
      /\ \A d \in Committers \ {u} : stCommits'[d] = stCommits[d]
      /\ stCommits'[u].doc \in {y.doc, St!Defaults}
      /\ \A p \in Providers : stProv'[p].stage = stProv[p].stage /\ stProv'[p].catalog = stProv[p].catalog
      /\ CountedOf(stCommits', stProv')
      /\ ~stOverlap' => ~stOverlap /\ ~St!Amid(u)
      /\ stService.stage = "mounted" =>
           /\ stService'.document = y.doc
           /\ stCommits'[u] # St!Quiet => stCommits'[u].doc = y.doc
           /\ \A p \in Providers : stProv[p].stage = "watching" => p \in stCommits'[u].todo
  BY <1>4, <1>5, <1>7, SettingsFacts, SettingsCommit
<1>9. NumberedOf(stUpd', stDone, used)
  <2>1. NumberedOf(stUpd, stDone, used)
    BY <1>2 DEF SettingsInv
  <2>2. \A v \in Updaters : /\ stUpd'[v].n = stUpd[v].n
                            /\ stUpd'[v].pc # "idle" => stUpd[v].pc # "idle"
                            /\ stUpd'[v].pc \in Holding \ {"notifying"} => v # u
    BY <1>1, <1>4, <1>5, <1>6
  <2> QED  BY <1>6, <2>1, <2>2 DEF NumberedOf
<1>10. ASSUME NEW d, Written(d, stUpd, stDone, used)
       PROVE  Written(d, stUpd', stDone, used)
  BY <1>5, <1>6, <1>10 DEF Written, Unwritten
<1>11. WrittenAll(stFile, stHash, stService', stPoll.seen, stCommits', stProv', stUpd', stDone, used)
  <2> DEFINE Fine(d) == Written(d, stUpd', stDone, used)
  <2>1. WrittenAll(stFile, stHash, stService, stPoll.seen, stCommits, stProv, stUpd, stDone, used)
    BY <1>2 DEF SettingsInv
  <2>2. /\ \A d \in Committers : Fine(stCommits[d].doc)
        /\ \A p \in Providers : Fine(stProv[p].catalog)
        /\ Fine(stFile) /\ Fine(stHash) /\ Fine(stService.document) /\ Fine(stPoll.seen)
    BY <1>10, <2>1 DEF WrittenAll
  <2>3. Fine(y.doc)
    BY <1>1, <1>2, <1>4, <1>5, UpdateWritten, Zenon DEF Unwritten
  <2>4. Fine(St!Defaults)
    BY <1>2, <1>10, SettingsBlank, SettingsNames
  <2> HIDE DEF Fine
  <2>5. Fine(stService'.document) /\ Fine(stCommits'[u].doc)
    BY <1>8, <2>2, <2>3, <2>4
  <2>6. /\ \A d \in Committers : Fine(stCommits'[d].doc)
        /\ \A p \in Providers : Fine(stProv'[p].catalog)
    BY <1>8, <2>2, <2>5
  <2> QED  BY <2>2, <2>5, <2>6 DEF WrittenAll, Fine
<1>12. HeldOf(stService', stWriteMu, stLock, stPoll, stUpd', stCommits', stProv')
  <2>1. HeldOf(stService, stWriteMu, stLock, stPoll, stUpd, stCommits, stProv)
    BY SettingsFacts
  <2>2. stCommits'["poller"] = stCommits["poller"]
    BY <1>8, SettingsFacts
  <2>3. ASSUME NEW v \in Updaters
        PROVE  /\ stUpd'[v].pc # "notifying" => stCommits'[v] = St!Quiet
               /\ stUpd'[v].pc \in Holding => stWriteMu = v
               /\ stLock = v <=> stUpd'[v].pc \in {"locked", "written"}
    <3>1. CASE v = u
      BY <1>3, <1>4, <1>5, <1>6, <1>7, <3>1
    <3>2. CASE v # u
      BY <1>6, <1>8, <2>1, <3>2, SettingsFacts DEF HeldOf
    <3> QED  BY <3>1, <3>2
  <2> QED  BY <1>7, <1>8, <2>1, <2>2, <2>3 DEF HeldOf
<1>13. FollowedOf(stOverlap', stService', stHash, stPoll, stUpd', stCommits', stProv')
  <2> SUFFICES ASSUME ~stOverlap', stService'.stage = "mounted"
               PROVE  FollowedOf(stOverlap', stService', stHash, stPoll, stUpd', stCommits', stProv')
    BY DEF FollowedOf
  <2>1. /\ stPoll.pc = "idle"
        /\ \A v \in Updaters \ {u} : stUpd[v].pc \notin {"written", "persisted"}
        /\ \A d \in Committers \ {u} : stCommits[d] = St!Quiet
        /\ \A p \in Providers : stProv[p].stage # "starting"
    BY <1>8, SettingsAlone, SettingsFacts
  <2>2. stHash = y.doc
    BY <1>1, <1>4, <1>8, <2>1, SettingsFacts DEF FollowedOf
  <2>3. stService'.document = St!Resolve(stHash)
    BY <1>5, <1>8, <2>2, SettingsNames DEF St!Resolve
  <2>4. \A d \in Committers : stCommits'[d] # St!Quiet => stCommits'[d].doc = stService'.document
    BY <1>8, <2>1
  <2>5. \A p \in Providers : stProv'[p].stage \in {"starting", "watching"} =>
          \E d \in Committers : stCommits'[d].now = p \/ p \in stCommits'[d].todo
    BY <1>8, <2>1, SettingsFacts
  <2>6. \A v \in Updaters : stUpd'[v].pc # "persisted"
    BY <1>5, <1>6, <2>1
  <2> QED  BY <2>1, <2>3, <2>4, <2>5, <2>6 DEF FollowedOf
<1> QED  BY <1>2, <1>4, <1>6, <1>8, <1>9, <1>11, <1>12, <1>13, SettingsFacts DEF SettingsInv, SettingsTyped

LEMMA SettingsStep == SettingsInv /\ [St!Next]_(St!vars) => SettingsInv'
<1> SUFFICES ASSUME SettingsInv, [St!Next]_(St!vars) PROVE SettingsInv'
  OBVIOUS
<1>1. CASE UNCHANGED St!vars
  BY <1>1 DEF St!vars, SettingsInv, SettingsTyped
<1>2. CASE St!Next
  <2>1. CASE St!Start \/ St!Mount \/ St!Unmount \/ St!Stop
    BY <2>1, SettingsStages
  <2>2. CASE \E c \in Updaters \cup {St!Poller} : St!Notified(c) \/ \E p \in Providers : St!Notify(c, p)
    BY <2>2, SettingsNotify, SettingsNotified DEF St!Poller, Committers
  <2>3. CASE \E p \in Providers : \/ St!ProviderSnapshot(p) \/ St!ProviderWatch(p) \/ St!Unwatch(p)
                                  \/ St!Disposed(p) \/ St!DisposeTimeout(p)
    BY <2>3, SettingsProviders
  <2>4. CASE (\E content \in St!Contents : St!Edit(content)) \/ St!OtherLocks \/ St!OtherUnlocks
    BY <2>4, SettingsOutside
  <2>5. CASE St!PollRead \/ St!PollChanged \/ St!PollRemember \/ St!PollPublish
    BY <2>5, SettingsPoll, SettingsPublish
  <2>6. CASE \E u \in Updaters : \/ St!UpdateRead(u) \/ St!UpdateBegin(u) \/ St!UpdateProvider(u) \/ St!Cancel(u)
                                 \/ St!PersistLock(u) \/ St!PersistRefused(u) \/ St!PersistAborted(u)
                                 \/ St!PersistRename(u) \/ St!PersistRemember(u)
                                 \/ St!UpdateCommit(u) \/ St!UpdateReturns(u)
    BY <2>6, SettingsRead, SettingsUpdates, SettingsPersist, SettingsUpdateCommit
  <2> QED  BY <1>2, <2>1, <2>2, <2>3, <2>4, <2>5, <2>6, SMTT(30) DEF St!Next
<1> QED  BY <1>1, <1>2

LEMMA SettingsInFocus == ServicesInit /\ focus = "settings" => St!Init
BY DEF ServicesInit, ServiceInit

LEMMA SettingsOnly ==
  ASSUME [ServicesNext]_<<focus, vars, slots>>, focus = "settings" \/ focus' = "settings"
  PROVE  focus = "settings" /\ [St!Next]_(St!vars)
<1>1. CASE UNCHANGED <<focus, vars, slots>>
  BY <1>1 DEF slots, St!vars
<1>2. CASE focus = "log" /\ Next /\ UNCHANGED <<focus, slots>>
  BY <1>2
<1>3. CASE ServiceNext /\ UNCHANGED <<focus, vars>>
  BY <1>3 DEF ServiceNext
<1> QED  BY <1>1, <1>2, <1>3 DEF ServicesNext

PublishedWhole == focus = "settings" => SettingsInv

\* A provider that stopped holds no catalog and, when its cleanup did not time
\* out, is called no more; an Update that returned an error left nothing in
\* the file, in memory or in a catalog; and without overlapping publications
\* every watching provider has the document of the file (settings.go, commit
\* and unwatch; file.go, Persist and the poll; provider.go, install).
THEOREM SettingsAlwaysKept == ServicesSpec => []SettingsKept
<1>1. ServicesInit => PublishedWhole
  BY SettingsInFocus, SettingsInit DEF PublishedWhole
<1>2. PublishedWhole /\ [ServicesNext]_<<focus, vars, slots>> => PublishedWhole'
  BY SettingsOnly, SettingsStep DEF PublishedWhole
<1>3. PublishedWhole => SettingsKept
  <2> SUFFICES ASSUME SettingsInv PROVE St!SettingsKept
    BY DEF PublishedWhole, SettingsKept
  <2>1. DOMAIN stCommits = Committers
    BY SettingsFacts
  <2>2. St!WithdrawnIsQuiet
    BY <2>1, SettingsFacts, Zenon DEF St!WithdrawnIsQuiet, CountedOf, PendingOf
  <2>3. St!FailedUpdateLeavesNothing
    <3>1. /\ stFile.upd \notin stDone /\ stHash.upd \notin stDone /\ stService.document.upd \notin stDone
          /\ \A p \in Providers : stProv[p].catalog.upd \notin stDone
      BY DEF SettingsInv, WrittenAll, Written
    <3>2. stLock \in Updaters => stUpd[stLock].pc \in {"locked", "written"}
      BY SettingsFacts DEF HeldOf
    <3> QED  BY <3>1, <3>2 DEF St!FailedUpdateLeavesNothing
  <2>4. St!CatalogFollows
    <3> SUFFICES ASSUME ~stOverlap, stService.stage = "mounted", stPoll.pc = "idle", stFile = stHash,
                        \A c \in Committers : stCommits[c].todo = {} /\ stCommits[c].now = "nobody",
                        \A u \in Updaters : stUpd[u].pc \in {"idle", "begin"}
                 PROVE  /\ stService.document = St!Resolve(stFile)
                        /\ \A p \in Providers : stProv[p].stage = "watching" => stProv[p].catalog = stService.document
      BY <2>1 DEF St!CatalogFollows, St!Returned, St!Nobody
    <3> QED  BY SettingsFacts DEF FollowedOf
  <2> QED  BY <2>2, <2>3, <2>4 DEF St!SettingsKept
<1> QED  BY <1>1, <1>2, <1>3, PTL DEF ServicesSpec
=============================================================================
