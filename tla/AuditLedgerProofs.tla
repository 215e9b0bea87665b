------------------------- MODULE AuditLedgerProofs --------------------------
(***************************************************************************)
(* What the audit ledger keeps to for any number of writers, with the      *)
(* table damaged at will.                                                  *)
(***************************************************************************)
EXTENDS AuditLedger, TLAPS

-----------------------------------------------------------------------------
(* The inductive invariant *)

\* A row that append() made: its hash is that of the event and the previous hash it
\* was written with.
Sealed(t, s, e) == t[s].hash = Hash(s, e, t[s].prev)

\* The rows of table t are those of the committed table, then rows of its own.
Extends(t) ==
  /\ DOMAIN rows \subseteq DOMAIN t
  /\ \A s \in DOMAIN rows : t[s] = rows[s]
  /\ \A s \in DOMAIN t \ DOMAIN rows : Sealed(t, s, t[s].event)

\* While nobody has tampered with the table, every row of t verifies; '' in an
\* optional field is read back as NULL and would not.
Verifiable(t) == EmptyText \notin RequestId /\ ~damaged => VerifyOk(t)

LogSeals == \A s \in DOMAIN rows : s \in DOMAIN log /\ Sealed(rows, s, log[s])

IInv ==
  /\ TypeOK
  /\ LogSeals
  /\ Verifiable(rows)
  /\ lock # None => Extends(view[lock]) /\ Verifiable(view[lock])

-----------------------------------------------------------------------------
(* Tables *)

\* The empty table is a table and verifies.
LEMMA EmptyTable == IsTable(<<>>) /\ VerifyOk(<<>>)
BY DEF IsTable, VerifyOk

\* The row append() adds is new, leaves the others as they are, and verifies when
\* nothing in it is ''.
LEMMA Appended ==
  ASSUME NEW t, IsTable(t), NEW n \in 0..MaxSeq, IsHead(t, n), n < MaxSeq, NEW e \in Event
  PROVE  LET u == With(t, n + 1, NewRow(t, n, e)) IN
         /\ IsTable(u)
         /\ n + 1 \notin DOMAIN t /\ DOMAIN u = DOMAIN t \cup {n + 1}
         /\ \A s \in DOMAIN t : u[s] = t[s]
         /\ Sealed(u, n + 1, u[n + 1].event)
         /\ VerifyOk(t) /\ EmptyText \notin RequestId => VerifyOk(u)
<1> DEFINE row == NewRow(t, n, e)
           u == With(t, n + 1, row)
<1>1. DOMAIN t \subseteq 1..MaxSeq /\ n + 1 \in 1..MaxSeq
  BY BoundAssumption DEF IsTable
<1>2. n + 1 \notin DOMAIN t
  BY <1>1, BoundAssumption DEF IsHead
<1>3. DOMAIN u = DOMAIN t \cup {n + 1} /\ u = [s \in DOMAIN u |-> u[s]]
  BY DEF With
<1>4. u[n + 1] = row /\ \A s \in DOMAIN t : u[s] = t[s]
  BY <1>2 DEF With
<1>5. /\ row = [event |-> row.event, prev |-> row.prev, hash |-> row.hash]
      /\ row.event = e /\ row.prev = HashAt(t, n) /\ row.hash = Hash(n + 1, e, row.prev)
  BY DEF NewRow
<1> HIDE DEF row, u
<1>6. IsTable(u)
  <2> SUFFICES ASSUME NEW s \in DOMAIN u
               PROVE  /\ u[s] = [event |-> u[s].event, prev |-> u[s].prev, hash |-> u[s].hash]
                      /\ u[s].event \in Event
    BY <1>1, <1>3 DEF IsTable
  <2>1. CASE s = n + 1
    BY <2>1, <1>4, <1>5
  <2>2. CASE s \in DOMAIN t
    BY <2>2, <1>4 DEF IsTable
  <2> QED BY <2>1, <2>2, <1>3
<1>7. ASSUME VerifyOk(t), EmptyText \notin RequestId
      PROVE  VerifyOk(u)
  <2> SUFFICES ASSUME NEW s \in DOMAIN u PROVE RowVerifies(u, s)
    BY DEF VerifyOk
  <2>1. CASE s = n + 1
    <3>1. s = 1 \/ s - 1 \in DOMAIN u
      BY <2>1, <1>1, <1>3 DEF IsHead
    <3>2. HashAt(u, s - 1) = HashAt(t, n)
      BY <2>1, <1>1, <1>4 DEF HashAt, IsHead
    <3>3. Load(e) = e
      BY <1>7, NoneAssumption DEF Load, Event
    <3> QED BY <2>1, <3>1, <3>2, <3>3, <1>4, <1>5 DEF RowVerifies
  <2>2. CASE s \in DOMAIN t
    <3>1. RowVerifies(t, s) /\ s \in Nat /\ s # 0
      BY <2>2, <1>1, <1>7 DEF VerifyOk
    <3>2. s - 1 # 0 => s - 1 \in DOMAIN t
      BY <3>1 DEF RowVerifies
    <3>3. HashAt(u, s - 1) = HashAt(t, s - 1)
      BY <3>2, <1>4 DEF HashAt
    <3> QED BY <2>2, <3>1, <3>3, <1>3, <1>4 DEF RowVerifies
  <2> QED BY <2>1, <2>2, <1>3
<1> QED BY <1>2, <1>3, <1>4, <1>5, <1>6, <1>7 DEF Sealed, u, row

-----------------------------------------------------------------------------
(* Steps *)

\* The empty ledger satisfies the invariant.
LEMMA InitInv == Init => IInv
<1> SUFFICES ASSUME Init PROVE IInv
  OBVIOUS
<1>1. rows = <<>> /\ lock = None /\ open = {} /\ \A w \in Writer : view[w] = <<>>
  BY DEF Init
<1>2. TypeOK
  BY <1>1, EmptyTable DEF Init, TypeOK
<1>3. DOMAIN rows = {}
  BY <1>1
<1> QED BY <1>1, <1>2, <1>3, EmptyTable DEF IInv, LogSeals, Verifiable

\* BEGIN and the first read keep it: a new transaction holds no lock.
LEMMA BeginInv ==
  ASSUME IInv, NEW w \in Writer, Begin(w)
  PROVE  IInv'
<1>1. \A x \in Writer : view'[x] = IF x = w THEN rows ELSE view[x]
  BY DEF IInv, TypeOK, Begin
<1>2. TypeOK'
  BY <1>1 DEF IInv, TypeOK, Begin, IsTable
<1>3. lock # None => lock # w /\ lock \in Writer
  BY DEF IInv, TypeOK, Begin
<1> QED BY <1>1, <1>2, <1>3 DEF IInv, LogSeals, Verifiable, Extends, Sealed, Begin, VerifyOk, RowVerifies

\* append keeps it: the row it adds extends the committed table and verifies.
LEMMA AppendEventInv ==
  ASSUME IInv, NEW w \in Writer, NEW n \in 0..MaxSeq, NEW e \in Event, AppendEvent(w, n, e)
  PROVE  IInv'
<1> DEFINE t == view[w]
           u == With(t, n + 1, NewRow(t, n, e))
<1>1. IsTable(t) /\ IsHead(t, n) /\ n < MaxSeq
  BY DEF IInv, TypeOK, AppendEvent
<1>2. Extends(t) /\ Verifiable(t)
  BY NoneAssumption DEF IInv, AppendEvent, MayWrite, Extends
<1>3. /\ IsTable(u)
      /\ n + 1 \notin DOMAIN t /\ DOMAIN u = DOMAIN t \cup {n + 1}
      /\ \A s \in DOMAIN t : u[s] = t[s]
      /\ Sealed(u, n + 1, u[n + 1].event)
      /\ VerifyOk(t) /\ EmptyText \notin RequestId => VerifyOk(u)
  BY <1>1, Appended
<1>4. view' = [view EXCEPT ![w] = u] /\ lock' = w /\ w \in open
  BY DEF AppendEvent
<1> HIDE DEF u
<1>5. view'[w] = u /\ \A x \in Writer \ {w} : view'[x] = view[x]
  BY <1>4 DEF IInv, TypeOK
<1>6. TypeOK'
  <2>1. \A x \in Writer : IsTable(view'[x])
    BY <1>3, <1>5 DEF IInv, TypeOK
  <2>2. view' = [x \in Writer |-> view'[x]]
    BY <1>4 DEF IInv, TypeOK
  <2> QED BY <1>4, <2>1, <2>2 DEF IInv, TypeOK, AppendEvent
<1>7. Extends(u) /\ Verifiable(u)
  <2>1. Verifiable(u)
    BY <1>2, <1>3 DEF Verifiable
  <2>2. \A s \in DOMAIN rows : s \in DOMAIN u /\ u[s] = rows[s]
    BY <1>2, <1>3 DEF Extends
  <2>3. \A s \in DOMAIN t \ DOMAIN rows : Sealed(u, s, u[s].event)
    BY <1>2, <1>3 DEF Extends, Sealed
  <2>4. \A s \in DOMAIN u \ DOMAIN rows : Sealed(u, s, u[s].event)
    BY <1>3, <2>3
  <2> QED BY <2>1, <2>2, <2>4 DEF Extends
<1>8. view'[lock'] = u /\ UNCHANGED <<rows, log, damaged>>
  BY <1>4, <1>5 DEF AppendEvent
<1> QED BY <1>6, <1>7, <1>8 DEF IInv, LogSeals, Verifiable, Extends, Sealed

\* What the end of a transaction does to the snapshots.
LEMMA CloseFacts ==
  ASSUME IInv, NEW w \in Writer, Close(w)
  PROVE  /\ open' = open \ {w}
         /\ view' = [x \in Writer |-> view'[x]]
         /\ \A x \in Writer : view'[x] = IF x = w THEN <<>> ELSE view[x]
         /\ \A x \in Writer : IsTable(view'[x])
BY EmptyTable DEF IInv, TypeOK, Close

\* COMMIT keeps it: what the lock's holder saw becomes the table.
LEMMA CommitInv ==
  ASSUME IInv, NEW w \in Writer, Commit(w)
  PROVE  IInv'
<1>1. Close(w) /\ damaged' = damaged
  BY DEF Commit
<1>2. CASE lock = w
  <2>1. rows' = view[w] /\ lock' = None
    BY <1>2 DEF Commit
  <2>2. w # None
    BY NoneAssumption
  <2>3. Extends(view[w]) /\ Verifiable(view[w]) /\ IsTable(view[w])
    BY <1>2, <2>2 DEF IInv, TypeOK
  <2>4. TypeOK'
    BY <1>1, <2>1, <2>3, CloseFacts DEF IInv, TypeOK
  <2>5. LogSeals'
    <3> SUFFICES ASSUME NEW s \in DOMAIN rows'
                 PROVE  s \in DOMAIN log' /\ rows'[s].hash = Hash(s, log'[s], rows'[s].prev)
      BY DEF LogSeals, Sealed
    <3>1. /\ s \in DOMAIN log'
          /\ log'[s] = IF s \in DOMAIN rows THEN log[s] ELSE rows'[s].event
      BY DEF Commit
    <3>2. CASE s \in DOMAIN rows
      BY <2>1, <2>3, <3>1, <3>2 DEF IInv, LogSeals, Sealed, Extends
    <3>3. CASE s \notin DOMAIN rows
      BY <2>1, <2>3, <3>1, <3>3 DEF Sealed, Extends
    <3> QED BY <3>2, <3>3
  <2> QED BY <1>1, <2>1, <2>3, <2>4, <2>5 DEF IInv, Verifiable, VerifyOk, RowVerifies
<1>3. CASE lock # w
  <2>1. rows' = rows /\ lock' = lock
    BY <1>3 DEF Commit
  <2>2. lock # None => lock \in Writer /\ view'[lock] = view[lock]
    BY <1>1, <1>3, CloseFacts DEF IInv, TypeOK
  <2>3. TypeOK'
    BY <1>1, <1>3, <2>1, CloseFacts DEF IInv, TypeOK
  <2>4. LogSeals'
    <3>1. \A s \in DOMAIN rows : s \in DOMAIN log' /\ log'[s] = log[s]
      BY <2>1 DEF Commit
    <3> QED BY <2>1, <3>1 DEF IInv, LogSeals, Sealed
  <2> QED BY <1>1, <2>1, <2>2, <2>3, <2>4 DEF IInv, Verifiable, Extends, Sealed
<1> QED BY <1>2, <1>3

\* ROLLBACK keeps it.
LEMMA RollbackInv ==
  ASSUME IInv, NEW w \in Writer, Rollback(w)
  PROVE  IInv'
<1>1. Close(w) /\ UNCHANGED <<rows, log, damaged>>
  BY DEF Rollback
<1>2. TypeOK'
  BY <1>1, CloseFacts DEF Rollback, IInv, TypeOK
<1>3. lock' # None => lock' = lock /\ view'[lock] = view[lock]
  BY <1>1, CloseFacts DEF Rollback, IInv, TypeOK
<1> QED BY <1>1, <1>2, <1>3 DEF IInv, LogSeals, Verifiable, Extends, Sealed

\* Damage neither forges a hash nor changes the log.
LEMMA DamageInv ==
  ASSUME IInv, Damage
  PROVE  IInv'
<1>1. PICK s \in DOMAIN rows : Delete(s) \/ \E e \in Event : Alter(s, e)
  BY DEF Damage
<1>2. damaged' = TRUE /\ lock = None /\ UNCHANGED <<open, view, lock, log>>
  BY <1>1 DEF Delete, Alter
<1>3. CASE Delete(s)
  <2>1. rows' = [x \in DOMAIN rows \ {s} |-> rows[x]]
    BY <1>3 DEF Delete
  <2>2. /\ DOMAIN rows' \subseteq DOMAIN rows /\ rows' = [x \in DOMAIN rows' |-> rows'[x]]
        /\ \A x \in DOMAIN rows' : rows'[x] = rows[x]
    BY <2>1
  <2>3. IsTable(rows')
    BY <2>2 DEF IInv, TypeOK, IsTable
  <2>4. LogSeals'
    BY <1>2, <2>2 DEF IInv, LogSeals, Sealed
  <2> QED BY <1>2, <2>3, <2>4 DEF IInv, TypeOK, Verifiable
<1>4. ASSUME NEW e \in Event, Alter(s, e)
      PROVE  IInv'
  <2>1. rows' = [rows EXCEPT ![s].event = e]
    BY <1>4 DEF Alter
  <2>2. rows = [x \in DOMAIN rows |-> rows[x]]
        /\ rows[s] = [event |-> rows[s].event, prev |-> rows[s].prev, hash |-> rows[s].hash]
    BY DEF IInv, TypeOK, IsTable
  <2>3. /\ DOMAIN rows' = DOMAIN rows /\ rows' = [x \in DOMAIN rows' |-> rows'[x]]
        /\ \A x \in DOMAIN rows \ {s} : rows'[x] = rows[x]
        /\ rows'[s] = [event |-> e, prev |-> rows[s].prev, hash |-> rows[s].hash]
    BY <2>1, <2>2
  <2>4. IsTable(rows')
    BY <2>3 DEF IInv, TypeOK, IsTable
  <2>5. LogSeals'
    BY <1>2, <2>3 DEF IInv, LogSeals, Sealed
  <2> QED BY <1>2, <2>4, <2>5 DEF IInv, TypeOK, Verifiable
<1> QED BY <1>1, <1>3, <1>4

\* Every step keeps it.
LEMMA NextInv == IInv /\ [Next]_vars => IInv'
<1> SUFFICES ASSUME IInv, [Next]_vars PROVE IInv'
  OBVIOUS
<1>1. CASE Next
  BY <1>1, BeginInv, CommitInv, RollbackInv, AppendEventInv, DamageInv DEF Next
<1>2. CASE UNCHANGED vars
  BY <1>2 DEF vars, IInv, TypeOK, LogSeals, Sealed, Verifiable, Extends
<1> QED BY <1>1, <1>2

-----------------------------------------------------------------------------
(* Theorems *)

\* The inductive invariant holds in every state, however many writers there are and
\* whatever is done to the table (ledger.ts append, database.ts transaction).
THEOREM Invariance == Spec => []IInv
BY InitInv, NextInv, PTL DEF Spec

\* The table stays a table of numbered rows, and the write lock is held only by an
\* open transaction (database.ts transaction).
THEOREM TypeCorrect == Spec => []TypeOK
<1>1. IInv => TypeOK
  BY DEF IInv
<1> QED BY <1>1, Invariance, PTL

\* When no caller passes '' in an optional field, the chain that any number of
\* writers leave behind verifies as long as nobody tampers with it (ledger.ts
\* append and verify).
THEOREM UndamagedVerifies ==
  ASSUME EmptyText \notin RequestId
  PROVE  Spec => []ChainVerifies
<1>1. IInv => ChainVerifies
  BY DEF IInv, Verifiable, ChainVerifies
<1> QED BY <1>1, Invariance, PTL

\* Whatever edits and removals happen behind the API, a chain that verifies shows
\* under each number the event last appended under it (ledger.ts verify).
THEOREM VerifiedAsWritten == Spec => []VerifiedIsAsWritten
<1>1. IInv => VerifiedIsAsWritten
  BY DEF IInv, LogSeals, Sealed, VerifiedIsAsWritten, VerifyOk, RowVerifies, Hash
<1> QED BY <1>1, Invariance, PTL

\* No commit, rollback or crash of any writer loses or rewrites a committed event
\* (ledger.ts append, database.ts transaction).
THEOREM NeverRewritten == Spec => AppendOnly
<1> DEFINE Kept == \A s \in DOMAIN rows : s \in DOMAIN rows' /\ rows'[s] = rows[s]
<1>1. ASSUME IInv, [Next]_vars
      PROVE  [Damage \/ Kept]_rows
  <2>1. ASSUME NEW w \in Writer, Commit(w)
        PROVE  Kept
    <3>1. CASE lock = w
      BY <1>1, <2>1, <3>1, NoneAssumption DEF Commit, IInv, Extends
    <3>2. CASE lock # w
      BY <2>1, <3>2 DEF Commit
    <3> QED BY <3>1, <3>2
  <2>2. CASE \/ \E w \in Writer : Begin(w) \/ Rollback(w)
             \/ \E w \in Writer, n \in 0..MaxSeq, e \in Event : AppendEvent(w, n, e)
             \/ UNCHANGED vars
    BY <2>2 DEF Begin, Rollback, AppendEvent, vars
  <2> QED BY <1>1, <2>1, <2>2 DEF Next
<1> QED BY <1>1, Invariance, PTL DEF Spec, AppendOnly
=============================================================================
