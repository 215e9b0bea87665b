---------------------------- MODULE AuditLedger ----------------------------
(***************************************************************************)
(* The hash-chained audit ledger of packages/core/src/audit/ledger.ts over *)
(* the transactions of storage/database.ts.                                *)
(*                                                                         *)
(* Writers are processes that share one SQLite file.  Within a process an  *)
(* append is atomic; across processes it is a deferred transaction: BEGIN, *)
(* the read of the head (which fixes the snapshot), an INSERT (which takes *)
(* the one write lock, or throws when another connection holds it or has   *)
(* committed since the snapshot) and COMMIT.  An append inside an open     *)
(* transaction joins it, so one transaction may append several events.     *)
(*                                                                         *)
(* Rows may also be damaged behind the API's back (Alter, Delete); this is *)
(* what verify() is there to notice.                                       *)
(***************************************************************************)
EXTENDS Naturals

CONSTANTS
  Writer,      \* processes that append
  Content,     \* the required fields of an event: tenant, actor, action, object...
  RequestId,   \* values callers pass in an optional text field
  EmptyText,   \* ''
  MaxSeq,      \* how many rows the model lets the table grow to
  None         \* NULL, or the field left undefined

ASSUME BoundAssumption == MaxSeq \in Nat
ASSUME NoneAssumption  == None \notin Writer \cup RequestId \cup {EmptyText}

VARIABLES
  rows,      \* table audit_events as committed, a function from seq to row
  open,      \* the writers with an open transaction
  view,      \* the table as each open transaction sees it
  lock,      \* who holds SQLite's write lock
  log,       \* history: the event last appended under each number
  damaged    \* history: a committed row was changed or removed behind the API

vars == <<rows, open, view, lock, log, damaged>>

-----------------------------------------------------------------------------
(* Events, rows and hashes *)

Event == [content : Content, requestId : RequestId \cup {None}]

\* rowToEvent: a text column that is NULL or empty leaves its field undefined.
Load(e) == IF e.requestId = EmptyText THEN [e EXCEPT !.requestId = None] ELSE e

\* SHA-256 of the canonical JSON of number, event and previous hash, taken to be
\* injective: the hash is what it is computed from.
Hash(seq, e, prev) == <<seq, e, prev>>
Genesis == <<>>

\* n is the number of the last row, 0 when there is none.
IsHead(t, n) == /\ n = 0 \/ n \in DOMAIN t
                /\ \A s \in DOMAIN t : s <= n

HashAt(t, n) == IF n = 0 THEN Genesis ELSE t[n].hash

\* The row append() writes after row n.
StaleLink(t, n, e) == [event |-> e, prev |-> HashAt(rows, IF n \in DOMAIN rows THEN n ELSE 0),
                       hash |-> Hash(n + 1, e, HashAt(t, n))]               \* mutant

NewRow(t, n, e) == [event |-> e, prev |-> HashAt(t, n),
                    hash |-> Hash(n + 1, e, HashAt(t, n))]

With(t, s, row) == [x \in DOMAIN t \cup {s} |-> IF x = s THEN row ELSE t[x]]

\* The three checks of verify() at row s of table t.
LinkOnly(t, s) ==                                                           \* mutant
  /\ s = 1 \/ s - 1 \in DOMAIN t
  /\ t[s].prev = HashAt(t, s - 1)

RowVerifies(t, s) ==
  /\ s = 1 \/ s - 1 \in DOMAIN t
  /\ t[s].prev = HashAt(t, s - 1)
  /\ t[s].hash = Hash(s, Load(t[s].event), t[s].prev)

\* verify() walks the whole table and returns ok.
VerifyOk(t) == \A s \in DOMAIN t : RowVerifies(t, s)

-----------------------------------------------------------------------------
(* Appending *)

Init ==
  /\ rows = <<>>
  /\ open = {}
  /\ view = [w \in Writer |-> <<>>]
  /\ lock = None
  /\ log = <<>>
  /\ damaged = FALSE

\* BEGIN and the transaction's first read.
Begin(w) ==
  /\ w \notin open
  /\ open' = open \cup {w}
  /\ view' = [view EXCEPT ![w] = rows]
  /\ UNCHANGED <<rows, lock, log, damaged>>

\* What lets a transaction write: it does already, or nobody does and nothing has
\* been committed since its snapshot.
LockIsFree(w) == lock \in {w, None}                                         \* mutant

MayWrite(w) == lock = w \/ (lock = None /\ view[w] = rows)

\* The head is row n of what the transaction sees.
AppendEvent(w, n, e) ==
  /\ w \in open
  /\ MayWrite(w)
  /\ IsHead(view[w], n) /\ n < MaxSeq
  /\ view' = [view EXCEPT ![w] = With(view[w], n + 1, NewRow(view[w], n, e))]
  /\ lock' = w
  /\ UNCHANGED <<rows, open, log, damaged>>

Close(w) == open' = open \ {w} /\ view' = [view EXCEPT ![w] = <<>>]

KeepsLock(w) ==                                                             \* mutant
  /\ w \in open /\ Close(w)
  /\ UNCHANGED <<rows, lock, log, damaged>>

Commit(w) ==
  /\ w \in open /\ Close(w)
  /\ rows' = IF lock = w THEN view[w] ELSE rows
  /\ log' = [s \in DOMAIN log \cup DOMAIN rows' |->
               IF s \in DOMAIN rows' \ DOMAIN rows THEN rows'[s].event ELSE log[s]]
  /\ lock' = IF lock = w THEN None ELSE lock
  /\ UNCHANGED damaged

\* A statement throws (a contended INSERT does not wait; a later check of the
\* caller fails) or the process dies.
Rollback(w) ==
  /\ w \in open /\ Close(w)
  /\ lock' = IF lock = w THEN None ELSE lock
  /\ UNCHANGED <<rows, log, damaged>>

-----------------------------------------------------------------------------
(* Damage behind the API: a committed row is edited in place, or removed *)

Alter(s, e) ==
  /\ lock = None
  /\ rows[s].event # e
  /\ rows' = [rows EXCEPT ![s].event = e]
  /\ damaged' = TRUE
  /\ UNCHANGED <<open, view, lock, log>>

Delete(s) ==
  /\ lock = None
  /\ rows' = [x \in DOMAIN rows \ {s} |-> rows[x]]
  /\ damaged' = TRUE
  /\ UNCHANGED <<open, view, lock, log>>

Damage == \E s \in DOMAIN rows : Delete(s) \/ \E e \in Event : Alter(s, e)

Next ==
  \/ \E w \in Writer :
       \/ Begin(w) \/ Commit(w) \/ Rollback(w)
       \/ \E n \in 0..MaxSeq, e \in Event : AppendEvent(w, n, e)
  \/ Damage

Spec == Init /\ [][Next]_vars

-----------------------------------------------------------------------------
(* Properties *)

\* A table of audit_events: numbered rows, of which hash and prev may hold a hash of
\* any depth.
IsTable(t) ==
  /\ t = [s \in DOMAIN t |-> t[s]]
  /\ DOMAIN t \subseteq 1..MaxSeq
  /\ \A s \in DOMAIN t :
       /\ t[s] = [event |-> t[s].event, prev |-> t[s].prev, hash |-> t[s].hash]
       /\ t[s].event \in Event

\* The shape of the state; the write lock is held only from inside a transaction
\* (database.ts transaction).
TypeOK ==
  /\ IsTable(rows)
  /\ open \subseteq Writer
  /\ view = [w \in Writer |-> view[w]]
  /\ \A w \in Writer : IsTable(view[w])
  /\ lock \in open \cup {None}
  /\ damaged \in BOOLEAN

\* However transactions of several processes interleave, fail or append more than
\* one event, the chain they leave behind verifies (ledger.ts append and verify).
ChainVerifies == ~damaged => VerifyOk(rows)

\* A chain that verifies shows under each number the event last appended under it:
\* no edit and no removal of an earlier row passes (ledger.ts verify).
VerifiedIsAsWritten ==
  VerifyOk(rows) => \A s \in DOMAIN rows : Load(rows[s].event) = log[s]

\* The API never loses or rewrites a committed event (ledger.ts append).
AppendOnly ==
  [][\/ Damage
     \/ \A s \in DOMAIN rows : s \in DOMAIN rows' /\ rows'[s] = rows[s]]_rows
=============================================================================
