------------------------- MODULE ObservatoryProofs -------------------------
(***************************************************************************)
(* Theorems about the database's migrations and the observatory, for any   *)
(* processes, migrations, models, prompts and numbers of saves, runs and   *)
(* erasures.                                                               *)
(***************************************************************************)
EXTENDS Observatory, FiniteSetTheorems, WellFoundedInduction, TLAPS

-----------------------------------------------------------------------------
(* Least and greatest numbers *)

\* A set of natural numbers that is not empty has a least one.
LEMMA LeastExists ==
  ASSUME NEW S \in SUBSET Nat, S # {}
  PROVE  \E x \in S : \A y \in S : x <= y
<1>1. PICK x \in S : \A y \in S : ~ (<<y, x>> \in OpToRel(<, Nat))
  BY NatLessThanWellFounded, WFMin, Zenon
<1>2. \A y \in S : ~ (y < x)
  BY <1>1, Zenon DEF OpToRel
<1> QED BY <1>2

\* A set of natural numbers with a bound has a greatest one, which Max chooses.
LEMMA MaxGreatest ==
  ASSUME NEW n \in Nat, NEW S \in SUBSET (0 .. n), S # {}
  PROVE  Max(S) \in S /\ \A y \in S : y <= Max(S)
<1> DEFINE bounds == {b \in Nat : \A y \in S : y <= b}
<1>1. n \in bounds
  OBVIOUS
<1>2. PICK b \in bounds : \A c \in bounds : b <= c
  BY <1>1, LeastExists
<1>3. b \in S
  <2> SUFFICES ASSUME b \notin S PROVE FALSE
    OBVIOUS
  <2>1. \A y \in S : y <= b - 1
    BY <1>2
  <2>2. b - 1 \in Nat
    <3>1. PICK y \in S : TRUE
      OBVIOUS
    <3> QED BY <1>2, <2>1, <3>1
  <2>3. b - 1 \in bounds
    BY <2>1, <2>2
  <2> QED BY <1>2, <2>3
<1>4. \A y \in S : b >= y
  BY <1>2
<1>5. \E x \in S : \A y \in S : x >= y
  BY <1>3, <1>4
<1> DEFINE m == Max(S)
<1>6. m \in S /\ \A y \in S : m >= y
  BY <1>5 DEF Max
<1> QED BY <1>6

-----------------------------------------------------------------------------
(* The migrations *)

\* What an opening process has yet to apply covers what the database lacks.
SchemaInv ==
  /\ process = [p \in Process |-> process[p]] /\ missing = [p \in Process |-> missing[p]]
  /\ applied \subseteq 1 .. Versions
  /\ \A p \in Process : missing[p] \subseteq 1 .. Versions
  /\ \A p \in Process : process[p] = "opening" => 1 .. Versions \subseteq applied \cup missing[p]
  /\ SchemaReady

\* The next migration is one of those that are missing.
LEMMA FirstMissing ==
  ASSUME SchemaInv, NEW p \in Process, missing[p] # {}
  PROVE  First(p) \in missing[p]
<1>1. missing[p] \in SUBSET Nat
  BY DatabaseAssumption DEF SchemaInv
<1>2. \E v \in missing[p] : \A w \in missing[p] : v <= w
  BY <1>1, LeastExists
<1> QED BY <1>2 DEF First

\* Opening, migrating, failing, having opened and crashing keep it.
LEMMA SchemaKept ==
  ASSUME SchemaInv, [SchemaNext \/ \E p \in Process : Crash(p)]_schema
  PROVE  SchemaInv'
<1>1. ASSUME NEW p \in Process, Open(p) PROVE SchemaInv'
  BY <1>1 DEF SchemaInv, SchemaReady, Open
<1>2. ASSUME NEW p \in Process, Migrated(p) PROVE SchemaInv'
  <2> DEFINE v == First(p)
  <2>1. /\ process[p] = "opening" /\ applied' = applied \cup {v} /\ v \notin applied
        /\ missing' = [missing EXCEPT ![p] = @ \ {v}] /\ UNCHANGED process
    BY <1>2 DEF Migrated
  <2>2. v \in missing[p] /\ v \in 1 .. Versions
    BY <1>2, FirstMissing DEF Migrated, SchemaInv
  <2> HIDE DEF v
  <2> QED BY <2>1, <2>2 DEF SchemaInv, SchemaReady
<1>3. ASSUME NEW p \in Process, Thrown(p), UNCHANGED applied PROVE SchemaInv'
  BY <1>3 DEF SchemaInv, SchemaReady, Thrown
<1>4. ASSUME NEW p \in Process, Opened(p) PROVE SchemaInv'
  BY <1>4 DEF SchemaInv, SchemaReady, Opened
<1>5. CASE UNCHANGED schema
  BY <1>5 DEF SchemaInv, SchemaReady, schema
<1> QED BY <1>1, <1>2, <1>3, <1>4, <1>5 DEF SchemaNext, MigrationFails, Crash

\* What steps change of the schema.
LEMMA SchemaSteps == [Next]_vars => [SchemaNext \/ \E p \in Process : Crash(p)]_schema
BY DEF Next, vars, Save, Saved, Begin, Run, Ask, AskFails, Denied, Answered, RecordFails, CallFails, FailureRecorded,
       Insert, InsertFails, End, Becomes, Erase

\* A database that is open has every migration, whoever applied them, in whatever order
\* processes open it, fail or stop (database.ts openDatabase, migrations.ts).
THEOREM SchemaIsReady == Spec => []SchemaReady
<1>1. Init => SchemaInv
  BY DEF Init, SchemaInit, SchemaInv, SchemaReady
<1>2. SchemaInv /\ [Next]_vars => SchemaInv'
  BY SchemaKept, SchemaSteps
<1>3. SchemaInv => SchemaReady
  BY DEF SchemaInv
<1> QED BY <1>1, <1>2, <1>3, PTL DEF Spec

-----------------------------------------------------------------------------
(* Query sets *)

Ids == 1 .. saved

\* Every id and version of a set, stored or about to be, is at most the number of saves.
SetsNumbered ==
  /\ saved \in Nat /\ saves = [p \in Process |-> saves[p]]
  /\ \A s \in sets : s.id \in Ids /\ s.version \in Ids
  /\ \A p \in Process : saves[p] # None => saves[p].id \in Ids /\ saves[p].version \in Ids

\* While no erasure has torn a save, the version of a set about to be inserted is taken
\* or above all the stored ones, and at most one above the newest.
VersionsAhead ==
  ~torn => \A p \in Process : saves[p] # None =>
    /\ Taken(saves[p]) \/ \A t \in sets : saves[p].version > t.version
    /\ saves[p].version = 1 \/ \E t \in sets : t.version >= saves[p].version - 1

SavesInv == SetsNumbered /\ VersionsAhead

\* A save reads the newest version there is.
LEMMA NewestRead ==
  ASSUME SetsNumbered
  PROVE  LET v == Max({0} \cup {s.version : s \in sets})
         IN  /\ v \in 0 .. saved /\ \A s \in sets : s.version <= v
             /\ v = 0 \/ \E s \in sets : s.version = v
<1> DEFINE S == {0} \cup {s.version : s \in sets}
<1>1. S \in SUBSET (0 .. saved) /\ S # {} /\ saved \in Nat
  BY DEF SetsNumbered, Ids
<1>2. Max(S) \in S /\ \A y \in S : y <= Max(S)
  <2> HIDE DEF S
  <2> QED BY <1>1, MaxGreatest
<1> QED BY <1>1, <1>2

\* A save chooses a version above all the stored ones, by one.
LEMMA SaveInv ==
  ASSUME SavesInv, NEW p \in Process, Save(p)
  PROVE  SavesInv'
<1> DEFINE v == Max({0} \cup {s.version : s \in sets})
           row == [id |-> saved + 1, version |-> v + 1]
<1>1. /\ saved' = saved + 1 /\ saves' = [saves EXCEPT ![p] = row] /\ UNCHANGED <<sets, torn>>
  BY DEF Save, rows
<1>2. /\ v \in 0 .. saved /\ \A s \in sets : s.version <= v
      /\ v = 0 \/ \E s \in sets : s.version = v
  BY NewestRead DEF SavesInv
<1>3. row.id = saved + 1 /\ row.version = v + 1
  OBVIOUS
<1> HIDE DEF row, v
<1>4. saved \in Nat /\ Ids' = 1 .. saved + 1 /\ Ids \subseteq Ids'
  BY <1>1 DEF SavesInv, SetsNumbered, Ids
<1>5. row.id \in Ids' /\ row.version \in Ids'
  BY <1>2, <1>3, <1>4
<1>6. \A t \in sets : t.version \in Nat /\ row.version > t.version
  BY <1>2, <1>3, <1>4 DEF SavesInv, SetsNumbered, Ids
<1>7. row.version = 1 \/ \E t \in sets : t.version >= row.version - 1
  BY <1>2, <1>3, <1>4
<1>8. SetsNumbered'
  BY <1>1, <1>4, <1>5 DEF SavesInv, SetsNumbered
<1>9. VersionsAhead'
  <2> SUFFICES ASSUME ~torn, NEW q \in Process, saves'[q] # None
               PROVE  /\ Taken(saves'[q]) \/ \A t \in sets : saves'[q].version > t.version
                      /\ saves'[q].version = 1 \/ \E t \in sets : t.version >= saves'[q].version - 1
    BY <1>1 DEF VersionsAhead, Taken
  <2>1. CASE q = p
    BY <1>1, <1>6, <1>7, <2>1 DEF SavesInv, SetsNumbered
  <2>2. CASE q # p
    BY <1>1, <2>2 DEF SavesInv, SetsNumbered, VersionsAhead
  <2> QED BY <2>1, <2>2
<1> QED BY <1>8, <1>9 DEF SavesInv

\* Of the saves that read the same newest version, the first inserts its row, and the
\* others find their version taken.
LEMMA SavedInv ==
  ASSUME SavesInv, NEW p \in Process, Saved(p)
  PROVE  /\ SavesInv'
         /\ ~torn => \A s \in sets' \ sets, t \in sets : s.version > t.version
<1> DEFINE row == saves[p]
<1>1. /\ row # None /\ saves' = [saves EXCEPT ![p] = None] /\ UNCHANGED <<saved, torn>>
      /\ \/ sets' = sets
         \/ ~Taken(row) /\ sets' = sets \cup {row}
  BY DEF Saved
<1>2. row.id \in Ids /\ row.version \in Ids
  BY <1>1 DEF SavesInv, SetsNumbered
<1>3. /\ saved \in Nat /\ Ids' = Ids
      /\ \A q \in Process : saves'[q] # None => saves'[q] = saves[q] /\ saves[q].version \in Nat
      /\ \A t \in sets : t.version \in Nat
  BY <1>1 DEF SavesInv, SetsNumbered, Ids
<1>4. SetsNumbered'
  BY <1>1, <1>2, <1>3 DEF SavesInv, SetsNumbered
<1>5. ~torn => /\ Taken(row) \/ \A t \in sets : row.version > t.version
               /\ row.version = 1 \/ \E t \in sets : t.version >= row.version - 1
  BY <1>1 DEF SavesInv, VersionsAhead
<1> HIDE DEF row
<1>6. VersionsAhead'
  <2> SUFFICES ASSUME ~torn, NEW q \in Process, saves'[q] # None
               PROVE  /\ \/ \E t \in sets' : t.version = saves[q].version
                         \/ \A t \in sets' : saves[q].version > t.version
                      /\ saves[q].version = 1 \/ \E t \in sets' : t.version >= saves[q].version - 1
    BY <1>1, <1>3 DEF VersionsAhead, Taken
  <2> DEFINE w == saves[q].version
  <2>1. /\ Taken(saves[q]) \/ \A t \in sets : w > t.version
        /\ w = 1 \/ \E t \in sets : t.version >= w - 1
        /\ w \in Nat /\ w >= 1
    BY <1>3 DEF SavesInv, VersionsAhead, SetsNumbered, Ids
  <2>2. Taken(saves[q]) <=> \E t \in sets : t.version = w
    BY DEF Taken
  <2> HIDE DEF w
  <2>3. CASE sets' = sets
    BY <2>1, <2>2, <2>3 DEF w
  <2>4. CASE ~Taken(row) /\ sets' = sets \cup {row}
    <3>1. w > row.version \/ w = row.version \/ \E t \in sets : t.version = w
      <4>1. CASE \E t \in sets : t.version = w
        BY <4>1
      <4>2. CASE /\ \A t \in sets : w > t.version
                 /\ row.version = 1 \/ \E t \in sets : t.version >= row.version - 1
        BY <1>2, <1>3, <2>1, <4>2 DEF Ids
      <4> QED BY <1>5, <2>1, <2>2, <4>1, <4>2
    <3> QED BY <2>1, <2>2, <2>4, <3>1 DEF w
  <2> QED BY <1>1, <2>3, <2>4
<1>7. ~torn => \A s \in sets' \ sets, t \in sets : s.version > t.version
  BY <1>1, <1>5
<1> QED BY <1>4, <1>6, <1>7 DEF SavesInv

\* The other steps save nothing: they forget saves, or erase the sets and leave the
\* history torn if a save was under way.
LEMMA OthersSaveNothing ==
  ASSUME SavesInv, UNCHANGED saved,
         \/ /\ UNCHANGED <<sets, torn>>
            /\ UNCHANGED saves \/ \E p \in Process : saves' = [saves EXCEPT ![p] = None]
         \/ \E p \in Process : Erase(p)
  PROVE  /\ SavesInv'
         /\ ~torn => \A s \in sets' \ sets, t \in sets : s.version > t.version
<1>1. CASE UNCHANGED <<sets, torn, saves>>
  BY <1>1 DEF SavesInv, SetsNumbered, VersionsAhead, Taken, Ids
<1>2. CASE UNCHANGED <<sets, torn>> /\ \E p \in Process : saves' = [saves EXCEPT ![p] = None]
  <2>1. /\ saves' = [p \in Process |-> saves'[p]]
        /\ \A q \in Process : saves'[q] # None => saves'[q] = saves[q]
    BY <1>2 DEF SavesInv, SetsNumbered
  <2> QED BY <1>2, <2>1 DEF SavesInv, SetsNumbered, VersionsAhead, Taken, Ids
<1>3. ASSUME NEW p \in Process, Erase(p) PROVE SavesInv' /\ sets' = {}
  <2>1. /\ sets' = {} /\ UNCHANGED <<saves, saved>>
        /\ ~torn' => \A q \in Process : saves[q] = None
    BY <1>3 DEF Erase
  <2> QED BY <2>1 DEF SavesInv, SetsNumbered, VersionsAhead, Ids
<1> QED BY <1>1, <1>2, <1>3

\* Which steps touch the query sets and the saves.
LEMMA SetSteps ==
  ASSUME [Next]_vars
  PROVE  \/ \E p \in Process : Save(p) \/ Saved(p)
         \/ /\ UNCHANGED saved
            /\ \/ /\ UNCHANGED <<sets, torn>>
                  /\ UNCHANGED saves \/ \E p \in Process : saves' = [saves EXCEPT ![p] = None]
               \/ \E p \in Process : Erase(p)
BY DEF Next, vars, rows, Begin, Run, Ask, AskFails, Denied, Answered, RecordFails, CallFails, FailureRecorded,
       Insert, InsertFails, End, Becomes, Erase, Crash

\* Every step keeps the numbering of the sets, and what it inserts is the newest.
LEMMA SavesKept ==
  ASSUME SavesInv, [Next]_vars
  PROVE  /\ SavesInv'
         /\ ~torn => \A s \in sets' \ sets, t \in sets : s.version > t.version
<1>1. ASSUME NEW p \in Process, Save(p)
      PROVE  SavesInv' /\ sets' = sets
  BY <1>1, SaveInv DEF Save, rows
<1> QED BY <1>1, SavedInv, OthersSaveNothing, SetSteps

\* Nothing is saved at first.
LEMMA SavesInit == Init => SavesInv
BY DEF Init, SavesInv, SetsNumbered, VersionsAhead

\* A version that is stored is above all those stored before it, however many processes
\* save sets of its name at once; unless the sets were erased under a save (runner.ts
\* saveQuerySet).
THEOREM VersionsGrow == Spec => NewestOnTop
<1>1. Spec => []SavesInv
  BY SavesInit, SavesKept, PTL DEF Spec
<1>2. SavesInv /\ [Next]_vars =>
        [~torn => \A s \in sets' \ sets, t \in sets : s.version > t.version]_vars
  BY SavesKept
<1> QED BY <1>1, <1>2, PTL DEF Spec, NewestOnTop

-----------------------------------------------------------------------------
(* Runs *)

Outcome == [1 .. Models -> Nat]
RunRecord ==
  [process : Process, id : Nat, set : Nat, since : Nat, models : 1 .. Models,
   model : 1 .. Models + 1, prompt : 1 .. Prompts, at : {"ask", "model", "failed", "insert"},
   asked : Nat, denied : Nat, counted : Outcome, errors : Outcome]

RunsTyped ==
  /\ started \in Nat /\ erasures \in Nat /\ runs = [k \in Slot |-> runs[k]]
  /\ \A k \in Slot : runs[k] # None =>
       /\ runs[k] \in RunRecord /\ runs[k].since <= erasures
       /\ runs[k].at # "ask" => runs[k].model <= Models

\* n goes on with the run r: it is the same run, of the same query set.
GoesOn(r, n) ==
  /\ n \in RunRecord /\ n.id = r.id /\ n.set = r.set /\ n.since = r.since
  /\ n.at # "ask" => n.model <= Models

\* n has the counts of r.
SameCounts(r, n) == n.denied = r.denied /\ n.counted = r.counted /\ n.errors = r.errors

\* The next model, with its first prompt.
LEMMA NextModelGoesOn ==
  ASSUME NEW r \in RunRecord, r.model <= Models
  PROVE  LET n == NextModel(r)
         IN  /\ GoesOn(r, n) /\ SameCounts(r, n) /\ n.at = "ask"
             /\ n.model = r.model + 1 /\ n.prompt = 1
<1>1. Models \in Nat /\ Prompts \in Nat \ {0} /\ r.model \in Nat
  BY ObservatoryAssumption DEF RunRecord
<1>2. PICK m \in 1 .. Models + 1 : m = r.model + 1
  BY <1>1 DEF RunRecord
<1>3. NextModel(r) = [r EXCEPT !.model = m, !.prompt = 1, !.at = "ask"]
  BY <1>2 DEF NextModel
<1>4. 1 \in 1 .. Prompts
  BY <1>1
<1> DEFINE n == [r EXCEPT !.model = m, !.prompt = 1, !.at = "ask"]
<1>5. n \in RunRecord /\ n.model = m /\ n.prompt = 1 /\ n.at = "ask"
  BY <1>4 DEF RunRecord
<1>6. n.id = r.id /\ n.set = r.set /\ n.since = r.since /\ SameCounts(r, n)
  BY DEF RunRecord, SameCounts
<1> HIDE DEF n
<1> QED BY <1>2, <1>3, <1>5, <1>6 DEF GoesOn, n

\* The next prompt, or the next model after the last prompt.
LEMMA NextPromptGoesOn ==
  ASSUME NEW r \in RunRecord, r.model <= Models
  PROVE  LET n == NextPrompt(r)
         IN  /\ GoesOn(r, n) /\ SameCounts(r, n) /\ n.at = "ask"
             /\ \/ r.prompt < Prompts /\ n.model = r.model /\ n.prompt = r.prompt + 1
                \/ r.prompt = Prompts /\ n.model = r.model + 1 /\ n.prompt = 1
<1>1. Prompts \in Nat \ {0} /\ r.prompt \in 1 .. Prompts
  BY ObservatoryAssumption DEF RunRecord
<1>2. CASE r.prompt < Prompts
  <2>1. PICK q \in 1 .. Prompts : q = r.prompt + 1
    BY <1>1, <1>2
  <2>2. NextPrompt(r) = [r EXCEPT !.prompt = q, !.at = "ask"]
    BY <1>2, <2>1 DEF NextPrompt
  <2> QED BY <1>2, <2>1, <2>2 DEF RunRecord, GoesOn, SameCounts
<1>3. CASE ~(r.prompt < Prompts)
  <2>1. NextPrompt(r) = NextModel(r) /\ r.prompt = Prompts
    BY <1>1, <1>3 DEF NextPrompt
  <2> QED BY <2>1, NextModelGoesOn
<1> QED BY <1>2, <1>3

\* counts, with one more of model m.
OneMore(counts, m) == [counts EXCEPT ![m] = @ + 1]

\* Counting one more keeps the shape of the counts, and the count of every other model.
LEMMA OneMoreCounted ==
  ASSUME NEW counts \in Outcome, NEW m \in 1 .. Models
  PROVE  /\ OneMore(counts, m) \in Outcome /\ OneMore(counts, m)[m] = counts[m] + 1
         /\ \A k \in 1 .. Models : k # m => OneMore(counts, m)[k] = counts[k]
BY DEF Outcome, OneMore

\* A run whose call was recorded, and whose answer is to be inserted.
Inserting(r) == [r EXCEPT !.at = "insert"]
\* A run whose call has failed, which is to be recorded.
Failing(r) == [r EXCEPT !.at = "failed"]
\* A run that asks its model.
AskingNow(r) == [r EXCEPT !.at = "model", !.asked = erasures]
\* A run that has counted an answer, an error or a denial of its model.
Counted(r)  == [r EXCEPT !.counted[r.model] = @ + 1]
Errored(r)  == [r EXCEPT !.errors[r.model] = @ + 1]
WasDenied(r) == [r EXCEPT !.denied = @ + 1]

\* What each of these leaves as it is.
LEMMA RunUpdates ==
  ASSUME NEW r \in RunRecord, r.model <= Models, erasures \in Nat
  PROVE  /\ LET n == Inserting(r)
            IN  /\ GoesOn(r, n) /\ SameCounts(r, n) /\ n.at = "insert"
                /\ n.model = r.model /\ n.prompt = r.prompt
         /\ LET n == Failing(r)
            IN  /\ GoesOn(r, n) /\ SameCounts(r, n) /\ n.at = "failed" /\ n.asked = r.asked
                /\ n.model = r.model /\ n.prompt = r.prompt
         /\ LET n == AskingNow(r)
            IN  /\ GoesOn(r, n) /\ SameCounts(r, n) /\ n.at = "model" /\ n.asked = erasures
                /\ n.model = r.model /\ n.prompt = r.prompt
         /\ LET n == Counted(r)
            IN  /\ GoesOn(r, n) /\ n.model = r.model /\ n.prompt = r.prompt
                /\ n.counted = OneMore(r.counted, r.model) /\ n.errors = r.errors
                /\ n.denied = r.denied
         /\ LET n == Errored(r)
            IN  /\ GoesOn(r, n) /\ n.model = r.model /\ n.prompt = r.prompt
                /\ n.errors = OneMore(r.errors, r.model) /\ n.counted = r.counted
                /\ n.denied = r.denied
         /\ LET n == WasDenied(r)
            IN  /\ GoesOn(r, n) /\ n.model = r.model /\ n.prompt = r.prompt
                /\ n.counted = r.counted /\ n.errors = r.errors /\ n.denied = r.denied + 1
<1>1. r.model \in 1 .. Models /\ r.counted \in Outcome /\ r.errors \in Outcome
  BY ObservatoryAssumption DEF RunRecord
<1>2. PICK counted \in Outcome : counted = OneMore(r.counted, r.model)
  BY <1>1, OneMoreCounted
<1>3. PICK errors \in Outcome : errors = OneMore(r.errors, r.model)
  BY <1>1, OneMoreCounted
<1>4. PICK denied \in Nat : denied = r.denied + 1
  BY DEF RunRecord
<1>5. Counted(r) = [r EXCEPT !.counted = counted]
  BY <1>2 DEF Counted, OneMore
<1>6. Errored(r) = [r EXCEPT !.errors = errors]
  BY <1>3 DEF Errored, OneMore
<1>7. WasDenied(r) = [r EXCEPT !.denied = denied]
  BY <1>4 DEF WasDenied
<1>8. Inserting(r) \in RunRecord /\ Failing(r) \in RunRecord /\ AskingNow(r) \in RunRecord
  BY DEF RunRecord, Inserting, Failing, AskingNow
<1>9. /\ GoesOn(r, Inserting(r)) /\ SameCounts(r, Inserting(r))
      /\ GoesOn(r, Failing(r)) /\ SameCounts(r, Failing(r))
      /\ GoesOn(r, AskingNow(r)) /\ SameCounts(r, AskingNow(r))
  BY <1>8 DEF RunRecord, GoesOn, SameCounts, Inserting, Failing, AskingNow
<1>10. GoesOn(r, Counted(r)) /\ GoesOn(r, Errored(r)) /\ GoesOn(r, WasDenied(r))
  BY <1>2, <1>3, <1>4, <1>5, <1>6, <1>7 DEF RunRecord, GoesOn
<1> QED BY <1>2, <1>3, <1>4, <1>5, <1>6, <1>7, <1>9, <1>10
           DEF RunRecord, Inserting, Failing, AskingNow

-----------------------------------------------------------------------------
(* What the steps of a run do to it and to the tables *)

Stays(r, n) == n.model = r.model /\ n.prompt = r.prompt

Advances(r, n) ==
  /\ n.at = "ask"
  /\ \/ r.prompt < Prompts /\ n.model = r.model /\ n.prompt = r.prompt + 1
     \/ r.prompt = Prompts /\ n.model = r.model + 1 /\ n.prompt = 1

Asks(r, n) ==
  r.at = "ask" /\ n.at = "model" /\ n.asked = erasures /\ SameCounts(r, n) /\ Stays(r, n)

LeavesOut(r, n) ==
  /\ r.at = "ask" /\ n.at = "ask" /\ n.model = r.model + 1 /\ n.prompt = 1
  /\ n.denied = r.denied + 1 /\ n.counted = r.counted /\ n.errors = r.errors

IsAnswered(r, n) == r.at = "model" /\ n.at = "insert" /\ SameCounts(r, n) /\ Stays(r, n)

Loses(r, n) ==
  r.at = "model" /\ n.at = "failed" /\ n.asked = r.asked /\ SameCounts(r, n) /\ Stays(r, n)

Fails(r, n) ==
  /\ r.at \in {"ask", "failed"} /\ Advances(r, n) /\ n.errors = OneMore(r.errors, r.model)
  /\ n.counted = r.counted /\ n.denied = r.denied

Inserts(r, n) ==
  /\ r.at = "insert" /\ Advances(r, n) /\ n.counted = OneMore(r.counted, r.model)
  /\ n.errors = r.errors /\ n.denied = r.denied

CallOf(r, status) ==
  [run |-> r.id, model |-> r.model, prompt |-> r.prompt, asked |-> r.asked, status |-> status]
ObservationOf(r) ==
  [set |-> r.set, run |-> r.id, model |-> r.model, prompt |-> r.prompt, since |-> r.since]

\* The run r goes on as n.  It may record its call, as answered or as failed.
Records(r, status) == calls' = calls \cup {CallOf(r, status)} /\ UNCHANGED observations

RunStep(r, n) ==
  /\ r.model <= Models /\ GoesOn(r, n)
  /\ \/ /\ Asks(r, n) \/ LeavesOut(r, n) \/ Loses(r, n) \/ Fails(r, n)
        /\ UNCHANGED <<observations, calls>>
     \/ (IsAnswered(r, n) \/ Loses(r, n)) /\ Records(r, "ok")
     \/ Fails(r, n) /\ r.at = "failed" /\ Records(r, "error")
     \/ /\ Inserts(r, n) /\ SetStored(r)
        /\ observations' = observations \cup {ObservationOf(r)} /\ UNCHANGED calls

\* Every step of a run ends it or takes it on, and touches no other run.
LEMMA RunSteps ==
  ASSUME RunsTyped, NEW k \in Slot, Run(k)
  PROVE  /\ runs[k] # None /\ runs[k] \in RunRecord
         /\ UNCHANGED <<sets, saves, saved, started, erasures, torn>>
         /\ \E n : /\ runs' = [runs EXCEPT ![k] = n]
                   /\ (n = None /\ UNCHANGED <<observations, calls>>) \/ RunStep(runs[k], n)
<1> DEFINE r == runs[k]
<1>1. /\ r # None /\ r \in RunRecord /\ (r.at # "ask" => r.model <= Models) /\ erasures \in Nat
  <2>1. r # None
    BY DEF Run, Ask, AskFails, Denied, Answered, RecordFails, CallFails, FailureRecorded,
           Insert, InsertFails, End, Asking, At
  <2> QED BY <2>1 DEF RunsTyped
<1>2. UNCHANGED <<sets, saves, saved, started, erasures, torn>>
  BY DEF Run, Ask, AskFails, Denied, Answered, RecordFails, CallFails, FailureRecorded,
         Insert, InsertFails, End, Becomes
<1>3. Asking(k) => r.at = "ask" /\ r.model <= Models
  BY <1>1, ObservatoryAssumption DEF Asking, At, RunRecord
<1>4. CASE \/ Becomes(k, None) /\ UNCHANGED <<observations, calls>>
  BY <1>1, <1>2, <1>4 DEF Becomes
<1>5. CASE Ask(k)
  <2>1. /\ r.at = "ask" /\ r.model <= Models /\ runs' = [runs EXCEPT ![k] = AskingNow(r)]
        /\ UNCHANGED <<observations, calls>>
    BY <1>3, <1>5 DEF Ask, Becomes, AskingNow
  <2>2. RunStep(r, AskingNow(r))
    BY <1>1, <2>1, RunUpdates DEF RunStep, Asks, Stays
  <2> QED BY <1>1, <1>2, <2>1, <2>2
<1>6. CASE Asking(k) /\ Becomes(k, ModelDenied(r)) /\ UNCHANGED <<observations, calls>>
  <2> DEFINE d == WasDenied(r)
             n == NextModel(d)
  <2>1. /\ r.at = "ask" /\ r.model <= Models /\ runs' = [runs EXCEPT ![k] = n]
        /\ UNCHANGED <<observations, calls>>
    BY <1>3, <1>6 DEF Becomes, ModelDenied, WasDenied
  <2>2. /\ GoesOn(r, d) /\ d.model = r.model /\ d.counted = r.counted /\ d.errors = r.errors
        /\ d.denied = r.denied + 1
    BY <1>1, <2>1, RunUpdates
  <2> HIDE DEF d
  <2>3. /\ GoesOn(d, n) /\ SameCounts(d, n) /\ n.at = "ask" /\ n.model = d.model + 1 /\ n.prompt = 1
    BY <2>1, <2>2, NextModelGoesOn DEF GoesOn
  <2> HIDE DEF n
  <2>4. RunStep(r, n)
    BY <2>1, <2>2, <2>3 DEF RunStep, LeavesOut, GoesOn, SameCounts
  <2> QED BY <1>1, <1>2, <2>1, <2>4
<1>7. CASE Answered(k)
  <2>1. r.at = "model" /\ runs' = [runs EXCEPT ![k] = Inserting(r)] /\ Records(r, "ok")
    BY <1>7 DEF Answered, At, Becomes, Recorded, CallOf, Records, Inserting
  <2>2. RunStep(r, Inserting(r))
    BY <1>1, <2>1, RunUpdates DEF RunStep, IsAnswered, Stays
  <2> QED BY <1>1, <1>2, <2>1, <2>2
<1>8. CASE RecordFails(k) \/ CallFails(k)
  <2>1. /\ r.at = "model" /\ runs' = [runs EXCEPT ![k] = Failing(r)]
        /\ Records(r, "ok") \/ UNCHANGED <<observations, calls>>
    BY <1>8 DEF RecordFails, CallFails, At, Becomes, AnswerLost, Failing, Recorded, CallOf, Records
  <2>2. RunStep(r, Failing(r))
    BY <1>1, <2>1, RunUpdates DEF RunStep, Loses, Stays
  <2> QED BY <1>1, <1>2, <2>1, <2>2
<1>9. CASE AskFails(k) \/ FailureRecorded(k)
  <2> DEFINE d == Errored(r)
             n == NextPrompt(d)
  <2>1. /\ r.at \in {"ask", "failed"} /\ r.model <= Models /\ runs' = [runs EXCEPT ![k] = n]
        /\ \/ r.at = "failed" /\ Records(r, "error")
           \/ UNCHANGED <<observations, calls>>
    BY <1>1, <1>3, <1>9 DEF AskFails, FailureRecorded, At, Becomes, Recorded, CallOf, Records,
                            PromptFailed, Errored
  <2>2. /\ GoesOn(r, d) /\ Stays(r, d) /\ d.errors = OneMore(r.errors, r.model)
        /\ d.counted = r.counted /\ d.denied = r.denied
    BY <1>1, <2>1, RunUpdates DEF Stays
  <2> HIDE DEF d
  <2>3. GoesOn(d, n) /\ SameCounts(d, n) /\ Advances(d, n)
    BY <1>1, <2>1, <2>2, NextPromptGoesOn DEF GoesOn, Stays, Advances
  <2> HIDE DEF n
  <2>4. RunStep(r, n)
    BY <1>1, <2>1, <2>2, <2>3 DEF RunStep, Fails, GoesOn, SameCounts, Stays, Advances
  <2> QED BY <1>1, <1>2, <2>1, <2>4
<1>10. CASE Insert(k)
  <2> DEFINE d == Counted(r)
             n == NextPrompt(d)
  <2>1. /\ r.at = "insert" /\ runs' = [runs EXCEPT ![k] = n] /\ SetStored(r)
        /\ observations' = observations \cup {ObservationOf(r)} /\ UNCHANGED calls
    BY <1>10 DEF Insert, At, Becomes, ObservationOf, Counted
  <2>2. /\ GoesOn(r, d) /\ Stays(r, d) /\ d.counted = OneMore(r.counted, r.model)
        /\ d.errors = r.errors /\ d.denied = r.denied
    BY <1>1, <2>1, RunUpdates DEF Stays
  <2> HIDE DEF d
  <2>3. GoesOn(d, n) /\ SameCounts(d, n) /\ Advances(d, n)
    BY <1>1, <2>1, <2>2, NextPromptGoesOn DEF GoesOn, Stays, Advances
  <2> HIDE DEF n
  <2>4. RunStep(r, n)
    BY <1>1, <2>1, <2>2, <2>3 DEF RunStep, Inserts, GoesOn, SameCounts, Stays, Advances
  <2> QED BY <1>1, <1>2, <2>1, <2>4
<1>11. \/ Becomes(k, None) /\ UNCHANGED <<observations, calls>>
       \/ Ask(k) \/ Answered(k) \/ RecordFails(k) \/ CallFails(k) \/ Insert(k)
       \/ AskFails(k) \/ FailureRecorded(k)
       \/ Asking(k) /\ Becomes(k, ModelDenied(r)) /\ UNCHANGED <<observations, calls>>
  BY DEF Run, Denied, InsertFails, End
<1> QED BY <1>4, <1>5, <1>6, <1>7, <1>8, <1>9, <1>10, <1>11

\* A run that begins, with a set that is stored.
NewRun(n) ==
  /\ n \in RunRecord /\ \E q \in sets : q.id = n.set
  /\ n.id = started + 1 /\ n.since = erasures /\ n.at = "ask" /\ n.model = 1 /\ n.prompt = 1
  /\ n.denied = 0 /\ n.counted = Outcomes /\ n.errors = Outcomes

\* A run that begins takes the next number and starts with its first model; nothing else
\* changes.
LEMMA BeginStep ==
  ASSUME SetsNumbered, RunsTyped, NEW p \in Process, NEW k \in Slot, Begin(p, k)
  PROVE  /\ started' \in Nat /\ started' > started /\ UNCHANGED <<rows, saves, saved, erasures>>
         /\ \E n : NewRun(n) /\ runs' = [runs EXCEPT ![k] = n]
<1>1. PICK q \in sets, i \in 1 .. Models :
        /\ started' = started + i
        /\ runs' = [runs EXCEPT ![k] =
             [process |-> p, id |-> started + 1, set |-> q.id, since |-> erasures, models |-> i,
              model |-> 1, prompt |-> 1, at |-> "ask", asked |-> erasures, denied |-> 0,
              counted |-> Outcomes, errors |-> Outcomes]]
  BY DEF Begin
<1> DEFINE n == [process |-> p, id |-> started + 1, set |-> q.id, since |-> erasures, models |-> i,
                 model |-> 1, prompt |-> 1, at |-> "ask", asked |-> erasures, denied |-> 0,
                 counted |-> Outcomes, errors |-> Outcomes]
<1>2. /\ q.id \in Nat /\ erasures \in Nat /\ started + 1 \in Nat /\ 1 \in 1 .. Prompts
      /\ 1 \in 1 .. Models + 1 /\ Outcomes \in Outcome
  BY ObservatoryAssumption DEF SetsNumbered, RunsTyped, Ids, Outcome, Outcomes
<1>3. NewRun(n)
  BY <1>2 DEF RunRecord, NewRun
<1>4. started' \in Nat /\ started' > started
  BY <1>1, ObservatoryAssumption DEF RunsTyped
<1>5. UNCHANGED <<rows, saves, saved, erasures>>
  BY DEF Begin, rows
<1> QED BY <1>1, <1>3, <1>4, <1>5

\* What the other steps do to the runs: one begins, for a set that is stored; a process
\* stops, and its runs with it; the tenant is erased, and the runs know nothing of it.
LEMMA OtherSteps ==
  ASSUME [Next]_vars
  PROVE  \/ \E k \in Slot : Run(k)
         \/ \E p \in Process, k \in Slot : Begin(p, k)
         \/ \E p \in Process : Erase(p)
         \/ \E p \in Process : Crash(p)
         \/ \E p \in Process : Save(p) \/ Saved(p)
         \/ UNCHANGED <<rows, saves, runs, saved, started, erasures, torn>>
BY DEF Next, vars

\* A process that stops leaves the rows, and the runs of the others as they are.
LEMMA CrashStep ==
  ASSUME NEW p \in Process, Crash(p)
  PROVE  /\ saves' = [saves EXCEPT ![p] = None]
         /\ runs' = [k \in Slot |-> runs'[k]]
         /\ \A k \in Slot : runs'[k] # None => runs'[k] = runs[k]
         /\ UNCHANGED <<rows, saved, started, erasures, torn>>
BY DEF Crash

-----------------------------------------------------------------------------
(* What is stored comes from after the last erasure *)

\* A set about to be inserted has an id that no stored set, no other save and no run has;
\* the runs know the ids of sets that were saved.
IdsOnce ==
  /\ \A k \in Slot : runs[k] # None => runs[k].set \in Ids
  /\ \A p \in Process : saves[p] # None =>
       /\ \A s \in sets : s.id # saves[p].id
       /\ \A k \in Slot : runs[k] # None => runs[k].set # saves[p].id
       /\ \A q \in Process \ {p} : saves[q] # None => saves[q].id # saves[p].id

\* A run whose query set is still stored has begun after the last erasure.
RunsSince == \A k \in Slot : runs[k] # None /\ SetStored(runs[k]) => runs[k].since = erasures

ObservationsSince == \A o \in observations : o.since = erasures /\ \E s \in sets : s.id = o.set

SinceInv == SetsNumbered /\ RunsTyped /\ IdsOnce /\ RunsSince /\ ObservationsSince

\* A run of the query set of an erased tenant finds no set to refer to.
LEMMA RunSinceInv ==
  ASSUME SinceInv, NEW k \in Slot, Run(k)
  PROVE  SinceInv'
<1> DEFINE r == runs[k]
<1>1. PICK n : /\ runs' = [runs EXCEPT ![k] = n]
               /\ (n = None /\ UNCHANGED <<observations, calls>>) \/ RunStep(r, n)
  BY RunSteps DEF SinceInv
<1>2. r # None /\ r \in RunRecord /\ UNCHANGED <<sets, saves, saved, started, erasures, torn>>
  BY RunSteps DEF SinceInv
<1>3. /\ runs' = [q \in Slot |-> runs'[q]]
      /\ \A q \in Slot : runs'[q] # None =>
           \/ q # k /\ runs'[q] = runs[q]
           \/ q = k /\ runs'[q] = n /\ RunStep(r, n)
  BY <1>1 DEF SinceInv, RunsTyped
<1>4. \A q \in Slot : runs'[q] # None =>
        /\ runs[q] # None /\ runs'[q].set = runs[q].set /\ runs'[q].since = runs[q].since
        /\ runs'[q] \in RunRecord /\ (runs'[q].at # "ask" => runs'[q].model <= Models)
  BY <1>2, <1>3 DEF SinceInv, RunsTyped, RunStep, GoesOn
<1>5. SetsNumbered' /\ RunsTyped'
  BY <1>2, <1>3, <1>4 DEF SinceInv, SetsNumbered, RunsTyped, Ids
<1>6. IdsOnce' /\ RunsSince'
  BY <1>2, <1>4 DEF SinceInv, IdsOnce, RunsSince, SetStored, Ids
<1>7. ObservationsSince'
  <2>1. CASE UNCHANGED observations
    BY <1>2, <2>1 DEF SinceInv, ObservationsSince
  <2>2. CASE SetStored(r) /\ observations' = observations \cup {ObservationOf(r)}
    <3>1. r.since = erasures /\ \E s \in sets : s.id = r.set
      BY <1>2, <2>2 DEF SinceInv, RunsSince, SetStored
    <3>2. ObservationOf(r).since = r.since /\ ObservationOf(r).set = r.set
      BY DEF ObservationOf
    <3> HIDE DEF r
    <3> QED BY <1>2, <2>2, <3>1, <3>2 DEF SinceInv, ObservationsSince
  <2> QED BY <1>1, <2>1, <2>2 DEF RunStep, Records
<1> QED BY <1>5, <1>6, <1>7 DEF SinceInv

\* A run begins with a set that is stored, after the last erasure.
LEMMA BeginSinceInv ==
  ASSUME SinceInv, NEW p \in Process, NEW k \in Slot, Begin(p, k)
  PROVE  SinceInv'
<1>1. PICK n : NewRun(n) /\ runs' = [runs EXCEPT ![k] = n]
  BY BeginStep DEF SinceInv
<1>2. started' \in Nat /\ UNCHANGED <<sets, observations, saves, saved, erasures>>
  BY BeginStep DEF SinceInv, rows
<1>3. PICK s \in sets : n.set = s.id
  BY <1>1 DEF NewRun
<1>4. n \in RunRecord /\ n.since = erasures /\ n.at = "ask"
  BY <1>1 DEF NewRun
<1>5. /\ runs' = [q \in Slot |-> runs'[q]]
      /\ \A q \in Slot : q # k => runs'[q] = runs[q]
      /\ runs'[k] = n
  BY <1>1 DEF SinceInv, RunsTyped
<1>6. SetsNumbered' /\ RunsTyped'
  BY <1>2, <1>4, <1>5 DEF SinceInv, SetsNumbered, RunsTyped, Ids
<1>7. s.id \in Ids /\ \A q \in Process : saves[q] # None => saves[q].id # s.id
  BY DEF SinceInv, SetsNumbered, IdsOnce
<1>8. IdsOnce'
  BY <1>2, <1>3, <1>5, <1>7 DEF SinceInv, IdsOnce, Ids
<1>9. RunsSince'
  BY <1>2, <1>4, <1>5 DEF SinceInv, RunsSince, SetStored
<1>10. ObservationsSince'
  BY <1>2 DEF SinceInv, ObservationsSince
<1> QED BY <1>6, <1>8, <1>9, <1>10 DEF SinceInv

\* A save takes an id of its own, and the row it inserts is of no run.
LEMMA SavesSinceInv ==
  ASSUME SinceInv, NEW p \in Process, Save(p) \/ Saved(p), SetsNumbered'
  PROVE  SinceInv'
<1>1. CASE Save(p)
  <2>1. PICK row : /\ row.id = saved + 1 /\ saves' = [saves EXCEPT ![p] = row]
                   /\ saved' = saved + 1
                   /\ UNCHANGED <<sets, observations, runs, started, erasures>>
    BY <1>1 DEF Save, rows
  <2>2. saved \in Nat /\ \A i \in Ids : i # row.id /\ i \in Ids'
    BY <2>1 DEF SinceInv, SetsNumbered, Ids
  <2>3. \A q \in Process : q # p => saves'[q] = saves[q]
    BY <2>1 DEF SinceInv, SetsNumbered
  <2>4. saves'[p] = row
    BY <2>1 DEF SinceInv, SetsNumbered
  <2>5. IdsOnce'
    BY <2>1, <2>2, <2>3, <2>4 DEF SinceInv, IdsOnce, SetsNumbered
  <2> QED BY <2>1, <2>5 DEF SinceInv, RunsTyped, RunsSince, ObservationsSince, SetStored
<1>2. CASE Saved(p)
  <2> DEFINE row == saves[p]
  <2>1. /\ row # None /\ saves' = [saves EXCEPT ![p] = None]
        /\ sets' = sets \/ sets' = sets \cup {row}
        /\ UNCHANGED <<observations, runs, saved, started, erasures>>
    BY <1>2 DEF Saved
  <2>2. \A q \in Process : saves'[q] # None => q # p /\ saves'[q] = saves[q]
    BY <2>1 DEF SinceInv, SetsNumbered
  <2>3. \A q \in Slot : runs[q] # None => runs[q].set # row.id
    BY <2>1 DEF SinceInv, IdsOnce
  <2>4. \A q \in Process : q # p /\ saves[q] # None => saves[q].id # row.id
    BY <2>1 DEF SinceInv, IdsOnce
  <2> HIDE DEF row
  <2>5. IdsOnce'
    BY <2>1, <2>2, <2>3, <2>4 DEF SinceInv, IdsOnce, Ids
  <2>6. RunsSince'
    BY <2>1, <2>3 DEF SinceInv, RunsSince, SetStored
  <2>7. ObservationsSince'
    BY <2>1 DEF SinceInv, ObservationsSince
  <2> QED BY <2>1, <2>5, <2>6, <2>7 DEF SinceInv, RunsTyped
<1> QED BY <1>1, <1>2

\* An erasure leaves no set for a run to refer to; a crash forgets runs and a save.
LEMMA EraseCrashSinceInv ==
  ASSUME SinceInv, NEW p \in Process, Erase(p) \/ Crash(p)
  PROVE  SinceInv'
<1>1. CASE Erase(p)
  <2>1. /\ sets' = {} /\ observations' = {} /\ erasures' = erasures + 1
        /\ UNCHANGED <<saves, runs, saved, started>>
    BY <1>1 DEF Erase
  <2>2. RunsTyped'
    BY <2>1 DEF SinceInv, RunsTyped, RunRecord
  <2>3. SetsNumbered' /\ IdsOnce' /\ RunsSince' /\ ObservationsSince'
    BY <2>1 DEF SinceInv, SetsNumbered, IdsOnce, RunsSince, ObservationsSince, SetStored, Ids
  <2> QED BY <2>2, <2>3 DEF SinceInv
<1>2. CASE Crash(p)
  <2>1. /\ saves' = [saves EXCEPT ![p] = None] /\ runs' = [k \in Slot |-> runs'[k]]
        /\ \A k \in Slot : runs'[k] # None => runs'[k] = runs[k]
        /\ UNCHANGED <<sets, observations, saved, started, erasures>>
    BY <1>2, CrashStep DEF rows
  <2>2. /\ saves' = [q \in Process |-> saves'[q]]
        /\ \A q \in Process : saves'[q] # None => saves'[q] = saves[q]
    BY <2>1 DEF SinceInv, SetsNumbered
  <2>3. SetsNumbered' /\ RunsTyped'
    BY <2>1, <2>2 DEF SinceInv, SetsNumbered, RunsTyped, Ids
  <2>4. IdsOnce' /\ RunsSince' /\ ObservationsSince'
    BY <2>1, <2>2 DEF SinceInv, IdsOnce, RunsSince, ObservationsSince, SetStored, Ids
  <2> QED BY <2>3, <2>4 DEF SinceInv
<1> QED BY <1>1, <1>2

\* Every step keeps it.
LEMMA SinceKept ==
  ASSUME SinceInv, SavesInv, [Next]_vars
  PROVE  SinceInv'
<1>1. SetsNumbered'
  BY SavesKept DEF SavesInv
<1>2. CASE UNCHANGED <<rows, saves, runs, saved, started, erasures, torn>>
  BY <1>2 DEF SinceInv, SetsNumbered, RunsTyped, IdsOnce, RunsSince, ObservationsSince,
              SetStored, Ids, rows
<1> QED BY <1>1, <1>2, OtherSteps, RunSinceInv, BeginSinceInv, SavesSinceInv, EraseCrashSinceInv

\* Initially there is nothing.
LEMMA SinceInit == Init => SinceInv
BY DEF Init, SinceInv, SetsNumbered, RunsTyped, IdsOnce, RunsSince, ObservationsSince

-----------------------------------------------------------------------------
(* What a run counts *)

AskedOf(r, m) == r.counted[m] + r.errors[m]

\* The models a run is through with that did not have every prompt asked.
PassedBy(r) == {m \in 1 .. r.model - 1 : AskedOf(r, m) < Prompts}

OutcomesCounted(r) ==
  /\ r.denied = Cardinality(PassedBy(r))
  /\ \A m \in 1 .. Models :
       /\ AskedOf(r, m) <= Prompts
       /\ m = r.model => AskedOf(r, m) = r.prompt - 1
       /\ m > r.model => AskedOf(r, m) = 0

\* The shape of a run, spelled out for arithmetic.
LEMMA RunTypes ==
  ASSUME NEW r \in RunRecord
  PROVE  /\ r.id \in Nat /\ r.since \in Nat /\ r.denied \in Nat
         /\ r.model \in Nat /\ r.model >= 1 /\ r.model <= Models + 1
         /\ r.prompt \in Nat /\ r.prompt >= 1 /\ r.prompt <= Prompts
         /\ Prompts \in Nat /\ Models \in Nat
         /\ \A m \in 1 .. Models : m \in Nat /\ r.counted[m] \in Nat /\ r.errors[m] \in Nat
                                     /\ AskedOf(r, m) \in Nat
         /\ IsFiniteSet(PassedBy(r))
<1>1. Models \in Nat /\ 1 .. Models = 1 .. Models /\ Prompts \in Nat
  BY ObservatoryAssumption
<1>2. r.model \in 1 .. Models + 1 /\ r.counted \in Outcome /\ r.errors \in Outcome
  BY DEF RunRecord
<1>3. \A m \in 1 .. Models : r.counted[m] \in Nat /\ r.errors[m] \in Nat
  BY <1>2 DEF Outcome
<1>4. IsFiniteSet(1 .. r.model - 1)
  BY <1>1, <1>2, FS_Interval
<1>5. IsFiniteSet(PassedBy(r))
  BY <1>4, FS_Subset DEF PassedBy
<1>6. r.id \in Nat /\ r.since \in Nat /\ r.denied \in Nat /\ r.prompt \in 1 .. Prompts
  BY DEF RunRecord
<1> QED BY <1>1, <1>2, <1>3, <1>5, <1>6 DEF AskedOf

\* A run that asks, is answered or loses its answer counts nothing yet.
LEMMA WaitingCounted ==
  ASSUME NEW r \in RunRecord, NEW n, OutcomesCounted(r), SameCounts(r, n), Stays(r, n)
  PROVE  OutcomesCounted(n)
<1>1. PassedBy(n) = PassedBy(r) /\ \A m : AskedOf(n, m) = AskedOf(r, m)
  BY DEF PassedBy, AskedOf, SameCounts, Stays
<1> QED BY <1>1 DEF OutcomesCounted, SameCounts, Stays

\* A model that is denied is the only one more that did not have every prompt asked.
LEMMA LeftOutCounted ==
  ASSUME NEW r \in RunRecord, NEW n \in RunRecord, r.model <= Models, OutcomesCounted(r),
         LeavesOut(r, n)
  PROVE  OutcomesCounted(n)
<1>1. \A m : AskedOf(n, m) = AskedOf(r, m)
  BY DEF AskedOf, LeavesOut
<1>2. r.model \in 1 .. Models
  BY RunTypes, ObservatoryAssumption
<1>3. AskedOf(r, r.model) = r.prompt - 1
  BY <1>2 DEF OutcomesCounted
<1>4. n.model = r.model + 1 /\ n.prompt = 1 /\ n.denied = r.denied + 1
  BY DEF LeavesOut
<1>5. PassedBy(n) = PassedBy(r) \cup {r.model}
  <2>1. AskedOf(r, r.model) < Prompts
    BY <1>3, RunTypes
  <2>2. 1 .. n.model - 1 = (1 .. r.model - 1) \cup {r.model}
    BY <1>4, RunTypes
  <2> QED BY <1>1, <2>1, <2>2 DEF PassedBy
<1>6. r.model \notin PassedBy(r)
  BY RunTypes DEF PassedBy
<1>7. Cardinality(PassedBy(n)) = Cardinality(PassedBy(r)) + 1
  BY <1>5, <1>6, RunTypes, FS_AddElement
<1>8. n.denied = Cardinality(PassedBy(n))
  BY <1>4, <1>7 DEF OutcomesCounted
<1>9. ASSUME NEW m \in 1 .. Models
      PROVE  /\ AskedOf(n, m) <= Prompts
             /\ m = n.model => AskedOf(n, m) = n.prompt - 1
             /\ m > n.model => AskedOf(n, m) = 0
  BY <1>1, <1>4, RunTypes DEF OutcomesCounted
<1> QED BY <1>8, <1>9 DEF OutcomesCounted

\* A prompt that was answered or failed is counted once, and after the last one its model
\* is not among those left out.
LEMMA AdvancedCounted ==
  ASSUME NEW r \in RunRecord, NEW n \in RunRecord, r.model <= Models, OutcomesCounted(r),
         Advances(r, n), n.denied = r.denied,
         \/ n.counted = OneMore(r.counted, r.model) /\ n.errors = r.errors
         \/ n.errors = OneMore(r.errors, r.model) /\ n.counted = r.counted
  PROVE  OutcomesCounted(n)
<1>1. r.model \in 1 .. Models
  BY RunTypes, ObservatoryAssumption
<1>2. r.counted \in Outcome /\ r.errors \in Outcome
  BY DEF RunRecord
<1>3. AskedOf(r, r.model) = r.prompt - 1
  BY <1>1 DEF OutcomesCounted
<1>4. AskedOf(n, r.model) = r.prompt
  <2>1. \/ n.counted[r.model] = r.counted[r.model] + 1 /\ n.errors = r.errors
        \/ n.errors[r.model] = r.errors[r.model] + 1 /\ n.counted = r.counted
    BY <1>1, <1>2, OneMoreCounted
  <2>2. r.counted[r.model] \in Nat /\ r.errors[r.model] \in Nat
    BY <1>1, RunTypes
  <2>3. n.counted[r.model] + n.errors[r.model] = (r.counted[r.model] + r.errors[r.model]) + 1
    BY ONLY <2>1, <2>2
  <2> QED BY <1>3, <2>2, <2>3, RunTypes DEF AskedOf
<1>5. \A m \in 1 .. Models : m # r.model => AskedOf(n, m) = AskedOf(r, m)
  BY <1>1, <1>2, OneMoreCounted DEF AskedOf
<1>6. \A m \in 1 .. r.model - 1 : m \in 1 .. Models /\ m # r.model
  BY RunTypes, ObservatoryAssumption
<1>7. PassedBy(n) = PassedBy(r)
  <2>1. CASE r.prompt < Prompts /\ n.model = r.model
    BY <1>5, <1>6, <2>1 DEF PassedBy
  <2>2. CASE r.prompt = Prompts /\ n.model = r.model + 1
    <3>1. ~(AskedOf(n, r.model) < Prompts)
      BY <1>4, <2>2, RunTypes
    <3>2. 1 .. n.model - 1 = (1 .. r.model - 1) \cup {r.model}
      BY <2>2, RunTypes
    <3> QED BY <1>5, <1>6, <3>1, <3>2 DEF PassedBy
  <2> QED BY <2>1, <2>2 DEF Advances
<1>8. ASSUME NEW m \in 1 .. Models
      PROVE  /\ AskedOf(n, m) <= Prompts
             /\ m = n.model => AskedOf(n, m) = n.prompt - 1
             /\ m > n.model => AskedOf(n, m) = 0
  <2>1. CASE m = r.model
    BY <1>4, <2>1, RunTypes DEF Advances
  <2>2. CASE m # r.model
    <3>1. /\ AskedOf(n, m) = AskedOf(r, m) /\ AskedOf(r, m) <= Prompts
          /\ m > r.model => AskedOf(r, m) = 0
      BY <1>5, <2>2 DEF OutcomesCounted
    <3> QED BY <2>2, <3>1, RunTypes DEF Advances
  <2> QED BY <2>1, <2>2
<1> QED BY <1>7, <1>8 DEF OutcomesCounted

\* Whatever a run does, its counts agree.
LEMMA StepCounted ==
  ASSUME NEW r \in RunRecord, NEW n, OutcomesCounted(r), RunStep(r, n)
  PROVE  OutcomesCounted(n)
<1>1. n \in RunRecord /\ r.model <= Models
  BY DEF RunStep, GoesOn
<1>2. CASE Asks(r, n) \/ IsAnswered(r, n) \/ Loses(r, n)
  BY <1>2, WaitingCounted DEF Asks, IsAnswered, Loses
<1>3. CASE LeavesOut(r, n)
  BY <1>1, <1>3, LeftOutCounted
<1>4. CASE Fails(r, n) \/ Inserts(r, n)
  BY <1>1, <1>4, AdvancedCounted DEF Fails, Inserts
<1> QED BY <1>2, <1>3, <1>4 DEF RunStep

-----------------------------------------------------------------------------
(* What the tables hold of a run *)

ObservationsOf(r, m) == {o \in observations : o.run = r.id /\ o.model = m}

\* How the calls of a prompt were recorded.
Statuses(run, model, prompt) ==
  {c.status : c \in {x \in calls : x.run = run /\ x.model = model /\ x.prompt = prompt}}

\* A row x is of a prompt that the run r is past.
Behind(r, x) ==
  /\ x.model \in Nat /\ x.prompt \in Nat
  /\ x.model < r.model \/ (x.model = r.model /\ x.prompt < r.prompt)

Here(r, x) == x.model = r.model /\ x.prompt = r.prompt

\* The rows of a run are of prompts it is past, or of the call that it has recorded.
RowsBehind(r) ==
  /\ \A x \in observations : x.run = r.id => Behind(r, x)
  /\ \A x \in calls : x.run = r.id => Behind(r, x) \/ (r.at \in {"failed", "insert"} /\ Here(r, x))

\* A run with no erasure since it began has an observation for each answer it counted,
\* and the answer it is about to insert is recorded.
RowsStored(r) ==
  r.since = erasures =>
    /\ \A m \in 1 .. Models : Cardinality(ObservationsOf(r, m)) = r.counted[m]
    /\ r.at = "insert" => Statuses(r.id, r.model, r.prompt) = {"ok"}

\* Runs have ids of their own, and every row is of a run that was started.
RunIds ==
  /\ IsFiniteSet(observations)
  /\ \A x \in observations \cup calls : x.run \in 1 .. started
  /\ \A k \in Slot : runs[k] # None => runs[k].id \in 1 .. started
  /\ \A j, k \in Slot : j # k /\ runs[j] # None /\ runs[k] # None => runs[j].id # runs[k].id

\* The call of a prompt that has an observation was recorded as answered, and not as failed.
ObservationsAnswered == \A o \in observations : Statuses(o.run, o.model, o.prompt) = {"ok"}

Accounted(r) == OutcomesCounted(r) /\ RowsBehind(r) /\ RowsStored(r)

AccountsInv ==
  /\ RunsTyped /\ RunIds /\ ObservationsAnswered
  /\ \A k \in Slot : runs[k] # None => Accounted(runs[k])

\* A new observation counts for its run and its model, and for no other.
LEMMA ObservationAdded ==
  ASSUME IsFiniteSet(observations), NEW r, NEW x, observations' = observations \cup {x}
  PROVE  /\ \A m : x.run # r.id \/ x.model # m => ObservationsOf(r, m)' = ObservationsOf(r, m)
         /\ x.run = r.id /\ x \notin observations =>
              Cardinality(ObservationsOf(r, x.model)') = Cardinality(ObservationsOf(r, x.model)) + 1
<1>1. ASSUME NEW m, x.run # r.id \/ x.model # m
      PROVE  ObservationsOf(r, m)' = ObservationsOf(r, m)
  BY <1>1 DEF ObservationsOf
<1>2. ASSUME x.run = r.id, x \notin observations
      PROVE  Cardinality(ObservationsOf(r, x.model)') = Cardinality(ObservationsOf(r, x.model)) + 1
  <2>1. /\ ObservationsOf(r, x.model)' = ObservationsOf(r, x.model) \cup {x}
        /\ x \notin ObservationsOf(r, x.model)
    BY <1>2 DEF ObservationsOf
  <2>2. IsFiniteSet(ObservationsOf(r, x.model))
    BY FS_Subset DEF ObservationsOf
  <2> QED BY <2>1, <2>2, FS_AddElement
<1> QED BY <1>1, <1>2

\* A new call is a call of its prompt, and of no other.
LEMMA CallAdded ==
  ASSUME NEW x, calls' = calls \cup {x}, NEW run, NEW model, NEW prompt
  PROVE  /\ ~(x.run = run /\ x.model = model /\ x.prompt = prompt) =>
              Statuses(run, model, prompt)' = Statuses(run, model, prompt)
         /\ x.run = run /\ x.model = model /\ x.prompt = prompt =>
              Statuses(run, model, prompt)' = Statuses(run, model, prompt) \cup {x.status}
BY DEF Statuses

\* Where a run goes it is past what it was past.
LEMMA BehindKept ==
  ASSUME NEW r \in RunRecord, NEW n, RunStep(r, n), NEW x
  PROVE  /\ Behind(r, x) => Behind(n, x)
         /\ ~(Asks(r, n) \/ IsAnswered(r, n) \/ Loses(r, n)) /\ Here(r, x) => Behind(n, x)
<1>1. r.model \in Nat /\ r.prompt \in Nat
  BY RunTypes
<1>2. \/ Stays(r, n) /\ (Asks(r, n) \/ IsAnswered(r, n) \/ Loses(r, n))
      \/ n.model = r.model + 1
      \/ n.model = r.model /\ n.prompt = r.prompt + 1
  BY DEF RunStep, Asks, LeavesOut, IsAnswered, Loses, Fails, Inserts, Advances
<1>3. CASE Stays(r, n) /\ (Asks(r, n) \/ IsAnswered(r, n) \/ Loses(r, n))
  BY <1>3 DEF Stays, Behind
<1>4. CASE n.model = r.model + 1
  BY <1>1, <1>4 DEF Behind, Here
<1>5. CASE n.model = r.model /\ n.prompt = r.prompt + 1
  BY <1>1, <1>5 DEF Behind, Here
<1> QED BY <1>2, <1>3, <1>4, <1>5

\* The rows that a run writes are its own, of the prompt it is at; what it is past is not.
LEMMA RowsOfRun ==
  ASSUME NEW r \in RunRecord, NEW status
  PROVE  /\ ObservationOf(r).run = r.id /\ Here(r, ObservationOf(r))
         /\ CallOf(r, status).run = r.id /\ Here(r, CallOf(r, status))
         /\ CallOf(r, status).status = status
         /\ \A x : Here(r, x) => ~Behind(r, x)
<1>1. \A x : Here(r, x) => ~Behind(r, x)
  BY RunTypes DEF Here, Behind
<1> QED BY <1>1 DEF ObservationOf, CallOf, Here

\* A step of a run leaves its rows behind it.
LEMMA StepRowsBehind ==
  ASSUME NEW r \in RunRecord, NEW n, RunStep(r, n), RowsBehind(r)
  PROVE  RowsBehind(n)'
<1>1. n.id = r.id
  BY DEF RunStep, GoesOn
<1>2. ASSUME NEW x \in observations', x.run = r.id PROVE Behind(n, x)
  <2>1. CASE x \in observations
    BY <1>2, <2>1, BehindKept DEF RowsBehind
  <2>2. CASE Inserts(r, n) /\ x = ObservationOf(r)
    <3>1. ~(Asks(r, n) \/ IsAnswered(r, n) \/ Loses(r, n))
      BY <2>2 DEF Inserts, Asks, IsAnswered, Loses
    <3> QED BY <2>2, <3>1, BehindKept, RowsOfRun
  <2> QED BY <1>2, <2>1, <2>2 DEF RunStep, Records
<1>3. ASSUME NEW x \in calls', x.run = r.id
      PROVE  Behind(n, x) \/ (n.at \in {"failed", "insert"} /\ Here(n, x))
  <2>1. CASE x \in calls /\ r.at \in {"ask", "model"}
    <3>1. Behind(r, x)
      BY <1>3, <2>1 DEF RowsBehind
    <3> QED BY <3>1, BehindKept
  <2>2. CASE x \in calls /\ r.at \in {"failed", "insert"}
    <3>1. ~(Asks(r, n) \/ IsAnswered(r, n) \/ Loses(r, n))
      BY <2>2 DEF Asks, IsAnswered, Loses
    <3> QED BY <1>3, <2>2, <3>1, BehindKept DEF RowsBehind
  <2>3. CASE (IsAnswered(r, n) \/ Loses(r, n)) /\ x = CallOf(r, "ok")
    BY <2>3, RowsOfRun DEF IsAnswered, Loses, Stays, Here
  <2>4. CASE Fails(r, n) /\ r.at = "failed" /\ x = CallOf(r, "error")
    <3>1. ~(Asks(r, n) \/ IsAnswered(r, n) \/ Loses(r, n))
      BY <2>4 DEF Asks, IsAnswered, Loses
    <3> QED BY <2>4, <3>1, BehindKept, RowsOfRun
  <2>5. r.at \in {"ask", "model", "failed", "insert"}
    BY DEF RunRecord
  <2> QED BY <1>3, <2>1, <2>2, <2>3, <2>4, <2>5 DEF RunStep, Records
<1> QED BY <1>1, <1>2, <1>3 DEF RowsBehind

\* An observation is inserted for each answer that is counted, whose call is recorded.
LEMMA StepRowsStored ==
  ASSUME NEW r \in RunRecord, NEW n, RunStep(r, n), UNCHANGED erasures,
         IsFiniteSet(observations), RowsBehind(r), RowsStored(r)
  PROVE  RowsStored(n)'
<1>1. n.id = r.id /\ n.since = r.since /\ r.model \in 1 .. Models
  BY RunTypes, ObservatoryAssumption DEF RunStep, GoesOn
<1> SUFFICES ASSUME r.since = erasures
             PROVE  /\ \A m \in 1 .. Models : Cardinality(ObservationsOf(r, m)') = n.counted[m]
                    /\ n.at = "insert" => Statuses(r.id, n.model, n.prompt)' = {"ok"}
  BY <1>1 DEF RowsStored, ObservationsOf, Statuses
<1>2. \A m \in 1 .. Models : Cardinality(ObservationsOf(r, m)) = r.counted[m]
  BY DEF RowsStored
<1>3. CASE Inserts(r, n) /\ observations' = observations \cup {ObservationOf(r)}
  <2>1. n.at # "insert" /\ n.counted = OneMore(r.counted, r.model) /\ r.counted \in Outcome
    BY <1>3 DEF Inserts, Advances, RunRecord
  <2>2. ObservationOf(r) \notin observations
    BY RowsOfRun DEF RowsBehind
  <2>3. ObservationOf(r).run = r.id /\ ObservationOf(r).model = r.model
    BY DEF ObservationOf
  <2>4. ASSUME NEW m \in 1 .. Models PROVE Cardinality(ObservationsOf(r, m)') = n.counted[m]
    <3>1. CASE m = r.model
      <4>1. Cardinality(ObservationsOf(r, m)') = Cardinality(ObservationsOf(r, m)) + 1
        BY <1>3, <2>2, <2>3, <3>1, ObservationAdded
      <4> QED BY <1>2, <2>1, <3>1, <4>1, OneMoreCounted
    <3>2. CASE m # r.model
      <4>1. ObservationsOf(r, m)' = ObservationsOf(r, m)
        BY <1>3, <2>3, <3>2, ObservationAdded
      <4>2. n.counted[m] = r.counted[m]
        BY <1>1, <2>1, <3>2, OneMoreCounted
      <4> QED BY <1>2, <4>1, <4>2
    <3> QED BY <3>1, <3>2
  <2> QED BY <2>1, <2>4
<1>4. CASE n.counted = r.counted /\ UNCHANGED observations
  <2>1. \A m : ObservationsOf(r, m)' = ObservationsOf(r, m)
    BY <1>4 DEF ObservationsOf
  <2>2. ASSUME n.at = "insert" PROVE Statuses(r.id, n.model, n.prompt)' = {"ok"}
    <3>1. IsAnswered(r, n) /\ calls' = calls \cup {CallOf(r, "ok")}
      BY <2>2 DEF RunStep, Records, Asks, LeavesOut, Loses, Fails, Inserts, Advances
    <3>2. n.model = r.model /\ n.prompt = r.prompt /\ r.at = "model"
      BY <3>1 DEF IsAnswered, Stays
    <3>3. Statuses(r.id, r.model, r.prompt) = {}
      <4>1. \A x \in calls : ~(x.run = r.id /\ x.model = r.model /\ x.prompt = r.prompt)
        BY <3>2, RowsOfRun DEF RowsBehind, Here
      <4> QED BY <4>1 DEF Statuses
    <3>4. Statuses(r.id, r.model, r.prompt)' = Statuses(r.id, r.model, r.prompt) \cup {"ok"}
      BY <3>1, CallAdded, RowsOfRun DEF Here
    <3> QED BY <3>2, <3>3, <3>4
  <2> QED BY <1>2, <1>4, <2>1, <2>2
<1>5. \/ Inserts(r, n) /\ observations' = observations \cup {ObservationOf(r)}
      \/ n.counted = r.counted /\ UNCHANGED observations
  BY DEF RunStep, Records, Asks, LeavesOut, IsAnswered, Loses, Fails, SameCounts
<1> QED BY <1>3, <1>4, <1>5

-----------------------------------------------------------------------------
(* Every step accounts for what the runs did *)

\* The account of a run depends on the tables and on nothing else of the state.
LEMMA AccountKept ==
  ASSUME NEW r, Accounted(r), UNCHANGED <<observations, calls, erasures>>
  PROVE  Accounted(r)'
<1>1. OutcomesCounted(r)' /\ RowsBehind(r)'
  BY DEF Accounted, OutcomesCounted, PassedBy, AskedOf, RowsBehind, Behind, Here
<1>2. RowsStored(r)'
  BY DEF Accounted, RowsStored, ObservationsOf, Statuses
<1> QED BY <1>1, <1>2 DEF Accounted

\* The rows another run writes are not those of r.
LEMMA OtherRowsAccounted ==
  ASSUME NEW r, Accounted(r), UNCHANGED erasures, IsFiniteSet(observations),
         NEW x, x.run # r.id,
         \/ calls' = calls \cup {x} /\ UNCHANGED observations
         \/ observations' = observations \cup {x} /\ UNCHANGED calls
  PROVE  Accounted(r)'
<1>1. OutcomesCounted(r)'
  BY DEF Accounted, OutcomesCounted, PassedBy, AskedOf
<1>2. RowsBehind(r)'
  BY DEF Accounted, RowsBehind, Behind, Here
<1>3. \A m : ObservationsOf(r, m)' = ObservationsOf(r, m)
  BY ObservationAdded DEF ObservationsOf
<1>4. Statuses(r.id, r.model, r.prompt)' = Statuses(r.id, r.model, r.prompt)
  BY CallAdded DEF Statuses
<1>5. RowsStored(r)'
  BY <1>3, <1>4 DEF Accounted, RowsStored
<1> QED BY <1>1, <1>2, <1>5 DEF Accounted

\* What a step of a run writes is of that run, and is no call of an earlier observation;
\* an observation it inserts has its call.
LEMMA ObservationsKeepCalls ==
  ASSUME ObservationsAnswered, NEW r \in RunRecord, NEW n, RunStep(r, n), RowsBehind(r),
         RowsStored(r), SetStored(r) => r.since = erasures
  PROVE  ObservationsAnswered'
<1>1. CASE UNCHANGED <<observations, calls>>
  BY <1>1 DEF ObservationsAnswered, Statuses
<1>2. ASSUME NEW status, Records(r, status) PROVE ObservationsAnswered'
  <2>1. \A o \in observations : ~(o.run = r.id /\ Here(r, o))
    BY RowsOfRun DEF RowsBehind
  <2>2. \A o \in observations :
          Statuses(o.run, o.model, o.prompt)' = Statuses(o.run, o.model, o.prompt)
    BY <1>2, <2>1, CallAdded, RowsOfRun DEF Records, Here
  <2> QED BY <1>2, <2>2 DEF Records, ObservationsAnswered
<1>3. CASE /\ Inserts(r, n) /\ SetStored(r)
           /\ observations' = observations \cup {ObservationOf(r)} /\ UNCHANGED calls
  <2>1. Statuses(r.id, r.model, r.prompt) = {"ok"}
    BY <1>3 DEF Inserts, RowsStored
  <2>2. \A run, model, prompt : Statuses(run, model, prompt)' = Statuses(run, model, prompt)
    BY <1>3 DEF Statuses
  <2>3. ASSUME NEW o \in observations' PROVE Statuses(o.run, o.model, o.prompt) = {"ok"}
    <3>1. CASE o \in observations
      BY <3>1 DEF ObservationsAnswered
    <3>2. CASE o = ObservationOf(r)
      BY <2>1, <3>2 DEF ObservationOf
    <3> QED BY <1>3, <3>1, <3>2
  <2> QED BY <2>2, <2>3 DEF ObservationsAnswered
<1> QED BY <1>1, <1>2, <1>3 DEF RunStep

\* A step of a run accounts for it, and for no other.
LEMMA RunAccounts ==
  ASSUME AccountsInv, RunsSince, RunsTyped', NEW k \in Slot, Run(k)
  PROVE  AccountsInv'
<1>1. PICK r : r = runs[k]
  OBVIOUS
<1>2. PICK n : /\ runs' = [runs EXCEPT ![k] = n]
               /\ (n = None /\ UNCHANGED <<observations, calls>>) \/ RunStep(r, n)
  BY <1>1, RunSteps DEF AccountsInv
<1>3. r # None /\ r \in RunRecord /\ UNCHANGED <<started, erasures>>
  BY <1>1, RunSteps DEF AccountsInv
<1>4. runs'[k] = n /\ \A j \in Slot : j # k => runs'[j] = runs[j]
  BY <1>2 DEF AccountsInv, RunsTyped
<1>5. Accounted(r) /\ IsFiniteSet(observations) /\ (SetStored(r) => r.since = erasures)
  BY <1>1, <1>3 DEF AccountsInv, RunIds, RunsSince
<1>6. \/ UNCHANGED <<observations, calls>>
      \/ \E x : /\ x.run = r.id
                /\ \/ calls' = calls \cup {x} /\ UNCHANGED observations
                   \/ observations' = observations \cup {x} /\ UNCHANGED calls
  <2>1. ObservationOf(r).run = r.id /\ \A status : CallOf(r, status).run = r.id
    BY DEF ObservationOf, CallOf
  <2> QED BY <1>2, <2>1 DEF RunStep, Records
<1>7. n # None => RunStep(r, n) /\ n.id = r.id
  BY <1>2 DEF RunStep, GoesOn
<1>8. r.id \in 1 .. started /\ \A j \in Slot : j # k /\ runs[j] # None => runs[j].id # r.id
  BY <1>1, <1>3 DEF AccountsInv, RunIds
<1>9. RunIds'
  <2>1. IsFiniteSet(observations')
    BY <1>5, <1>6, FS_AddElement
  <2>2. \A y \in observations' \cup calls' : y.run \in 1 .. started
    BY <1>6, <1>8 DEF AccountsInv, RunIds
  <2>3. \A j \in Slot : runs'[j] # None => runs'[j].id \in 1 .. started
    BY <1>4, <1>7, <1>8 DEF AccountsInv, RunIds
  <2>4. \A i, j \in Slot : i # j /\ runs'[i] # None /\ runs'[j] # None => runs'[i].id # runs'[j].id
    BY <1>4, <1>7, <1>8 DEF AccountsInv, RunIds
  <2> QED BY <1>3, <2>1, <2>2, <2>3, <2>4 DEF RunIds
<1>10. ObservationsAnswered'
  <2>1. CASE UNCHANGED <<observations, calls>>
    BY <2>1 DEF AccountsInv, ObservationsAnswered, Statuses
  <2>2. CASE RunStep(r, n)
    BY <1>3, <1>5, <2>2, ObservationsKeepCalls DEF AccountsInv, Accounted
  <2> QED BY <1>2, <2>1, <2>2
<1>11. ASSUME n # None PROVE Accounted(n)'
  <2>1. OutcomesCounted(n)
    BY <1>3, <1>5, <1>7, <1>11, StepCounted DEF Accounted
  <2>2. OutcomesCounted(n)'
    BY <2>1 DEF OutcomesCounted, PassedBy, AskedOf
  <2>3. RowsBehind(n)' /\ RowsStored(n)'
    BY <1>3, <1>5, <1>7, <1>11, StepRowsBehind, StepRowsStored DEF Accounted
  <2> QED BY <2>2, <2>3 DEF Accounted
<1>12. ASSUME NEW j \in Slot, NEW s, j # k, s = runs[j], s # None PROVE Accounted(s)'
  <2>1. Accounted(s) /\ r.id # s.id
    BY <1>8, <1>12 DEF AccountsInv
  <2> QED BY <1>3, <1>5, <1>6, <2>1, OtherRowsAccounted, AccountKept
<1>13. ASSUME NEW j \in Slot, runs'[j] # None PROVE Accounted(runs[j])'
  <2>1. PICK s : s = runs'[j]
    OBVIOUS
  <2>2. Accounted(s)'
    BY <1>4, <1>11, <1>12, <1>13, <2>1
  <2> QED BY ONLY <2>1, <2>2 DEF Accounted, OutcomesCounted, PassedBy, AskedOf, RowsBehind, Behind,
                                 Here, RowsStored, ObservationsOf, Statuses
<1> QED BY <1>9, <1>10, <1>13 DEF AccountsInv

\* Steps that leave the tables and every run that they do not end or begin.
LEMMA RunsKeepAccounts ==
  ASSUME AccountsInv, RunsTyped', RunIds', UNCHANGED <<observations, calls, erasures>>,
         \A j \in Slot : runs'[j] # None => runs'[j] = runs[j] \/ Accounted(runs'[j])
  PROVE  AccountsInv'
<1>1. ObservationsAnswered'
  BY DEF AccountsInv, ObservationsAnswered, Statuses
<1>2. ASSUME NEW j \in Slot, runs'[j] # None PROVE Accounted(runs[j])'
  <2>1. PICK s : s = runs'[j]
    OBVIOUS
  <2>2. Accounted(s)
    BY <1>2, <2>1 DEF AccountsInv
  <2>3. Accounted(s)'
    BY <2>2, AccountKept
  <2> QED BY ONLY <2>1, <2>3 DEF Accounted, OutcomesCounted, PassedBy, AskedOf, RowsBehind, Behind,
                                 Here, RowsStored, ObservationsOf, Statuses
<1> QED BY <1>1, <1>2 DEF AccountsInv

\* A run that begins has counted nothing, and no row is of it.
LEMMA BeginAccounts ==
  ASSUME AccountsInv, SetsNumbered, RunsTyped', NEW p \in Process, NEW k \in Slot, Begin(p, k)
  PROVE  AccountsInv'
<1>1. /\ started' \in Nat /\ started' > started /\ started \in Nat
      /\ UNCHANGED <<observations, calls, erasures>>
  BY BeginStep DEF AccountsInv, RunsTyped, rows
<1>2. PICK n : NewRun(n) /\ runs' = [runs EXCEPT ![k] = n]
  BY BeginStep DEF AccountsInv
<1>3. runs'[k] = n /\ \A j \in Slot : j # k => runs'[j] = runs[j]
  BY <1>2 DEF AccountsInv, RunsTyped
<1>4. n \in RunRecord /\ n.id = started + 1 /\ n.at = "ask" /\ n.model = 1 /\ n.prompt = 1
  BY <1>2 DEF NewRun
<1>5. n.id \in 1 .. started' /\ \A i \in 1 .. started : i # n.id /\ i \in 1 .. started'
  BY <1>1, <1>4
<1>6. RunIds'
  <2>1. \A y \in observations' \cup calls' : y.run \in 1 .. started'
    BY <1>1, <1>5 DEF AccountsInv, RunIds
  <2>2. \A j \in Slot : runs'[j] # None => runs'[j].id \in 1 .. started'
    BY <1>3, <1>5 DEF AccountsInv, RunIds
  <2>3. \A i, j \in Slot : i # j /\ runs'[i] # None /\ runs'[j] # None => runs'[i].id # runs'[j].id
    BY <1>3, <1>5 DEF AccountsInv, RunIds
  <2> QED BY <1>1, <2>1, <2>2, <2>3 DEF AccountsInv, RunIds
<1>7. OutcomesCounted(n)
  <2>1. \A m \in 1 .. Models : n.counted[m] = 0 /\ n.errors[m] = 0
    BY <1>2 DEF NewRun, Outcomes
  <2>2. \A m \in 1 .. Models : AskedOf(n, m) = 0
    BY <2>1 DEF AskedOf
  <2>3. PassedBy(n) = {} /\ n.denied = 0
    BY <1>2, <1>4 DEF PassedBy, NewRun
  <2> QED BY <1>4, <2>2, <2>3, FS_EmptySet, RunTypes DEF OutcomesCounted
<1>8. RowsBehind(n) /\ RowsStored(n)
  <2>1. \A x \in observations \cup calls : x.run # n.id
    BY <1>5 DEF AccountsInv, RunIds
  <2>2. \A m : ObservationsOf(n, m) = {}
    BY <2>1 DEF ObservationsOf
  <2>3. \A m \in 1 .. Models : n.counted[m] = 0
    BY <1>2 DEF NewRun, Outcomes
  <2> QED BY <1>4, <2>1, <2>2, <2>3, FS_EmptySet DEF RowsBehind, RowsStored
<1>9. \A j \in Slot : runs'[j] # None => runs'[j] = runs[j] \/ Accounted(runs'[j])
  BY <1>3, <1>7, <1>8 DEF Accounted
<1> QED BY <1>1, <1>6, <1>9, RunsKeepAccounts

\* An erasure leaves no rows, and only runs that began before it.
LEMMA EraseAccounts ==
  ASSUME AccountsInv, RunsTyped', NEW p \in Process, Erase(p)
  PROVE  AccountsInv'
<1>1. /\ observations' = {} /\ calls' = {} /\ erasures' = erasures + 1 /\ UNCHANGED <<runs, started>>
  BY DEF Erase, ErasedCalls
<1>2. RunIds' /\ ObservationsAnswered'
  BY <1>1, FS_EmptySet DEF AccountsInv, RunIds, ObservationsAnswered
<1>3. ASSUME NEW j \in Slot, runs[j] # None PROVE Accounted(runs[j])'
  <2>1. runs[j].since <= erasures /\ runs[j].since \in Nat /\ erasures \in Nat
    BY <1>3, RunTypes DEF AccountsInv, RunsTyped
  <2>2. runs[j].since # erasures + 1
    BY <2>1
  <2>3. Accounted(runs[j])
    BY <1>3 DEF AccountsInv
  <2>4. OutcomesCounted(runs[j])'
    BY <1>1, <2>3 DEF Accounted, OutcomesCounted, PassedBy, AskedOf
  <2>5. RowsBehind(runs[j])' /\ RowsStored(runs[j])'
    BY <1>1, <2>2 DEF RowsBehind, RowsStored
  <2> QED BY <2>4, <2>5 DEF Accounted
<1> QED BY <1>1, <1>2, <1>3 DEF AccountsInv

\* Every step keeps the accounts.
LEMMA AccountsKept ==
  ASSUME AccountsInv, SetsNumbered, RunsSince, RunsTyped', [Next]_vars
  PROVE  AccountsInv'
<1>1. ASSUME UNCHANGED <<observations, calls, started, erasures>>,
             \A j \in Slot : runs'[j] # None => runs'[j] = runs[j]
      PROVE  AccountsInv'
  <2>1. RunIds'
    BY <1>1 DEF AccountsInv, RunIds
  <2> QED BY <1>1, <2>1, RunsKeepAccounts
<1>2. ASSUME NEW p \in Process, Crash(p) PROVE AccountsInv'
  BY <1>1, <1>2, CrashStep DEF rows
<1>3. CASE UNCHANGED <<observations, calls, runs, started, erasures>>
  BY <1>1, <1>3
<1>4. ASSUME NEW p \in Process, Save(p) \/ Saved(p)
      PROVE  UNCHANGED <<observations, calls, runs, started, erasures>>
  BY <1>4 DEF Save, Saved, rows
<1> QED BY <1>2, <1>3, <1>4, OtherSteps, RunAccounts, BeginAccounts, EraseAccounts DEF rows

TablesInv == SavesInv /\ SinceInv /\ AccountsInv

\* Initially there is nothing to account for.
LEMMA TablesInit == Init => TablesInv
<1> SUFFICES ASSUME Init PROVE AccountsInv
  BY SavesInit, SinceInit DEF TablesInv
<1>1. RunsTyped
  BY SinceInit DEF SinceInv
<1> QED BY <1>1, FS_EmptySet DEF Init, AccountsInv, RunIds, ObservationsAnswered

\* Every step keeps what is saved, stored and counted.
LEMMA TablesKept ==
  ASSUME TablesInv, [Next]_vars
  PROVE  TablesInv'
<1>1. SavesInv' /\ SinceInv'
  BY SavesKept, SinceKept DEF TablesInv
<1>2. RunsTyped' /\ SetsNumbered /\ RunsSince
  BY <1>1 DEF SinceInv, SavesInv, TablesInv
<1> QED BY <1>1, <1>2, AccountsKept DEF TablesInv

\* What a run counted is what it did, at every point of it, with any models denied or
\* failing meanwhile and any writes refused: each model it is through with had every
\* prompt answered or failed, or counts as denied, once; the database has an observation
\* for every answer counted; and the call of an observation is recorded as answered, and
\* never as failed too (runner.ts run, router.ts complete).
THEOREM SummariesAccount == Spec => []SummaryAccounts
<1>1. TablesInv => SummaryAccounts
  <2> SUFFICES ASSUME AccountsInv PROVE SummaryAccounts
    BY DEF TablesInv
  <2>1. ASSUME NEW k \in Slot, runs[k] # None
        PROVE  LET r == runs[k]
               IN  /\ r.denied = Cardinality(PassedBy(r))
                   /\ \A m \in 1 .. Models :
                        /\ AskedOf(r, m) <= Prompts
                        /\ r.since = erasures => Cardinality(ObservationsOf(r, m)) = r.counted[m]
    BY <2>1 DEF AccountsInv, Accounted, OutcomesCounted, RowsStored
  <2>2. \A o \in observations : Statuses(o.run, o.model, o.prompt) = {"ok"}
    BY DEF AccountsInv, ObservationsAnswered
  <2> QED BY <2>1, <2>2 DEF SummaryAccounts, PassedBy, AskedOf, ObservationsOf, Statuses
<1> QED BY <1>1, TablesInit, TablesKept, PTL DEF Spec

-----------------------------------------------------------------------------
(* Calls that were asked before the last erasure *)

\* The calls of a run that were asked before the last erasure are of one prompt.
StaleOnce ==
  \A c, d \in {x \in calls : x.asked # erasures} :
    c.run = d.run => c.model = d.model /\ c.prompt = d.prompt

\* While a run is at a prompt it asked before the last erasure, it has no other calls.
StaleHere ==
  \A k \in Slot :
    runs[k] # None /\ runs[k].at \in {"model", "failed"} /\ runs[k].asked # erasures =>
      \A c \in calls : c.run = runs[k].id => Here(runs[k], c)

StaleInv == StaleOnce /\ StaleHere

\* A run records its calls at the prompt it is at, asks the next one after the erasure, and
\* writes no row of another run.
LEMMA RunStale ==
  ASSUME StaleInv, RunsTyped, RunIds, NEW k \in Slot, Run(k)
  PROVE  StaleInv'
<1>1. PICK r : r = runs[k]
  OBVIOUS
<1>2. PICK n : /\ runs' = [runs EXCEPT ![k] = n]
               /\ (n = None /\ UNCHANGED <<observations, calls>>) \/ RunStep(r, n)
  BY <1>1, RunSteps
<1>3. r # None /\ r \in RunRecord /\ UNCHANGED erasures
  BY <1>1, RunSteps
<1>4. runs'[k] = n /\ \A j \in Slot : j # k => runs'[j] = runs[j]
  BY <1>2 DEF RunsTyped
<1>5. \/ calls' = calls
      \/ /\ r.at \in {"model", "failed"}
         /\ \E status : calls' = calls \cup {CallOf(r, status)}
  BY <1>2 DEF RunStep, Records, IsAnswered, Loses
<1>6. r.at \in {"model", "failed"} /\ r.asked # erasures => \A c \in calls : c.run = r.id => Here(r, c)
  BY <1>1, <1>3 DEF StaleInv, StaleHere
<1>7. \A status : LET c == CallOf(r, status)
                  IN  c.run = r.id /\ c.model = r.model /\ c.prompt = r.prompt /\ c.asked = r.asked
  BY DEF CallOf
<1>8. StaleOnce'
  <2>1. CASE calls' = calls
    BY <1>3, <2>1 DEF StaleInv, StaleOnce
  <2>2. ASSUME r.at \in {"model", "failed"}, NEW status, calls' = calls \cup {CallOf(r, status)}
        PROVE  StaleOnce'
    <3>1. ASSUME NEW c \in calls', c.run = r.id, r.asked # erasures
          PROVE  c.model = r.model /\ c.prompt = r.prompt
      BY <1>6, <1>7, <2>2, <3>1 DEF Here
    <3>2. SUFFICES ASSUME NEW c \in calls', NEW d \in calls', c.asked # erasures, d.asked # erasures,
                          c.run = d.run
                   PROVE  c.model = d.model /\ c.prompt = d.prompt
      BY <1>3 DEF StaleOnce
    <3>3. CASE c \in calls /\ d \in calls
      BY <3>2, <3>3 DEF StaleInv, StaleOnce
    <3>4. CASE c = CallOf(r, status) \/ d = CallOf(r, status)
      <4>1. c.run = r.id /\ d.run = r.id /\ r.asked # erasures
        BY <1>7, <3>2, <3>4
      <4> QED BY <3>1, <4>1
    <3> QED BY <2>2, <3>3, <3>4
  <2> QED BY <1>5, <2>1, <2>2
<1>9. StaleHere'
  <2> SUFFICES ASSUME NEW j \in Slot, NEW s, s = runs'[j], s # None,
                      s.at \in {"model", "failed"}, s.asked # erasures,
                      NEW c \in calls', c.run = s.id
               PROVE  Here(s, c)
    BY <1>3 DEF StaleHere, Here
  <2>1. CASE j = k
    <3>1. RunStep(r, s) /\ s.id = r.id
      BY <1>2, <1>4, <2>1 DEF RunStep, GoesOn
    <3>2. Loses(r, s)
      BY <3>1 DEF RunStep, Asks, LeavesOut, IsAnswered, Fails, Inserts, Advances
    <3>3. r.at = "model" /\ r.asked # erasures /\ Stays(r, s)
      BY <3>2 DEF Loses
    <3>4. Here(r, c)
      BY <1>5, <1>6, <1>7, <3>1, <3>3 DEF Here
    <3> QED BY <3>3, <3>4 DEF Here, Stays
  <2>2. CASE j # k
    <3>1. s = runs[j] /\ s.id # r.id
      BY <1>1, <1>3, <1>4, <2>2 DEF RunIds
    <3>2. c \in calls
      BY <1>5, <1>7, <3>1
    <3> QED BY <3>1, <3>2 DEF StaleInv, StaleHere
  <2> QED BY <2>1, <2>2
<1> QED BY <1>8, <1>9 DEF StaleInv

\* An erasure leaves no calls; a run begins by asking; what else happens ends runs at most.
LEMMA StaleKept ==
  ASSUME StaleInv, SetsNumbered, RunsTyped, RunIds, [Next]_vars
  PROVE  StaleInv'
<1>1. ASSUME UNCHANGED <<calls, erasures>>,
             \A j \in Slot : runs'[j] # None => runs'[j] = runs[j] \/ runs'[j].at = "ask"
      PROVE  StaleInv'
  <2>1. StaleOnce'
    BY <1>1 DEF StaleInv, StaleOnce
  <2>2. StaleHere'
    BY <1>1 DEF StaleInv, StaleHere, Here
  <2> QED BY <2>1, <2>2 DEF StaleInv
<1>2. ASSUME NEW p \in Process, NEW k \in Slot, Begin(p, k) PROVE StaleInv'
  <2>1. PICK n : n.at = "ask" /\ runs' = [runs EXCEPT ![k] = n]
    BY <1>2, BeginStep DEF NewRun
  <2>2. UNCHANGED <<calls, erasures>>
    BY <1>2, BeginStep DEF rows
  <2>3. \A j \in Slot : runs'[j] = runs[j] \/ runs'[j].at = "ask"
    BY <2>1 DEF RunsTyped
  <2> QED BY <1>1, <2>2, <2>3
<1>3. ASSUME NEW p \in Process, Erase(p) PROVE StaleInv'
  <2>1. calls' = {}
    BY <1>3 DEF Erase, ErasedCalls
  <2> QED BY <2>1 DEF StaleInv, StaleOnce, StaleHere
<1>4. ASSUME NEW p \in Process, Crash(p) PROVE StaleInv'
  BY <1>1, <1>4, CrashStep DEF rows
<1>5. ASSUME NEW p \in Process, Save(p) \/ Saved(p) PROVE StaleInv'
  BY <1>1, <1>5 DEF Save, Saved, rows
<1>6. CASE UNCHANGED <<rows, runs, erasures>>
  BY <1>1, <1>6 DEF rows
<1> QED BY <1>2, <1>3, <1>4, <1>5, <1>6, OtherSteps, RunStale

\* Nothing that a run begun before the last erasure observed is stored, and no observation
\* without its query set: the insertions of the run refer to an erased set and are
\* refused. Of each run that was in progress, the calls of one prompt at most come back,
\* however many rows it leaves and however many runs a process has (retention.ts
\* eraseTenant, runner.ts run, router.ts #record).
THEOREM ErasedStays == Spec => []ErasedStaysErased
<1>1. Init => StaleInv
  BY DEF Init, StaleInv, StaleOnce, StaleHere
<1>2. TablesInv /\ StaleInv /\ [Next]_vars => StaleInv'
  BY StaleKept DEF TablesInv, SavesInv, AccountsInv
<1>3. TablesInv /\ StaleInv => ErasedStaysErased
  BY DEF TablesInv, SinceInv, ObservationsSince, StaleInv, StaleOnce, ErasedStaysErased
<1> QED BY <1>1, <1>2, <1>3, TablesInit, TablesKept, PTL DEF Spec
=============================================================================
