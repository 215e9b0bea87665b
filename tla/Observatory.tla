---------------------------- MODULE Observatory ----------------------------
(***************************************************************************)
(* The query sets and runs of packages/core/src/observatory/runner.ts, in  *)
(* processes that share a database with the erasure of their tenant        *)
(* (packages/core/src/governance/retention.ts).                            *)
(*                                                                         *)
(* One tenant and one name of query sets, saved with the default version.  *)
(* A prompt is a query, a paraphrase and a sample; a run asks every prompt *)
(* of each of its models, which are different.  A run names the model it   *)
(* asks, so the router has one candidate and makes one attempt for it      *)
(* (router.ts:85); whether registry, policy and budget allow the model can *)
(* change between any two prompts.                                         *)
(*                                                                         *)
(* A step is a stretch of code between two accesses to the database or an  *)
(* await.  A process can have several runs in progress, and a step of one  *)
(* may come between any two of another: within a process that is more than *)
(* its event loop does.  Any write to the database may be refused.         *)
(***************************************************************************)
EXTENDS Database, FiniteSets, FiniteSetsExt

CONSTANTS
  Models,                  \* how many models a run asks at most
  Prompts,                 \* how many prompts a query set has
  Slot,                    \* runs that can be in progress at once
  None,
  MaxCalls,                \* bound of saves, runs and models of a run together
  MaxErasures, MaxRefusals \* bounds

ASSUME ObservatoryAssumption == Models \in Nat /\ Prompts \in Nat \ {0}

VARIABLES
  sets,            \* rows of query_sets
  observations,    \* rows of observations
  calls,           \* rows of model_calls
  saves,           \* of each process, the row a save is about to insert, or None
  runs,            \* of each slot, the run in progress in it or None
  saved, started,  \* counters, for identifiers
  refused,         \* counter: writes that the database refused
  erasures,        \* history: how many erasures were made
  torn             \* history: one was made while a process was saving

rows  == <<sets, observations, calls>>
vars  == <<schema, rows, saves, runs, saved, started, refused, erasures, torn>>

Init ==
  /\ SchemaInit
  /\ sets = {} /\ observations = {} /\ calls = {}
  /\ saves = [p \in Process |-> None] /\ runs = [s \in Slot |-> None]
  /\ saved = 0 /\ started = 0 /\ refused = 0 /\ erasures = 0 /\ torn = FALSE

\* A write is refused: the database is busy, full or fails.
Refused == refused < MaxRefusals /\ refused' = refused + 1

\* A write that violates a constraint throws anyway.
Throws(violates) == (violates /\ UNCHANGED refused) \/ Refused

\* A save has no await.
Ready(p) == process[p] = "open" /\ saves[p] = None

-----------------------------------------------------------------------------
(* saveQuerySet *)

\* The newest version of the name is read, and the next one chosen.
Save(p) ==
  /\ Ready(p) /\ saved + started < MaxCalls /\ saved' = saved + 1
  /\ saves' = [saves EXCEPT ![p] =
       [id |-> saved + 1, version |-> Max({0} \cup {s.version : s \in sets}) + 1]]
  /\ UNCHANGED <<schema, rows, runs, started, refused, erasures, torn>>

NotChecked(row) == FALSE                                                    \* mutant
\* UNIQUE(tenant_id, name, version).
Taken(row) == \E s \in sets : s.version = row.version

\* The row is inserted, or the save throws.
Saved(p) ==
  /\ saves[p] # None /\ saves' = [saves EXCEPT ![p] = None]
  /\ \/ ~Taken(saves[p]) /\ sets' = sets \cup {saves[p]} /\ UNCHANGED refused
     \/ Throws(Taken(saves[p])) /\ UNCHANGED sets
  /\ UNCHANGED <<schema, observations, calls, runs, saved, started, erasures, torn>>

-----------------------------------------------------------------------------
(* run: the model and the prompt it is at, what it awaits, and its summary *)

Outcomes == [m \in 1 .. Models |-> 0]

Begin(p, s) ==
  /\ Ready(p) /\ runs[s] = None
  /\ \E q \in sets, n \in 1 .. Models :
       /\ started' = started + n /\ saved + started' <= MaxCalls
       /\ runs' = [runs EXCEPT ![s] =
            [process |-> p, id |-> started + 1, set |-> q.id, since |-> erasures, models |-> n,
             model |-> 1, prompt |-> 1, at |-> "ask", asked |-> erasures, denied |-> 0,
             counted |-> Outcomes, errors |-> Outcomes]]
  /\ UNCHANGED <<schema, rows, saves, saved, refused, erasures, torn>>

At(s, where) == runs[s] # None /\ runs[s].at = where
Asking(s)    == At(s, "ask") /\ runs[s].model <= runs[s].models

\* The run goes on as r.
Becomes(s, r) ==
  /\ runs' = [runs EXCEPT ![s] = r]
  /\ UNCHANGED <<schema, sets, saves, saved, started, erasures, torn>>

NextModel(r)  == [r EXCEPT !.model = @ + 1, !.prompt = 1, !.at = "ask"]
NextPrompt(r) == IF r.prompt < Prompts THEN [r EXCEPT !.prompt = @ + 1, !.at = "ask"] ELSE NextModel(r)

AskedAgain(r)   == [r EXCEPT !.at = "ask"]                                  \* mutant
PromptFailed(r) == NextPrompt([r EXCEPT !.errors[r.model] = @ + 1])

\* router.complete plans, with the model as the preferred one, and calls it; or the
\* reading of the registry or the recording of a denial fails, which is no policy_denied.
Ask(s) ==
  /\ Asking(s) /\ Becomes(s, [runs[s] EXCEPT !.at = "model", !.asked = erasures])
  /\ UNCHANGED <<observations, calls, refused>>

AskFails(s) ==
  Asking(s) /\ Refused /\ Becomes(s, PromptFailed(runs[s])) /\ UNCHANGED <<observations, calls>>

\* policy_denied: the rest of the model is left out; or the ledger refuses the event,
\* and the run throws.
DeniedEachTime(r) == NextPrompt([r EXCEPT !.denied = @ + 1])                \* mutant
ModelDenied(r)    == NextModel([r EXCEPT !.denied = @ + 1])

Denied(s) ==
  /\ Asking(s)
  /\ \/ Becomes(s, ModelDenied(runs[s])) /\ UNCHANGED refused
     \/ Becomes(s, None) /\ Refused
  /\ UNCHANGED <<observations, calls>>

\* #record inserts the call, which refers to nothing, and appends to the ledger.
Recorded(r, status) ==
  calls' = calls \cup {[run |-> r.id, model |-> r.model, prompt |-> r.prompt, asked |-> r.asked,
                         status |-> status]}

Answered(s) ==
  /\ At(s, "model") /\ Recorded(runs[s], "ok")
  /\ Becomes(s, [runs[s] EXCEPT !.at = "insert"]) /\ UNCHANGED <<observations, refused>>

\* The recording of the answer is in the try block: when the insertion is refused, or
\* the event after it, the call has failed.
AnswerKept(r) == [r EXCEPT !.at = "insert"]                                 \* mutant
AnswerLost(r) == [r EXCEPT !.at = "failed"]

RecordFails(s) ==
  /\ At(s, "model") /\ (Recorded(runs[s], "ok") \/ UNCHANGED calls)
  /\ Refused /\ Becomes(s, AnswerLost(runs[s])) /\ UNCHANGED observations

CallFails(s) ==
  /\ At(s, "model") /\ Becomes(s, [runs[s] EXCEPT !.at = "failed"])
  /\ UNCHANGED <<observations, calls, refused>>

\* The failure is recorded, or that throws too: an error of the prompt either way.
FailureRecorded(s) ==
  /\ At(s, "failed")
  /\ \/ Recorded(runs[s], "error") /\ UNCHANGED refused
     \/ UNCHANGED calls /\ Refused
  /\ Becomes(s, PromptFailed(runs[s])) /\ UNCHANGED observations

AnySet(r) == TRUE                                                           \* mutant
\* query_set_id REFERENCES query_sets(id), PRAGMA foreign_keys.
SetStored(r) == \E q \in sets : q.id = r.set

Insert(s) ==
  /\ At(s, "insert") /\ SetStored(runs[s])
  /\ LET r == runs[s]
     IN  /\ observations' = observations \cup
              {[set |-> r.set, run |-> r.id, model |-> r.model, prompt |-> r.prompt, since |-> r.since]}
         /\ Becomes(s, NextPrompt([r EXCEPT !.counted[r.model] = @ + 1]))
  /\ UNCHANGED <<calls, refused>>

\* The insertion throws, and the run with it.
InsertFails(s) ==
  /\ At(s, "insert") /\ Throws(~SetStored(runs[s]))
  /\ Becomes(s, None) /\ UNCHANGED <<observations, calls>>

End(s) ==
  /\ At(s, "ask") /\ runs[s].model > runs[s].models
  /\ Becomes(s, None) /\ UNCHANGED <<observations, calls, refused>>

-----------------------------------------------------------------------------
\* eraseTenant, one transaction.
CallsKept   == calls                                                        \* mutant
ErasedCalls == {}

Erase(p) ==
  /\ Ready(p) /\ erasures < MaxErasures /\ erasures' = erasures + 1
  /\ sets' = {} /\ observations' = {} /\ calls' = ErasedCalls
  /\ torn' = (torn \/ \E q \in Process : saves[q] # None)
  /\ UNCHANGED <<schema, saves, runs, saved, started, refused>>

\* The process ends; what it was doing is lost.
Crash(p) ==
  /\ process[p] # "closed" /\ Thrown(p) /\ UNCHANGED applied
  /\ saves' = [saves EXCEPT ![p] = None]
  /\ runs' = [s \in Slot |-> IF runs[s] # None /\ runs[s].process = p THEN None ELSE runs[s]]
  /\ UNCHANGED <<rows, saved, started, refused, erasures, torn>>

Run(s) ==
  \/ Ask(s) \/ AskFails(s) \/ Denied(s)
  \/ Answered(s) \/ RecordFails(s) \/ CallFails(s) \/ FailureRecorded(s)
  \/ Insert(s) \/ InsertFails(s) \/ End(s)

Next ==
  \/ SchemaNext /\ UNCHANGED <<rows, saves, runs, saved, started, refused, erasures, torn>>
  \/ \E p \in Process :
       Save(p) \/ Saved(p) \/ (\E s \in Slot : Begin(p, s)) \/ Erase(p) \/ Crash(p)
  \/ \E s \in Slot : Run(s)

\* A run goes on: the program has nothing else to wait for, and calls return.
Spec == Init /\ [][Next]_vars /\ \A s \in Slot : WF_vars(Run(s))

-----------------------------------------------------------------------------
(* Properties *)

\* After an erasure nothing a run begun before it observed is stored, and no observation
\* without its query set; all that can come back of an erased tenant is, for each run
\* in progress then, the rows of one prompt: the one its model was answering
\* (retention.ts:62-90, router.ts:103-112, runner.ts:213).
ErasedStaysErased ==
  /\ \A o \in observations : o.since = erasures /\ \E q \in sets : q.id = o.set
  /\ \A c, d \in {x \in calls : x.asked # erasures} :
       c.run = d.run => c.model = d.model /\ c.prompt = d.prompt

\* However processes save sets of a name at once, each new version is above all the
\* stored ones, or the save throws; unless the sets were erased under a save
\* (runner.ts:154-166).
NewestOnTop ==
  [][~torn => \A s \in sets' \ sets, t \in sets : s.version > t.version]_vars

\* What a run will report is what it did, whichever writes were refused on the way: each
\* model it is through with had every prompt answered or failed, or counts as denied,
\* once; the database has an observation for every answer counted; and the call of an
\* observation is recorded as answered, and never as failed too (runner.ts:168-238,
\* router.ts:103-114).
SummaryAccounts ==
  /\ \A s \in Slot : runs[s] # None =>
       LET r == runs[s]
           observed(m) == {o \in observations : o.run = r.id /\ o.model = m}
           asked(m) == r.counted[m] + r.errors[m]
       IN  /\ r.denied = Cardinality({m \in 1 .. r.model - 1 : asked(m) < Prompts})
           /\ \A m \in 1 .. Models :
                /\ asked(m) <= Prompts
                /\ r.since = erasures => Cardinality(observed(m)) = r.counted[m]
  /\ \A o \in observations :
       {c.status : c \in {x \in calls : x.run = o.run /\ x.model = o.model /\ x.prompt = o.prompt}}
         = {"ok"}

\* Every run ends, with its summary or with an error, whatever models are allowed
\* meanwhile, whatever writes are refused and whatever is erased (runner.ts:183-232).
RunsEnd == \A s \in Slot : runs[s] # None ~> runs[s] = None
=============================================================================
