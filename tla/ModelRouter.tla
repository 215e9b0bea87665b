---------------------------- MODULE ModelRouter ----------------------------
(***************************************************************************)
(* The model router of packages/core/src/providers/router.ts with the cost *)
(* meter it consults (costMeter.ts) and the model registry that it plans   *)
(* from (governance/registers.ts), for one tenant and workload under one   *)
(* hard budget.                                                            *)
(*                                                                         *)
(* The budget is checked when a call begins and charged when its answer is *)
(* back, and calls overlap in between, in one process or in several.       *)
(* complete() tries the candidates of its plan one after the other;        *)
(* embed() asks the first one only.  An attempt is followed by two writes, *)
(* the row of model_calls and the ledger event, each of which may throw    *)
(* because another process holds the database.                             *)
(***************************************************************************)
EXTENDS Integers, FiniteSets, FiniteSetsExt, Sequences, SequencesExt

CONSTANTS
  Model,        \* the models that have an adapter
  Class,        \* data classes of a request
  Registered,   \* the registry's rows at the start, None for a model without one
  Input,        \* the rows upsert may be given for each model
  Does,         \* what each model's adapter is capable of
  Price,        \* what an answer of each model may cost; None if it has no price
  Call,         \* calls that can be in progress at once
  MaxAttempts,  \* how many candidates complete() tries
  LimitEur,     \* the budget's limit
  MaxCalls,     \* its ceiling on the number of calls, or None
  None

\* The approval status of a model and the data classes the policy allows it for then.
Status == {"approved", "suspended"}
Row    == [status : Status, classes : SUBSET Class]

Need == {"chat", "embeddings"}
Cost == {0} \cup UNION {Price[m] : m \in Model}

ASSUME ModelAssumption ==
  /\ IsFiniteSet(Model)
  /\ Registered \in [Model -> Row \cup {None}] /\ Input \in [Model -> SUBSET Row]
  /\ Does \in [Model -> SUBSET Need]
  /\ Price \in [Model -> SUBSET (Nat \cup {None})] /\ \A m \in Model : IsFiniteSet(Price[m])
ASSUME BudgetAssumption ==
  /\ IsFiniteSet(Call) /\ Call # {}
  /\ MaxAttempts \in Nat \ {0} /\ LimitEur \in Nat \ {0}
  /\ MaxCalls \in Nat \cup {None} /\ None \notin Nat

VARIABLES
  rows,      \* model_calls inside the budget's window: how many rows of each cost
  call,      \* progress of each call
  registry,  \* model_registry: the row of each model, or None
  change     \* the row a setApprovalStatus is about to write, or None

registers == <<registry, change>>
vars      == <<rows, call, registers>>

-----------------------------------------------------------------------------
(* The cost meter *)

\* A row without a price has cost NULL, which SUM ignores.
Priced    == Cost \ {None}
Spent     == SumFunctionOnSet([c \in Priced |-> c * rows[c]], Priced)
CallCount == SumFunctionOnSet(rows, Cost)

\* exhaustedHardBudget.
ExhaustedOnceExceeded ==                                                    \* mutant
  Spent > LimitEur \/ (MaxCalls # None /\ CallCount >= MaxCalls)

Exhausted ==
  Spent >= LimitEur \/ (MaxCalls # None /\ CallCount >= MaxCalls)

\* The window moves on and leaves a row behind.
Elapse(c) ==
  /\ rows[c] > 0
  /\ rows' = [rows EXCEPT ![c] = @ - 1]
  /\ UNCHANGED <<call, registers>>

-----------------------------------------------------------------------------
(* Plans *)

\* A call is idle, asking a model, or at one of the two writes after an answer or a
\* failure.  attempt numbers the candidate being asked; cost is that of its answer;
\* withdrawn is history: the models of the plan that were withdrawn since.
NoCall  == [step |-> "idle", need |-> "chat", class |-> None, plan |-> <<>>,
            attempt |-> 0, cost |-> 0, withdrawn |-> {}]

AnyModel(need, class) == {m \in Model : need \in Does[m]}                   \* mutant

\* evaluateModelAccess of a model with this row.
Allowed(row, class) == row # None /\ row.status = "approved" /\ class \in row.classes

\* The registered models the policy allows, with adapters that are capable.
Candidates(need, class) == {m \in Model : Allowed(registry[m], class) /\ need \in Does[m]}

\* The candidates in the order of some strategy, or the preferred one alone.
Rankings(S) == SetToSeqs(S) \cup {<<m>> : m \in S}

Tried(need, s) == SubSeq(s, 1, Min({Len(s), IF need = "chat" THEN MaxAttempts ELSE 1}))

-----------------------------------------------------------------------------
(* The registry *)

\* The row of m becomes row, whatever the calls in progress have planned.
Stored(m, row) ==
  /\ registry' = [registry EXCEPT ![m] = row]
  /\ call' = [r \in Call |->
                IF call[r].step # "idle" /\ ~Allowed(row, call[r].class)
                  THEN [call[r] EXCEPT !.withdrawn = @ \cup ({m} \cap Range(call[r].plan))] ELSE call[r]]
  /\ UNCHANGED rows

\* upsert, with its event in one transaction.
Upsert(m, row) == row \in Input[m] /\ Stored(m, row) /\ UNCHANGED change

\* setApprovalStatus: get, which throws when there is no row, and then the UPDATE and the
\* event, in no transaction.
ReadRow(m, status) ==
  /\ change = None /\ registry[m] # None /\ Input[m] # {}
  /\ change' = [model |-> m, row |-> [registry[m] EXCEPT !.status = status]]
  /\ UNCHANGED <<rows, call, registry>>

WriteRow == change # None /\ Stored(change.model, change.row) /\ change' = None

\* The UPDATE throws, or the process stops.
StatusFails == change # None /\ change' = None /\ UNCHANGED <<rows, call, registry>>

-----------------------------------------------------------------------------
(* complete() and embed() *)

Init ==
  /\ rows = [c \in Cost |-> 0]
  /\ call = [r \in Call |-> NoCall]
  /\ registry = Registered
  /\ change = None

\* The plan is made and #assertRoutable passes; when it does not, nothing changes but
\* the ledger.
Begin(r, need, class) ==
  /\ call[r].step = "idle"
  /\ ~Exhausted
  /\ Candidates(need, class) # {}
  /\ \E s \in Rankings(Candidates(need, class)) :
       call' = [call EXCEPT ![r] = [NoCall EXCEPT !.step = "asking", !.need = need,
                  !.class = class, !.plan = Tried(need, s), !.attempt = 1]]
  /\ UNCHANGED <<rows, registers>>

\* The adapter's answer, of which each cost the model charges is possible.
Answer(r, c) ==
  /\ call[r].step = "asking"
  /\ c \in Price[call[r].plan[call[r].attempt]]
  /\ call' = [call EXCEPT ![r].step = "meter_answer", ![r].cost = c]
  /\ UNCHANGED <<rows, registers>>

\* Where a call goes when something throws: complete() catches and records a failure
\* of this attempt, unless that is what it was doing; embed() catches nothing.
Caught(k) ==
  IF k.need = "chat" /\ k.step \notin {"meter_failure", "audit_failure"}
    THEN [k EXCEPT !.step = "meter_failure", !.cost = 0] ELSE NoCall

\* The adapter throws or times out.
AdapterFails(r) ==
  /\ call[r].step = "asking"
  /\ call' = [call EXCEPT ![r] = Caught(call[r])]
  /\ UNCHANGED <<rows, registers>>

\* meter.record: the INSERT, in a transaction of its own.  The row of a failure has no
\* tokens, hence no cost.
RecordCost(k) == IF k.step = "meter_failure" /\ None \in Price[k.plan[k.attempt]]
                   THEN None ELSE k.cost

Meter(r) ==
  /\ call[r].step \in {"meter_answer", "meter_failure"}
  /\ rows' = [rows EXCEPT ![RecordCost(call[r])] = @ + 1]
  /\ call' = [call EXCEPT ![r].step =
                IF @ = "meter_answer" THEN "audit_answer" ELSE "audit_failure"]
  /\ UNCHANGED registers

\* ledger.append after an answer: it is returned.
AuditAnswer(r) ==
  /\ call[r].step = "audit_answer"
  /\ call' = [call EXCEPT ![r] = NoCall]
  /\ UNCHANGED <<rows, registers>>

\* ledger.append after a failure: the next candidate, if there is one, is asked.
RetriesSame(k) == [k EXCEPT !.step = "asking"]                              \* mutant
NextAttempt(k) ==
  IF k.attempt < Len(k.plan) THEN [k EXCEPT !.step = "asking", !.attempt = @ + 1] ELSE NoCall

AuditFailure(r) ==
  /\ call[r].step = "audit_failure"
  /\ call' = [call EXCEPT ![r] = NextAttempt(call[r])]
  /\ UNCHANGED <<rows, registers>>

\* The INSERT or the ledger's transaction throws.
WriteFails(r) ==
  /\ call[r].step \notin {"idle", "asking"}
  /\ call' = [call EXCEPT ![r] = Caught(call[r])]
  /\ UNCHANGED <<rows, registers>>

\* The process stops.
Crash(r) ==
  /\ call[r].step # "idle"
  /\ call' = [call EXCEPT ![r] = NoCall]
  /\ UNCHANGED <<rows, registers>>

Continue(r) ==
  \/ \E c \in Cost : Answer(r, c)
  \/ AdapterFails(r) \/ Meter(r) \/ AuditAnswer(r) \/ AuditFailure(r) \/ WriteFails(r)

Next ==
  \/ \E r \in Call :
       \/ \E need \in Need, class \in Class : Begin(r, need, class)
       \/ Continue(r) \/ Crash(r)
  \/ \E c \in Cost : Elapse(c)
  \/ \E m \in Model :
       \/ \E row \in Input[m] : Upsert(m, row)
       \/ \E status \in Status : ReadRow(m, status)
  \/ WriteRow \/ StatusFails

Spec == Init /\ [][Next]_vars

\* An adapter answers or its timer ends the request, and what is ready runs.
FairSpec == Init /\ [][Next]_vars /\ \A r \in Call : WF_vars(Continue(r))

-----------------------------------------------------------------------------
(* Properties *)

\* No request is put to a model the policy does not allow for its data class, however
\* many candidates have failed before; when a model's approval is withdrawn, or its record
\* restricted, only the calls that have begun may still ask it (router.ts:16-18, 69-91;
\* registers.ts:99-117).
OnlyAllowedAsked ==
  \A r \in Call : call[r].step = "asking" =>
    LET m == call[r].plan[call[r].attempt]
    IN  Allowed(registry[m], call[r].class) \/ m \in call[r].withdrawn

MaxPrice == Max(Priced)

\* The spend in the window overruns a hard limit by what the calls in progress at once
\* may cost, all attempts of all of them, and by no more (router.ts:131); so does the
\* number of rows, of which an attempt writes two when the ledger refuses the first
\* (router.ts:107, 111).
BudgetBounded ==
  /\ Spent <= LimitEur - 1 + Cardinality(Call) * MaxAttempts * MaxPrice
  /\ MaxCalls # None => CallCount <= MaxCalls - 1 + 2 * MaxAttempts * Cardinality(Call)

\* Every call returns or throws (router.ts complete, embed).
CallsReturn == \A r \in Call : call[r].step # "idle" ~> call[r].step = "idle"
=============================================================================
