-------------------------- MODULE ContentPipeline --------------------------
(***************************************************************************)
(* The content pipeline of packages/core/src/publishing/pipeline.ts with   *)
(* the approval service it drives (governance/approvals.ts) and the job    *)
(* that ages both (governance/retention.ts), over one shared database:     *)
(*                                                                         *)
(*    draft -> verified -> gated -> (awaiting approval ->) approved        *)
(*          -> published                                                   *)
(*                                                                         *)
(* One action per step between two points where other code can run.  Two   *)
(* kinds of point exist.  A method that is not async runs to completion in *)
(* its process, so requests of the SAME process interleave only where      *)
(* publish() awaits its adapter; CanRun is that rule.  Requests of         *)
(* DIFFERENT processes (the console, each command of the CLI, a scheduled  *)
(* job) share only the database, so they interleave at every statement     *)
(* that commits, and a method is as many steps as it reads and commits.    *)
(* With one process the finer steps of a synchronous method cannot be      *)
(* separated; with two they can.                                           *)
(*                                                                         *)
(* Data that the properties do not tell apart is abstract.  A Text stands  *)
(* for everything the approval payload hashes (body, title, slug and the   *)
(* AI-assisted flag; sha256 is injective here); an Evidence for the list   *)
(* of evidence items, which the payload does not cover.                    *)
(***************************************************************************)

CONSTANTS
  Draft,        \* draft ids
  Text,         \* versions of what #payload() hashes
  Evidence,     \* versions of the evidence list
  Actor,        \* authenticated users
  Approval,     \* approval ids
  Publication,  \* publication ids
  Request,      \* calls that can be in progress at once
  Process,      \* operating-system processes that share the database
  Host,         \* the process that serves each request
  Effect,       \* the policy's verdict on a text given a verification report
  Marked,       \* texts for which the policy requires machine-readable marking
  SigningKey,   \* whether a provenance signing key is configured
  None          \* SQL NULL

Report == Text \X Evidence      \* what a VerificationReport was computed from

ASSUME HostAssumption   == Host \in [Request -> Process]
ASSUME EffectAssumption ==
  Effect \in [Text \X Report -> {"allow", "require_approval", "deny"}]
ASSUME MarkedAssumption == Marked \subseteq Text /\ SigningKey \in BOOLEAN
ASSUME NoneAssumption   ==
  None \notin Text \cup Evidence \cup Actor \cup Approval \cup Draft
              \cup Publication \cup Report

VARIABLES
  drafts,        \* table drafts, by id
  approvals,     \* table approvals, by id
  publications,  \* table publications, by id
  contributed,   \* actors of draft.create and draft.update events, by draft
  delivered,     \* artefacts the publishing targets have accepted
  editors,       \* history: who really created or changed each draft
  call           \* progress of the call each request is executing

vars == <<drafts, approvals, publications, contributed, delivered, editors, call>>

-----------------------------------------------------------------------------
(* Rows *)

DraftStatus == {"draft", "verified", "blocked", "awaiting_approval",
                "approved", "rejected", "published"}

\* gate_result: NULL, or the decision's effect and its marking requirement.
NoGate   == [effect |-> "none", marking |-> FALSE]
GateRow  == [effect : {"none", "allow", "require_approval", "deny"}, marking : BOOLEAN]

\* "none": the id is unused; "deleted": the row has been removed.
DraftRow ==
  [status : DraftStatus \cup {"none", "deleted"}, text : Text \cup {None},
   evidence : Evidence \cup {None}, report : Report \cup {None}, gate : GateRow,
   approval : Approval \cup {None}, author : Actor \cup {None},
   reviewer : Actor \cup {None}]

NoDraft ==
  [status |-> "none", text |-> None, evidence |-> None, report |-> None,
   gate |-> NoGate, approval |-> None, author |-> None, reviewer |-> None]

\* age replaces requestedAt: "stale" is past the validity of 30 days, "old" past
\* the retention of approvals.  reviewed is history: all that was put to the
\* decider, of which payloadHash binds only the text.
ApprovalRow ==
  [status : {"none", "pending", "approved", "rejected", "expired", "consumed", "deleted"},
   draft : Draft \cup {None}, payload : Text \cup {None}, reviewed : Report \cup {None},
   requestedBy : Actor \cup {None}, decidedBy : Actor \cup {None},
   age : {"fresh", "stale", "old"}]

NoApproval ==
  [status |-> "none", draft |-> None, payload |-> None, reviewed |-> None,
   requestedBy |-> None, decidedBy |-> None, age |-> "fresh"]

PublicationRow == [status : {"none", "pending", "failed", "published"},
                   draft : Draft \cup {None}]

\* What an adapter was handed, with the columns of the draft row publish() read.
Artefact ==
  [draft : Draft, text : Text \cup {None}, evidence : Evidence \cup {None},
   gate : GateRow, approval : Approval \cup {None}, reviewer : Actor \cup {None},
   publication : Publication]

\* Where a call stands.  row holds the columns it has read of the draft row, or
\* is about to write to it, and will use again; actor is kept while it matters;
\* barred is the contributors decide() has collected.
Step == {"idle", "record", "update", "verify", "request", "gate",
         "read_for_decision", "decide_approved", "decide_rejected", "write_decision",
         "read_for_publish", "insert", "sending", "sent", "failed",
         "read_for_consume", "consume", "settle", "finish", "expire"}

CallRow == [step : Step, draft : Draft \cup {None}, actor : Actor \cup {None},
            row : DraftRow, barred : SUBSET Actor, publication : Publication \cup {None}]

NoCall == [step |-> "idle", draft |-> None, actor |-> None, row |-> NoDraft,
           barred |-> {}, publication |-> None]

TypeOK ==
  /\ drafts \in [Draft -> DraftRow]
  /\ approvals \in [Approval -> ApprovalRow]
  /\ publications \in [Publication -> PublicationRow]
  /\ contributed \in [Draft -> SUBSET Actor]
  /\ delivered \subseteq Artefact
  /\ editors \in [Draft -> SUBSET Actor]
  /\ call \in [Request -> CallRow]

Init ==
  /\ drafts = [d \in Draft |-> NoDraft]
  /\ approvals = [a \in Approval |-> NoApproval]
  /\ publications = [p \in Publication |-> [status |-> "none", draft |-> None]]
  /\ contributed = [d \in Draft |-> {}]
  /\ delivered = {}
  /\ editors = [d \in Draft |-> {}]
  /\ call = [r \in Request |-> NoCall]

-----------------------------------------------------------------------------
(* Control of a call *)

\* The steps at which a call has given the event loop back to its process.
Parked == {"idle", "sending", "sent"}

\* No other call of the same process is inside a synchronous section.
CanRun(r) == \A q \in Request \ {r} : Host[q] = Host[r] => call[q].step \in Parked

At(r, step) == call[r].step = step /\ CanRun(r)

GoTo(r, step) == call' = [call EXCEPT ![r].step = step]

\* The call returns, or throws with everything it has committed left in place.
Return(r) == call' = [call EXCEPT ![r] = NoCall]

Begin(r, step, d, actor, row, barred, p) ==
  call' = [call EXCEPT ![r] =
             [step |-> step, draft |-> d, actor |-> actor, row |-> row,
              barred |-> barred, publication |-> p]]

\* newId(): an id nobody has used.  The constants Approval and Publication bound
\* how many there are.
FreshApproval(a)    == /\ approvals[a].status = "none"
                       /\ \A q \in Request : call[q].row.approval # a
FreshPublication(p) == /\ publications[p].status = "none"
                       /\ \A q \in Request : call[q].publication # p

Exists(d) == drafts[d].status \notin {"none", "deleted"}

\* The early return of updateDraft and of verify.
Editable(d) == Exists(d) /\ drafts[d].status # "published"

\* UPDATE drafts SET ... WHERE id = ?: no condition on the status, no effect
\* when the row is gone.
WriteDraft(d, row) == drafts' = IF Exists(d) THEN [drafts EXCEPT ![d] = row] ELSE drafts

\* What an edit and a verification do to the columns that say how far the draft
\* has come.
KeepsApproved(row, status) ==                                               \* mutant
  IF row.status = "approved" THEN row
  ELSE [row EXCEPT !.status = status, !.gate = NoGate, !.approval = None]

Reset(row, status) == [row EXCEPT !.status = status, !.gate = NoGate, !.approval = None]

\* UPDATE approvals SET status = ... WHERE id = ?, likewise unconditional.
SetApproval(a, status) ==
  approvals' = IF approvals[a].status = "deleted" THEN approvals
               ELSE [approvals EXCEPT ![a].status = status]

-----------------------------------------------------------------------------
(* createDraft, updateDraft, verify *)

CreateDraft(r, d, actor, author, text, evidence) ==
  /\ At(r, "idle")
  /\ drafts[d].status = "none"
  /\ drafts' = [drafts EXCEPT ![d] =
                  [NoDraft EXCEPT !.status = "draft", !.text = text,
                                  !.evidence = evidence, !.author = author]]
  /\ editors' = [editors EXCEPT ![d] = @ \cup {actor}]
  /\ Begin(r, "record", d, actor, NoDraft, {}, None)
  /\ UNCHANGED <<approvals, publications, contributed, delivered>>

BeginUpdate(r, d, actor, text, evidence) ==
  /\ At(r, "idle")
  /\ Editable(d)
  /\ Begin(r, "update", d, actor,
           [NoDraft EXCEPT !.text = text, !.evidence = evidence], {}, None)
  /\ UNCHANGED <<drafts, approvals, publications, contributed, delivered, editors>>

CommitUpdate(r) ==
  LET d == call[r].draft IN
  /\ At(r, "update")
  /\ WriteDraft(d, Reset([drafts[d] EXCEPT
                            !.text = call[r].row.text, !.evidence = call[r].row.evidence,
                            !.report = None], "draft"))
  /\ editors' = [editors EXCEPT ![d] = @ \cup {call[r].actor}]
  /\ GoTo(r, "record")
  /\ UNCHANGED <<approvals, publications, contributed, delivered>>

\* ledger.append of draft.create or draft.update: a commit of its own.  The
\* pipeline reads back only the actors of these two actions (contributors()); the
\* chain every event extends is module AuditLedger.
RecordContribution(r) ==
  /\ At(r, "record")
  /\ contributed' = [contributed EXCEPT ![call[r].draft] = @ \cup {call[r].actor}]
  /\ Return(r)
  /\ UNCHANGED <<drafts, approvals, publications, delivered, editors>>

BeginVerify(r, d) ==
  /\ At(r, "idle")
  /\ Editable(d)
  /\ Begin(r, "verify", d, None,
           [NoDraft EXCEPT !.text = drafts[d].text, !.evidence = drafts[d].evidence],
           {}, None)
  /\ UNCHANGED <<drafts, approvals, publications, contributed, delivered, editors>>

\* The column `evidence` holds the evidence list and the report, so verify()
\* writes back the list it read; the text is not written.
CommitVerify(r) ==
  LET d == call[r].draft
      row == call[r].row IN
  /\ At(r, "verify")
  /\ WriteDraft(d, Reset([drafts[d] EXCEPT
                            !.evidence = row.evidence,
                            !.report = <<row.text, row.evidence>>], "verified"))
  /\ Return(r)
  /\ UNCHANGED <<approvals, publications, contributed, delivered, editors>>

-----------------------------------------------------------------------------
(* gate *)

DenialUnhandled(effect) ==                                                  \* mutant
  IF effect = "deny" THEN "denied" ELSE
  IF effect = "allow" THEN "approved" ELSE "awaiting_approval"

GateStatus(effect) ==
  CASE effect = "deny"             -> "blocked"
    [] effect = "require_approval" -> "awaiting_approval"
    [] effect = "allow"            -> "approved"

\* Read the draft and evaluate the publication policy on what was read; a is the
\* id of the approval to request, if the policy requires one.
BeginGate(r, d, actor, a) ==
  LET row == drafts[d]
      effect == Effect[<<row.text, row.report>>] IN
  /\ At(r, "idle")
  /\ row.status = "verified"
  /\ IF effect = "require_approval" THEN a \in Approval /\ FreshApproval(a) ELSE a = None
  /\ Begin(r, IF a = None THEN "gate" ELSE "request", d, actor,
           [NoDraft EXCEPT
              !.text = row.text, !.evidence = row.evidence,
              !.status = GateStatus(effect), !.approval = a,
              !.gate = [effect |-> effect, marking |-> row.text \in Marked]], {}, None)
  /\ UNCHANGED <<drafts, approvals, publications, contributed, delivered, editors>>

\* ApprovalService.request.
RequestApproval(r) ==
  LET row == call[r].row IN
  /\ At(r, "request")
  /\ approvals[row.approval].status = "none"
  /\ approvals' = [approvals EXCEPT ![row.approval] =
       [status |-> "pending", draft |-> call[r].draft, payload |-> row.text,
        reviewed |-> <<row.text, row.evidence>>, requestedBy |-> call[r].actor,
        decidedBy |-> None, age |-> "fresh"]]
  /\ GoTo(r, "gate")
  /\ UNCHANGED <<drafts, publications, contributed, delivered, editors>>

CommitGate(r) ==
  LET d == call[r].draft
      row == call[r].row IN
  /\ At(r, "gate")
  /\ WriteDraft(d, [drafts[d] EXCEPT !.status = row.status, !.gate = row.gate,
                                     !.approval = row.approval])
  /\ Return(r)
  /\ UNCHANGED <<approvals, publications, contributed, delivered, editors>>

-----------------------------------------------------------------------------
(* decide, and the reads of an approval row it shares with publish *)

\* decide() reads the draft and collects contributors() before it calls the
\* approval service.  The verdict travels in row.status.
BeginDecide(r, d, actor, verdict) ==
  LET row == drafts[d] IN
  /\ At(r, "idle")
  /\ row.status = "awaiting_approval" /\ row.approval # None
  /\ Begin(r, "read_for_decision", d, actor,
           [NoDraft EXCEPT !.status = verdict, !.approval = row.approval],
           contributed[d] \cup ({row.author} \ {None}), None)
  /\ UNCHANGED <<drafts, approvals, publications, contributed, delivered, editors>>

\* The condition of #expireIfStale, on the approval row just read.
Expires(a) == a.status \in {"pending", "approved"} /\ a.age # "fresh"

OtherThanRequester(r, a) ==                                                 \* mutant
  a.status = "pending" /\ call[r].actor # a.requestedBy

\* The checks of ApprovalService.decide: still pending, and four eyes.
MayDecide(r, a) ==
  a.status = "pending" /\ call[r].actor \notin {a.requestedBy} \cup call[r].barred

AnyStatus(r, a) == a.payload = call[r].row.text /\ a.draft = call[r].draft   \* mutant
AnyPayload(r, a) == a.status = "approved"                                   \* mutant

\* The checks of ApprovalService.assertValid.
Valid(r, a) ==
  a.status = "approved" /\ a.payload = call[r].row.text /\ a.draft = call[r].draft

WaitsForApproval(r, here, passes, next) ==                                  \* mutant
  /\ At(r, here) /\ passes /\ GoTo(r, next)
  /\ UNCHANGED <<drafts, approvals, publications, contributed, delivered, editors>>

\* ApprovalService.get followed by #expireIfStale and the caller's checks: the
\* call throws unless they pass.
ReadApproval(r, here, passes, next) ==
  LET a == approvals[call[r].row.approval] IN
  /\ At(r, here)
  /\ \/ Expires(a) /\ GoTo(r, "expire")
     \/ ~Expires(a) /\ passes /\ GoTo(r, next)
     \/ ~Expires(a) /\ ~passes /\ Return(r)
  /\ UNCHANGED <<drafts, approvals, publications, contributed, delivered, editors>>

ReadForDecision(r) ==
  ReadApproval(r, "read_for_decision", MayDecide(r, approvals[call[r].row.approval]),
               IF call[r].row.status = "approved" THEN "decide_approved"
                                                  ELSE "decide_rejected")

\* The expiry is persisted before the call throws.
Expire(r) ==
  /\ At(r, "expire")
  /\ SetApproval(call[r].row.approval, "expired")
  /\ Return(r)
  /\ UNCHANGED <<drafts, publications, contributed, delivered, editors>>

\* The transaction of ApprovalService.decide; it rolls back when the row is gone.
CommitDecision(r, verdict) ==
  LET a == call[r].row.approval IN
  /\ At(r, IF verdict = "approved" THEN "decide_approved" ELSE "decide_rejected")
  /\ IF approvals[a].status = "deleted"
     THEN Return(r) /\ UNCHANGED approvals
     ELSE /\ approvals' = [approvals EXCEPT ![a].status = verdict,
                                            ![a].decidedBy = call[r].actor]
          /\ GoTo(r, "write_decision")
  /\ UNCHANGED <<drafts, publications, contributed, delivered, editors>>

\* The second commit of decide(): the draft row.
WriteDecision(r) ==
  LET d == call[r].draft IN
  /\ At(r, "write_decision")
  /\ WriteDraft(d, [drafts[d] EXCEPT !.status = call[r].row.status,
                                     !.reviewer = call[r].actor])
  /\ Return(r)
  /\ UNCHANGED <<approvals, publications, contributed, delivered, editors>>

-----------------------------------------------------------------------------
(* publish *)

BeginPublish(r, d, p) ==
  LET row == drafts[d] IN
  /\ At(r, "idle")
  /\ row.status = "approved"
  /\ row.gate.marking => SigningKey
  /\ FreshPublication(p)
  /\ Begin(r, IF row.approval = None THEN "insert" ELSE "read_for_publish", d, None,
           [NoDraft EXCEPT
              !.text = row.text, !.evidence = row.evidence, !.gate = row.gate,
              !.approval = row.approval, !.reviewer = row.reviewer], {}, p)
  /\ UNCHANGED <<drafts, approvals, publications, contributed, delivered, editors>>

ConsumesFirst(r) ==                                                         \* mutant
  ReadApproval(r, "read_for_publish", Valid(r, approvals[call[r].row.approval]), "consume")

\* ApprovalService.assertValid before the adapter call, and again inside consume.
ReadForPublish(r) ==
  ReadApproval(r, "read_for_publish", Valid(r, approvals[call[r].row.approval]), "insert")

ReadForConsume(r) ==
  ReadApproval(r, "read_for_consume", Valid(r, approvals[call[r].row.approval]), "consume")

\* INSERT the publication as pending and call the adapter; the insert fails on
\* its foreign key when the draft row is gone.
InsertPublication(r) ==
  LET d == call[r].draft
      p == call[r].publication IN
  /\ At(r, "insert")
  /\ publications[p].status = "none"
  /\ IF Exists(d)
     THEN /\ publications' = [publications EXCEPT ![p] = [status |-> "pending", draft |-> d]]
          /\ GoTo(r, "sending")
     ELSE Return(r) /\ UNCHANGED publications
  /\ UNCHANGED <<drafts, approvals, contributed, delivered, editors>>

\* The target accepts the artefact; the receipt is still under way.
TargetAccepts(r) ==
  LET row == call[r].row IN
  /\ call[r].step = "sending"
  /\ delivered' = delivered \cup
       {[draft |-> call[r].draft, text |-> row.text, evidence |-> row.evidence,
         gate |-> row.gate, approval |-> row.approval, reviewer |-> row.reviewer,
         publication |-> call[r].publication]}
  /\ GoTo(r, "sent")
  /\ UNCHANGED <<drafts, approvals, publications, contributed, editors>>

ReceiveReceipt(r) ==
  /\ At(r, "sent")
  /\ GoTo(r, IF call[r].row.approval = None THEN "settle" ELSE "read_for_consume")
  /\ UNCHANGED <<drafts, approvals, publications, contributed, delivered, editors>>

FailureUnrecorded(r) ==                                                     \* mutant
  /\ At(r, "sending") \/ At(r, "sent")
  /\ Return(r)
  /\ UNCHANGED <<drafts, approvals, publications, contributed, delivered, editors>>

\* The adapter rejects: the target refused, could not be reached, or accepted and
\* the answer was lost or not a success.
AdapterFails(r) ==
  /\ At(r, "sending") \/ At(r, "sent")
  /\ GoTo(r, "failed")
  /\ UNCHANGED <<drafts, approvals, publications, contributed, delivered, editors>>

RecordFailure(r) ==
  /\ At(r, "failed")
  /\ publications' = [publications EXCEPT ![call[r].publication].status = "failed"]
  /\ Return(r)
  /\ UNCHANGED <<drafts, approvals, contributed, delivered, editors>>

\* The transaction of ApprovalService.consume; its UPDATE does not repeat the
\* check made by the read before it.
Consume(r) ==
  LET a == call[r].row.approval IN
  /\ At(r, "consume")
  /\ SetApproval(a, "consumed")
  /\ IF approvals[a].status = "deleted" THEN Return(r) ELSE GoTo(r, "settle")
  /\ UNCHANGED <<drafts, publications, contributed, delivered, editors>>

SettlePublication(r) ==
  /\ At(r, "settle")
  /\ publications' = [publications EXCEPT ![call[r].publication].status = "published"]
  /\ GoTo(r, "finish")
  /\ UNCHANGED <<drafts, approvals, contributed, delivered, editors>>

FinishPublish(r) ==
  LET d == call[r].draft IN
  /\ At(r, "finish")
  /\ WriteDraft(d, [drafts[d] EXCEPT !.status = "published"])
  /\ Return(r)
  /\ UNCHANGED <<approvals, publications, contributed, delivered, editors>>

-----------------------------------------------------------------------------
(* Time, retention and failure *)

\* The clock passes requestedAt + 30 days, then the retention of approvals.
Age(a) ==
  /\ approvals[a].status \notin {"none", "deleted"} /\ approvals[a].age # "old"
  /\ approvals' = [approvals EXCEPT ![a].age = IF @ = "fresh" THEN "stale" ELSE "old"]
  /\ UNCHANGED <<drafts, publications, contributed, delivered, editors, call>>

\* The transaction of applyRetention: outdated is the set of rejected or blocked
\* drafts older than their cutoff.  Expiry comes before deletion.
ApplyRetention(r, outdated) ==
  /\ At(r, "idle")
  /\ \A d \in outdated :
       /\ drafts[d].status \in {"rejected", "blocked"}
       /\ \A p \in Publication : publications[p].draft # d
  /\ drafts' = [d \in Draft |-> IF d \in outdated THEN [NoDraft EXCEPT !.status = "deleted"]
                                ELSE drafts[d]]
  /\ approvals' = [a \in Approval |->
       CASE approvals[a].status \in {"none", "deleted"} -> approvals[a]
         [] approvals[a].status \notin {"none", "deleted"} /\ approvals[a].age = "old" ->
              [approvals[a] EXCEPT !.status = "deleted"]
         [] Expires(approvals[a]) /\ approvals[a].age = "stale" ->
              [approvals[a] EXCEPT !.status = "expired"]
         [] OTHER -> approvals[a]]
  /\ UNCHANGED <<publications, contributed, delivered, editors, call>>

\* The call stops where it is: its process dies, or its next statement throws
\* (SQLITE_BUSY: a contended write does not wait).  Commits so far remain.
Abort(r) ==
  /\ call[r].step # "idle"
  /\ Return(r)
  /\ UNCHANGED <<drafts, approvals, publications, contributed, delivered, editors>>

-----------------------------------------------------------------------------
(* Specification *)

Start(r) ==
  \/ \E d \in Draft :
       \/ BeginVerify(r, d)
       \/ \E p \in Publication : BeginPublish(r, d, p)
  \/ \E d \in Draft, actor \in Actor :
       \/ \E text \in Text, evidence \in Evidence :
            \/ \E author \in Actor : CreateDraft(r, d, actor, author, text, evidence)
            \/ BeginUpdate(r, d, actor, text, evidence)
       \/ \E a \in Approval \cup {None} : BeginGate(r, d, actor, a)
       \/ \E verdict \in {"approved", "rejected"} : BeginDecide(r, d, actor, verdict)
  \/ \E outdated \in SUBSET Draft : ApplyRetention(r, outdated)

Continue(r) ==
  \/ RecordContribution(r) \/ CommitUpdate(r) \/ CommitVerify(r)
  \/ RequestApproval(r) \/ CommitGate(r)
  \/ ReadForDecision(r) \/ Expire(r)
  \/ \E verdict \in {"approved", "rejected"} : CommitDecision(r, verdict)
  \/ WriteDecision(r)
  \/ ReadForPublish(r) \/ ReadForConsume(r) \/ InsertPublication(r)
  \/ TargetAccepts(r) \/ ReceiveReceipt(r) \/ AdapterFails(r) \/ RecordFailure(r)
  \/ Consume(r) \/ SettlePublication(r) \/ FinishPublish(r)

\* What happens when no call is cut short.
NextNoAbort == (\E r \in Request : Start(r) \/ Continue(r)) \/ \E a \in Approval : Age(a)

Next == NextNoAbort \/ \E r \in Request : Abort(r)

Spec == Init /\ [][Next]_vars

SpecNoAbort == Init /\ [][NextNoAbort]_vars
=============================================================================
