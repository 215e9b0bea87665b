--------------------------- MODULE PipelineProofs ---------------------------
(***************************************************************************)
(* What the content pipeline keeps to, for any number of calls, actors,    *)
(* drafts and approvals.                                                   *)
(*                                                                         *)
(* Part one: in every deployment, of any number of processes, with any     *)
(* call cut short anywhere.                                                *)
(*                                                                         *)
(* Part two: when one process runs it, with calls that overlap where       *)
(* publish() awaits its adapter; first with any call cut short anywhere,   *)
(* then with none cut short, where the pipeline implements                 *)
(* EditorialControl.                                                       *)
(***************************************************************************)
EXTENDS PipelineRefinement, TLAPS

-----------------------------------------------------------------------------
(* Part one: any deployment.  The inductive invariant *)

\* A draft that exists has a text and an evidence list, and a verified one also the
\* report that gate() reads.
DraftsComplete ==
  \A d \in Draft :
    /\ Exists(d) => drafts[d].text \in Text /\ drafts[d].evidence \in Evidence
    /\ drafts[d].status = "verified" => drafts[d].report \in Report

\* An unused id has decided nothing, and an approval that stands was given by
\* someone other than its requester.
ApprovalsDecided ==
  \A a \in Approval :
    /\ approvals[a].status = "none" => approvals[a].decidedBy = None
    /\ approvals[a].status = "approved" =>
         approvals[a].decidedBy \notin {None, approvals[a].requestedBy}

\* What a call carries from one step to the next.
CallComplete(r) ==
  LET c == call[r] IN
  /\ c.step # "idle" => c.draft \in Draft
  /\ c.step \in {"record", "update", "request", "read_for_decision", "decide_approved",
                 "decide_rejected", "write_decision"} => c.actor \in Actor
  /\ c.step \in {"update", "verify", "request"} =>
       c.row.text \in Text /\ c.row.evidence \in Evidence
  /\ c.step \in {"request", "gate", "read_for_decision", "decide_approved",
                 "decide_rejected", "write_decision"} => c.row.status # "verified"
  /\ c.step \in {"read_for_publish", "insert", "sending", "sent", "failed",
                 "read_for_consume", "consume", "settle", "finish"} =>
       c.publication \in Publication

\* From its check to its commit a decision is by someone other than the requester.
CallDecides(r) ==
  LET c == call[r] IN
  c.step \in {"decide_approved", "decide_rejected"} /\ c.row.approval # None =>
    /\ approvals[c.row.approval].status # "none"
    /\ approvals[c.row.approval].requestedBy # c.actor

\* Approval a covers a text of a draft, whatever has become of the approval since.
Covers(a, draft, text) ==
  /\ approvals[a].draft = draft /\ approvals[a].payload = text
  /\ approvals[a].decidedBy \notin {None, approvals[a].requestedBy}

\* Past its first check, a publish that relies on an approval is covered by it.
CallCovered(r) ==
  LET c == call[r] IN
  /\ c.step \in {"insert", "sending", "sent", "failed", "read_for_consume", "consume",
                 "settle", "finish"}
  /\ c.row.approval # None
  => Covers(c.row.approval, c.draft, c.row.text)

\* Past the target's answer, what the call sent has been delivered.
CallDelivered(r) ==
  LET c == call[r] IN
  c.step \in {"sent", "read_for_consume", "consume"} /\ c.row.approval # None =>
    \E x \in delivered : /\ x.approval = c.row.approval
                         /\ x.text = approvals[c.row.approval].payload

CallInv(r) == CallComplete(r) /\ CallDecides(r) /\ CallCovered(r) /\ CallDelivered(r)

IInv ==
  /\ TypeOK
  /\ DraftsComplete
  /\ ApprovalsDecided
  /\ \A r \in Request : CallInv(r)
  /\ DeliveredUnderItsApproval
  /\ ConsumedWasDelivered

-----------------------------------------------------------------------------
(* What a step keeps *)

\* Every call but r stays where it is.
OthersWait(r) == \A q \in Request \ {r} : call'[q] = call[q]

\* No approval changes what it is for, is decided again by its requester, or
\* becomes an unused id.
ApprovalsKept ==
  \A a \in Approval :
    /\ approvals[a].status # "none" =>
         /\ approvals'[a].status # "none"
         /\ approvals'[a].draft = approvals[a].draft
         /\ approvals'[a].payload = approvals[a].payload
         /\ approvals'[a].requestedBy = approvals[a].requestedBy
    /\ approvals[a].decidedBy \notin {None, approvals[a].requestedBy} =>
         approvals'[a].decidedBy \notin {None, approvals'[a].requestedBy}

\* A call that has returned carries nothing.
LEMMA ReturnedInv == ASSUME NEW r \in Request, call'[r] = NoCall PROVE CallInv(r)'
BY DEF CallInv, CallComplete, CallDecides, CallCovered, CallDelivered, NoCall

\* What a call carries stays right while other calls act.
LEMMA WaitingInv ==
  ASSUME IInv, ApprovalsKept, delivered \subseteq delivered',
         NEW q \in Request, call'[q] = call[q]
  PROVE  CallInv(q)'
<1> DEFINE a == call[q].row.approval
<1>1. a \in Approval \cup {None}
  BY DEF IInv, TypeOK, CallRow, DraftRow
<1>2. CallComplete(q)'
  BY DEF IInv, CallInv, CallComplete
<1>3. CallDecides(q)'
  BY <1>1 DEF IInv, CallInv, CallDecides, ApprovalsKept
<1>4. ASSUME a \in Approval, approvals[a].decidedBy # None
      PROVE  approvals[a].status # "none"
  BY <1>4 DEF IInv, ApprovalsDecided
<1>5. CallCovered(q)'
  BY <1>1, <1>4 DEF IInv, CallInv, CallCovered, Covers, ApprovalsKept
<1>6. CallDelivered(q)'
  <2>1. call[q].step \in {"sent", "read_for_consume", "consume"} /\ a # None =>
          approvals'[a].payload = approvals[a].payload
    BY <1>1, <1>4 DEF IInv, CallInv, CallCovered, Covers, ApprovalsKept
  <2> QED BY <2>1 DEF IInv, CallInv, CallDelivered
<1> QED BY <1>2, <1>3, <1>5, <1>6 DEF CallInv

\* A step of call r keeps the invariant when it keeps the approvals, covers what it
\* delivers, and consumes only what has been delivered.
LEMMA StepInv ==
  ASSUME IInv, TypeOK', DraftsComplete', ApprovalsDecided', ApprovalsKept,
         \A q \in Request : call'[q] = call[q] \/ CallInv(q)',
         delivered \subseteq delivered',
         \A x \in delivered' \ delivered :
           x.approval # None => Covers(x.approval, x.draft, x.text)',
         \A a \in Approval :
           approvals'[a].status = "consumed" /\ approvals[a].status # "consumed" =>
             \E x \in delivered : x.approval = a /\ x.text = approvals'[a].payload
  PROVE  IInv'
<1>1. \A q \in Request : CallInv(q)'
  BY WaitingInv
<1>2. DeliveredUnderItsApproval'
  <2> SUFFICES ASSUME NEW x \in delivered', x.approval # None
               PROVE  Covers(x.approval, x.draft, x.text)'
    BY DEF DeliveredUnderItsApproval, Covers
  <2>1. CASE x \notin delivered
    BY <2>1
  <2>2. CASE x \in delivered
    <3>1. x.approval \in Approval
      BY <2>2 DEF IInv, TypeOK, Artefact
    <3>2. Covers(x.approval, x.draft, x.text)
      BY <2>2 DEF IInv, DeliveredUnderItsApproval, Covers
    <3>3. approvals[x.approval].status # "none"
      BY <3>1, <3>2 DEF IInv, ApprovalsDecided, Covers
    <3> QED BY <3>1, <3>2, <3>3 DEF Covers, ApprovalsKept
  <2> QED BY <2>1, <2>2
<1>3. ConsumedWasDelivered'
  <2> SUFFICES ASSUME NEW a \in Approval, approvals'[a].status = "consumed"
               PROVE  \E x \in delivered' : x.approval = a /\ x.text = approvals'[a].payload
    BY DEF ConsumedWasDelivered
  <2>1. CASE approvals[a].status = "consumed"
    BY <2>1 DEF IInv, ConsumedWasDelivered, ApprovalsKept
  <2> QED BY <2>1
<1> QED BY <1>1, <1>2, <1>3 DEF IInv

\* In particular a step that leaves approvals and deliveries alone.
LEMMA DraftStepInv ==
  ASSUME IInv, TypeOK', DraftsComplete', UNCHANGED <<approvals, delivered>>,
         NEW r \in Request, OthersWait(r), CallInv(r)'
  PROVE  IInv'
<1>1. ApprovalsDecided' /\ ApprovalsKept
  BY DEF IInv, ApprovalsDecided, ApprovalsKept
<1>2. \A q \in Request : call'[q] = call[q] \/ CallInv(q)'
  BY DEF OthersWait
<1> QED BY <1>1, <1>2, StepInv

-----------------------------------------------------------------------------
(* Types of rows and calls *)

\* The empty rows are of their types.
LEMMA EmptyRows == NoDraft \in DraftRow /\ NoGate \in GateRow /\ NoCall \in CallRow
<1>1. NoGate \in GateRow
  BY DEF NoGate, GateRow
<1>2. NoDraft \in DraftRow
  BY <1>1 DEF NoDraft, DraftRow
<1> QED BY <1>1, <1>2 DEF NoCall, CallRow, Step

\* A draft row is what its fields are.
LEMMA DraftRowFields ==
  ASSUME NEW row \in DraftRow
  PROVE  /\ row.status \in DraftStatus \cup {"none", "deleted"}
         /\ row.text \in Text \cup {None} /\ row.evidence \in Evidence \cup {None}
         /\ row.report \in Report \cup {None} /\ row.gate \in GateRow
         /\ row.approval \in Approval \cup {None}
         /\ row.author \in Actor \cup {None} /\ row.reviewer \in Actor \cup {None}
BY DEF DraftRow

\* A call is what its fields are.
LEMMA CallRowFields ==
  ASSUME NEW c \in CallRow
  PROVE  /\ c.step \in Step /\ c.draft \in Draft \cup {None}
         /\ c.actor \in Actor \cup {None} /\ c.row \in DraftRow
         /\ c.barred \in SUBSET Actor /\ c.publication \in Publication \cup {None}
BY DEF CallRow

\* Moving a call on keeps it a call (ContentPipeline GoTo).
LEMMA GoToType ==
  ASSUME TypeOK, NEW r \in Request, NEW step \in Step, GoTo(r, step)
  PROVE  /\ call' \in [Request -> CallRow]
         /\ call'[r] = [call[r] EXCEPT !.step = step]
         /\ OthersWait(r)
BY DEF TypeOK, CallRow, GoTo, OthersWait

\* Ending a call keeps it a call (ContentPipeline Return).
LEMMA ReturnType ==
  ASSUME TypeOK, NEW r \in Request, Return(r)
  PROVE  /\ call' \in [Request -> CallRow]
         /\ call'[r] = NoCall
         /\ OthersWait(r)
BY EmptyRows DEF TypeOK, Return, OthersWait

\* Starting a call with typed values gives a call (ContentPipeline Begin).
LEMMA BeginType ==
  ASSUME TypeOK, NEW r \in Request, NEW step \in Step, NEW d \in Draft,
         NEW actor \in Actor \cup {None}, NEW row \in DraftRow,
         NEW barred \in SUBSET Actor, NEW p \in Publication \cup {None},
         Begin(r, step, d, actor, row, barred, p)
  PROVE  /\ call' \in [Request -> CallRow]
         /\ call'[r] = [step |-> step, draft |-> d, actor |-> actor, row |-> row,
                        barred |-> barred, publication |-> p]
         /\ OthersWait(r)
BY DEF TypeOK, CallRow, Begin, OthersWait

\* An UPDATE of a draft with a typed row keeps the table typed.
LEMMA WriteDraftType ==
  ASSUME TypeOK, NEW d \in Draft, NEW row \in DraftRow, WriteDraft(d, row)
  PROVE  /\ drafts' \in [Draft -> DraftRow]
         /\ \A x \in Draft : drafts'[x] = IF x = d /\ Exists(d) THEN row ELSE drafts[x]
<1>1. CASE Exists(d)
  BY <1>1 DEF TypeOK, WriteDraft
<1>2. CASE ~Exists(d)
  BY <1>2 DEF TypeOK, WriteDraft
<1> QED BY <1>1, <1>2

\* What an edit or a verification leaves is a draft row without gate and approval.
LEMMA ResetType ==
  ASSUME NEW row \in DraftRow, NEW status \in DraftStatus
  PROVE  Reset(row, status) \in DraftRow
BY EmptyRows DEF Reset, DraftRow

\* Writing a row that is complete keeps the drafts complete.
LEMMA WriteDraftComplete ==
  ASSUME TypeOK, DraftsComplete, NEW d \in Draft, NEW row \in DraftRow,
         WriteDraft(d, row),
         Exists(d) => row.text \in Text /\ row.evidence \in Evidence,
         Exists(d) /\ row.status = "verified" => row.report \in Report
  PROVE  DraftsComplete'
BY WriteDraftType DEF DraftsComplete, Exists

-----------------------------------------------------------------------------
(* createDraft, updateDraft, verify *)

\* createDraft's INSERT keeps the invariant: the row is complete.
LEMMA CreateDraftInv ==
  ASSUME IInv, NEW r \in Request, NEW d \in Draft, NEW actor \in Actor, NEW author \in Actor,
         NEW text \in Text, NEW evidence \in Evidence,
         CreateDraft(r, d, actor, author, text, evidence)
  PROVE  IInv'
<1> DEFINE row == [NoDraft EXCEPT !.status = "draft", !.text = text,
                                  !.evidence = evidence, !.author = author]
<1>1. row \in DraftRow
  BY EmptyRows DEF DraftRow, DraftStatus
<1>2. /\ call' \in [Request -> CallRow]
      /\ call'[r] = [step |-> "record", draft |-> d, actor |-> actor, row |-> NoDraft,
                     barred |-> {}, publication |-> None]
      /\ OthersWait(r)
  BY EmptyRows, BeginType DEF CreateDraft, IInv, Step
<1>3. TypeOK'
  BY <1>1, <1>2 DEF CreateDraft, IInv, TypeOK
<1>4. DraftsComplete'
  BY NoneAssumption DEF CreateDraft, IInv, TypeOK, DraftsComplete, Exists, NoDraft
<1>5. CallInv(r)'
  BY <1>2 DEF CallInv, CallComplete, CallDecides, CallCovered, CallDelivered
<1> QED BY <1>2, <1>3, <1>4, <1>5, DraftStepInv DEF CreateDraft

\* updateDraft's read keeps it: the call holds a typed row.
LEMMA BeginUpdateInv ==
  ASSUME IInv, NEW r \in Request, NEW d \in Draft, NEW actor \in Actor,
         NEW text \in Text, NEW evidence \in Evidence,
         BeginUpdate(r, d, actor, text, evidence)
  PROVE  IInv'
<1> DEFINE row == [NoDraft EXCEPT !.text = text, !.evidence = evidence]
<1>1. row \in DraftRow /\ row.text = text /\ row.evidence = evidence
  BY EmptyRows DEF DraftRow, NoDraft
<1> HIDE DEF row
<1>2. /\ call' \in [Request -> CallRow]
      /\ call'[r] = [step |-> "update", draft |-> d, actor |-> actor, row |-> row,
                     barred |-> {}, publication |-> None]
      /\ OthersWait(r)
  BY <1>1, BeginType DEF BeginUpdate, IInv, Step, row
<1>3. TypeOK' /\ DraftsComplete'
  BY <1>2 DEF BeginUpdate, IInv, TypeOK, DraftsComplete, Exists
<1>4. CallInv(r)'
  BY <1>1, <1>2 DEF CallInv, CallComplete, CallDecides, CallCovered, CallDelivered
<1> QED BY <1>2, <1>3, <1>4, DraftStepInv DEF BeginUpdate

\* updateDraft's UPDATE keeps it: no approval is left on the row.
LEMMA CommitUpdateInv ==
  ASSUME IInv, NEW r \in Request, CommitUpdate(r)
  PROVE  IInv'
<1> DEFINE d == call[r].draft
           written == [drafts[d] EXCEPT !.text = call[r].row.text,
                                        !.evidence = call[r].row.evidence, !.report = None]
           row == Reset(written, "draft")
<1>1. /\ d \in Draft /\ call[r].row.text \in Text /\ call[r].row.evidence \in Evidence
      /\ call[r].actor \in Actor
  BY DEF IInv, CallInv, CallComplete, CommitUpdate, At
<1>2. written \in DraftRow
  <2>1. drafts[d] \in DraftRow
    BY <1>1 DEF IInv, TypeOK
  <2> QED BY <1>1, <2>1 DEF DraftRow
<1>3. row \in DraftRow
  BY <1>2, ResetType DEF DraftStatus
<1>4. row.text \in Text /\ row.evidence \in Evidence /\ row.status = "draft"
  BY <1>1 DEF Reset, IInv, TypeOK, DraftRow
<1>5. WriteDraft(d, row)
  BY DEF CommitUpdate
<1>6. drafts' \in [Draft -> DraftRow] /\ DraftsComplete'
  BY <1>1, <1>3, <1>4, <1>5, WriteDraftType, WriteDraftComplete DEF IInv
<1>7. /\ call' \in [Request -> CallRow] /\ OthersWait(r)
      /\ call'[r] = [call[r] EXCEPT !.step = "record"]
  BY GoToType DEF CommitUpdate, IInv, Step
<1>8. TypeOK'
  BY <1>1, <1>6, <1>7 DEF CommitUpdate, IInv, TypeOK
<1>9. CallInv(r)'
  BY <1>1, <1>7 DEF CallInv, CallComplete, CallDecides, CallCovered, CallDelivered,
                    IInv, TypeOK, CallRow
<1> QED BY <1>6, <1>7, <1>8, <1>9, DraftStepInv DEF CommitUpdate

\* The ledger event of an edit keeps it.
LEMMA RecordContributionInv ==
  ASSUME IInv, NEW r \in Request, RecordContribution(r)
  PROVE  IInv'
<1>1. call' \in [Request -> CallRow] /\ call'[r] = NoCall /\ OthersWait(r)
  BY ReturnType DEF RecordContribution, IInv
<1>2. call[r].actor \in Actor
  BY DEF IInv, CallInv, CallComplete, RecordContribution, At
<1>3. TypeOK' /\ DraftsComplete'
  BY <1>1, <1>2 DEF RecordContribution, IInv, TypeOK, DraftsComplete, Exists
<1> QED BY <1>1, <1>3, ReturnedInv, DraftStepInv DEF RecordContribution

\* verify's read keeps it: what it holds is complete.
LEMMA BeginVerifyInv ==
  ASSUME IInv, NEW r \in Request, NEW d \in Draft, BeginVerify(r, d)
  PROVE  IInv'
<1> DEFINE row == [NoDraft EXCEPT !.text = drafts[d].text, !.evidence = drafts[d].evidence]
<1>1. drafts[d].text \in Text /\ drafts[d].evidence \in Evidence
  BY DEF BeginVerify, Editable, IInv, DraftsComplete
<1>2. row \in DraftRow /\ row.text \in Text /\ row.evidence \in Evidence
  BY <1>1, EmptyRows DEF DraftRow, NoDraft
<1>3. Begin(r, "verify", d, None, row, {}, None)
  BY DEF BeginVerify
<1> HIDE DEF row
<1>4. /\ call' \in [Request -> CallRow] /\ OthersWait(r)
      /\ call'[r] = [step |-> "verify", draft |-> d, actor |-> None, row |-> row,
                     barred |-> {}, publication |-> None]
  <2>1. "verify" \in Step /\ TypeOK /\ {} \in SUBSET Actor
    BY DEF IInv, Step
  <2> QED BY <1>2, <1>3, <2>1, BeginType
<1>5. TypeOK' /\ DraftsComplete'
  BY <1>4 DEF BeginVerify, IInv, TypeOK, DraftsComplete, Exists
<1>6. CallInv(r)'
  BY <1>2, <1>4 DEF CallInv, CallComplete, CallDecides, CallCovered, CallDelivered
<1> QED BY <1>4, <1>5, <1>6, DraftStepInv DEF BeginVerify

\* verify's UPDATE keeps it: the report is of content that existed.
LEMMA CommitVerifyInv ==
  ASSUME IInv, NEW r \in Request, CommitVerify(r)
  PROVE  IInv'
<1> DEFINE d == call[r].draft
           report == <<call[r].row.text, call[r].row.evidence>>
           written == [drafts[d] EXCEPT !.evidence = call[r].row.evidence, !.report = report]
           row == Reset(written, "verified")
<1>1. d \in Draft /\ call[r].row.text \in Text /\ call[r].row.evidence \in Evidence
  BY DEF IInv, CallInv, CallComplete, CommitVerify, At
<1>2. report \in Report
  BY <1>1 DEF Report
<1>3. written \in DraftRow
  <2>1. drafts[d] \in DraftRow
    BY <1>1 DEF IInv, TypeOK
  <2> QED BY <1>1, <1>2, <2>1 DEF DraftRow
<1>4. row \in DraftRow
  BY <1>3, ResetType DEF DraftStatus
<1>5. row.text = drafts[d].text /\ row.evidence \in Evidence /\ row.report \in Report
  BY <1>1, <1>2 DEF Reset, IInv, TypeOK, DraftRow
<1>6. Exists(d) => row.text \in Text
  BY <1>1, <1>5 DEF IInv, DraftsComplete
<1>7. WriteDraft(d, row)
  BY DEF CommitVerify
<1>8. drafts' \in [Draft -> DraftRow] /\ DraftsComplete'
  BY <1>1, <1>4, <1>5, <1>6, <1>7, WriteDraftType, WriteDraftComplete DEF IInv
<1>9. call' \in [Request -> CallRow] /\ call'[r] = NoCall /\ OthersWait(r)
  BY ReturnType DEF CommitVerify, IInv
<1>10. TypeOK'
  BY <1>8, <1>9 DEF CommitVerify, IInv, TypeOK
<1> QED BY <1>8, <1>9, <1>10, ReturnedInv, DraftStepInv DEF CommitVerify

-----------------------------------------------------------------------------
(* gate *)

\* gate's read and evaluation keep it: the call holds a fresh approval id or none.
LEMMA BeginGateInv ==
  ASSUME IInv, NEW r \in Request, NEW d \in Draft, NEW actor \in Actor,
         NEW a \in Approval \cup {None}, BeginGate(r, d, actor, a)
  PROVE  IInv'
<1> DEFINE effect == Effect[<<drafts[d].text, drafts[d].report>>]
           gate == [effect |-> effect, marking |-> drafts[d].text \in Marked]
           row == [NoDraft EXCEPT !.text = drafts[d].text, !.evidence = drafts[d].evidence,
                                  !.status = GateStatus(effect), !.approval = a, !.gate = gate]
           step == IF a = None THEN "gate" ELSE "request"
<1>1. /\ drafts[d].text \in Text /\ drafts[d].evidence \in Evidence
      /\ drafts[d].report \in Report
  BY DEF BeginGate, Exists, IInv, DraftsComplete
<1>2. effect \in {"allow", "require_approval", "deny"}
  BY <1>1, EffectAssumption
<1>3. GateStatus(effect) \in {"blocked", "awaiting_approval", "approved"}
  BY <1>2 DEF GateStatus
<1>4. gate \in GateRow
  BY <1>2 DEF GateRow
<1>5. /\ row \in DraftRow /\ row.text \in Text /\ row.evidence \in Evidence
      /\ row.status # "verified"
  BY <1>1, <1>3, <1>4, EmptyRows DEF DraftRow, DraftStatus, NoDraft
<1>6. Begin(r, step, d, actor, row, {}, None)
  BY DEF BeginGate
<1> HIDE DEF row
<1>7. /\ call' \in [Request -> CallRow] /\ OthersWait(r)
      /\ call'[r] = [step |-> step, draft |-> d, actor |-> actor, row |-> row,
                     barred |-> {}, publication |-> None]
  <2>1. step \in Step /\ TypeOK /\ {} \in SUBSET Actor
    BY DEF IInv, Step
  <2> QED BY <1>5, <1>6, <2>1, BeginType
<1>8. TypeOK' /\ DraftsComplete'
  BY <1>7 DEF BeginGate, IInv, TypeOK, DraftsComplete, Exists
<1>9. CallInv(r)'
  BY <1>5, <1>7 DEF CallInv, CallComplete, CallDecides, CallCovered, CallDelivered
<1> QED BY <1>7, <1>8, <1>9, DraftStepInv DEF BeginGate

\* The INSERT of the approval keeps it: nothing delivered refers to the new row.
LEMMA RequestApprovalInv ==
  ASSUME IInv, NEW r \in Request, RequestApproval(r)
  PROVE  IInv'
<1> DEFINE c == call[r]
           row == [status |-> "pending", draft |-> c.draft, payload |-> c.row.text,
                   reviewed |-> <<c.row.text, c.row.evidence>>, requestedBy |-> c.actor,
                   decidedBy |-> None, age |-> "fresh"]
<1>1. /\ c.draft \in Draft /\ c.actor \in Actor /\ c.row.text \in Text
      /\ c.row.evidence \in Evidence /\ c.row.status # "verified"
  BY DEF IInv, CallInv, CallComplete, RequestApproval, At
<1>2. row \in ApprovalRow
  BY <1>1 DEF ApprovalRow, Report
<1>3. approvals' = [approvals EXCEPT ![c.row.approval] = row]
  BY DEF RequestApproval
<1>4. approvals[c.row.approval].status = "none"
  BY DEF RequestApproval
<1>5. row.status = "pending" /\ row.decidedBy = None
  OBVIOUS
<1> HIDE DEF row
<1>6. /\ approvals' \in [Approval -> ApprovalRow]
      /\ \A a \in Approval : approvals'[a] = IF a = c.row.approval THEN row ELSE approvals[a]
  BY <1>2, <1>3 DEF IInv, TypeOK
<1>7. ApprovalsDecided' /\ ApprovalsKept
  BY <1>4, <1>5, <1>6 DEF IInv, ApprovalsDecided, ApprovalsKept
<1>8. /\ call' \in [Request -> CallRow] /\ OthersWait(r)
      /\ call'[r] = [call[r] EXCEPT !.step = "gate"]
  BY GoToType DEF RequestApproval, IInv, Step
<1>9. TypeOK' /\ DraftsComplete'
  BY <1>6, <1>8 DEF RequestApproval, IInv, TypeOK, DraftsComplete, Exists
<1>10. CallInv(r)'
  BY <1>1, <1>8 DEF CallInv, CallComplete, CallDecides, CallCovered, CallDelivered,
                    IInv, TypeOK, CallRow
<1>11. \A q \in Request : call'[q] = call[q] \/ CallInv(q)'
  BY <1>8, <1>10 DEF OthersWait
<1>12. \A a \in Approval : approvals'[a].status = "consumed" => approvals[a].status = "consumed"
  BY <1>5, <1>6
<1> QED BY <1>7, <1>9, <1>11, <1>12, StepInv DEF RequestApproval

\* gate's UPDATE keeps it.
LEMMA CommitGateInv ==
  ASSUME IInv, NEW r \in Request, CommitGate(r)
  PROVE  IInv'
<1> DEFINE d == call[r].draft
           row == [drafts[d] EXCEPT !.status = call[r].row.status, !.gate = call[r].row.gate,
                                    !.approval = call[r].row.approval]
<1>1. d \in Draft /\ call[r].row.status # "verified"
  BY DEF IInv, CallInv, CallComplete, CommitGate, At
<1>2. row \in DraftRow
  <2>1. drafts[d] \in DraftRow /\ call[r].row \in DraftRow
    BY <1>1 DEF IInv, TypeOK, CallRow
  <2> QED BY <2>1 DEF DraftRow
<1>3. /\ row.text = drafts[d].text /\ row.evidence = drafts[d].evidence
      /\ row.status # "verified"
  BY <1>1 DEF IInv, TypeOK, DraftRow
<1>4. Exists(d) => row.text \in Text /\ row.evidence \in Evidence
  BY <1>1, <1>3 DEF IInv, DraftsComplete
<1>5. WriteDraft(d, row)
  BY DEF CommitGate
<1>6. drafts' \in [Draft -> DraftRow] /\ DraftsComplete'
  BY <1>1, <1>2, <1>3, <1>4, <1>5, WriteDraftType, WriteDraftComplete DEF IInv
<1>7. call' \in [Request -> CallRow] /\ call'[r] = NoCall /\ OthersWait(r)
  BY ReturnType DEF CommitGate, IInv
<1>8. TypeOK'
  BY <1>6, <1>7 DEF CommitGate, IInv, TypeOK
<1> QED BY <1>6, <1>7, <1>8, ReturnedInv, DraftStepInv DEF CommitGate

-----------------------------------------------------------------------------
(* Reads and writes of an approval *)

\* Setting the status of an approval leaves all it binds as it was.
LEMMA SetApprovalKeeps ==
  ASSUME IInv, NEW a, NEW status \in {"expired", "consumed"}, SetApproval(a, status)
  PROVE  /\ approvals' \in [Approval -> ApprovalRow]
         /\ ApprovalsDecided' /\ ApprovalsKept
         /\ \A b \in Approval :
              approvals'[b].status = approvals[b].status \/ (b = a /\ approvals'[b].status = status)
<1>1. approvals \in [Approval -> ApprovalRow]
  BY DEF IInv, TypeOK
<1>2. CASE a \notin Approval \/ approvals[a].status = "deleted"
  <2>1. approvals' = approvals
    BY <1>1, <1>2 DEF SetApproval
  <2> QED BY <1>1, <2>1 DEF IInv, ApprovalsDecided, ApprovalsKept
<1>3. CASE a \in Approval /\ approvals[a].status # "deleted"
  <2> DEFINE row == [approvals[a] EXCEPT !.status = status]
  <2>1. row \in ApprovalRow
    BY <1>1, <1>3 DEF ApprovalRow
  <2>2. approvals' = [approvals EXCEPT ![a] = row]
    BY <1>1, <1>3 DEF SetApproval
  <2>3. /\ row.status = status /\ row.draft = approvals[a].draft
        /\ row.payload = approvals[a].payload /\ row.decidedBy = approvals[a].decidedBy
        /\ row.requestedBy = approvals[a].requestedBy
    BY <1>1, <1>3 DEF ApprovalRow
  <2> HIDE DEF row
  <2>4. /\ approvals' \in [Approval -> ApprovalRow]
        /\ \A b \in Approval : approvals'[b] = IF b = a THEN row ELSE approvals[b]
    BY <1>1, <2>1, <2>2
  <2> QED BY <2>3, <2>4 DEF IInv, ApprovalsDecided, ApprovalsKept
<1> QED BY <1>2, <1>3

\* A read of the approval only moves its call: to the next step if the checks pass,
\* else to the expiry or out.
LEMMA ReadApprovalInv ==
  ASSUME IInv, NEW r \in Request, NEW here \in Step, NEW passes, NEW next \in Step,
         ReadApproval(r, here, passes, next),
         here \in {"read_for_decision", "read_for_publish", "read_for_consume"},
         passes /\ call'[r] = [call[r] EXCEPT !.step = next] => CallInv(r)'
  PROVE  IInv'
<1> DEFINE a == approvals[call[r].row.approval]
<1>1. TypeOK /\ call[r] \in CallRow /\ call[r].draft \in Draft
  BY DEF IInv, TypeOK, CallInv, CallComplete, ReadApproval, At
<1>2. CASE Expires(a) /\ GoTo(r, "expire")
  <2>1. /\ call' \in [Request -> CallRow] /\ OthersWait(r)
        /\ call'[r] = [call[r] EXCEPT !.step = "expire"]
    BY <1>1, <1>2, GoToType DEF Step
  <2>2. CallInv(r)'
    BY <1>1, <2>1 DEF CallRow, CallInv, CallComplete, CallDecides, CallCovered, CallDelivered
  <2>3. TypeOK' /\ DraftsComplete'
    BY <2>1 DEF ReadApproval, IInv, TypeOK, DraftsComplete, Exists
  <2> QED BY <2>1, <2>2, <2>3, DraftStepInv DEF ReadApproval
<1>3. CASE passes /\ GoTo(r, next)
  <2>1. /\ call' \in [Request -> CallRow] /\ OthersWait(r)
        /\ call'[r] = [call[r] EXCEPT !.step = next]
    BY <1>1, <1>3, GoToType
  <2>2. CallInv(r)'
    BY <1>3, <2>1
  <2>3. TypeOK' /\ DraftsComplete'
    BY <2>1 DEF ReadApproval, IInv, TypeOK, DraftsComplete, Exists
  <2> QED BY <2>1, <2>2, <2>3, DraftStepInv DEF ReadApproval
<1>4. CASE Return(r)
  <2>1. call' \in [Request -> CallRow] /\ call'[r] = NoCall /\ OthersWait(r)
    BY <1>1, <1>4, ReturnType
  <2>2. TypeOK' /\ DraftsComplete'
    BY <2>1 DEF ReadApproval, IInv, TypeOK, DraftsComplete, Exists
  <2> QED BY <2>1, <2>2, ReturnedInv, DraftStepInv DEF ReadApproval
<1> QED BY <1>2, <1>3, <1>4 DEF ReadApproval

\* The persisted expiry keeps it: an expired approval is not a consumed one.
LEMMA ExpireInv ==
  ASSUME IInv, NEW r \in Request, Expire(r)
  PROVE  IInv'
<1>1. /\ approvals' \in [Approval -> ApprovalRow] /\ ApprovalsDecided' /\ ApprovalsKept
      /\ \A b \in Approval : approvals'[b].status \in {approvals[b].status, "expired"}
  BY SetApprovalKeeps DEF Expire
<1>2. call' \in [Request -> CallRow] /\ call'[r] = NoCall /\ OthersWait(r)
  BY ReturnType DEF Expire, IInv
<1>3. TypeOK' /\ DraftsComplete'
  BY <1>1, <1>2 DEF Expire, IInv, TypeOK, DraftsComplete, Exists
<1>4. \A q \in Request : call'[q] = call[q] \/ CallInv(q)'
  BY <1>2, ReturnedInv DEF OthersWait
<1> QED BY <1>1, <1>3, <1>4, StepInv DEF Expire

-----------------------------------------------------------------------------
(* decide *)

\* decide's reads keep it.
LEMMA BeginDecideInv ==
  ASSUME IInv, NEW r \in Request, NEW d \in Draft, NEW actor \in Actor,
         NEW verdict \in {"approved", "rejected"}, BeginDecide(r, d, actor, verdict)
  PROVE  IInv'
<1> DEFINE row == [NoDraft EXCEPT !.status = verdict, !.approval = drafts[d].approval]
           barred == contributed[d] \cup ({drafts[d].author} \ {None})
<1>1. drafts[d] \in DraftRow /\ contributed[d] \in SUBSET Actor
  BY DEF IInv, TypeOK
<1>2. row \in DraftRow /\ row.status = verdict
  BY <1>1, EmptyRows DEF DraftRow, DraftStatus, NoDraft
<1>3. barred \in SUBSET Actor
  BY <1>1 DEF DraftRow
<1>4. Begin(r, "read_for_decision", d, actor, row, barred, None)
  BY DEF BeginDecide
<1> HIDE DEF row, barred
<1>5. /\ call' \in [Request -> CallRow] /\ OthersWait(r)
      /\ call'[r] = [step |-> "read_for_decision", draft |-> d, actor |-> actor, row |-> row,
                     barred |-> barred, publication |-> None]
  <2>1. "read_for_decision" \in Step /\ TypeOK
    BY DEF IInv, Step
  <2> QED BY <1>2, <1>3, <1>4, <2>1, BeginType
<1>6. TypeOK' /\ DraftsComplete'
  BY <1>5 DEF BeginDecide, IInv, TypeOK, DraftsComplete, Exists
<1>7. CallInv(r)'
  BY <1>2, <1>5 DEF CallInv, CallComplete, CallDecides, CallCovered, CallDelivered
<1> QED BY <1>5, <1>6, <1>7, DraftStepInv DEF BeginDecide

\* The checks of ApprovalService.decide: a call that goes on is not the requester's.
LEMMA ReadForDecisionInv ==
  ASSUME IInv, NEW r \in Request, ReadForDecision(r)
  PROVE  IInv'
<1> DEFINE c == call[r]
           next == IF c.row.status = "approved" THEN "decide_approved" ELSE "decide_rejected"
           passes == MayDecide(r, approvals[c.row.approval])
<1>1. ReadApproval(r, "read_for_decision", passes, next)
  BY DEF ReadForDecision
<1>2. /\ c.step = "read_for_decision" /\ c.draft \in Draft /\ c.actor \in Actor
      /\ c.row.status # "verified" /\ c \in CallRow
  BY <1>1 DEF IInv, TypeOK, CallInv, CallComplete, ReadApproval, At
<1>3. ASSUME passes, call'[r] = [c EXCEPT !.step = next]
      PROVE  CallInv(r)'
  <2>1. UNCHANGED <<approvals, delivered>>
    BY DEF ReadForDecision, ReadApproval
  <2>2. /\ approvals[c.row.approval].status = "pending"
        /\ approvals[c.row.approval].requestedBy # c.actor
    BY <1>3 DEF MayDecide
  <2> QED BY <1>2, <1>3, <2>1, <2>2
          DEF CallRow, CallInv, CallComplete, CallDecides, CallCovered, CallDelivered
<1>4. next \in Step /\ "read_for_decision" \in Step
  BY DEF Step
<1> HIDE DEF passes, next
<1> QED BY <1>1, <1>3, <1>4, ReadApprovalInv

\* The decision keeps it: the decider recorded is not the requester.
LEMMA CommitDecisionInv ==
  ASSUME IInv, NEW r \in Request, NEW verdict \in {"approved", "rejected"},
         CommitDecision(r, verdict)
  PROVE  IInv'
<1> DEFINE c == call[r]
           a == c.row.approval
           row == [approvals[a] EXCEPT !.status = verdict, !.decidedBy = c.actor]
<1>1. /\ c.draft \in Draft /\ c.actor \in Actor /\ c.row.status # "verified"
      /\ c \in CallRow /\ a \in Approval \cup {None}
  BY DEF IInv, TypeOK, CallInv, CallComplete, CallRow, DraftRow, CommitDecision, At
<1>2. CASE approvals[a].status = "deleted"
  <2>1. call' \in [Request -> CallRow] /\ call'[r] = NoCall /\ OthersWait(r)
    BY <1>2, ReturnType DEF CommitDecision, IInv
  <2>2. TypeOK' /\ DraftsComplete'
    BY <1>2, <2>1 DEF CommitDecision, IInv, TypeOK, DraftsComplete, Exists
  <2> QED BY <1>2, <2>1, <2>2, ReturnedInv, DraftStepInv DEF CommitDecision
<1>3. CASE approvals[a].status # "deleted"
  <2>1. approvals \in [Approval -> ApprovalRow]
    BY DEF IInv, TypeOK
  <2>2. approvals' = [approvals EXCEPT ![a] = row]
    BY <1>3, <2>1 DEF CommitDecision
  <2>3. a \in Approval =>
          /\ row \in ApprovalRow
          /\ row.status = verdict /\ row.decidedBy = c.actor
          /\ row.draft = approvals[a].draft /\ row.payload = approvals[a].payload
          /\ row.requestedBy = approvals[a].requestedBy
    <3> SUFFICES ASSUME a \in Approval
                 PROVE  /\ row \in ApprovalRow
                        /\ row.status = verdict /\ row.decidedBy = c.actor
                        /\ row.draft = approvals[a].draft /\ row.payload = approvals[a].payload
                        /\ row.requestedBy = approvals[a].requestedBy
      OBVIOUS
    <3>1. approvals[a] \in ApprovalRow
      BY <2>1
    <3> QED BY <1>1, <3>1 DEF ApprovalRow
  <2>4. a \in Approval => c.actor \notin {None, approvals[a].requestedBy}
    BY <1>1, NoneAssumption DEF IInv, CallInv, CallDecides, CommitDecision, At
  <2> HIDE DEF row
  <2>5. /\ approvals' \in [Approval -> ApprovalRow]
        /\ \A b \in Approval : approvals'[b] = IF b = a THEN row ELSE approvals[b]
    BY <2>1, <2>2, <2>3
  <2>6. ApprovalsDecided' /\ ApprovalsKept
    BY <2>3, <2>4, <2>5 DEF IInv, ApprovalsDecided, ApprovalsKept
  <2>7. \A b \in Approval : approvals'[b].status = "consumed" => approvals[b].status = "consumed"
    BY <2>3, <2>5
  <2>8. /\ call' \in [Request -> CallRow] /\ OthersWait(r)
        /\ call'[r] = [c EXCEPT !.step = "write_decision"]
    BY <1>3, GoToType DEF CommitDecision, IInv, Step
  <2>9. TypeOK' /\ DraftsComplete'
    BY <2>5, <2>8 DEF CommitDecision, IInv, TypeOK, DraftsComplete, Exists
  <2>10. CallInv(r)'
    BY <1>1, <2>8 DEF CallRow, CallInv, CallComplete, CallDecides, CallCovered, CallDelivered
  <2>11. \A q \in Request : call'[q] = call[q] \/ CallInv(q)'
    BY <2>8, <2>10 DEF OthersWait
  <2> QED BY <2>6, <2>7, <2>9, <2>11, StepInv DEF CommitDecision
<1> QED BY <1>2, <1>3

\* decide's UPDATE of the draft keeps it.
LEMMA WriteDecisionInv ==
  ASSUME IInv, NEW r \in Request, WriteDecision(r)
  PROVE  IInv'
<1> DEFINE d == call[r].draft
           row == [drafts[d] EXCEPT !.status = call[r].row.status, !.reviewer = call[r].actor]
<1>1. d \in Draft /\ call[r].row.status # "verified"
  BY DEF IInv, CallInv, CallComplete, WriteDecision, At
<1>2. row \in DraftRow
  <2>1. /\ drafts[d] \in DraftRow /\ call[r].row \in DraftRow
        /\ call[r].actor \in Actor \cup {None}
    BY <1>1 DEF IInv, TypeOK, CallRow
  <2> QED BY <2>1 DEF DraftRow
<1>3. /\ row.text = drafts[d].text /\ row.evidence = drafts[d].evidence
      /\ row.status # "verified"
  BY <1>1 DEF IInv, TypeOK, DraftRow
<1>4. Exists(d) => row.text \in Text /\ row.evidence \in Evidence
  BY <1>1, <1>3 DEF IInv, DraftsComplete
<1>5. WriteDraft(d, row)
  BY DEF WriteDecision
<1>6. drafts' \in [Draft -> DraftRow] /\ DraftsComplete'
  BY <1>1, <1>2, <1>3, <1>4, <1>5, WriteDraftType, WriteDraftComplete DEF IInv
<1>7. call' \in [Request -> CallRow] /\ call'[r] = NoCall /\ OthersWait(r)
  BY ReturnType DEF WriteDecision, IInv
<1>8. TypeOK'
  BY <1>6, <1>7 DEF WriteDecision, IInv, TypeOK
<1> QED BY <1>6, <1>7, <1>8, ReturnedInv, DraftStepInv DEF WriteDecision

-----------------------------------------------------------------------------
(* publish *)

\* publish's read keeps it: the call holds the text it will present.
LEMMA BeginPublishInv ==
  ASSUME IInv, NEW r \in Request, NEW d \in Draft, NEW p \in Publication,
         BeginPublish(r, d, p)
  PROVE  IInv'
<1> DEFINE row == [NoDraft EXCEPT
                     !.text = drafts[d].text, !.evidence = drafts[d].evidence,
                     !.gate = drafts[d].gate, !.approval = drafts[d].approval,
                     !.reviewer = drafts[d].reviewer]
           step == IF drafts[d].approval = None THEN "insert" ELSE "read_for_publish"
<1>1. drafts[d] \in DraftRow
  BY DEF IInv, TypeOK
<1>2. row \in DraftRow /\ row.approval = drafts[d].approval
  BY <1>1, EmptyRows DEF DraftRow, NoDraft
<1>3. Begin(r, step, d, None, row, {}, p)
  BY DEF BeginPublish
<1>4. step \in Step /\ p \in Publication \cup {None}
  BY DEF Step
<1>5. step = "insert" => drafts[d].approval = None
  OBVIOUS
<1>6. step \in {"insert", "read_for_publish"}
  OBVIOUS
<1> HIDE DEF row, step
<1>7. /\ call' \in [Request -> CallRow] /\ OthersWait(r)
      /\ call'[r] = [step |-> step, draft |-> d, actor |-> None, row |-> row,
                     barred |-> {}, publication |-> p]
  <2>1. TypeOK /\ {} \in SUBSET Actor /\ None \in Actor \cup {None}
    BY DEF IInv
  <2> QED BY <1>2, <1>3, <1>4, <2>1, BeginType
<1>8. TypeOK' /\ DraftsComplete'
  BY <1>7 DEF BeginPublish, IInv, TypeOK, DraftsComplete, Exists
<1>9. CallInv(r)'
  BY <1>2, <1>5, <1>6, <1>7
     DEF CallInv, CallComplete, CallDecides, CallCovered, CallDelivered
<1> QED BY <1>7, <1>8, <1>9, DraftStepInv DEF BeginPublish

\* An approval that passes assertValid covers the text the call has read.
LEMMA ValidCovers ==
  ASSUME IInv, NEW r \in Request, call[r].row.approval # None,
         Valid(r, approvals[call[r].row.approval])
  PROVE  Covers(call[r].row.approval, call[r].draft, call[r].row.text)
<1>1. call[r].row.approval \in Approval
  BY DEF IInv, TypeOK, CallRow, DraftRow
<1> QED BY <1>1 DEF IInv, ApprovalsDecided, Valid, Covers

\* assertValid before the adapter call: a call that goes on is covered by its approval.
LEMMA ReadForPublishInv ==
  ASSUME IInv, NEW r \in Request, ReadForPublish(r)
  PROVE  IInv'
<1> DEFINE c == call[r]
           passes == Valid(r, approvals[c.row.approval])
<1>1. ReadApproval(r, "read_for_publish", passes, "insert")
  BY DEF ReadForPublish
<1>2. c.step = "read_for_publish" /\ c.draft \in Draft /\ c.publication \in Publication
      /\ c \in CallRow
  BY <1>1 DEF IInv, TypeOK, CallInv, CallComplete, ReadApproval, At
<1>3. ASSUME passes, call'[r] = [c EXCEPT !.step = "insert"]
      PROVE  CallInv(r)'
  <2>1. UNCHANGED <<approvals, delivered>>
    BY DEF ReadForPublish, ReadApproval
  <2>2. c.row.approval # None => Covers(c.row.approval, c.draft, c.row.text)
    BY <1>3, ValidCovers
  <2> QED BY <1>2, <1>3, <2>1, <2>2
          DEF CallRow, CallInv, CallComplete, CallDecides, CallCovered, CallDelivered, Covers
<1>4. "insert" \in Step /\ "read_for_publish" \in Step
  BY DEF Step
<1> HIDE DEF passes
<1> QED BY <1>1, <1>3, <1>4, ReadApprovalInv

\* assertValid inside consume keeps what the call has delivered.
LEMMA ReadForConsumeInv ==
  ASSUME IInv, NEW r \in Request, ReadForConsume(r)
  PROVE  IInv'
<1> DEFINE c == call[r]
           passes == Valid(r, approvals[c.row.approval])
<1>1. ReadApproval(r, "read_for_consume", passes, "consume")
  BY DEF ReadForConsume
<1>2. CallInv(r) /\ c.step = "read_for_consume" /\ c \in CallRow
  BY <1>1 DEF IInv, TypeOK, ReadApproval, At
<1>3. ASSUME passes, call'[r] = [c EXCEPT !.step = "consume"]
      PROVE  CallInv(r)'
  <2>1. UNCHANGED <<approvals, delivered>>
    BY DEF ReadForConsume, ReadApproval
  <2> QED BY <1>2, <1>3, <2>1
          DEF CallRow, CallInv, CallComplete, CallDecides, CallCovered, CallDelivered, Covers
<1>4. "consume" \in Step /\ "read_for_consume" \in Step
  BY DEF Step
<1> HIDE DEF passes
<1> QED BY <1>1, <1>3, <1>4, ReadApprovalInv

\* The INSERT of the publication keeps it.
LEMMA InsertPublicationInv ==
  ASSUME IInv, NEW r \in Request, InsertPublication(r)
  PROVE  IInv'
<1> DEFINE c == call[r]
<1>1. c.step = "insert" /\ CallInv(r) /\ c \in CallRow /\ c.draft \in Draft
  BY DEF IInv, TypeOK, CallInv, CallComplete, InsertPublication, At
<1>2. CASE Exists(c.draft)
  <2>1. /\ call' \in [Request -> CallRow] /\ OthersWait(r)
        /\ call'[r] = [c EXCEPT !.step = "sending"]
    BY <1>2, GoToType DEF InsertPublication, IInv, Step
  <2>2. publications' \in [Publication -> PublicationRow]
    BY <1>1, <1>2 DEF InsertPublication, IInv, TypeOK, PublicationRow
  <2>3. TypeOK' /\ DraftsComplete'
    BY <2>1, <2>2 DEF InsertPublication, IInv, TypeOK, DraftsComplete, Exists
  <2>4. CallInv(r)'
    BY <1>1, <2>1 DEF InsertPublication, CallRow, CallInv, CallComplete, CallDecides,
                      CallCovered, CallDelivered, Covers
  <2> QED BY <2>1, <2>3, <2>4, DraftStepInv DEF InsertPublication
<1>3. CASE ~Exists(c.draft)
  <2>1. call' \in [Request -> CallRow] /\ call'[r] = NoCall /\ OthersWait(r)
    BY <1>3, ReturnType DEF InsertPublication, IInv
  <2>2. TypeOK' /\ DraftsComplete'
    BY <1>3, <2>1 DEF InsertPublication, IInv, TypeOK, DraftsComplete, Exists
  <2> QED BY <2>1, <2>2, ReturnedInv, DraftStepInv DEF InsertPublication
<1> QED BY <1>2, <1>3

\* The delivery keeps it: the artefact is covered because the call was.
LEMMA TargetAcceptsInv ==
  ASSUME IInv, NEW r \in Request, TargetAccepts(r)
  PROVE  IInv'
<1> DEFINE c == call[r]
           new == [draft |-> c.draft, text |-> c.row.text, evidence |-> c.row.evidence,
                   gate |-> c.row.gate, approval |-> c.row.approval,
                   reviewer |-> c.row.reviewer, publication |-> c.publication]
<1>1. /\ c.step = "sending" /\ CallInv(r) /\ c \in CallRow
      /\ c.draft \in Draft /\ c.publication \in Publication
  BY DEF IInv, TypeOK, CallInv, CallComplete, TargetAccepts
<1>2. new \in Artefact
  <2>1. c.row \in DraftRow
    BY <1>1 DEF CallRow
  <2> QED BY <1>1, <2>1 DEF DraftRow, Artefact
<1>3. delivered' = delivered \cup {new} /\ approvals' = approvals
  BY DEF TargetAccepts
<1>4. ASSUME NEW x \in delivered' \ delivered, x.approval # None
      PROVE  Covers(x.approval, x.draft, x.text)'
  <2>1. x = new
    BY <1>3
  <2>2. Covers(c.row.approval, c.draft, c.row.text)
    BY <1>1, <1>4, <2>1 DEF CallInv, CallCovered
  <2> QED BY <1>3, <2>1, <2>2 DEF Covers
<1>5. new.approval = c.row.approval /\ new.text = c.row.text
  OBVIOUS
<1> HIDE DEF new
<1>6. /\ call' \in [Request -> CallRow] /\ OthersWait(r)
      /\ call'[r] = [c EXCEPT !.step = "sent"]
  BY GoToType DEF TargetAccepts, IInv, Step
<1>7. TypeOK' /\ DraftsComplete'
  BY <1>2, <1>3, <1>6 DEF TargetAccepts, IInv, TypeOK, DraftsComplete, Exists
<1>8. CallDelivered(r)'
  <2>1. c.row.approval # None => new.text = approvals[c.row.approval].payload
    BY <1>1, <1>5 DEF CallInv, CallCovered, Covers
  <2> QED BY <1>1, <1>3, <1>5, <1>6, <2>1 DEF CallRow, CallDelivered
<1>9. CallInv(r)'
  BY <1>1, <1>3, <1>6, <1>8 DEF CallRow, CallInv, CallComplete, CallDecides, CallCovered, Covers
<1>10. \A q \in Request : call'[q] = call[q] \/ CallInv(q)'
  BY <1>6, <1>9 DEF OthersWait
<1>11. ApprovalsDecided' /\ ApprovalsKept
  BY <1>3 DEF IInv, ApprovalsDecided, ApprovalsKept
<1> QED BY <1>3, <1>4, <1>7, <1>10, <1>11, StepInv

\* The steps of publish that only move on.
LEMMA MoveOnInv ==
  ASSUME IInv, NEW r \in Request, NEW step \in {"read_for_consume", "settle", "failed", "finish"},
         GoTo(r, step), UNCHANGED <<drafts, approvals, contributed, delivered, editors>>,
         publications' \in [Publication -> PublicationRow],
         call[r].step \in {"sending", "sent", "settle"},
         step = "read_for_consume" => call[r].step = "sent"
  PROVE  IInv'
<1>1. CallInv(r) /\ call[r] \in CallRow
  BY DEF IInv, TypeOK
<1>2. step \in Step
  BY DEF Step
<1>3. /\ call' \in [Request -> CallRow] /\ OthersWait(r)
      /\ call'[r] = [call[r] EXCEPT !.step = step]
  BY <1>2, GoToType DEF IInv
<1>4. TypeOK' /\ DraftsComplete'
  BY <1>3 DEF IInv, TypeOK, DraftsComplete, Exists
<1>5. CallInv(r)'
  BY <1>1, <1>3 DEF CallRow, CallInv, CallComplete, CallDecides, CallCovered,
                    CallDelivered, Covers
<1> QED BY <1>3, <1>4, <1>5, DraftStepInv

\* The end of the await keeps it.
LEMMA ReceiveReceiptInv ==
  ASSUME IInv, NEW r \in Request, ReceiveReceipt(r)
  PROVE  IInv'
<1>1. publications' \in [Publication -> PublicationRow]
  BY DEF ReceiveReceipt, IInv, TypeOK
<1>2. CASE call[r].row.approval = None
  BY <1>1, <1>2, MoveOnInv DEF ReceiveReceipt, At
<1>3. CASE call[r].row.approval # None
  BY <1>1, <1>3, MoveOnInv DEF ReceiveReceipt, At
<1> QED BY <1>2, <1>3

\* A failing adapter keeps it.
LEMMA AdapterFailsInv ==
  ASSUME IInv, NEW r \in Request, AdapterFails(r)
  PROVE  IInv'
<1>1. publications' \in [Publication -> PublicationRow]
  BY DEF AdapterFails, IInv, TypeOK
<1> QED BY <1>1, MoveOnInv DEF AdapterFails, At

\* Recording the failure keeps it.
LEMMA RecordFailureInv ==
  ASSUME IInv, NEW r \in Request, RecordFailure(r)
  PROVE  IInv'
<1>1. call' \in [Request -> CallRow] /\ call'[r] = NoCall /\ OthersWait(r)
  BY ReturnType DEF RecordFailure, IInv
<1>2. publications' \in [Publication -> PublicationRow]
  BY DEF RecordFailure, IInv, TypeOK, PublicationRow
<1>3. TypeOK' /\ DraftsComplete'
  BY <1>1, <1>2 DEF RecordFailure, IInv, TypeOK, DraftsComplete, Exists
<1> QED BY <1>1, <1>3, ReturnedInv, DraftStepInv DEF RecordFailure

\* consume keeps it: the approval it spends is the one its own artefact left on.
LEMMA ConsumeInv ==
  ASSUME IInv, NEW r \in Request, Consume(r)
  PROVE  IInv'
<1> DEFINE c == call[r]
           a == c.row.approval
<1>1. c.step = "consume" /\ CallInv(r) /\ c \in CallRow
  BY DEF IInv, TypeOK, Consume, At
<1>2. /\ approvals' \in [Approval -> ApprovalRow] /\ ApprovalsDecided' /\ ApprovalsKept
      /\ \A b \in Approval : approvals'[b].status = approvals[b].status
                             \/ (b = a /\ approvals'[b].status = "consumed")
  BY SetApprovalKeeps DEF Consume
<1>3. \A b \in Approval : approvals'[b].status = "consumed" /\ approvals[b].status # "consumed" =>
        \E x \in delivered : x.approval = b /\ x.text = approvals'[b].payload
  <2> SUFFICES ASSUME NEW b \in Approval, b = a
               PROVE  \E x \in delivered : x.approval = b /\ x.text = approvals'[b].payload
    BY <1>2
  <2>1. b # None
    BY NoneAssumption
  <2>2. Covers(b, c.draft, c.row.text)
    BY <1>1, <2>1 DEF CallInv, CallCovered
  <2>3. approvals'[b].payload = approvals[b].payload
    BY <1>2, <2>2 DEF Covers, IInv, ApprovalsDecided, ApprovalsKept
  <2> QED BY <1>1, <2>1, <2>3 DEF CallInv, CallDelivered
<1>4. CASE approvals[a].status = "deleted"
  <2>1. call' \in [Request -> CallRow] /\ call'[r] = NoCall /\ OthersWait(r)
    BY <1>4, ReturnType DEF Consume, IInv
  <2>2. TypeOK' /\ DraftsComplete'
    BY <1>2, <2>1 DEF Consume, IInv, TypeOK, DraftsComplete, Exists
  <2>3. \A q \in Request : call'[q] = call[q] \/ CallInv(q)'
    BY <2>1, ReturnedInv DEF OthersWait
  <2> QED BY <1>2, <1>3, <2>2, <2>3, StepInv DEF Consume
<1>5. CASE approvals[a].status # "deleted"
  <2>1. /\ call' \in [Request -> CallRow] /\ OthersWait(r)
        /\ call'[r] = [c EXCEPT !.step = "settle"]
    BY <1>5, GoToType DEF Consume, IInv, Step
  <2>2. TypeOK' /\ DraftsComplete'
    BY <1>2, <2>1 DEF Consume, IInv, TypeOK, DraftsComplete, Exists
  <2>3. CallCovered(r)'
    <3>1. a \in Approval \cup {None}
      BY <1>1 DEF CallRow, DraftRow
    <3>2. a # None => Covers(a, c.draft, c.row.text)
      BY <1>1 DEF CallInv, CallCovered
    <3>3. a # None =>
            /\ approvals'[a].draft = c.draft /\ approvals'[a].payload = c.row.text
            /\ approvals'[a].decidedBy \notin {None, approvals'[a].requestedBy}
      BY <1>2, <3>1, <3>2 DEF Covers, IInv, ApprovalsDecided, ApprovalsKept
    <3> QED BY <1>1, <2>1, <3>3 DEF CallRow, CallCovered, Covers
  <2>4. CallInv(r)'
    BY <1>1, <2>1, <2>3 DEF CallRow, CallInv, CallComplete, CallDecides, CallDelivered
  <2>5. \A q \in Request : call'[q] = call[q] \/ CallInv(q)'
    BY <2>1, <2>4 DEF OthersWait
  <2> QED BY <1>2, <1>3, <2>2, <2>5, StepInv DEF Consume
<1> QED BY <1>4, <1>5

\* Settling the publication keeps it.
LEMMA SettlePublicationInv ==
  ASSUME IInv, NEW r \in Request, SettlePublication(r)
  PROVE  IInv'
<1>1. publications' \in [Publication -> PublicationRow]
  BY DEF SettlePublication, IInv, TypeOK, PublicationRow
<1> QED BY <1>1, MoveOnInv DEF SettlePublication, At

\* publish's last UPDATE keeps it.
LEMMA FinishPublishInv ==
  ASSUME IInv, NEW r \in Request, FinishPublish(r)
  PROVE  IInv'
<1> DEFINE d == call[r].draft
           row == [drafts[d] EXCEPT !.status = "published"]
<1>1. d \in Draft
  BY DEF IInv, CallInv, CallComplete, FinishPublish, At
<1>2. drafts[d] \in DraftRow
  BY <1>1 DEF IInv, TypeOK
<1>3. row \in DraftRow /\ row.text = drafts[d].text /\ row.evidence = drafts[d].evidence
      /\ row.status = "published"
  BY <1>2 DEF DraftRow, DraftStatus
<1>4. Exists(d) => row.text \in Text /\ row.evidence \in Evidence
  BY <1>1, <1>3 DEF IInv, DraftsComplete
<1>5. WriteDraft(d, row)
  BY DEF FinishPublish
<1>6. drafts' \in [Draft -> DraftRow] /\ DraftsComplete'
  BY <1>1, <1>3, <1>4, <1>5, WriteDraftType, WriteDraftComplete DEF IInv
<1>7. call' \in [Request -> CallRow] /\ call'[r] = NoCall /\ OthersWait(r)
  BY ReturnType DEF FinishPublish, IInv
<1>8. TypeOK'
  BY <1>6, <1>7 DEF FinishPublish, IInv, TypeOK
<1> QED BY <1>6, <1>7, <1>8, ReturnedInv, DraftStepInv DEF FinishPublish

-----------------------------------------------------------------------------
(* Time, retention and failure *)

\* Time keeps it: no column but the age changes.
LEMMA AgeInv ==
  ASSUME IInv, NEW a \in Approval, Age(a)
  PROVE  IInv'
<1> DEFINE row == [approvals[a] EXCEPT !.age = IF @ = "fresh" THEN "stale" ELSE "old"]
<1>1. approvals \in [Approval -> ApprovalRow] /\ approvals[a] \in ApprovalRow
  BY DEF IInv, TypeOK
<1>2. /\ row \in ApprovalRow /\ row.status = approvals[a].status
      /\ row.draft = approvals[a].draft /\ row.payload = approvals[a].payload
      /\ row.decidedBy = approvals[a].decidedBy
      /\ row.requestedBy = approvals[a].requestedBy
  BY <1>1 DEF ApprovalRow
<1>3. approvals' = [approvals EXCEPT ![a] = row]
  BY <1>1 DEF Age
<1> HIDE DEF row
<1>4. /\ approvals' \in [Approval -> ApprovalRow]
      /\ \A b \in Approval : approvals'[b] = IF b = a THEN row ELSE approvals[b]
  BY <1>1, <1>2, <1>3
<1>5. ApprovalsDecided' /\ ApprovalsKept
  BY <1>2, <1>4 DEF IInv, ApprovalsDecided, ApprovalsKept
<1>6. TypeOK' /\ DraftsComplete'
  BY <1>4 DEF Age, IInv, TypeOK, DraftsComplete, Exists
<1>7. \A b \in Approval : approvals'[b].status = approvals[b].status
  BY <1>2, <1>4
<1> QED BY <1>5, <1>6, <1>7, StepInv DEF Age

\* Retention keeps it: it removes rows and expires approvals, and binds nothing anew.
LEMMA ApplyRetentionInv ==
  ASSUME IInv, NEW r \in Request, NEW outdated \in SUBSET Draft, ApplyRetention(r, outdated)
  PROVE  IInv'
<1> DEFINE gone == [NoDraft EXCEPT !.status = "deleted"]
<1>1. gone \in DraftRow /\ gone.status = "deleted"
  BY EmptyRows DEF DraftRow, NoDraft
<1>2. drafts' = [d \in Draft |-> IF d \in outdated THEN gone ELSE drafts[d]]
  BY DEF ApplyRetention
<1> HIDE DEF gone
<1>3. drafts' \in [Draft -> DraftRow] /\ DraftsComplete'
  BY <1>1, <1>2 DEF IInv, TypeOK, DraftsComplete, Exists
<1>4. ASSUME NEW a \in Approval
      PROVE  /\ approvals'[a] \in ApprovalRow
             /\ \/ approvals'[a] = approvals[a]
                \/ /\ approvals'[a].status \in {"deleted", "expired"}
                   /\ approvals'[a].draft = approvals[a].draft
                   /\ approvals'[a].payload = approvals[a].payload
                   /\ approvals'[a].decidedBy = approvals[a].decidedBy
                   /\ approvals'[a].requestedBy = approvals[a].requestedBy
  <2>1. approvals[a] \in ApprovalRow
    BY DEF IInv, TypeOK
  <2>2. \/ approvals'[a] = approvals[a]
        \/ approvals'[a] = [approvals[a] EXCEPT !.status = "deleted"]
        \/ approvals'[a] = [approvals[a] EXCEPT !.status = "expired"]
    BY DEF ApplyRetention
  <2> QED BY <2>1, <2>2 DEF ApprovalRow
<1>5. approvals' \in [Approval -> ApprovalRow]
  <2>1. approvals' = [a \in Approval |-> approvals'[a]]
    BY DEF ApplyRetention
  <2> QED BY <1>4, <2>1
<1>6. ApprovalsDecided' /\ ApprovalsKept
  BY <1>4 DEF IInv, ApprovalsDecided, ApprovalsKept
<1>7. \A a \in Approval : approvals'[a].status = "consumed" => approvals[a].status = "consumed"
  BY <1>4
<1>8. TypeOK'
  BY <1>3, <1>5 DEF ApplyRetention, IInv, TypeOK
<1> QED BY <1>3, <1>6, <1>7, <1>8, StepInv DEF ApplyRetention

\* A call cut short keeps it: its row of the invariant becomes empty.
LEMMA AbortInv ==
  ASSUME IInv, NEW r \in Request, Abort(r)
  PROVE  IInv'
<1>1. call' \in [Request -> CallRow] /\ call'[r] = NoCall /\ OthersWait(r)
  BY ReturnType DEF Abort, IInv
<1>2. TypeOK' /\ DraftsComplete'
  BY <1>1 DEF Abort, IInv, TypeOK, DraftsComplete, Exists
<1> QED BY <1>1, <1>2, ReturnedInv, DraftStepInv DEF Abort

-----------------------------------------------------------------------------
(* The invariant of the specification *)

\* The empty database satisfies it.
LEMMA InitInv == Init => IInv
<1> SUFFICES ASSUME Init PROVE IInv
  OBVIOUS
<1>1. NoApproval \in ApprovalRow
  BY DEF NoApproval, ApprovalRow
<1>2. TypeOK
  BY <1>1, EmptyRows DEF Init, TypeOK, PublicationRow
<1>3. DraftsComplete /\ ApprovalsDecided
  BY DEF Init, DraftsComplete, ApprovalsDecided, Exists, NoDraft, NoApproval
<1>4. \A r \in Request : CallInv(r)
  BY DEF Init, CallInv, CallComplete, CallDecides, CallCovered, CallDelivered, NoCall
<1>5. DeliveredUnderItsApproval /\ ConsumedWasDelivered
  BY DEF Init, DeliveredUnderItsApproval, ConsumedWasDelivered, NoApproval
<1> QED BY <1>2, <1>3, <1>4, <1>5 DEF IInv

\* Every first step of a call keeps it.
LEMMA StartInv ==
  ASSUME IInv, NEW r \in Request, Start(r)
  PROVE  IInv'
BY BeginVerifyInv, BeginPublishInv, CreateDraftInv, BeginUpdateInv, BeginGateInv,
   BeginDecideInv, ApplyRetentionInv DEF Start

\* Every later step of a call keeps it.
LEMMA ContinueInv ==
  ASSUME IInv, NEW r \in Request, Continue(r)
  PROVE  IInv'
BY RecordContributionInv, CommitUpdateInv, CommitVerifyInv, RequestApprovalInv,
   CommitGateInv, ReadForDecisionInv, ExpireInv, CommitDecisionInv, WriteDecisionInv,
   ReadForPublishInv, ReadForConsumeInv, InsertPublicationInv, TargetAcceptsInv,
   ReceiveReceiptInv, AdapterFailsInv, RecordFailureInv, ConsumeInv,
   SettlePublicationInv, FinishPublishInv DEF Continue

\* Every step keeps it.
LEMMA NextInv == IInv /\ [Next]_vars => IInv'
<1> SUFFICES ASSUME IInv, [Next]_vars PROVE IInv'
  OBVIOUS
<1>1. CASE Next
  BY <1>1, StartInv, ContinueInv, AgeInv, AbortInv DEF Next, NextNoAbort
<1>2. CASE UNCHANGED vars
  BY <1>2 DEF vars, IInv, TypeOK, DraftsComplete, Exists, ApprovalsDecided, CallInv,
              CallComplete, CallDecides, CallCovered, Covers, CallDelivered,
              DeliveredUnderItsApproval, ConsumedWasDelivered
<1> QED BY <1>1, <1>2

\* In every deployment the invariant holds in every state.
THEOREM Invariance == Spec => []IInv
BY InitInv, NextInv, PTL DEF Spec

\* Every column and every call keeps its type; in particular verify() and gate() are
\* never reached without the report and the text they read (pipeline.ts).
THEOREM TypeCorrect == Spec => []TypeOK
<1>1. IInv => TypeOK
  BY DEF IInv
<1> QED BY <1>1, Invariance, PTL

\* Whatever a target has accepted on the strength of an approval has the text that
\* approval is for, and someone other than its requester gave it: with any number
\* of processes and any call cut short (pipeline.ts publish, approvals.ts).
THEOREM DeliveriesCovered == Spec => []DeliveredUnderItsApproval
<1>1. IInv => DeliveredUnderItsApproval
  BY DEF IInv
<1> QED BY <1>1, Invariance, PTL

\* No approval is spent on a publication that never reached a target (pipeline.ts
\* publish).
THEOREM ConsumptionsDelivered == Spec => []ConsumedWasDelivered
<1>1. IInv => ConsumedWasDelivered
  BY DEF IInv
<1> QED BY <1>1, Invariance, PTL

-----------------------------------------------------------------------------
(* Part two: one process *)

\* One process makes all the calls.
SingleProcess == \A q, r \in Request : Host[q] = Host[r]

-----------------------------------------------------------------------------
(* The inductive invariant *)

\* One call at a time is inside a synchronous section.
Busy(r) == call[r].step \notin Parked
OneBusy == \A q, r \in Request : Busy(q) /\ Busy(r) => q = r

\* The columns of a draft belong together: the report is of its content, an approval
\* on it was asked for that content, and it stands approved on the policy's word or on
\* a person's.
DraftCurrent(d) ==
  LET row == drafts[d] IN
  /\ row.report \in {None, ContentOf(row)}
  /\ row.status = "approved" /\ row.approval = None =>
       Effect[<<row.text, ContentOf(row)>>] = "allow"
  /\ row.approval # None =>
       /\ approvals[row.approval].status # "none"
       /\ approvals[row.approval].reviewed = ContentOf(row)
       /\ row.status = "approved" => approvals[row.approval].decidedBy # None

\* Nobody has decided an approval that is pending.
Undecided(a) == approvals[a].status \in {"none", "pending"} => approvals[a].decidedBy = None

\* Inside a synchronous section what a call has read is what the database holds.
CallCurrent(r) ==
  LET c == call[r]  row == call[r].row  d == call[r].draft  a == call[r].row.approval IN
  /\ c.step \in {"update", "verify"} => Editable(d)
  /\ c.step = "verify" => ContentOf(row) = ContentOf(drafts[d])
  /\ c.step \in {"request", "gate"} =>
       /\ drafts[d].status = "verified" /\ ContentOf(row) = ContentOf(drafts[d])
       /\ row.gate.effect = Effect[<<row.text, ContentOf(row)>>]
       /\ row.status = GateStatus(row.gate.effect)
       /\ a = None <=> row.gate.effect # "require_approval"
  /\ c.step = "gate" /\ a # None =>
       approvals[a].status = "pending" /\ approvals[a].reviewed = ContentOf(row)
  /\ c.step \in {"read_for_decision", "decide_approved", "decide_rejected", "write_decision"} =>
       /\ drafts[d].status = "awaiting_approval" /\ drafts[d].approval = a
       /\ row.status \in {"approved", "rejected"}
  /\ c.step \in {"request", "read_for_decision", "decide_approved", "decide_rejected",
                 "write_decision", "read_for_publish", "read_for_consume", "consume", "expire"} =>
       a # None
  /\ c.step \in {"decide_approved", "decide_rejected"} => approvals[a].status = "pending"
  /\ c.step = "decide_approved" => row.status = "approved"
  /\ c.step = "decide_rejected" => row.status = "rejected"
  /\ c.step = "write_decision" =>
       approvals[a].status = row.status /\ approvals[a].decidedBy = c.actor
  /\ c.step \in {"read_for_publish", "insert"} =>
       /\ drafts[d].status = "approved" /\ drafts[d].approval = a
       /\ ContentOf(row) = ContentOf(drafts[d])
  /\ c.step = "insert" /\ a # None => approvals[a].status = "approved"
  /\ c.step = "consume" => approvals[a].status = "approved"
  /\ c.step = "expire" => approvals[a].status \in {"pending", "approved"}
  /\ c.step = "settle" /\ a # None => approvals[a].status = "consumed"

Current ==
  /\ OneBusy
  /\ \A d \in Draft : DraftCurrent(d)
  /\ \A a \in Approval : Undecided(a)
  /\ \A r \in Request : CallCurrent(r)

-----------------------------------------------------------------------------
(* Publications *)

\* A publication id belongs to one call, and to the artefact it has sent.
SentOnce ==
  /\ \A x \in delivered : publications[x.publication].status # "none"
  /\ \A x, y \in delivered : x.publication = y.publication => x = y
  /\ \A q, r \in Request : q # r /\ call[q].publication # None =>
       call[q].publication # call[r].publication

\* What a publication that has been settled was let out on is used up.
Settled ==
  \A x \in delivered :
    publications[x.publication].status = "published" /\ x.approval # None =>
      approvals[x.approval].status \in {"consumed", "deleted"}

\* How far the publication of a call has come.
CallPublishes(r) ==
  LET c == call[r]  row == call[r].row  a == call[r].row.approval  p == call[r].publication IN
  /\ c.step \in {"read_for_publish", "insert"} => publications[p].status = "none"
  /\ c.step \in {"sending", "sent", "read_for_consume", "consume", "settle"} =>
       publications[p].status = "pending"
  /\ c.step \in {"sent", "read_for_consume", "consume", "settle"} =>
       \A x \in delivered : x.publication = p => x.approval = a
  /\ c.step = "sending" =>
       /\ \A x \in delivered : x.publication # p
       /\ ContentOf(row) \in Text \X Evidence
       /\ IF a = None THEN Effect[<<row.text, ContentOf(row)>>] = "allow"
                      ELSE approvals[a].reviewed = ContentOf(row)
  /\ c.step = "settle" /\ a # None =>
       \A x \in delivered : x.approval = a => publications[x.publication].status # "published"

Published ==
  /\ SentOnce
  /\ Settled
  /\ \A r \in Request : CallPublishes(r)
  /\ DeliveredAsCleared
  /\ OnePublicationPerApproval

-----------------------------------------------------------------------------
(* What a step does, point by point *)

\* The call goes on, with all that it holds.
Moved(r, step) ==
  LET c == call[r]  n == call'[r] IN
  /\ n.step = step /\ n.draft = c.draft /\ n.actor = c.actor /\ n.row = c.row
  /\ n.barred = c.barred /\ n.publication = c.publication

Turn(r) == CanRun(r) /\ OthersWait(r)

OtherDrafts(d)  == \A x \in Draft : x # d => drafts'[x] = drafts[x]
OtherEditors(d) == \A x \in Draft : x # d => editors'[x] = editors[x]

\* An approval takes at most one step of its life, and never changes what it is for or
\* who decided it.
Onward(a) ==
  /\ approvals'[a].status # approvals[a].status =>
       approvals'[a].status \in Later(approvals[a].status)
  /\ approvals[a].status # "none" =>
       /\ approvals'[a].reviewed = approvals[a].reviewed
       /\ approvals'[a].requestedBy = approvals[a].requestedBy
  /\ approvals[a].decidedBy # None => approvals'[a].decidedBy = approvals[a].decidedBy
  /\ Undecided(a)'

Onwards == \A a \in Approval : Onward(a)

\* What GoTo, Return and Begin leave of a call.
LEMMA GoesTo ==
  ASSUME TypeOK, NEW r \in Request, NEW step, GoTo(r, step)
  PROVE  Moved(r, step) /\ OthersWait(r)
<1>1. call[r] \in CallRow
  BY DEF TypeOK
<1>2. call'[r] = [call[r] EXCEPT !.step = step] /\ OthersWait(r)
  BY DEF GoTo, TypeOK, OthersWait
<1> QED BY <1>1, <1>2 DEF CallRow, Moved

\* The same of a call that ends.
LEMMA Returns ==
  ASSUME TypeOK, NEW r \in Request, Return(r)
  PROVE  call'[r] = NoCall /\ OthersWait(r)
BY DEF Return, TypeOK, OthersWait

\* The same of a call that starts.
LEMMA Begins ==
  ASSUME TypeOK, NEW r \in Request, NEW step, NEW d, NEW actor, NEW row, NEW barred, NEW p,
         Begin(r, step, d, actor, row, barred, p)
  PROVE  /\ call'[r].step = step /\ call'[r].draft = d /\ call'[r].actor = actor
         /\ call'[r].row = row /\ call'[r].barred = barred /\ call'[r].publication = p
         /\ OthersWait(r)
BY DEF Begin, TypeOK, OthersWait

\* Approvals that are not written go on as they are.
LEMMA ApprovalsRest == ASSUME Current, UNCHANGED approvals PROVE Onwards
BY DEF Onwards, Onward, Undecided, Current

-----------------------------------------------------------------------------
(* createDraft, updateDraft, verify: what they do *)

\* A new draft has neither report nor approval.
LEMMA CreateDraftEffect ==
  ASSUME IInv, NEW r \in Request, NEW d \in Draft, NEW actor \in Actor,
         NEW author \in Actor, NEW text \in Text, NEW evidence \in Evidence,
         CreateDraft(r, d, actor, author, text, evidence)
  PROVE  /\ Turn(r) /\ call[r].step = "idle" /\ drafts[d].status = "none"
         /\ call'[r].step = "record" /\ call'[r].draft = d /\ call'[r].actor = actor
         /\ call'[r].publication = None /\ call'[r].row = NoDraft
         /\ drafts'[d].status = "draft" /\ drafts'[d].report = None
         /\ drafts'[d].approval = None /\ drafts'[d].author = author
         /\ OtherDrafts(d)
         /\ UNCHANGED <<approvals, publications, contributed, delivered>>
         /\ editors'[d] = editors[d] \cup {actor} /\ OtherEditors(d)
<1> DEFINE row == [NoDraft EXCEPT !.status = "draft", !.text = text,
                                  !.evidence = evidence, !.author = author]
<1>1. row.report = None /\ row.approval = None /\ row.status = "draft" /\ row.author = author
  BY DEF NoDraft
<1>2. drafts' = [drafts EXCEPT ![d] = row]
  BY DEF CreateDraft
<1> HIDE DEF row
<1>3. drafts'[d] = row /\ OtherDrafts(d)
  BY <1>2 DEF IInv, TypeOK, OtherDrafts
<1>4. /\ Begin(r, "record", d, actor, NoDraft, {}, None)
      /\ At(r, "idle") /\ drafts[d].status = "none"
      /\ UNCHANGED <<approvals, publications, contributed, delivered>>
  BY DEF CreateDraft
<1>5. editors'[d] = editors[d] \cup {actor} /\ OtherEditors(d)
  BY DEF CreateDraft, IInv, TypeOK, OtherEditors
<1> QED BY <1>1, <1>3, <1>4, <1>5, Begins DEF At, Turn, IInv

\* updateDraft has found the draft editable.
LEMMA BeginUpdateEffect ==
  ASSUME IInv, NEW r \in Request, NEW d \in Draft, NEW actor \in Actor,
         NEW text \in Text, NEW evidence \in Evidence,
         BeginUpdate(r, d, actor, text, evidence)
  PROVE  /\ Turn(r) /\ call[r].step = "idle" /\ Editable(d)
         /\ call'[r].step = "update" /\ call'[r].draft = d /\ call'[r].actor = actor
         /\ call'[r].publication = None /\ call'[r].row.approval = None
         /\ UNCHANGED <<drafts, approvals, publications, contributed, delivered, editors>>
<1> DEFINE row == [NoDraft EXCEPT !.text = text, !.evidence = evidence]
<1>1. row.approval = None
  BY DEF NoDraft
<1>2. Begin(r, "update", d, actor, row, {}, None) /\ At(r, "idle")
  BY DEF BeginUpdate
<1> HIDE DEF row
<1> QED BY <1>1, <1>2, Begins DEF BeginUpdate, At, Turn, IInv

\* An edit leaves neither report nor approval.
LEMMA CommitUpdateEffect ==
  ASSUME IInv, Current, NEW r \in Request, CommitUpdate(r), NEW d, d = call[r].draft
  PROVE  /\ Turn(r) /\ call[r].step = "update" /\ d \in Draft /\ Editable(d)
         /\ call[r].actor \in Actor /\ Moved(r, "record")
         /\ drafts'[d].status = "draft" /\ drafts'[d].report = None
         /\ drafts'[d].approval = None /\ drafts'[d].author = drafts[d].author
         /\ OtherDrafts(d)
         /\ UNCHANGED <<approvals, publications, contributed, delivered>>
         /\ editors'[d] = editors[d] \cup {call[r].actor} /\ OtherEditors(d)
<1> DEFINE written == [drafts[d] EXCEPT !.text = call[r].row.text,
                                        !.evidence = call[r].row.evidence, !.report = None]
           row == Reset(written, "draft")
<1>1. d \in Draft /\ call[r].step = "update" /\ call[r].actor \in Actor
  BY DEF IInv, CallInv, CallComplete, CommitUpdate, At
<1>2. drafts[d] \in DraftRow
  BY <1>1 DEF IInv, TypeOK
<1>3. /\ row.report = None /\ row.approval = None /\ row.status = "draft"
      /\ row.author = drafts[d].author
  BY <1>2 DEF Reset, DraftRow
<1>4. Editable(d)
  BY <1>1 DEF Current, CallCurrent
<1>5. WriteDraft(d, row)
  BY DEF CommitUpdate
<1> HIDE DEF row
<1>6. drafts'[d] = row /\ OtherDrafts(d)
  BY <1>1, <1>4, <1>5 DEF WriteDraft, Editable, IInv, TypeOK, OtherDrafts
<1>7. Moved(r, "record") /\ OthersWait(r)
  BY GoesTo DEF CommitUpdate, IInv
<1>8. editors'[d] = editors[d] \cup {call[r].actor} /\ OtherEditors(d)
  BY <1>1 DEF CommitUpdate, IInv, TypeOK, OtherEditors
<1> QED BY <1>1, <1>3, <1>4, <1>6, <1>7, <1>8 DEF CommitUpdate, At, Turn

\* The ledger event of an edit changes no row.
LEMMA RecordContributionEffect ==
  ASSUME IInv, NEW r \in Request, RecordContribution(r), NEW d, d = call[r].draft
  PROVE  /\ Turn(r) /\ call[r].step = "record" /\ d \in Draft /\ call'[r] = NoCall
         /\ \A x \in Draft : contributed'[x] =
              IF x = d THEN contributed[x] \cup {call[r].actor} ELSE contributed[x]
         /\ UNCHANGED <<drafts, approvals, publications, delivered, editors>>
<1>1. d \in Draft
  BY DEF IInv, CallInv, CallComplete, RecordContribution, At
<1>2. \A x \in Draft : contributed'[x] =
        IF x = d THEN contributed[x] \cup {call[r].actor} ELSE contributed[x]
  BY DEF RecordContribution, IInv, TypeOK
<1>3. call'[r] = NoCall /\ OthersWait(r)
  BY Returns DEF RecordContribution, IInv
<1> QED BY <1>1, <1>2, <1>3 DEF RecordContribution, At, Turn

\* verify holds what the row holds.
LEMMA BeginVerifyEffect ==
  ASSUME IInv, NEW r \in Request, NEW d \in Draft, BeginVerify(r, d)
  PROVE  /\ Turn(r) /\ call[r].step = "idle" /\ Editable(d)
         /\ call'[r].step = "verify" /\ call'[r].draft = d /\ call'[r].publication = None
         /\ ContentOf(call'[r].row) = ContentOf(drafts[d]) /\ call'[r].row.approval = None
         /\ UNCHANGED <<drafts, approvals, publications, contributed, delivered, editors>>
<1> DEFINE row == [NoDraft EXCEPT !.text = drafts[d].text, !.evidence = drafts[d].evidence]
<1>1. ContentOf(row) = ContentOf(drafts[d]) /\ row.approval = None
  BY DEF NoDraft, ContentOf
<1>2. Begin(r, "verify", d, None, row, {}, None) /\ At(r, "idle")
  BY DEF BeginVerify
<1> HIDE DEF row
<1> QED BY <1>1, <1>2, Begins DEF BeginVerify, At, Turn, IInv

\* The report is of the content of the row it is written to.
LEMMA CommitVerifyEffect ==
  ASSUME IInv, Current, NEW r \in Request, CommitVerify(r), NEW d, d = call[r].draft
  PROVE  /\ Turn(r) /\ call[r].step = "verify" /\ d \in Draft /\ Editable(d)
         /\ call'[r] = NoCall
         /\ drafts'[d].status = "verified" /\ drafts'[d].report = ContentOf(drafts'[d])
         /\ drafts'[d].approval = None /\ drafts'[d].author = drafts[d].author
         /\ OtherDrafts(d)
         /\ UNCHANGED <<approvals, publications, contributed, delivered, editors>>
<1> DEFINE report == <<call[r].row.text, call[r].row.evidence>>
           written == [drafts[d] EXCEPT !.evidence = call[r].row.evidence, !.report = report]
           row == Reset(written, "verified")
<1>1. d \in Draft /\ call[r].step = "verify"
  BY DEF IInv, CallInv, CallComplete, CommitVerify, At
<1>2. drafts[d] \in DraftRow
  BY <1>1 DEF IInv, TypeOK
<1>3. Editable(d) /\ call[r].row.text = drafts[d].text
  BY <1>1 DEF Current, CallCurrent, ContentOf
<1>4. /\ row.approval = None /\ row.status = "verified" /\ row.author = drafts[d].author
      /\ row.report = <<row.text, row.evidence>>
  BY <1>2, <1>3 DEF Reset, DraftRow
<1>5. WriteDraft(d, row)
  BY DEF CommitVerify
<1> HIDE DEF row
<1>6. drafts'[d] = row /\ OtherDrafts(d)
  BY <1>1, <1>3, <1>5 DEF WriteDraft, Editable, IInv, TypeOK, OtherDrafts
<1>7. call'[r] = NoCall /\ OthersWait(r)
  BY Returns DEF CommitVerify, IInv
<1> QED BY <1>1, <1>3, <1>4, <1>6, <1>7 DEF CommitVerify, At, Turn, ContentOf

-----------------------------------------------------------------------------
(* gate: what it does *)

\* gate holds the policy's verdict on the content of the row, and a fresh approval
\* id exactly when the verdict requires one.
LEMMA BeginGateEffect ==
  ASSUME IInv, Current, NEW r \in Request, NEW d \in Draft, NEW actor \in Actor,
         NEW a \in Approval \cup {None}, BeginGate(r, d, actor, a)
  PROVE  /\ Turn(r) /\ call[r].step = "idle" /\ drafts[d].status = "verified"
         /\ call'[r].step = IF a = None THEN "gate" ELSE "request"
         /\ call'[r].draft = d /\ call'[r].actor = actor /\ call'[r].publication = None
         /\ ContentOf(call'[r].row) = ContentOf(drafts[d]) /\ call'[r].row.approval = a
         /\ call'[r].row.gate.effect = Effect[<<call'[r].row.text, ContentOf(call'[r].row)>>]
         /\ call'[r].row.status = GateStatus(call'[r].row.gate.effect)
         /\ (a = None <=> call'[r].row.gate.effect # "require_approval")
         /\ (a # None => a \in Approval /\ FreshApproval(a))
         /\ UNCHANGED <<drafts, approvals, publications, contributed, delivered, editors>>
<1> DEFINE effect == Effect[<<drafts[d].text, drafts[d].report>>]
           row == [NoDraft EXCEPT
                     !.text = drafts[d].text, !.evidence = drafts[d].evidence,
                     !.status = GateStatus(effect), !.approval = a,
                     !.gate = [effect |-> effect, marking |-> drafts[d].text \in Marked]]
           step == IF a = None THEN "gate" ELSE "request"
<1>1. /\ At(r, "idle") /\ drafts[d].status = "verified"
      /\ IF effect = "require_approval" THEN a \in Approval /\ FreshApproval(a) ELSE a = None
      /\ Begin(r, step, d, actor, row, {}, None)
      /\ UNCHANGED <<drafts, approvals, publications, contributed, delivered, editors>>
  BY DEF BeginGate
<1>2. drafts[d].report = ContentOf(drafts[d])
  <2>1. drafts[d].report \in Report
    BY <1>1 DEF IInv, DraftsComplete
  <2> QED BY <2>1, NoneAssumption DEF Current, DraftCurrent
<1>3. /\ ContentOf(row) = ContentOf(drafts[d]) /\ row.approval = a /\ row.text = drafts[d].text
      /\ row.gate.effect = effect /\ row.status = GateStatus(effect)
  BY DEF NoDraft, ContentOf
<1> HIDE DEF row
<1>4. /\ call'[r].step = step /\ call'[r].draft = d /\ call'[r].actor = actor
      /\ call'[r].row = row /\ call'[r].publication = None /\ Turn(r)
  BY <1>1, Begins DEF At, Turn, IInv
<1>5. row.gate.effect = Effect[<<row.text, ContentOf(row)>>]
  BY <1>2, <1>3
<1>6. a = None <=> effect # "require_approval"
  BY <1>1, NoneAssumption
<1> QED BY <1>1, <1>3, <1>4, <1>5, <1>6 DEF At

\* The new approval is for the content that was evaluated.
LEMMA RequestApprovalEffect ==
  ASSUME IInv, Current, NEW r \in Request, RequestApproval(r), NEW a, a = call[r].row.approval
  PROVE  /\ Turn(r) /\ call[r].step = "request" /\ Moved(r, "gate")
         /\ a \in Approval /\ a # None /\ approvals[a].status = "none"
         /\ approvals'[a].status = "pending" /\ approvals'[a].reviewed = ContentOf(call[r].row)
         /\ approvals'[a].requestedBy = call[r].actor /\ approvals'[a].decidedBy = None
         /\ \A b \in Approval : b # a => approvals'[b] = approvals[b]
         /\ Onwards
         /\ UNCHANGED <<drafts, publications, contributed, delivered, editors>>
<1> DEFINE new == [status |-> "pending", draft |-> call[r].draft, payload |-> call[r].row.text,
                   reviewed |-> <<call[r].row.text, call[r].row.evidence>>,
                   requestedBy |-> call[r].actor, decidedBy |-> None, age |-> "fresh"]
<1>1. /\ At(r, "request") /\ approvals[a].status = "none" /\ GoTo(r, "gate")
      /\ approvals' = [approvals EXCEPT ![a] = new]
      /\ UNCHANGED <<drafts, publications, contributed, delivered, editors>>
  BY DEF RequestApproval
<1>2. a \in Approval /\ a # None
  <2>1. a # None
    BY <1>1 DEF Current, CallCurrent, At
  <2> QED BY <2>1 DEF IInv, TypeOK, CallRow, DraftRow
<1>3. /\ new.status = "pending" /\ new.reviewed = ContentOf(call[r].row)
      /\ new.requestedBy = call[r].actor /\ new.decidedBy = None
  BY DEF ContentOf
<1> HIDE DEF new
<1>4. approvals'[a] = new /\ \A b \in Approval : b # a => approvals'[b] = approvals[b]
  BY <1>1, <1>2 DEF IInv, TypeOK
<1>5. approvals[a].decidedBy = None
  BY <1>1, <1>2 DEF IInv, ApprovalsDecided
<1>6. Onwards
  BY <1>1, <1>3, <1>4, <1>5 DEF Onwards, Onward, Later, Undecided, Current
<1> QED BY <1>1, <1>2, <1>3, <1>4, <1>6, GoesTo DEF At, Turn, IInv

\* The draft takes the verdict's status and the approval requested for it.
LEMMA CommitGateEffect ==
  ASSUME IInv, Current, NEW r \in Request, CommitGate(r), NEW d, d = call[r].draft
  PROVE  /\ Turn(r) /\ call[r].step = "gate" /\ d \in Draft /\ call'[r] = NoCall
         /\ drafts[d].status = "verified"
         /\ drafts'[d].status = call[r].row.status
         /\ drafts'[d].approval = call[r].row.approval
         /\ drafts'[d].text = drafts[d].text /\ drafts'[d].evidence = drafts[d].evidence
         /\ drafts'[d].report = drafts[d].report /\ drafts'[d].author = drafts[d].author
         /\ OtherDrafts(d)
         /\ UNCHANGED <<approvals, publications, contributed, delivered, editors>>
<1> DEFINE row == [drafts[d] EXCEPT !.status = call[r].row.status, !.gate = call[r].row.gate,
                                    !.approval = call[r].row.approval]
<1>1. /\ At(r, "gate") /\ WriteDraft(d, row) /\ Return(r)
      /\ UNCHANGED <<approvals, publications, contributed, delivered, editors>>
  BY DEF CommitGate
<1>2. d \in Draft /\ drafts[d].status = "verified"
  BY <1>1 DEF IInv, CallInv, CallComplete, Current, CallCurrent, At
<1>3. /\ row.status = call[r].row.status /\ row.approval = call[r].row.approval
      /\ row.text = drafts[d].text /\ row.evidence = drafts[d].evidence
      /\ row.report = drafts[d].report /\ row.author = drafts[d].author
  <2>1. drafts[d] \in DraftRow
    BY <1>2 DEF IInv, TypeOK
  <2> QED BY <2>1 DEF DraftRow
<1> HIDE DEF row
<1>4. drafts'[d] = row /\ OtherDrafts(d)
  BY <1>1, <1>2 DEF WriteDraft, Exists, IInv, TypeOK, OtherDrafts
<1> QED BY <1>1, <1>2, <1>3, <1>4, Returns DEF At, Turn, IInv

-----------------------------------------------------------------------------
(* decide: what it does *)

\* decide holds the approval of the row, and bars its author and its contributors.
LEMMA BeginDecideEffect ==
  ASSUME IInv, NEW r \in Request, NEW d \in Draft, NEW actor \in Actor,
         NEW verdict \in {"approved", "rejected"}, BeginDecide(r, d, actor, verdict)
  PROVE  /\ Turn(r) /\ call[r].step = "idle" /\ drafts[d].status = "awaiting_approval"
         /\ call'[r].step = "read_for_decision" /\ call'[r].draft = d
         /\ call'[r].actor = actor /\ call'[r].publication = None
         /\ call'[r].row.status = verdict
         /\ drafts[d].approval # None /\ call'[r].row.approval = drafts[d].approval
         /\ call'[r].barred = contributed[d] \cup ({drafts[d].author} \ {None})
         /\ UNCHANGED <<drafts, approvals, publications, contributed, delivered, editors>>
<1> DEFINE row == [NoDraft EXCEPT !.status = verdict, !.approval = drafts[d].approval]
           barred == contributed[d] \cup ({drafts[d].author} \ {None})
<1>1. /\ At(r, "idle") /\ drafts[d].status = "awaiting_approval" /\ drafts[d].approval # None
      /\ Begin(r, "read_for_decision", d, actor, row, barred, None)
      /\ UNCHANGED <<drafts, approvals, publications, contributed, delivered, editors>>
  BY DEF BeginDecide
<1>2. row.status = verdict /\ row.approval = drafts[d].approval
  BY DEF NoDraft
<1> HIDE DEF row
<1> QED BY <1>1, <1>2, Begins DEF At, Turn, IInv

\* A read of an approval moves its call on, to the expiry, or out.
LEMMA ReadApprovalEffect ==
  ASSUME IInv, NEW r \in Request, NEW here, NEW passes, NEW next,
         ReadApproval(r, here, passes, next), NEW a, a = call[r].row.approval
  PROVE  /\ Turn(r) /\ call[r].step = here
         /\ \/ Expires(approvals[a]) /\ Moved(r, "expire")
            \/ ~Expires(approvals[a]) /\ passes /\ Moved(r, next)
            \/ ~passes /\ call'[r] = NoCall
         /\ UNCHANGED <<drafts, approvals, publications, contributed, delivered, editors>>
<1>1. TypeOK
  BY DEF IInv
<1>2. GoTo(r, "expire") => Moved(r, "expire") /\ OthersWait(r)
  BY <1>1, GoesTo
<1>3. GoTo(r, next) => Moved(r, next) /\ OthersWait(r)
  BY <1>1, GoesTo
<1>4. Return(r) => call'[r] = NoCall /\ OthersWait(r)
  BY <1>1, Returns
<1> QED BY <1>2, <1>3, <1>4 DEF ReadApproval, At, Turn

\* The status of an approval is all that SetApproval changes.
LEMMA SetApprovalEffect ==
  ASSUME IInv, Current, NEW a, NEW status \in {"expired", "consumed"}, SetApproval(a, status),
         a \in Approval => status \in Later(approvals[a].status)
  PROVE  /\ Onwards
         /\ \A b \in Approval : b # a => approvals'[b] = approvals[b]
         /\ a \in Approval => approvals'[a].status = status
<1>1. approvals \in [Approval -> ApprovalRow]
  BY DEF IInv, TypeOK
<1>2. CASE a \notin Approval
  <2>1. approvals' = approvals
    BY <1>1, <1>2 DEF SetApproval
  <2> QED BY <1>2, <2>1, ApprovalsRest
<1>3. CASE a \in Approval
  <2> DEFINE row == [approvals[a] EXCEPT !.status = status]
  <2>1. approvals[a].status # "deleted"
    BY <1>3 DEF Later
  <2>2. approvals' = [approvals EXCEPT ![a] = row]
    BY <1>1, <1>3, <2>1 DEF SetApproval
  <2>3. /\ row.status = status /\ row.reviewed = approvals[a].reviewed
        /\ row.decidedBy = approvals[a].decidedBy
        /\ row.requestedBy = approvals[a].requestedBy
    BY <1>1, <1>3 DEF ApprovalRow
  <2> HIDE DEF row
  <2>4. approvals'[a] = row /\ \A b \in Approval : b # a => approvals'[b] = approvals[b]
    BY <1>1, <1>3, <2>2
  <2>5. Onwards
    BY <1>3, <2>3, <2>4 DEF Onwards, Onward, Undecided, Current
  <2> QED BY <2>3, <2>4, <2>5
<1> QED BY <1>2, <1>3

\* The approval expires, and the call ends.
LEMMA ExpireEffect ==
  ASSUME IInv, Current, NEW r \in Request, Expire(r), NEW a, a = call[r].row.approval
  PROVE  /\ Turn(r) /\ call[r].step = "expire" /\ call'[r] = NoCall /\ Onwards
         /\ a \in Approval /\ approvals[a].status \in {"pending", "approved"}
         /\ approvals'[a].status = "expired"
         /\ \A b \in Approval : b # a => approvals'[b] = approvals[b]
         /\ UNCHANGED <<drafts, publications, contributed, delivered, editors>>
<1>1. /\ At(r, "expire") /\ SetApproval(a, "expired") /\ Return(r)
      /\ UNCHANGED <<drafts, publications, contributed, delivered, editors>>
  BY DEF Expire
<1>2. a # None /\ approvals[a].status \in {"pending", "approved"}
  BY <1>1 DEF Current, CallCurrent, At
<1>3. a \in Approval
  BY <1>2 DEF IInv, TypeOK, CallRow, DraftRow
<1>4. "expired" \in Later(approvals[a].status)
  BY <1>2 DEF Later
<1> QED BY <1>1, <1>2, <1>3, <1>4, SetApprovalEffect, Returns DEF At, Turn, IInv

\* The decision is recorded with the decider.
LEMMA CommitDecisionEffect ==
  ASSUME IInv, Current, NEW r \in Request, NEW verdict \in {"approved", "rejected"},
         CommitDecision(r, verdict), NEW a, a = call[r].row.approval
  PROVE  /\ Turn(r) /\ call[r].step \in {"decide_approved", "decide_rejected"}
         /\ Moved(r, "write_decision") /\ Onwards
         /\ a \in Approval /\ approvals[a].status = "pending"
         /\ call[r].row.status = verdict /\ call[r].actor \in Actor
         /\ approvals'[a].status = verdict /\ approvals'[a].decidedBy = call[r].actor
         /\ \A b \in Approval : b # a => approvals'[b] = approvals[b]
         /\ UNCHANGED <<drafts, publications, contributed, delivered, editors>>
<1> DEFINE row == [approvals[a] EXCEPT !.status = verdict, !.decidedBy = call[r].actor]
<1>1. At(r, IF verdict = "approved" THEN "decide_approved" ELSE "decide_rejected")
  BY DEF CommitDecision
<1>2. /\ a # None /\ approvals[a].status = "pending" /\ call[r].row.status = verdict
      /\ call[r].actor \in Actor
  BY <1>1 DEF Current, CallCurrent, At, IInv, CallInv, CallComplete
<1>3. a \in Approval /\ approvals \in [Approval -> ApprovalRow]
  BY <1>2 DEF IInv, TypeOK, CallRow, DraftRow
<1>4. /\ approvals' = [approvals EXCEPT ![a] = row] /\ GoTo(r, "write_decision")
      /\ UNCHANGED <<drafts, publications, contributed, delivered, editors>>
  <2>1. approvals' = [approvals EXCEPT ![a].status = verdict, ![a].decidedBy = call[r].actor]
    BY <1>2 DEF CommitDecision
  <2>2. approvals' = [approvals EXCEPT ![a] = row]
    BY <1>3, <2>1
  <2> QED BY <1>2, <2>2 DEF CommitDecision
<1>5. /\ row.status = verdict /\ row.decidedBy = call[r].actor
      /\ row.reviewed = approvals[a].reviewed /\ row.requestedBy = approvals[a].requestedBy
  BY <1>3 DEF ApprovalRow
<1> HIDE DEF row
<1>6. approvals'[a] = row /\ \A b \in Approval : b # a => approvals'[b] = approvals[b]
  BY <1>3, <1>4
<1>7. Onwards
  BY <1>2, <1>3, <1>5, <1>6 DEF Onwards, Onward, Undecided, Later, Current
<1> QED BY <1>1, <1>2, <1>3, <1>4, <1>5, <1>6, <1>7, GoesTo DEF At, Turn, IInv

\* The draft takes the verdict.
LEMMA WriteDecisionEffect ==
  ASSUME IInv, Current, NEW r \in Request, WriteDecision(r), NEW d, d = call[r].draft
  PROVE  /\ Turn(r) /\ call[r].step = "write_decision" /\ d \in Draft /\ call'[r] = NoCall
         /\ drafts[d].status = "awaiting_approval"
         /\ drafts'[d].status = call[r].row.status
         /\ drafts'[d].approval = drafts[d].approval
         /\ drafts'[d].text = drafts[d].text /\ drafts'[d].evidence = drafts[d].evidence
         /\ drafts'[d].report = drafts[d].report /\ drafts'[d].author = drafts[d].author
         /\ OtherDrafts(d)
         /\ UNCHANGED <<approvals, publications, contributed, delivered, editors>>
<1> DEFINE row == [drafts[d] EXCEPT !.status = call[r].row.status, !.reviewer = call[r].actor]
<1>1. /\ At(r, "write_decision") /\ WriteDraft(d, row) /\ Return(r)
      /\ UNCHANGED <<approvals, publications, contributed, delivered, editors>>
  BY DEF WriteDecision
<1>2. d \in Draft /\ drafts[d].status = "awaiting_approval"
  BY <1>1 DEF IInv, CallInv, CallComplete, Current, CallCurrent, At
<1>3. /\ row.status = call[r].row.status /\ row.approval = drafts[d].approval
      /\ row.text = drafts[d].text /\ row.evidence = drafts[d].evidence
      /\ row.report = drafts[d].report /\ row.author = drafts[d].author
  <2>1. drafts[d] \in DraftRow
    BY <1>2 DEF IInv, TypeOK
  <2> QED BY <2>1 DEF DraftRow
<1> HIDE DEF row
<1>4. drafts'[d] = row /\ OtherDrafts(d)
  BY <1>1, <1>2 DEF WriteDraft, Exists, IInv, TypeOK, OtherDrafts
<1> QED BY <1>1, <1>2, <1>3, <1>4, Returns DEF At, Turn, IInv

-----------------------------------------------------------------------------
(* publish: what it does *)

\* publish holds the content and the approval of the row, and an unused id.
LEMMA BeginPublishEffect ==
  ASSUME IInv, NEW r \in Request, NEW d \in Draft, NEW p \in Publication, BeginPublish(r, d, p)
  PROVE  /\ Turn(r) /\ call[r].step = "idle" /\ drafts[d].status = "approved"
         /\ call'[r].step = IF drafts[d].approval = None THEN "insert" ELSE "read_for_publish"
         /\ call'[r].draft = d /\ call'[r].publication = p /\ FreshPublication(p)
         /\ ContentOf(call'[r].row) = ContentOf(drafts[d])
         /\ call'[r].row.approval = drafts[d].approval
         /\ UNCHANGED <<drafts, approvals, publications, contributed, delivered, editors>>
<1> DEFINE row == [NoDraft EXCEPT
                     !.text = drafts[d].text, !.evidence = drafts[d].evidence,
                     !.gate = drafts[d].gate, !.approval = drafts[d].approval,
                     !.reviewer = drafts[d].reviewer]
           step == IF drafts[d].approval = None THEN "insert" ELSE "read_for_publish"
<1>1. /\ At(r, "idle") /\ drafts[d].status = "approved" /\ FreshPublication(p)
      /\ Begin(r, step, d, None, row, {}, p)
      /\ UNCHANGED <<drafts, approvals, publications, contributed, delivered, editors>>
  BY DEF BeginPublish
<1>2. ContentOf(row) = ContentOf(drafts[d]) /\ row.approval = drafts[d].approval
  BY DEF NoDraft, ContentOf
<1> HIDE DEF row
<1> QED BY <1>1, <1>2, Begins DEF At, Turn, IInv

\* The publication is inserted before the adapter is called; the draft is there.
LEMMA InsertPublicationEffect ==
  ASSUME IInv, Current, NEW r \in Request, InsertPublication(r), NEW p, p = call[r].publication
  PROVE  /\ Turn(r) /\ call[r].step = "insert" /\ Moved(r, "sending")
         /\ p \in Publication /\ publications[p].status = "none"
         /\ publications'[p].status = "pending"
         /\ \A o \in Publication : o # p => publications'[o] = publications[o]
         /\ UNCHANGED <<drafts, approvals, contributed, delivered, editors>>
<1> DEFINE new == [status |-> "pending", draft |-> call[r].draft]
<1>1. At(r, "insert") /\ publications[p].status = "none"
  BY DEF InsertPublication
<1>2. p \in Publication /\ Exists(call[r].draft)
  BY <1>1 DEF IInv, CallInv, CallComplete, Current, CallCurrent, At, Exists
<1>3. /\ publications' = [publications EXCEPT ![p] = new] /\ GoTo(r, "sending")
      /\ UNCHANGED <<drafts, approvals, contributed, delivered, editors>>
  BY <1>2 DEF InsertPublication
<1>4. new.status = "pending"
  OBVIOUS
<1> HIDE DEF new
<1>5. publications'[p] = new /\ \A o \in Publication : o # p => publications'[o] = publications[o]
  BY <1>2, <1>3 DEF IInv, TypeOK
<1> QED BY <1>1, <1>2, <1>3, <1>4, <1>5, GoesTo DEF At, Turn, IInv

\* One artefact is added, as the call holds it.
LEMMA TargetAcceptsEffect ==
  ASSUME IInv, NEW r \in Request, TargetAccepts(r)
  PROVE  /\ OthersWait(r) /\ call[r].step = "sending" /\ Moved(r, "sent")
         /\ \E x : /\ delivered' = delivered \cup {x}
                   /\ x.draft = call[r].draft /\ x.text = call[r].row.text
                   /\ x.evidence = call[r].row.evidence
                   /\ x.approval = call[r].row.approval
                   /\ x.publication = call[r].publication
         /\ UNCHANGED <<drafts, approvals, publications, contributed, editors>>
<1> DEFINE c == call[r]
           new == [draft |-> c.draft, text |-> c.row.text, evidence |-> c.row.evidence,
                   gate |-> c.row.gate, approval |-> c.row.approval,
                   reviewer |-> c.row.reviewer, publication |-> c.publication]
<1>1. /\ c.step = "sending" /\ GoTo(r, "sent") /\ delivered' = delivered \cup {new}
      /\ UNCHANGED <<drafts, approvals, publications, contributed, editors>>
  BY DEF TargetAccepts
<1>2. /\ new.draft = c.draft /\ new.text = c.row.text /\ new.evidence = c.row.evidence
      /\ new.approval = c.row.approval /\ new.publication = c.publication
  OBVIOUS
<1> HIDE DEF new
<1> QED BY <1>1, <1>2, GoesTo DEF IInv

\* The call resumes with the receipt.
LEMMA ReceiveReceiptEffect ==
  ASSUME IInv, NEW r \in Request, ReceiveReceipt(r)
  PROVE  /\ Turn(r) /\ call[r].step = "sent"
         /\ Moved(r, IF call[r].row.approval = None THEN "settle" ELSE "read_for_consume")
         /\ UNCHANGED <<drafts, approvals, publications, contributed, delivered, editors>>
BY GoesTo DEF ReceiveReceipt, At, Turn, IInv

\* Or with an error.
LEMMA AdapterFailsEffect ==
  ASSUME IInv, NEW r \in Request, AdapterFails(r)
  PROVE  /\ Turn(r) /\ call[r].step \in {"sending", "sent"} /\ Moved(r, "failed")
         /\ UNCHANGED <<drafts, approvals, publications, contributed, delivered, editors>>
BY GoesTo DEF AdapterFails, At, Turn, IInv

\* The status of its own publication is all a call changes.
LEMMA SettlesOwn ==
  ASSUME TypeOK, NEW p \in Publication, NEW status,
         publications' = [publications EXCEPT ![p].status = status]
  PROVE  /\ publications'[p].status = status
         /\ \A o \in Publication : o # p => publications'[o] = publications[o]
<1>1. publications[p] \in PublicationRow
  BY DEF TypeOK
<1> QED BY <1>1 DEF TypeOK, PublicationRow

\* The failure is recorded, and the call ends.
LEMMA RecordFailureEffect ==
  ASSUME IInv, NEW r \in Request, RecordFailure(r), NEW p, p = call[r].publication
  PROVE  /\ Turn(r) /\ call[r].step = "failed" /\ call'[r] = NoCall
         /\ p \in Publication /\ publications'[p].status = "failed"
         /\ \A o \in Publication : o # p => publications'[o] = publications[o]
         /\ UNCHANGED <<drafts, approvals, contributed, delivered, editors>>
<1>1. /\ At(r, "failed") /\ Return(r) /\ UNCHANGED <<drafts, approvals, contributed, delivered, editors>>
      /\ publications' = [publications EXCEPT ![p].status = "failed"]
  BY DEF RecordFailure
<1>2. p \in Publication /\ TypeOK
  BY <1>1 DEF IInv, CallInv, CallComplete, At
<1> QED BY <1>1, <1>2, SettlesOwn, Returns DEF At, Turn

\* The approval is used up.
LEMMA ConsumeEffect ==
  ASSUME IInv, Current, NEW r \in Request, Consume(r), NEW a, a = call[r].row.approval
  PROVE  /\ Turn(r) /\ call[r].step = "consume" /\ Moved(r, "settle") /\ Onwards
         /\ a \in Approval /\ approvals[a].status = "approved"
         /\ approvals'[a].status = "consumed"
         /\ \A b \in Approval : b # a => approvals'[b] = approvals[b]
         /\ UNCHANGED <<drafts, publications, contributed, delivered, editors>>
<1>1. At(r, "consume") /\ SetApproval(a, "consumed")
  BY DEF Consume
<1>2. a # None /\ approvals[a].status = "approved"
  BY <1>1 DEF Current, CallCurrent, At
<1>3. a \in Approval
  BY <1>2 DEF IInv, TypeOK, CallRow, DraftRow
<1>4. GoTo(r, "settle") /\ UNCHANGED <<drafts, publications, contributed, delivered, editors>>
  BY <1>2 DEF Consume
<1>5. "consumed" \in Later(approvals[a].status)
  BY <1>2 DEF Later
<1> QED BY <1>1, <1>2, <1>3, <1>4, <1>5, SetApprovalEffect, GoesTo DEF At, Turn, IInv

\* The publication is settled.
LEMMA SettlePublicationEffect ==
  ASSUME IInv, NEW r \in Request, SettlePublication(r), NEW p, p = call[r].publication
  PROVE  /\ Turn(r) /\ call[r].step = "settle" /\ Moved(r, "finish")
         /\ p \in Publication /\ publications'[p].status = "published"
         /\ \A o \in Publication : o # p => publications'[o] = publications[o]
         /\ UNCHANGED <<drafts, approvals, contributed, delivered, editors>>
<1>1. /\ At(r, "settle") /\ GoTo(r, "finish")
      /\ UNCHANGED <<drafts, approvals, contributed, delivered, editors>>
      /\ publications' = [publications EXCEPT ![p].status = "published"]
  BY DEF SettlePublication
<1>2. p \in Publication /\ TypeOK
  BY <1>1 DEF IInv, CallInv, CallComplete, At
<1> QED BY <1>1, <1>2, SettlesOwn, GoesTo DEF At, Turn

\* The draft is published, unless it has been removed; nothing else of it changes.
LEMMA FinishPublishEffect ==
  ASSUME IInv, NEW r \in Request, FinishPublish(r), NEW d, d = call[r].draft
  PROVE  /\ Turn(r) /\ call[r].step = "finish" /\ d \in Draft /\ call'[r] = NoCall
         /\ \/ drafts'[d] = drafts[d] /\ drafts[d].status \in {"none", "deleted", "published"}
            \/ /\ drafts'[d].status = "published" /\ drafts[d].status # "published"
               /\ drafts'[d].approval = drafts[d].approval
               /\ drafts'[d].text = drafts[d].text /\ drafts'[d].evidence = drafts[d].evidence
               /\ drafts'[d].report = drafts[d].report /\ drafts'[d].author = drafts[d].author
         /\ OtherDrafts(d)
         /\ UNCHANGED <<approvals, publications, contributed, delivered, editors>>
<1> DEFINE row == [drafts[d] EXCEPT !.status = "published"]
<1>1. /\ At(r, "finish") /\ WriteDraft(d, row) /\ Return(r)
      /\ UNCHANGED <<approvals, publications, contributed, delivered, editors>>
  BY DEF FinishPublish
<1>2. d \in Draft /\ drafts[d] \in DraftRow
  BY <1>1 DEF IInv, TypeOK, CallInv, CallComplete, At
<1>3. /\ row.status = "published" /\ row.approval = drafts[d].approval
      /\ row.text = drafts[d].text /\ row.evidence = drafts[d].evidence
      /\ row.report = drafts[d].report /\ row.author = drafts[d].author
      /\ drafts[d].status = "published" => row = drafts[d]
  BY <1>2 DEF DraftRow
<1> HIDE DEF row
<1>4. drafts'[d] = (IF Exists(d) THEN row ELSE drafts[d]) /\ OtherDrafts(d)
  BY <1>1, <1>2 DEF WriteDraft, IInv, TypeOK, OtherDrafts
<1> QED BY <1>1, <1>2, <1>3, <1>4, Returns DEF At, Turn, IInv, Exists

-----------------------------------------------------------------------------
(* Time, retention and failure: what they do *)

\* Time changes no column but the age.
LEMMA AgeEffect ==
  ASSUME IInv, Current, NEW a \in Approval, Age(a)
  PROVE  /\ Onwards
         /\ \A b \in Approval : /\ approvals'[b].status = approvals[b].status
                                /\ approvals'[b].reviewed = approvals[b].reviewed
                                /\ approvals'[b].decidedBy = approvals[b].decidedBy
                                /\ approvals'[b].requestedBy = approvals[b].requestedBy
         /\ UNCHANGED <<drafts, publications, contributed, delivered, editors, call>>
<1> DEFINE row == [approvals[a] EXCEPT !.age = IF @ = "fresh" THEN "stale" ELSE "old"]
<1>1. approvals \in [Approval -> ApprovalRow] /\ approvals[a] \in ApprovalRow
  BY DEF IInv, TypeOK
<1>2. /\ row.status = approvals[a].status /\ row.reviewed = approvals[a].reviewed
      /\ row.decidedBy = approvals[a].decidedBy
      /\ row.requestedBy = approvals[a].requestedBy
  BY <1>1 DEF ApprovalRow
<1>3. approvals' = [approvals EXCEPT ![a] = row]
  BY <1>1 DEF Age
<1> HIDE DEF row
<1>4. \A b \in Approval : approvals'[b] = IF b = a THEN row ELSE approvals[b]
  BY <1>1, <1>3
<1>5. Onwards
  BY <1>2, <1>4 DEF Onwards, Onward, Undecided, Current
<1> QED BY <1>2, <1>4, <1>5 DEF Age

\* Retention removes drafts and approvals, and expires approvals.
LEMMA ApplyRetentionEffect ==
  ASSUME IInv, Current, NEW r \in Request, NEW outdated \in SUBSET Draft,
         ApplyRetention(r, outdated)
  PROVE  /\ At(r, "idle") /\ Onwards
         /\ \A d \in Draft :
              \/ drafts'[d] = drafts[d]
              \/ /\ drafts[d].status \in {"rejected", "blocked"}
                 /\ drafts'[d].status = "deleted" /\ drafts'[d].report = None
                 /\ drafts'[d].approval = None
         /\ \A a \in Approval :
              /\ approvals'[a].status \in {approvals[a].status, "deleted", "expired"}
              /\ approvals'[a].reviewed = approvals[a].reviewed
              /\ approvals'[a].decidedBy = approvals[a].decidedBy
         /\ UNCHANGED <<publications, contributed, delivered, editors, call>>
<1> DEFINE gone == [NoDraft EXCEPT !.status = "deleted"]
<1>1. gone.status = "deleted" /\ gone.report = None /\ gone.approval = None
  BY DEF NoDraft
<1>2. drafts' = [d \in Draft |-> IF d \in outdated THEN gone ELSE drafts[d]]
  BY DEF ApplyRetention
<1>3. /\ At(r, "idle") /\ \A d \in outdated : drafts[d].status \in {"rejected", "blocked"}
      /\ UNCHANGED <<publications, contributed, delivered, editors, call>>
  BY DEF ApplyRetention
<1> HIDE DEF gone
<1>4. \A d \in Draft :
        \/ drafts'[d] = drafts[d]
        \/ /\ drafts[d].status \in {"rejected", "blocked"}
           /\ drafts'[d].status = "deleted" /\ drafts'[d].report = None
           /\ drafts'[d].approval = None
  BY <1>1, <1>2, <1>3
<1>5. ASSUME NEW a \in Approval
      PROVE  /\ approvals'[a].status = approvals[a].status
                \/ approvals'[a].status \in Later(approvals[a].status) \cap {"deleted", "expired"}
             /\ approvals'[a].reviewed = approvals[a].reviewed
             /\ approvals'[a].decidedBy = approvals[a].decidedBy
             /\ approvals'[a].requestedBy = approvals[a].requestedBy
  <2>1. approvals[a] \in ApprovalRow
    BY DEF IInv, TypeOK
  <2>2. \/ approvals'[a] = approvals[a]
        \/ /\ approvals'[a] = [approvals[a] EXCEPT !.status = "deleted"]
           /\ approvals[a].status \notin {"none", "deleted"}
        \/ /\ approvals'[a] = [approvals[a] EXCEPT !.status = "expired"]
           /\ approvals[a].status \in {"pending", "approved"}
    BY DEF ApplyRetention, Expires
  <2> QED BY <2>1, <2>2 DEF ApprovalRow, Later
<1>6. Onwards
  BY <1>5 DEF Onwards, Onward, Undecided, Current
<1> QED BY <1>3, <1>4, <1>5, <1>6

\* A call cut short leaves every row as it is.
LEMMA AbortEffect ==
  ASSUME IInv, NEW r \in Request, Abort(r)
  PROVE  /\ OthersWait(r) /\ call'[r] = NoCall
         /\ UNCHANGED <<drafts, approvals, publications, contributed, delivered, editors>>
BY Returns DEF Abort, IInv

-----------------------------------------------------------------------------
(* Current is kept *)

\* A call that may run is the only one inside a synchronous section, and remains so.
LEMMA Alone ==
  ASSUME SingleProcess, NEW r \in Request, Turn(r)
  PROVE  /\ OneBusy'
         /\ \A q \in Request \ {r} : call[q].step \in Parked /\ call'[q] = call[q]
         /\ \A q \in Request \ {r} : CallCurrent(q)'
<1>1. \A q \in Request \ {r} : call[q].step \in Parked /\ call'[q] = call[q]
  BY DEF SingleProcess, CanRun, OthersWait, Turn
<1>2. OneBusy'
  BY <1>1 DEF OneBusy, Busy
<1>3. \A q \in Request \ {r} : CallCurrent(q)'
  BY <1>1 DEF CallCurrent, Parked
<1> QED BY <1>1, <1>2, <1>3

\* A draft that a step leaves alone stays current.
LEMMA DraftRests ==
  ASSUME IInv, Current, Onwards, NEW d \in Draft, drafts'[d] = drafts[d]
  PROVE  DraftCurrent(d)'
<1> DEFINE a == drafts[d].approval
<1>1. a \in Approval \cup {None}
  BY DEF IInv, TypeOK, DraftRow
<1>2. DraftCurrent(d)
  BY DEF Current
<1>3. a # None =>
        /\ approvals'[a].status # "none" /\ approvals'[a].reviewed = approvals[a].reviewed
        /\ approvals[a].decidedBy # None => approvals'[a].decidedBy # None
  <2> SUFFICES ASSUME a # None
               PROVE  /\ approvals'[a].status # "none"
                      /\ approvals'[a].reviewed = approvals[a].reviewed
                      /\ approvals[a].decidedBy # None => approvals'[a].decidedBy # None
    OBVIOUS
  <2>1. Onward(a) /\ approvals[a].status # "none"
    BY <1>1, <1>2 DEF Onwards, DraftCurrent
  <2>2. "none" \notin Later(approvals[a].status)
    BY <1>1 DEF IInv, TypeOK, ApprovalRow, Later
  <2> QED BY <2>1, <2>2 DEF Onward
<1> QED BY <1>2, <1>3 DEF DraftCurrent, ContentOf

\* A call in its turn keeps Current when its own claims hold and those of the draft
\* it has written.
LEMMA TurnCurrent ==
  ASSUME SingleProcess, IInv, Current, NEW r \in Request, Turn(r), Onwards,
         call'[r] = NoCall \/ CallCurrent(r)',
         NEW d, OtherDrafts(d), d \in Draft => DraftCurrent(d)'
  PROVE  Current'
<1>1. CallCurrent(r)'
  BY DEF CallCurrent, NoCall
<1>2. \A q \in Request : CallCurrent(q)'
  BY <1>1, Alone
<1>3. \A x \in Draft : DraftCurrent(x)'
  BY DraftRests DEF OtherDrafts
<1>4. \A a \in Approval : Undecided(a)'
  BY DEF Onwards, Onward
<1> QED BY <1>2, <1>3, <1>4, Alone DEF Current

\* In particular when it writes no draft.
LEMMA ReadCurrent ==
  ASSUME SingleProcess, IInv, Current, NEW r \in Request, Turn(r), Onwards, UNCHANGED drafts,
         call'[r] = NoCall \/ CallCurrent(r)'
  PROVE  Current'
<1>1. CallCurrent(r)'
  BY DEF CallCurrent, NoCall
<1>2. \A q \in Request : CallCurrent(q)'
  BY <1>1, Alone
<1>3. \A x \in Draft : DraftCurrent(x)'
  BY DraftRests
<1>4. \A a \in Approval : Undecided(a)'
  BY DEF Onwards, Onward
<1> QED BY <1>2, <1>3, <1>4, Alone DEF Current

\* createDraft and the edits keep it.
LEMMA EditCurrent ==
  ASSUME SingleProcess, IInv, Current, NEW r \in Request,
         \/ \E d \in Draft, actor \in Actor, author \in Actor, text \in Text, evidence \in Evidence :
              CreateDraft(r, d, actor, author, text, evidence)
         \/ \E d \in Draft, actor \in Actor, text \in Text, evidence \in Evidence :
              BeginUpdate(r, d, actor, text, evidence)
         \/ CommitUpdate(r) \/ RecordContribution(r)
  PROVE  Current'
<1>1. ASSUME NEW d \in Draft, NEW actor \in Actor, NEW author \in Actor, NEW text \in Text,
             NEW evidence \in Evidence, CreateDraft(r, d, actor, author, text, evidence)
      PROVE  Current'
  <2>1. Turn(r) /\ OtherDrafts(d) /\ Onwards
    BY <1>1, CreateDraftEffect, ApprovalsRest
  <2>2. DraftCurrent(d)'
    BY <1>1, CreateDraftEffect DEF DraftCurrent
  <2>3. CallCurrent(r)'
    BY <1>1, CreateDraftEffect DEF CallCurrent
  <2> QED BY <2>1, <2>2, <2>3, TurnCurrent
<1>2. ASSUME NEW d \in Draft, NEW actor \in Actor, NEW text \in Text, NEW evidence \in Evidence,
             BeginUpdate(r, d, actor, text, evidence)
      PROVE  Current'
  <2>1. Turn(r) /\ UNCHANGED drafts /\ Onwards
    BY <1>2, BeginUpdateEffect, ApprovalsRest
  <2>2. CallCurrent(r)'
    BY <1>2, BeginUpdateEffect DEF CallCurrent, Editable, Exists
  <2> QED BY <2>1, <2>2, ReadCurrent
<1>3. CASE CommitUpdate(r)
  <2>1. PICK d : d = call[r].draft
    OBVIOUS
  <2>2. Turn(r) /\ OtherDrafts(d) /\ Onwards
    BY <1>3, <2>1, CommitUpdateEffect, ApprovalsRest
  <2>3. DraftCurrent(d)'
    BY <1>3, <2>1, CommitUpdateEffect DEF DraftCurrent
  <2>4. CallCurrent(r)'
    BY <1>3, <2>1, CommitUpdateEffect DEF CallCurrent, Moved
  <2> QED BY <2>2, <2>3, <2>4, TurnCurrent
<1>4. CASE RecordContribution(r)
  BY <1>4, RecordContributionEffect, ApprovalsRest, ReadCurrent
<1> QED BY <1>1, <1>2, <1>3, <1>4

\* verify keeps it.
LEMMA VerifyCurrent ==
  ASSUME SingleProcess, IInv, Current, NEW r \in Request,
         (\E d \in Draft : BeginVerify(r, d)) \/ CommitVerify(r)
  PROVE  Current'
<1>1. ASSUME NEW d \in Draft, BeginVerify(r, d) PROVE Current'
  <2>1. Turn(r) /\ UNCHANGED drafts /\ Onwards
    BY <1>1, BeginVerifyEffect, ApprovalsRest
  <2>2. CallCurrent(r)'
    BY <1>1, BeginVerifyEffect DEF CallCurrent, Editable, Exists
  <2> QED BY <2>1, <2>2, ReadCurrent
<1>2. CASE CommitVerify(r)
  <2>1. PICK d : d = call[r].draft
    OBVIOUS
  <2>2. Turn(r) /\ OtherDrafts(d) /\ Onwards /\ call'[r] = NoCall
    BY <1>2, <2>1, CommitVerifyEffect, ApprovalsRest
  <2>3. DraftCurrent(d)'
    BY <1>2, <2>1, CommitVerifyEffect DEF DraftCurrent
  <2> QED BY <2>2, <2>3, TurnCurrent
<1> QED BY <1>1, <1>2

\* gate keeps it.
LEMMA GateCurrent ==
  ASSUME SingleProcess, IInv, Current, NEW r \in Request,
         \/ \E d \in Draft, actor \in Actor, a \in Approval \cup {None} : BeginGate(r, d, actor, a)
         \/ RequestApproval(r) \/ CommitGate(r)
  PROVE  Current'
<1>1. ASSUME NEW d \in Draft, NEW actor \in Actor, NEW a \in Approval \cup {None},
             BeginGate(r, d, actor, a)
      PROVE  Current'
  <2>1. Turn(r) /\ UNCHANGED drafts /\ Onwards
    BY <1>1, BeginGateEffect, ApprovalsRest
  <2>2. CallCurrent(r)'
    BY <1>1, BeginGateEffect DEF CallCurrent, ContentOf
  <2> QED BY <2>1, <2>2, ReadCurrent
<1>2. CASE RequestApproval(r)
  <2>1. PICK a : a = call[r].row.approval
    OBVIOUS
  <2>2. Turn(r) /\ UNCHANGED drafts /\ Onwards
    BY <1>2, <2>1, RequestApprovalEffect
  <2>3. CallCurrent(r)'
    <3>1. CallCurrent(r) /\ call[r].step = "request"
      BY <1>2, <2>1, RequestApprovalEffect DEF Current
    <3>2. Moved(r, "gate") /\ UNCHANGED drafts
      BY <1>2, <2>1, RequestApprovalEffect
    <3>3. approvals'[a].status = "pending" /\ approvals'[a].reviewed = ContentOf(call[r].row)
      BY <1>2, <2>1, RequestApprovalEffect
    <3> QED BY <2>1, <3>1, <3>2, <3>3 DEF CallCurrent, Moved, ContentOf
  <2> QED BY <2>2, <2>3, ReadCurrent
<1>3. CASE CommitGate(r)
  <2>1. PICK d : d = call[r].draft
    OBVIOUS
  <2>2. Turn(r) /\ OtherDrafts(d) /\ Onwards /\ call'[r] = NoCall /\ d \in Draft
    BY <1>3, <2>1, CommitGateEffect, ApprovalsRest
  <2>3. DraftCurrent(d)'
    <3>1. DraftCurrent(d) /\ CallCurrent(r)
      BY <2>2 DEF Current
    <3>2. ContentOf(drafts'[d]) = ContentOf(drafts[d]) /\ drafts'[d].text = drafts[d].text
      BY <1>3, <2>1, CommitGateEffect DEF ContentOf
    <3>3. drafts'[d].status = "approved" /\ drafts'[d].approval = None =>
            Effect[<<drafts'[d].text, ContentOf(drafts'[d])>>] = "allow"
      <4> DEFINE effect == Effect[<<drafts[d].text, ContentOf(drafts[d])>>]
      <4>1. drafts[d].text \in Text /\ drafts[d].evidence \in Evidence
        BY <1>3, <2>1, <2>2, CommitGateEffect DEF IInv, DraftsComplete, Exists
      <4>2. effect \in {"allow", "require_approval", "deny"}
        BY <4>1, EffectAssumption DEF Report, ContentOf
      <4>3. /\ drafts'[d].status = GateStatus(effect)
            /\ drafts'[d].approval = None <=> effect # "require_approval"
        BY <1>3, <2>1, <3>1, CommitGateEffect DEF CallCurrent, ContentOf
      <4> HIDE DEF effect
      <4>4. drafts'[d].status = "approved" /\ drafts'[d].approval = None => effect = "allow"
        BY <4>2, <4>3 DEF GateStatus
      <4> QED BY <3>2, <4>4 DEF effect
    <3>4. drafts'[d].approval # None =>
            /\ approvals'[drafts'[d].approval].status = "pending"
            /\ approvals'[drafts'[d].approval].reviewed = ContentOf(drafts'[d])
            /\ drafts'[d].status # "approved"
      BY <1>3, <2>1, <3>1, <3>2, CommitGateEffect DEF CallCurrent, GateStatus, ContentOf
    <3>5. drafts'[d].report = drafts[d].report
      BY <1>3, <2>1, CommitGateEffect
    <3> QED BY <3>1, <3>2, <3>3, <3>4, <3>5 DEF DraftCurrent
  <2> QED BY <2>2, <2>3, TurnCurrent
<1> QED BY <1>1, <1>2, <1>3

\* decide keeps it.
LEMMA DecideCurrent ==
  ASSUME SingleProcess, IInv, Current, NEW r \in Request,
         \/ \E d \in Draft, actor \in Actor, verdict \in {"approved", "rejected"} :
              BeginDecide(r, d, actor, verdict)
         \/ ReadForDecision(r)
         \/ \E verdict \in {"approved", "rejected"} : CommitDecision(r, verdict)
         \/ WriteDecision(r)
  PROVE  Current'
<1>1. ASSUME NEW d \in Draft, NEW actor \in Actor, NEW verdict \in {"approved", "rejected"},
             BeginDecide(r, d, actor, verdict)
      PROVE  Current'
  <2>1. Turn(r) /\ UNCHANGED drafts /\ Onwards
    BY <1>1, BeginDecideEffect, ApprovalsRest
  <2>2. CallCurrent(r)'
    BY <1>1, BeginDecideEffect DEF CallCurrent
  <2> QED BY <2>1, <2>2, ReadCurrent
<1>2. CASE ReadForDecision(r)
  <2> DEFINE next == IF call[r].row.status = "approved" THEN "decide_approved"
                                                        ELSE "decide_rejected"
  <2>1. PICK a : a = call[r].row.approval
    OBVIOUS
  <2>2. /\ Turn(r) /\ call[r].step = "read_for_decision"
        /\ \/ Expires(approvals[a]) /\ Moved(r, "expire")
           \/ MayDecide(r, approvals[a]) /\ Moved(r, next)
           \/ call'[r] = NoCall
        /\ UNCHANGED <<drafts, approvals>>
    BY <1>2, <2>1, ReadApprovalEffect DEF ReadForDecision
  <2>3. CallCurrent(r)
    BY DEF Current
  <2>4. CASE Expires(approvals[a]) /\ Moved(r, "expire")
    <3>1. CallCurrent(r)'
      BY <2>1, <2>2, <2>3, <2>4 DEF CallCurrent, Moved, Expires
    <3> QED BY <2>2, <3>1, ApprovalsRest, ReadCurrent
  <2>5. CASE MayDecide(r, approvals[a]) /\ Moved(r, next)
    <3>1. CallCurrent(r)'
      BY <2>1, <2>2, <2>3, <2>5 DEF CallCurrent, Moved, MayDecide
    <3> QED BY <2>2, <3>1, ApprovalsRest, ReadCurrent
  <2>6. CASE call'[r] = NoCall
    BY <2>2, <2>6, ApprovalsRest, ReadCurrent
  <2> QED BY <2>2, <2>4, <2>5, <2>6
<1>3. ASSUME NEW verdict \in {"approved", "rejected"}, CommitDecision(r, verdict)
      PROVE  Current'
  <2>1. PICK a : a = call[r].row.approval
    OBVIOUS
  <2>2. Turn(r) /\ UNCHANGED drafts /\ Onwards
    BY <1>3, <2>1, CommitDecisionEffect
  <2>3. CallCurrent(r)'
    <3>1. CallCurrent(r) /\ Moved(r, "write_decision")
          /\ call[r].step \in {"decide_approved", "decide_rejected"}
      BY <1>3, <2>1, CommitDecisionEffect DEF Current
    <3>2. approvals'[a].status = call[r].row.status /\ approvals'[a].decidedBy = call[r].actor
      BY <1>3, <2>1, CommitDecisionEffect
    <3> QED BY <2>1, <2>2, <3>1, <3>2 DEF CallCurrent, Moved
  <2> QED BY <2>2, <2>3, ReadCurrent
<1>4. CASE WriteDecision(r)
  <2>1. PICK d : d = call[r].draft
    OBVIOUS
  <2>2. Turn(r) /\ OtherDrafts(d) /\ Onwards /\ call'[r] = NoCall /\ d \in Draft
    BY <1>4, <2>1, WriteDecisionEffect, ApprovalsRest
  <2>3. DraftCurrent(d)'
    <3>1. DraftCurrent(d) /\ CallCurrent(r) /\ call[r].step = "write_decision"
      BY <1>4, <2>1, <2>2, WriteDecisionEffect DEF Current
    <3>2. /\ ContentOf(drafts'[d]) = ContentOf(drafts[d]) /\ drafts'[d].text = drafts[d].text
          /\ drafts'[d].report = drafts[d].report /\ drafts'[d].approval = drafts[d].approval
      BY <1>4, <2>1, WriteDecisionEffect DEF ContentOf
    <3>3. call[r].actor # None
      BY <3>1, NoneAssumption DEF IInv, CallInv, CallComplete
    <3>4. /\ drafts[d].approval # None
          /\ approvals[drafts[d].approval].decidedBy # None
      BY <2>1, <3>1, <3>3 DEF CallCurrent
    <3>5. UNCHANGED approvals
      BY <1>4, <2>1, WriteDecisionEffect
    <3> QED BY <3>1, <3>2, <3>4, <3>5 DEF DraftCurrent
  <2> QED BY <2>2, <2>3, TurnCurrent
<1> QED BY <1>1, <1>2, <1>3, <1>4

\* publish keeps it up to the adapter call.
LEMMA SendCurrent ==
  ASSUME SingleProcess, IInv, Current, NEW r \in Request,
         \/ \E d \in Draft, p \in Publication : BeginPublish(r, d, p)
         \/ ReadForPublish(r) \/ InsertPublication(r)
  PROVE  Current'
<1>1. ASSUME NEW d \in Draft, NEW p \in Publication, BeginPublish(r, d, p)
      PROVE  Current'
  <2>1. Turn(r) /\ UNCHANGED drafts /\ Onwards
    BY <1>1, BeginPublishEffect, ApprovalsRest
  <2>2. CallCurrent(r)'
    BY <1>1, BeginPublishEffect DEF CallCurrent
  <2> QED BY <2>1, <2>2, ReadCurrent
<1>2. CASE ReadForPublish(r)
  <2>1. PICK a : a = call[r].row.approval
    OBVIOUS
  <2>2. /\ Turn(r) /\ call[r].step = "read_for_publish"
        /\ \/ Expires(approvals[a]) /\ Moved(r, "expire")
           \/ Valid(r, approvals[a]) /\ Moved(r, "insert")
           \/ call'[r] = NoCall
        /\ UNCHANGED <<drafts, approvals>>
    BY <1>2, <2>1, ReadApprovalEffect DEF ReadForPublish
  <2>3. CallCurrent(r)
    BY DEF Current
  <2>4. CASE Expires(approvals[a]) /\ Moved(r, "expire")
    <3>1. CallCurrent(r)'
      BY <2>1, <2>2, <2>3, <2>4 DEF CallCurrent, Moved, Expires
    <3> QED BY <2>2, <3>1, ApprovalsRest, ReadCurrent
  <2>5. CASE Valid(r, approvals[a]) /\ Moved(r, "insert")
    <3>1. CallCurrent(r)'
      BY <2>1, <2>2, <2>3, <2>5 DEF CallCurrent, Moved, Valid
    <3> QED BY <2>2, <3>1, ApprovalsRest, ReadCurrent
  <2>6. CASE call'[r] = NoCall
    BY <2>2, <2>6, ApprovalsRest, ReadCurrent
  <2> QED BY <2>2, <2>4, <2>5, <2>6
<1>3. CASE InsertPublication(r)
  <2>1. PICK p : p = call[r].publication
    OBVIOUS
  <2>2. Turn(r) /\ UNCHANGED drafts /\ Onwards /\ Moved(r, "sending")
    BY <1>3, <2>1, InsertPublicationEffect, ApprovalsRest
  <2>3. CallCurrent(r)'
    BY <2>2 DEF CallCurrent, Moved
  <2> QED BY <2>2, <2>3, ReadCurrent
<1> QED BY <1>1, <1>2, <1>3

\* publish keeps it while the adapter works: the call holds no claim on the rows.
LEMMA AwaitCurrent ==
  ASSUME SingleProcess, IInv, Current, NEW r \in Request,
         TargetAccepts(r) \/ ReceiveReceipt(r) \/ AdapterFails(r) \/ RecordFailure(r)
  PROVE  Current'
<1>1. CASE TargetAccepts(r)
  <2>1. /\ OthersWait(r) /\ call[r].step = "sending" /\ call'[r].step = "sent"
        /\ UNCHANGED <<drafts, approvals>>
    BY <1>1, TargetAcceptsEffect DEF Moved
  <2>2. OneBusy'
    BY <2>1 DEF Current, OneBusy, Busy, OthersWait, Parked
  <2>3. \A q \in Request : CallCurrent(q)'
    BY <2>1 DEF Current, CallCurrent, OthersWait, Editable, Exists
  <2>4. (\A d \in Draft : DraftCurrent(d)') /\ (\A a \in Approval : Undecided(a)')
    BY <2>1 DEF Current, DraftCurrent, Undecided
  <2> QED BY <2>2, <2>3, <2>4 DEF Current
<1>2. CASE ReceiveReceipt(r)
  <2>1. /\ Turn(r) /\ UNCHANGED drafts /\ Onwards
        /\ Moved(r, IF call[r].row.approval = None THEN "settle" ELSE "read_for_consume")
    BY <1>2, ReceiveReceiptEffect, ApprovalsRest
  <2>2. CallCurrent(r)'
    BY <2>1 DEF CallCurrent, Moved
  <2> QED BY <2>1, <2>2, ReadCurrent
<1>3. CASE AdapterFails(r)
  <2>1. Turn(r) /\ UNCHANGED drafts /\ Onwards /\ Moved(r, "failed")
    BY <1>3, AdapterFailsEffect, ApprovalsRest
  <2>2. CallCurrent(r)'
    BY <2>1 DEF CallCurrent, Moved
  <2> QED BY <2>1, <2>2, ReadCurrent
<1>4. CASE RecordFailure(r)
  <2>1. PICK p : p = call[r].publication
    OBVIOUS
  <2>2. Turn(r) /\ UNCHANGED drafts /\ Onwards /\ call'[r] = NoCall
    BY <1>4, <2>1, RecordFailureEffect, ApprovalsRest
  <2> QED BY <2>2, ReadCurrent
<1> QED BY <1>1, <1>2, <1>3, <1>4

\* publish keeps it to its end.
LEMMA SettleCurrent ==
  ASSUME SingleProcess, IInv, Current, NEW r \in Request,
         ReadForConsume(r) \/ Consume(r) \/ SettlePublication(r) \/ FinishPublish(r)
  PROVE  Current'
<1>1. CASE ReadForConsume(r)
  <2>1. PICK a : a = call[r].row.approval
    OBVIOUS
  <2>2. /\ Turn(r) /\ call[r].step = "read_for_consume"
        /\ \/ Expires(approvals[a]) /\ Moved(r, "expire")
           \/ Valid(r, approvals[a]) /\ Moved(r, "consume")
           \/ call'[r] = NoCall
        /\ UNCHANGED <<drafts, approvals>>
    BY <1>1, <2>1, ReadApprovalEffect DEF ReadForConsume
  <2>3. CallCurrent(r)
    BY DEF Current
  <2>4. CASE Expires(approvals[a]) /\ Moved(r, "expire")
    <3>1. CallCurrent(r)'
      BY <2>1, <2>2, <2>3, <2>4 DEF CallCurrent, Moved, Expires
    <3> QED BY <2>2, <3>1, ApprovalsRest, ReadCurrent
  <2>5. CASE Valid(r, approvals[a]) /\ Moved(r, "consume")
    <3>1. CallCurrent(r)'
      BY <2>1, <2>2, <2>3, <2>5 DEF CallCurrent, Moved, Valid
    <3> QED BY <2>2, <3>1, ApprovalsRest, ReadCurrent
  <2>6. CASE call'[r] = NoCall
    BY <2>2, <2>6, ApprovalsRest, ReadCurrent
  <2> QED BY <2>2, <2>4, <2>5, <2>6
<1>2. CASE Consume(r)
  <2>1. PICK a : a = call[r].row.approval
    OBVIOUS
  <2>2. /\ Turn(r) /\ UNCHANGED drafts /\ Onwards /\ Moved(r, "settle")
        /\ approvals'[a].status = "consumed"
    BY <1>2, <2>1, ConsumeEffect
  <2>3. CallCurrent(r)'
    BY <2>1, <2>2 DEF CallCurrent, Moved
  <2> QED BY <2>2, <2>3, ReadCurrent
<1>3. CASE SettlePublication(r)
  <2>1. PICK p : p = call[r].publication
    OBVIOUS
  <2>2. Turn(r) /\ UNCHANGED drafts /\ Onwards /\ Moved(r, "finish")
    BY <1>3, <2>1, SettlePublicationEffect, ApprovalsRest
  <2>3. CallCurrent(r)'
    BY <2>2 DEF CallCurrent, Moved
  <2> QED BY <2>2, <2>3, ReadCurrent
<1>4. CASE FinishPublish(r)
  <2>1. PICK d : d = call[r].draft
    OBVIOUS
  <2>2. /\ Turn(r) /\ OtherDrafts(d) /\ Onwards /\ call'[r] = NoCall /\ d \in Draft
        /\ UNCHANGED approvals
    BY <1>4, <2>1, FinishPublishEffect, ApprovalsRest
  <2>3. CASE drafts'[d] = drafts[d]
    <3>1. DraftCurrent(d)'
      BY <2>2, <2>3, DraftRests
    <3> QED BY <2>2, <3>1, TurnCurrent
  <2>4. CASE drafts'[d] # drafts[d]
    <3>1. /\ drafts'[d].status = "published" /\ drafts'[d].approval = drafts[d].approval
          /\ drafts'[d].text = drafts[d].text /\ drafts'[d].evidence = drafts[d].evidence
          /\ drafts'[d].report = drafts[d].report
      BY <1>4, <2>1, <2>4, FinishPublishEffect
    <3>2. DraftCurrent(d)
      BY <2>2 DEF Current
    <3>3. DraftCurrent(d)'
      BY <2>2, <3>1, <3>2 DEF DraftCurrent, ContentOf
    <3> QED BY <2>2, <3>3, TurnCurrent
  <2> QED BY <2>3, <2>4
<1> QED BY <1>1, <1>2, <1>3, <1>4

\* Time and retention keep it: nobody is inside a synchronous section when rows are
\* removed, and a stale approval is as good as a fresh one until it is read.
LEMMA TimeCurrent ==
  ASSUME SingleProcess, IInv, Current,
         \/ \E a \in Approval : Age(a)
         \/ \E r \in Request, outdated \in SUBSET Draft : ApplyRetention(r, outdated)
  PROVE  Current'
<1>1. ASSUME NEW a \in Approval, Age(a) PROVE Current'
  <2>1. /\ Onwards /\ UNCHANGED <<drafts, call>>
        /\ \A b \in Approval : /\ approvals'[b].status = approvals[b].status
                               /\ approvals'[b].reviewed = approvals[b].reviewed
                               /\ approvals'[b].decidedBy = approvals[b].decidedBy
    BY <1>1, AgeEffect
  <2>2. \A d \in Draft : DraftCurrent(d)'
    BY <2>1, DraftRests
  <2>3. ASSUME NEW q \in Request PROVE CallCurrent(q)'
    <3>1. call[q].row.approval \in Approval \cup {None}
      BY DEF IInv, TypeOK, CallRow, DraftRow
    <3>2. CallCurrent(q)
      BY DEF Current
    <3>3. call[q].row.approval # None =>
            /\ approvals'[call[q].row.approval].status = approvals[call[q].row.approval].status
            /\ approvals'[call[q].row.approval].reviewed = approvals[call[q].row.approval].reviewed
            /\ approvals'[call[q].row.approval].decidedBy = approvals[call[q].row.approval].decidedBy
      BY <2>1, <3>1
    <3> QED BY <2>1, <3>2, <3>3 DEF CallCurrent, Editable, Exists
  <2>4. OneBusy'
    BY <2>1 DEF Current, OneBusy, Busy
  <2>5. \A b \in Approval : Undecided(b)'
    BY <2>1 DEF Onwards, Onward
  <2> QED BY <2>2, <2>3, <2>4, <2>5 DEF Current
<1>2. ASSUME NEW r \in Request, NEW outdated \in SUBSET Draft, ApplyRetention(r, outdated)
      PROVE  Current'
  <2>1. At(r, "idle") /\ Onwards /\ UNCHANGED call
    BY <1>2, ApplyRetentionEffect
  <2>2. ASSUME NEW d \in Draft PROVE DraftCurrent(d)'
    <3>1. CASE drafts'[d] = drafts[d]
      BY <2>1, <3>1, DraftRests
    <3>2. CASE drafts'[d] # drafts[d]
      <4>1. drafts'[d].status = "deleted" /\ drafts'[d].report = None /\ drafts'[d].approval = None
        BY <1>2, <3>2, ApplyRetentionEffect
      <4> QED BY <4>1 DEF DraftCurrent
    <3> QED BY <3>1, <3>2
  <2>3. \A q \in Request : call[q].step \in Parked
    BY <2>1 DEF At, CanRun, SingleProcess, Parked
  <2>4. \A q \in Request : CallCurrent(q)'
    BY <2>1, <2>3 DEF CallCurrent, Parked
  <2>5. OneBusy'
    BY <2>1 DEF Current, OneBusy, Busy
  <2>6. \A b \in Approval : Undecided(b)'
    BY <2>1 DEF Onwards, Onward
  <2> QED BY <2>2, <2>4, <2>5, <2>6 DEF Current
<1> QED BY <1>1, <1>2

\* A call cut short keeps it.
LEMMA AbortCurrent ==
  ASSUME IInv, Current, NEW r \in Request, Abort(r)
  PROVE  Current'
<1>1. OthersWait(r) /\ call'[r] = NoCall /\ UNCHANGED <<drafts, approvals>>
  BY AbortEffect
<1>2. OneBusy'
  BY <1>1 DEF Current, OneBusy, Busy, OthersWait, Parked, NoCall
<1>3. CallCurrent(r)'
  BY <1>1 DEF CallCurrent, NoCall
<1>4. ASSUME NEW q \in Request, q # r PROVE CallCurrent(q)'
  BY <1>1, <1>4 DEF Current, CallCurrent, OthersWait, Editable, Exists
<1>5. (\A d \in Draft : DraftCurrent(d)') /\ (\A a \in Approval : Undecided(a)')
  BY <1>1 DEF Current, DraftCurrent, Undecided
<1> QED BY <1>2, <1>3, <1>4, <1>5 DEF Current

\* Every step of one process keeps it.
LEMMA NextCurrent == SingleProcess /\ IInv /\ Current /\ [Next]_vars => Current'
<1> SUFFICES ASSUME SingleProcess, IInv, Current, [Next]_vars PROVE Current'
  OBVIOUS
<1>1. ASSUME NEW r \in Request, Start(r) PROVE Current'
  BY <1>1, EditCurrent, VerifyCurrent, GateCurrent, DecideCurrent, SendCurrent, TimeCurrent
     DEF Start
<1>2. ASSUME NEW r \in Request, Continue(r) PROVE Current'
  BY <1>2, EditCurrent, VerifyCurrent, GateCurrent, DecideCurrent, SendCurrent, AwaitCurrent,
     SettleCurrent, ExpireEffect, ReadCurrent DEF Continue
<1>3. CASE UNCHANGED vars
  BY <1>3 DEF vars, Current, OneBusy, Busy, DraftCurrent, Undecided, CallCurrent, Editable,
              Exists
<1> QED BY <1>1, <1>2, <1>3, TimeCurrent, AbortCurrent DEF Next, NextNoAbort

\* The empty database satisfies it.
LEMMA InitCurrent == Init => Current
BY DEF Init, Current, OneBusy, Busy, Parked, DraftCurrent, Undecided, CallCurrent, NoCall,
       NoDraft, NoApproval

\* In one process it holds in every state.
LEMMA AlwaysCurrent == SingleProcess => (Spec => [](IInv /\ Current))
<1> SUFFICES ASSUME SingleProcess PROVE Spec => [](IInv /\ Current)
  OBVIOUS
<1>1. IInv /\ Current /\ [Next]_vars => IInv' /\ Current'
  BY NextInv, NextCurrent
<1>2. Init => IInv /\ Current
  BY InitInv, InitCurrent
<1> QED BY <1>1, <1>2, PTL DEF Spec

-----------------------------------------------------------------------------
(* What no step does *)

Immutable == \A d \in Draft : drafts[d].status = "published" => drafts'[d] = drafts[d]

\* No first step of a call takes an approval back or touches a published draft.
LEMMA StartOnward ==
  ASSUME IInv, Current, NEW r \in Request, Start(r)
  PROVE  Onwards /\ Immutable
<1>1. ASSUME NEW d \in Draft, NEW actor \in Actor, NEW author \in Actor, NEW text \in Text,
             NEW evidence \in Evidence, CreateDraft(r, d, actor, author, text, evidence)
      PROVE  Onwards /\ Immutable
  BY <1>1, CreateDraftEffect, ApprovalsRest DEF Immutable, OtherDrafts
<1>2. ASSUME NEW outdated \in SUBSET Draft, ApplyRetention(r, outdated)
      PROVE  Onwards /\ Immutable
  BY <1>2, ApplyRetentionEffect DEF Immutable
<1>3. CASE UNCHANGED <<drafts, approvals>>
  BY <1>3, ApprovalsRest DEF Immutable
<1>4. ASSUME NEW d \in Draft
      PROVE  /\ BeginVerify(r, d) => UNCHANGED <<drafts, approvals>>
             /\ \A p \in Publication : BeginPublish(r, d, p) => UNCHANGED <<drafts, approvals>>
             /\ \A actor \in Actor :
                  /\ \A text \in Text, evidence \in Evidence :
                       BeginUpdate(r, d, actor, text, evidence) => UNCHANGED <<drafts, approvals>>
                  /\ \A a \in Approval \cup {None} :
                       BeginGate(r, d, actor, a) => UNCHANGED <<drafts, approvals>>
                  /\ \A verdict \in {"approved", "rejected"} :
                       BeginDecide(r, d, actor, verdict) => UNCHANGED <<drafts, approvals>>
  BY BeginVerifyEffect, BeginPublishEffect, BeginUpdateEffect, BeginGateEffect, BeginDecideEffect
<1> QED BY <1>1, <1>2, <1>3, <1>4 DEF Start

\* Nor does any later one.
LEMMA ContinueOnward ==
  ASSUME IInv, Current, NEW r \in Request, Continue(r)
  PROVE  Onwards /\ Immutable
<1>1. PICK d : d = call[r].draft
  OBVIOUS
<1>2. PICK a : a = call[r].row.approval
  OBVIOUS
<1>3. PICK p : p = call[r].publication
  OBVIOUS
<1>4. CASE Onwards /\ UNCHANGED drafts
  BY <1>4 DEF Immutable
<1>5. CASE Onwards /\ OtherDrafts(d) /\ (d \in Draft => drafts[d].status # "published")
  BY <1>5 DEF Immutable, OtherDrafts
<1>6. CASE CommitUpdate(r) \/ CommitVerify(r)
  BY <1>1, <1>5, <1>6, CommitUpdateEffect, CommitVerifyEffect, ApprovalsRest DEF Editable
<1>7. CASE CommitGate(r) \/ WriteDecision(r)
  BY <1>1, <1>5, <1>7, CommitGateEffect, WriteDecisionEffect, ApprovalsRest
<1>8. CASE FinishPublish(r)
  BY <1>1, <1>8, FinishPublishEffect, ApprovalsRest DEF Immutable, OtherDrafts
<1>9. CASE RequestApproval(r) \/ Expire(r) \/ Consume(r)
  BY <1>2, <1>4, <1>9, RequestApprovalEffect, ExpireEffect, ConsumeEffect
<1>10. ASSUME NEW verdict \in {"approved", "rejected"}, CommitDecision(r, verdict)
       PROVE  Onwards /\ Immutable
  BY <1>2, <1>4, <1>10, CommitDecisionEffect
<1>11. CASE RecordContribution(r) \/ InsertPublication(r) \/ RecordFailure(r) \/ SettlePublication(r)
  BY <1>1, <1>3, <1>4, <1>11, RecordContributionEffect, InsertPublicationEffect,
     RecordFailureEffect, SettlePublicationEffect, ApprovalsRest
<1>12. CASE TargetAccepts(r) \/ ReceiveReceipt(r) \/ AdapterFails(r)
  BY <1>4, <1>12, TargetAcceptsEffect, ReceiveReceiptEffect, AdapterFailsEffect, ApprovalsRest
<1>13. CASE ReadForDecision(r) \/ ReadForPublish(r) \/ ReadForConsume(r)
  BY <1>4, <1>13, ApprovalsRest DEF ReadForDecision, ReadForPublish, ReadForConsume, ReadApproval
<1> QED BY <1>6, <1>7, <1>8, <1>9, <1>10, <1>11, <1>12, <1>13 DEF Continue

\* Nor does any step.
LEMMA NextOnward == IInv /\ Current /\ [Next]_vars => Onwards /\ Immutable
<1> SUFFICES ASSUME IInv, Current, [Next]_vars PROVE Onwards /\ Immutable
  OBVIOUS
<1>1. CASE UNCHANGED <<drafts, approvals>>
  BY <1>1, ApprovalsRest DEF Immutable
<1>2. ASSUME NEW a \in Approval, Age(a) PROVE Onwards /\ Immutable
  BY <1>2, AgeEffect DEF Immutable
<1>3. ASSUME NEW r \in Request, Abort(r) PROVE Onwards /\ Immutable
  BY <1>1, <1>3, AbortEffect
<1> QED BY <1>1, <1>2, <1>3, StartOnward, ContinueOnward DEF Next, NextNoAbort, vars

\* In one process an approval is decided once, spent or expired once, and then only
\* removed: a decision never revives one that was rejected, spent or expired, however
\* calls overlap and wherever they stop (approvals.ts decide and consume).
THEOREM LifecycleOfApprovals == SingleProcess => (Spec => ApprovalLifecycle)
<1> SUFFICES ASSUME SingleProcess PROVE Spec => ApprovalLifecycle
  OBVIOUS
<1>1. IInv /\ Current /\ [Next]_vars =>
        [\A a \in Approval : approvals'[a].status # approvals[a].status =>
           approvals'[a].status \in Later(approvals[a].status)]_approvals
  BY NextOnward DEF Onwards, Onward
<1>2. Spec => [](IInv /\ Current)
  BY AlwaysCurrent
<1> QED BY <1>1, <1>2, PTL DEF Spec, ApprovalLifecycle

\* In one process nothing changes a published draft: not an edit, a verification or a
\* decision that began before it was published (pipeline.ts updateDraft, verify, decide).
THEOREM PublishedStaysPublished == SingleProcess => (Spec => PublishedImmutable)
<1> SUFFICES ASSUME SingleProcess PROVE Spec => PublishedImmutable
  OBVIOUS
<1>1. IInv /\ Current /\ [Next]_vars =>
        [\A d \in Draft : drafts[d].status = "published" => drafts'[d] = drafts[d]]_drafts
  BY NextOnward DEF Immutable
<1>2. Spec => [](IInv /\ Current)
  BY AlwaysCurrent
<1> QED BY <1>1, <1>2, PTL DEF Spec, PublishedImmutable

-----------------------------------------------------------------------------
(* Published is kept *)

\* The columns of a delivered artefact are ids, and the approval it was sent on, if
\* any, has been decided.
LEMMA DeliveredRows ==
  ASSUME IInv, NEW x \in delivered
  PROVE  /\ x.publication \in Publication /\ x.approval \in Approval \cup {None}
         /\ x.approval # None =>
              /\ approvals[x.approval].decidedBy # None
              /\ approvals[x.approval].status # "none"
BY DEF IInv, TypeOK, Artefact, DeliveredUnderItsApproval, ApprovalsDecided

\* A call past its check holds the id of a publication, and the approval it relies on,
\* if any, has been decided.
LEMMA CoveredRows ==
  ASSUME IInv, NEW q \in Request, call[q].step \in {"insert", "sending"},
         call[q].row.approval # None
  PROVE  /\ call[q].row.approval \in Approval
         /\ approvals[call[q].row.approval].decidedBy # None
         /\ approvals[call[q].row.approval].status # "none"
<1>1. call[q].row.approval \in Approval
  BY DEF IInv, TypeOK, CallRow, DraftRow
<1>2. approvals[call[q].row.approval].decidedBy # None
  BY DEF IInv, CallInv, CallCovered, Covers
<1> QED BY <1>1, <1>2 DEF IInv, ApprovalsDecided

\* Used up is used up.
LEMMA SpentStays ==
  ASSUME IInv, Onwards, NEW a \in Approval, approvals[a].status \in {"consumed", "deleted"}
  PROVE  approvals'[a].status \in {"consumed", "deleted"}
BY DEF Onwards, Onward, Later

\* What holds of deliveries and of a waiting call while approvals go on.
LEMMA DeliveriesRest ==
  ASSUME IInv, Published, Onwards, UNCHANGED <<publications, delivered>>
  PROVE  /\ Settled' /\ DeliveredAsCleared' /\ OnePublicationPerApproval'
         /\ \A x \in delivered' : publications'[x.publication].status # "none"
         /\ \A x, y \in delivered' : x.publication = y.publication => x = y
         /\ \A q \in Request : call'[q] = call[q] => CallPublishes(q)'
<1>1. Settled'
  BY DeliveredRows, SpentStays DEF Published, Settled
<1>2. DeliveredAsCleared'
  BY DeliveredRows DEF Published, DeliveredAsCleared, Onwards, Onward
<1>3. ASSUME NEW q \in Request, call'[q] = call[q] PROVE CallPublishes(q)'
  <2>1. CallPublishes(q)
    BY DEF Published
  <2>2. call[q].step = "sending" /\ call[q].row.approval # None =>
          approvals'[call[q].row.approval].reviewed = approvals[call[q].row.approval].reviewed
    BY CoveredRows DEF Onwards, Onward
  <2> QED BY <1>3, <2>1, <2>2 DEF CallPublishes, ContentOf
<1> QED BY <1>1, <1>2, <1>3 DEF Published, SentOnce, OnePublicationPerApproval

\* A step that settles nothing and delivers nothing keeps Published when its own call
\* keeps its publication or drops it.
LEMMA PublishedRests ==
  ASSUME IInv, Published, Onwards, UNCHANGED <<publications, delivered>>,
         NEW r \in Request, OthersWait(r),
         call'[r] = NoCall \/ call'[r].publication = None
           \/ call'[r].publication = call[r].publication,
         call'[r] = NoCall \/ CallPublishes(r)'
  PROVE  Published'
<1>1. CallPublishes(r)'
  BY DEF CallPublishes, NoCall
<1>2. \A q \in Request : CallPublishes(q)'
  BY <1>1, DeliveriesRest DEF OthersWait
<1>3. \A q, s \in Request : q # s /\ call'[q].publication # None =>
        call'[q].publication # call'[s].publication
  BY DEF Published, SentOnce, OthersWait, NoCall
<1> QED BY <1>2, <1>3, DeliveriesRest DEF Published, SentOnce

\* Nothing that happens outside publish concerns it.
LEMMA ElsewherePublished ==
  ASSUME IInv, Published, Onwards, UNCHANGED <<publications, delivered>>,
         NEW r \in Request, OthersWait(r),
         \/ call'[r] = NoCall
         \/ /\ call'[r].publication \in {None, call[r].publication}
            /\ call'[r].step \in {"idle", "record", "update", "verify", "request", "gate",
                                  "read_for_decision", "decide_approved", "decide_rejected",
                                  "write_decision", "expire", "failed", "finish"}
  PROVE  Published'
<1>1. call'[r] = NoCall \/ CallPublishes(r)'
  BY DEF CallPublishes
<1> QED BY <1>1, PublishedRests

\* A publication starts under an id that no call and no artefact has.
LEMMA BeginPublishPublished ==
  ASSUME IInv, Current, Published, NEW r \in Request, NEW d \in Draft, NEW p \in Publication,
         BeginPublish(r, d, p)
  PROVE  Published'
<1>1. /\ Turn(r) /\ FreshPublication(p) /\ call'[r].publication = p
      /\ call'[r].step \in {"insert", "read_for_publish"}
      /\ UNCHANGED <<approvals, publications, delivered>>
  BY BeginPublishEffect
<1>2. Onwards
  BY <1>1, ApprovalsRest
<1>3. CallPublishes(r)'
  BY <1>1 DEF CallPublishes, FreshPublication
<1>4. \A q \in Request : CallPublishes(q)'
  BY <1>1, <1>2, <1>3, DeliveriesRest DEF OthersWait, Turn
<1>5. \A q, s \in Request : q # s /\ call'[q].publication # None =>
        call'[q].publication # call'[s].publication
  BY <1>1 DEF Published, SentOnce, OthersWait, Turn, FreshPublication
<1> QED BY <1>1, <1>2, <1>4, <1>5, DeliveriesRest DEF Published, SentOnce

\* A read of an approval on the way to or from the adapter changes nothing of it.
LEMMA ReadPublished ==
  ASSUME IInv, Current, Published, NEW r \in Request,
         ReadForDecision(r) \/ ReadForPublish(r) \/ ReadForConsume(r)
  PROVE  Published'
<1>1. PICK a : a = call[r].row.approval
  OBVIOUS
<1>2. CallPublishes(r)
  BY DEF Published
<1>3. CASE ReadForDecision(r)
  <2>1. /\ Turn(r) /\ UNCHANGED <<approvals, publications, delivered>>
        /\ \/ Moved(r, "expire") \/ Moved(r, "decide_approved") \/ Moved(r, "decide_rejected")
           \/ call'[r] = NoCall
    BY <1>1, <1>3, ReadApprovalEffect DEF ReadForDecision
  <2> QED BY <2>1, ApprovalsRest, ElsewherePublished DEF Turn, Moved
<1>4. CASE ReadForPublish(r)
  <2>1. /\ Turn(r) /\ UNCHANGED <<approvals, publications, delivered>>
        /\ call[r].step = "read_for_publish"
        /\ Moved(r, "expire") \/ Moved(r, "insert") \/ call'[r] = NoCall
    BY <1>1, <1>4, ReadApprovalEffect DEF ReadForPublish
  <2>2. call'[r] = NoCall \/ CallPublishes(r)'
    BY <1>2, <2>1 DEF CallPublishes, Moved
  <2> QED BY <2>1, <2>2, ApprovalsRest, PublishedRests DEF Turn, Moved
<1>5. CASE ReadForConsume(r)
  <2>1. /\ Turn(r) /\ UNCHANGED <<approvals, publications, delivered>>
        /\ call[r].step = "read_for_consume"
        /\ Moved(r, "expire") \/ Moved(r, "consume") \/ call'[r] = NoCall
    BY <1>1, <1>5, ReadApprovalEffect DEF ReadForConsume
  <2>2. call'[r] = NoCall \/ CallPublishes(r)'
    BY <1>2, <2>1 DEF CallPublishes, Moved
  <2> QED BY <2>1, <2>2, ApprovalsRest, PublishedRests DEF Turn, Moved
<1> QED BY <1>3, <1>4, <1>5

\* What is handed to the adapter is cleared as it stands.
LEMMA InsertPublicationPublished ==
  ASSUME IInv, Current, Published, NEW r \in Request, InsertPublication(r)
  PROVE  Published'
<1>1. PICK p : p = call[r].publication
  OBVIOUS
<1>2. /\ Turn(r) /\ call[r].step = "insert" /\ Moved(r, "sending") /\ p \in Publication
      /\ publications[p].status = "none" /\ publications'[p].status = "pending"
      /\ \A o \in Publication : o # p => publications'[o] = publications[o]
      /\ UNCHANGED <<drafts, approvals, delivered>>
  BY <1>1, InsertPublicationEffect
<1>3. \A x \in delivered : x.publication # p /\ publications'[x.publication] = publications[x.publication]
  BY <1>2, DeliveredRows DEF Published, SentOnce
<1>4. p # None
  BY <1>2, NoneAssumption
<1>5. CallPublishes(r)'
  <2> DEFINE c == call[r]
             d == c.draft
             a == c.row.approval
  <2>1. /\ CallCurrent(r) /\ d \in Draft /\ DraftCurrent(d)
    BY <1>2 DEF Current, IInv, CallInv, CallComplete
  <2>2. /\ drafts[d].status = "approved" /\ drafts[d].approval = a
        /\ ContentOf(c.row) = ContentOf(drafts[d])
    BY <1>2, <2>1 DEF CallCurrent
  <2>3. IF a = None THEN Effect[<<c.row.text, ContentOf(c.row)>>] = "allow"
                    ELSE approvals[a].reviewed = ContentOf(c.row)
    BY <2>1, <2>2 DEF DraftCurrent, ContentOf
  <2>4. ContentOf(c.row) \in Text \X Evidence
    BY <2>1, <2>2 DEF IInv, DraftsComplete, Exists, ContentOf
  <2> QED BY <1>1, <1>2, <1>3, <2>3, <2>4 DEF CallPublishes, Moved, ContentOf
<1>6. ASSUME NEW q \in Request, q # r PROVE CallPublishes(q)'
  <2>1. CallPublishes(q) /\ call'[q] = call[q] /\ call[q].publication # p
    BY <1>1, <1>2, <1>4, <1>6 DEF Published, SentOnce, OthersWait, Turn
  <2>2. call[q].step \in {"read_for_publish", "insert", "sending", "sent", "read_for_consume",
                          "consume", "settle"} => call[q].publication \in Publication
    BY DEF IInv, CallInv, CallComplete
  <2> QED BY <1>2, <1>3, <2>1, <2>2 DEF CallPublishes, ContentOf
<1>7. SentOnce'
  BY <1>2, <1>3 DEF Published, SentOnce, OthersWait, Turn, Moved
<1>8. Settled' /\ DeliveredAsCleared' /\ OnePublicationPerApproval'
  BY <1>2, <1>3 DEF Published, Settled, DeliveredAsCleared, OnePublicationPerApproval, ContentOf
<1> QED BY <1>5, <1>6, <1>7, <1>8 DEF Published

\* What the target accepts is what the call was cleared for, under an id of its own.
LEMMA TargetAcceptsPublished ==
  ASSUME IInv, Current, Published, NEW r \in Request, TargetAccepts(r)
  PROVE  Published'
<1> DEFINE c == call[r]
<1>1. PICK new : /\ delivered' = delivered \cup {new}
                 /\ new.draft = c.draft /\ new.text = c.row.text
                 /\ new.evidence = c.row.evidence /\ new.approval = c.row.approval
                 /\ new.publication = c.publication
  BY TargetAcceptsEffect
<1>2. /\ OthersWait(r) /\ c.step = "sending" /\ Moved(r, "sent")
      /\ UNCHANGED <<drafts, approvals, publications>>
  BY TargetAcceptsEffect
<1>3. c.publication \in Publication /\ c.publication # None
  BY <1>2, NoneAssumption DEF IInv, CallInv, CallComplete
<1>4. /\ publications[c.publication].status = "pending"
      /\ \A x \in delivered : x.publication # c.publication
      /\ IF c.row.approval = None THEN Effect[<<c.row.text, ContentOf(c.row)>>] = "allow"
                                  ELSE approvals[c.row.approval].reviewed = ContentOf(c.row)
  BY <1>2 DEF Published, CallPublishes
<1>5. c.row.approval # None => approvals[c.row.approval].decidedBy # None
  BY <1>2, CoveredRows
<1>6. CallPublishes(r)'
  BY <1>1, <1>2, <1>4 DEF CallPublishes, Moved
<1>7. ASSUME NEW q \in Request, q # r PROVE CallPublishes(q)'
  <2>1. CallPublishes(q) /\ call'[q] = call[q] /\ call[q].publication # c.publication
    BY <1>2, <1>3, <1>7 DEF Published, SentOnce, OthersWait
  <2> QED BY <1>1, <1>2, <1>4, <2>1 DEF CallPublishes, ContentOf
<1>8. SentOnce'
  <2>1. \A x \in delivered' : publications'[x.publication].status # "none"
    BY <1>1, <1>2, <1>4 DEF Published, SentOnce
  <2>2. \A x, y \in delivered' : x.publication = y.publication => x = y
    BY <1>1, <1>4 DEF Published, SentOnce
  <2>3. \A q, s \in Request : q # s /\ call'[q].publication # None =>
          call'[q].publication # call'[s].publication
    BY <1>2 DEF Published, SentOnce, OthersWait, Moved
  <2> QED BY <2>1, <2>2, <2>3 DEF SentOnce
<1>9. Settled' /\ OnePublicationPerApproval'
  BY <1>1, <1>2, <1>4 DEF Published, Settled, OnePublicationPerApproval
<1>10. DeliveredAsCleared'
  <2>1. ContentOf(new) = ContentOf(c.row)
    BY <1>1 DEF ContentOf
  <2>2. \A x \in delivered' : x = new \/ x \in delivered
    BY <1>1
  <2>3. IF new.approval = None
        THEN Effect[<<new.text, ContentOf(new)>>] = "allow"
        ELSE /\ approvals[new.approval].reviewed = ContentOf(new)
             /\ approvals[new.approval].decidedBy # None
    BY <1>1, <1>4, <1>5, <2>1
  <2> QED BY <1>2, <2>2, <2>3 DEF Published, DeliveredAsCleared, ContentOf
<1> QED BY <1>6, <1>7, <1>8, <1>9, <1>10 DEF Published

\* The adapter's answer changes no row.
LEMMA AnswerPublished ==
  ASSUME IInv, Current, Published, NEW r \in Request, ReceiveReceipt(r) \/ AdapterFails(r)
  PROVE  Published'
<1>1. CallPublishes(r)
  BY DEF Published
<1>2. CASE ReceiveReceipt(r)
  <2>1. /\ Turn(r) /\ call[r].step = "sent"
        /\ Moved(r, IF call[r].row.approval = None THEN "settle" ELSE "read_for_consume")
        /\ UNCHANGED <<approvals, publications, delivered>>
    BY <1>2, ReceiveReceiptEffect
  <2>2. CallPublishes(r)'
    BY <1>1, <2>1 DEF CallPublishes, Moved
  <2> QED BY <2>1, <2>2, ApprovalsRest, PublishedRests DEF Turn, Moved
<1>3. CASE AdapterFails(r)
  <2>1. Turn(r) /\ Moved(r, "failed") /\ UNCHANGED <<approvals, publications, delivered>>
    BY <1>3, AdapterFailsEffect
  <2> QED BY <2>1, ApprovalsRest, ElsewherePublished DEF Turn, Moved
<1> QED BY <1>2, <1>3

\* consume spends an approval on which nothing has been published yet.
LEMMA ConsumePublished ==
  ASSUME IInv, Current, Published, NEW r \in Request, Consume(r)
  PROVE  Published'
<1>1. PICK a : a = call[r].row.approval
  OBVIOUS
<1>2. /\ Turn(r) /\ call[r].step = "consume" /\ Moved(r, "settle") /\ Onwards
      /\ a \in Approval /\ approvals[a].status = "approved"
      /\ UNCHANGED <<publications, delivered>>
  BY <1>1, ConsumeEffect
<1>3. \A x \in delivered : x.approval = a => publications[x.publication].status # "published"
  BY <1>2, NoneAssumption DEF Published, Settled
<1>4. CallPublishes(r)'
  BY <1>1, <1>2, <1>3 DEF Published, CallPublishes, Moved
<1> QED BY <1>2, <1>4, PublishedRests DEF Turn, Moved

\* What a call that writes its own publication keeps of the others.
LEMMA OwnPublication ==
  ASSUME IInv, Published, NEW r \in Request, Turn(r), SingleProcess,
         NEW p \in Publication, p = call[r].publication,
         \A o \in Publication : o # p => publications'[o] = publications[o],
         publications'[p].status # "none",
         UNCHANGED <<approvals, delivered>>,
         call'[r] = NoCall \/ call'[r].publication = p
  PROVE  /\ SentOnce' /\ DeliveredAsCleared'
         /\ \A q \in Request : q # r => CallPublishes(q)'
<1>1. p # None
  BY NoneAssumption
<1>2. SentOnce'
  BY <1>1, DeliveredRows DEF Published, SentOnce, OthersWait, Turn, NoCall
<1>3. DeliveredAsCleared'
  BY DEF Published, DeliveredAsCleared, ContentOf
<1>4. ASSUME NEW q \in Request, q # r PROVE CallPublishes(q)'
  <2>1. CallPublishes(q) /\ call'[q] = call[q] /\ call[q].publication # p
        /\ call[q].step \in Parked
    BY <1>1, <1>4, Alone DEF Published, SentOnce
  <2>2. call[q].step \in {"sending", "sent"} => call[q].publication \in Publication
    BY DEF IInv, CallInv, CallComplete
  <2> QED BY <2>1, <2>2 DEF CallPublishes, ContentOf, Parked
<1> QED BY <1>2, <1>3, <1>4

\* A failed publication is not a settled one.
LEMMA RecordFailurePublished ==
  ASSUME SingleProcess, IInv, Current, Published, NEW r \in Request, RecordFailure(r)
  PROVE  Published'
<1>1. PICK p : p = call[r].publication
  OBVIOUS
<1>2. /\ Turn(r) /\ call'[r] = NoCall /\ p \in Publication
      /\ publications'[p].status = "failed"
      /\ \A o \in Publication : o # p => publications'[o] = publications[o]
      /\ UNCHANGED <<approvals, delivered>>
  BY <1>1, RecordFailureEffect
<1>3. CallPublishes(r)'
  BY <1>2 DEF CallPublishes, NoCall
<1>4. \A x \in delivered : publications'[x.publication].status = "published" =>
        publications[x.publication].status = "published"
  BY <1>2, DeliveredRows
<1>5. Settled' /\ OnePublicationPerApproval'
  BY <1>2, <1>4 DEF Published, Settled, OnePublicationPerApproval
<1> QED BY <1>1, <1>2, <1>3, <1>5, OwnPublication DEF Published

\* The publication that is settled is the first on its approval, which is used up.
LEMMA SettlePublicationPublished ==
  ASSUME SingleProcess, IInv, Current, Published, NEW r \in Request, SettlePublication(r)
  PROVE  Published'
<1>1. PICK p : p = call[r].publication
  OBVIOUS
<1>2. /\ Turn(r) /\ call[r].step = "settle" /\ Moved(r, "finish") /\ p \in Publication
      /\ publications'[p].status = "published"
      /\ \A o \in Publication : o # p => publications'[o] = publications[o]
      /\ UNCHANGED <<approvals, delivered>>
  BY <1>1, SettlePublicationEffect
<1>3. PICK a : a = call[r].row.approval
  OBVIOUS
<1>4. /\ \A x \in delivered : x.publication = p => x.approval = a
      /\ a # None => \A x \in delivered :
                       x.approval = a => publications[x.publication].status # "published"
  BY <1>1, <1>2, <1>3 DEF Published, CallPublishes
<1>5. a # None => approvals[a].status = "consumed"
  BY <1>2, <1>3 DEF Current, CallCurrent
<1>6. \A x \in delivered : publications'[x.publication].status = "published" =>
        x.publication = p \/ publications[x.publication].status = "published"
  BY <1>2, DeliveredRows
<1>7. Settled'
  BY <1>2, <1>4, <1>5, <1>6 DEF Published, Settled
<1>8. OnePublicationPerApproval'
  BY <1>2, <1>4, <1>6 DEF Published, OnePublicationPerApproval
<1>9. CallPublishes(r)'
  BY <1>2 DEF CallPublishes, Moved
<1> QED BY <1>1, <1>2, <1>7, <1>8, <1>9, OwnPublication DEF Published, Moved

\* The first steps of a call keep it.
LEMMA StartPublished ==
  ASSUME SingleProcess, IInv, Current, Published, NEW r \in Request, Start(r)
  PROVE  Published'
<1>1. Onwards
  BY StartOnward
<1>2. ASSUME NEW d \in Draft
      PROVE  /\ BeginVerify(r, d) => Published'
             /\ \A actor \in Actor :
                  /\ \A text \in Text, evidence \in Evidence :
                       /\ \A author \in Actor :
                            CreateDraft(r, d, actor, author, text, evidence) => Published'
                       /\ BeginUpdate(r, d, actor, text, evidence) => Published'
                  /\ \A a \in Approval \cup {None} : BeginGate(r, d, actor, a) => Published'
                  /\ \A verdict \in {"approved", "rejected"} :
                       BeginDecide(r, d, actor, verdict) => Published'
  <2>1. BeginVerify(r, d) => Published'
    BY <1>1, BeginVerifyEffect, ElsewherePublished DEF Turn
  <2>2. ASSUME NEW actor \in Actor, NEW text \in Text, NEW evidence \in Evidence,
               NEW author \in Actor, CreateDraft(r, d, actor, author, text, evidence)
        PROVE  Published'
    BY <1>1, <2>2, CreateDraftEffect, ElsewherePublished DEF Turn
  <2>3. ASSUME NEW actor \in Actor, NEW text \in Text, NEW evidence \in Evidence,
               BeginUpdate(r, d, actor, text, evidence)
        PROVE  Published'
    BY <1>1, <2>3, BeginUpdateEffect, ElsewherePublished DEF Turn
  <2>4. ASSUME NEW actor \in Actor, NEW a \in Approval \cup {None}, BeginGate(r, d, actor, a)
        PROVE  Published'
    BY <1>1, <2>4, BeginGateEffect, ElsewherePublished DEF Turn
  <2>5. ASSUME NEW actor \in Actor, NEW verdict \in {"approved", "rejected"},
               BeginDecide(r, d, actor, verdict)
        PROVE  Published'
    BY <1>1, <2>5, BeginDecideEffect, ElsewherePublished DEF Turn
  <2> QED BY <2>1, <2>2, <2>3, <2>4, <2>5
<1>3. ASSUME NEW outdated \in SUBSET Draft, ApplyRetention(r, outdated) PROVE Published'
  <2>1. UNCHANGED <<publications, delivered, call>>
    BY <1>3, ApplyRetentionEffect
  <2> QED BY <1>1, <2>1, DeliveriesRest DEF Published, SentOnce
<1> QED BY <1>2, <1>3, BeginPublishPublished DEF Start

\* The later steps keep it.
LEMMA ContinuePublished ==
  ASSUME SingleProcess, IInv, Current, Published, NEW r \in Request, Continue(r)
  PROVE  Published'
<1>1. Onwards
  BY ContinueOnward
<1>2. PICK d : d = call[r].draft
  OBVIOUS
<1>3. PICK a : a = call[r].row.approval
  OBVIOUS
<1>4. CASE CommitUpdate(r)
  BY <1>1, <1>2, <1>4, CommitUpdateEffect, ElsewherePublished DEF Turn, Moved
<1>5. CASE RecordContribution(r) \/ CommitVerify(r) \/ CommitGate(r)
  BY <1>1, <1>2, <1>5, RecordContributionEffect, CommitVerifyEffect, CommitGateEffect,
     ElsewherePublished DEF Turn
<1>6. CASE WriteDecision(r) \/ FinishPublish(r)
  BY <1>1, <1>2, <1>6, WriteDecisionEffect, FinishPublishEffect, ElsewherePublished DEF Turn
<1>7. CASE RequestApproval(r)
  BY <1>1, <1>3, <1>7, RequestApprovalEffect, ElsewherePublished DEF Turn, Moved
<1>8. CASE Expire(r)
  BY <1>1, <1>3, <1>8, ExpireEffect, ElsewherePublished DEF Turn
<1>9. ASSUME NEW verdict \in {"approved", "rejected"}, CommitDecision(r, verdict)
      PROVE  Published'
  BY <1>1, <1>3, <1>9, CommitDecisionEffect, ElsewherePublished DEF Turn, Moved
<1> QED BY <1>4, <1>5, <1>6, <1>7, <1>8, <1>9, ReadPublished, InsertPublicationPublished,
           TargetAcceptsPublished, AnswerPublished, RecordFailurePublished, ConsumePublished,
           SettlePublicationPublished DEF Continue

\* Every step of one process keeps it.
LEMMA NextPublished ==
  SingleProcess /\ IInv /\ Current /\ Published /\ [Next]_vars => Published'
<1> SUFFICES ASSUME SingleProcess, IInv, Current, Published, [Next]_vars PROVE Published'
  OBVIOUS
<1>1. CASE UNCHANGED <<publications, delivered, call>>
  BY <1>1, NextOnward, DeliveriesRest DEF Published, SentOnce
<1>2. ASSUME NEW a \in Approval, Age(a) PROVE Published'
  BY <1>1, <1>2, AgeEffect
<1>3. ASSUME NEW r \in Request, Abort(r) PROVE Published'
  BY <1>3, AbortEffect, ApprovalsRest, ElsewherePublished
<1>4. CASE UNCHANGED vars
  BY <1>1, <1>4 DEF vars
<1> QED BY <1>2, <1>3, <1>4, StartPublished, ContinuePublished DEF Next, NextNoAbort

\* The empty database satisfies it.
LEMMA InitPublished == Init => Published
BY DEF Init, Published, SentOnce, Settled, CallPublishes, NoCall, DeliveredAsCleared,
       OnePublicationPerApproval

\* In one process it holds in every state.
LEMMA AlwaysPublished == SingleProcess => (Spec => []Published)
<1> SUFFICES ASSUME SingleProcess PROVE Spec => []Published
  OBVIOUS
<1>1. IInv /\ Current /\ Published /\ [Next]_vars => Published'
  BY NextPublished
<1>2. Spec => [](IInv /\ Current)
  BY AlwaysCurrent
<1> QED BY <1>1, <1>2, InitPublished, PTL DEF Spec

\* Whatever a target of a single process has accepted, evidence included, is what the
\* policy allows or what an approver was shown and decided on, however publish()
\* overlaps edits, decisions and retention and wherever calls are cut short
\* (pipeline.ts gate, decide and publish).
THEOREM DeliveriesCleared == SingleProcess => (Spec => []DeliveredAsCleared)
<1> SUFFICES ASSUME SingleProcess PROVE Spec => []DeliveredAsCleared
  OBVIOUS
<1>1. Published => DeliveredAsCleared
  BY DEF Published
<1> QED BY <1>1, AlwaysPublished, PTL

\* In one process an approval settles at most one publication, although publish()
\* checks it before the adapter call and spends it after (approvals.ts consume).
THEOREM ApprovalsSettleOnce == SingleProcess => (Spec => []OnePublicationPerApproval)
<1> SUFFICES ASSUME SingleProcess PROVE Spec => []OnePublicationPerApproval
  OBVIOUS
<1>1. Published => OnePublicationPerApproval
  BY DEF Published
<1> QED BY <1>1, AlwaysPublished, PTL

-----------------------------------------------------------------------------
(* When no call is cut short: four eyes *)

\* Whoever has edited a draft is in the ledger, or about to be.
EditorsKnown ==
  \A d \in Draft : \A e \in editors[d] :
    \/ e \in contributed[d]
    \/ \E q \in Request : call[q].step = "record" /\ call[q].draft = d /\ call[q].actor = e

\* A decision bars every editor and the author, and is by none of them.
CallOutside(r) ==
  LET c == call[r]  d == call[r].draft IN
  /\ c.step \in {"read_for_decision", "decide_approved", "decide_rejected"} =>
       editors[d] \cup ({drafts[d].author} \ {None}) \subseteq c.barred
  /\ c.step \in {"decide_approved", "decide_rejected"} => c.actor \notin c.barred
  /\ c.step = "write_decision" => c.actor \notin editors[d] \cup {drafts[d].author}

DraftOutside(d) ==
  drafts[d].status = "approved" /\ drafts[d].approval # None =>
    approvals[drafts[d].approval].decidedBy \notin
      editors[d] \cup {None, drafts[d].author, approvals[drafts[d].approval].requestedBy}

Outside ==
  /\ EditorsKnown
  /\ \A r \in Request : CallOutside(r)
  /\ \A d \in Draft : DraftOutside(d)

\* Between two synchronous sections every editor of every draft is in the ledger.
LEMMA AllKnown ==
  ASSUME SingleProcess, EditorsKnown, NEW r \in Request, CanRun(r), call[r].step # "record"
  PROVE  \A d \in Draft : editors[d] \subseteq contributed[d]
<1>1. \A q \in Request : call[q].step # "record"
  BY DEF SingleProcess, CanRun, Parked
<1> QED BY <1>1 DEF EditorsKnown

\* A draft that stands approved goes on doing so by an outsider while it rests.
LEMMA OutsideRests ==
  ASSUME IInv, Current, Onwards, NEW d \in Draft, DraftOutside(d),
         drafts'[d] = drafts[d], editors'[d] = editors[d]
  PROVE  DraftOutside(d)'
<1> DEFINE a == drafts[d].approval
<1> SUFFICES ASSUME drafts[d].status = "approved", a # None
             PROVE  approvals'[a].decidedBy \notin
                      editors[d] \cup {None, drafts[d].author, approvals'[a].requestedBy}
  BY DEF DraftOutside
<1>1. a \in Approval
  BY DEF IInv, TypeOK, DraftRow
<1>2. approvals[a].status # "none" /\ approvals[a].decidedBy # None
  BY DEF Current, DraftCurrent
<1>3. approvals'[a].decidedBy = approvals[a].decidedBy
      /\ approvals'[a].requestedBy = approvals[a].requestedBy
  BY <1>1, <1>2 DEF Onwards, Onward
<1> QED BY <1>3 DEF DraftOutside

\* A call in its turn keeps four eyes when it accounts for the draft it writes and for
\* its own next step.
LEMMA TurnOutside ==
  ASSUME SingleProcess, IInv, Current, Outside, Onwards, NEW r \in Request, Turn(r),
         EditorsKnown', call'[r] = NoCall \/ CallOutside(r)',
         NEW d, OtherDrafts(d), \A x \in Draft : x # d => editors'[x] = editors[x],
         d \in Draft => DraftOutside(d)'
  PROVE  Outside'
<1>1. CallOutside(r)'
  BY DEF CallOutside, NoCall
<1>2. \A q \in Request : CallOutside(q)'
  BY <1>1, Alone DEF CallOutside, Parked
<1>3. \A x \in Draft : DraftOutside(x)'
  BY OutsideRests DEF Outside, OtherDrafts
<1> QED BY <1>2, <1>3 DEF Outside

\* In particular when it neither edits, records an edit nor writes a draft.
LEMMA ReadOutside ==
  ASSUME SingleProcess, IInv, Current, Outside, Onwards, NEW r \in Request, Turn(r),
         call[r].step # "record", UNCHANGED <<drafts, editors, contributed>>,
         call'[r] = NoCall \/ CallOutside(r)'
  PROVE  Outside'
<1>1. EditorsKnown'
  BY AllKnown DEF Outside, EditorsKnown, Turn
<1>2. CallOutside(r)'
  BY DEF CallOutside, NoCall
<1>3. \A q \in Request : CallOutside(q)'
  BY <1>2, Alone DEF CallOutside, Parked
<1>4. \A x \in Draft : DraftOutside(x)'
  BY OutsideRests DEF Outside
<1> QED BY <1>1, <1>3, <1>4 DEF Outside

\* An edit is accounted for until it is in the ledger.
LEMMA EditOutside ==
  ASSUME SingleProcess, IInv, Current, Outside, NEW r \in Request,
         \/ \E d \in Draft, actor \in Actor, author \in Actor, text \in Text, evidence \in Evidence :
              CreateDraft(r, d, actor, author, text, evidence)
         \/ CommitUpdate(r) \/ RecordContribution(r)
  PROVE  Outside'
<1>1. ASSUME NEW d \in Draft, NEW actor \in Actor, Turn(r), call[r].step # "record",
             call'[r].step = "record", call'[r].draft = d, call'[r].actor = actor,
             OtherDrafts(d), drafts'[d].status = "draft", Onwards, UNCHANGED contributed,
             editors'[d] = editors[d] \cup {actor}, OtherEditors(d)
      PROVE  Outside'
  <2>1. \A x \in Draft : editors[x] \subseteq contributed[x]
    BY <1>1, AllKnown DEF Outside, Turn
  <2>2. EditorsKnown'
    <3>1. ASSUME NEW x \in Draft, NEW e \in editors'[x]
          PROVE  e \in contributed'[x] \/ (x = d /\ e = actor)
      BY <1>1, <2>1 DEF OtherEditors
    <3> QED BY <1>1, <3>1 DEF EditorsKnown
  <2>3. DraftOutside(d)' /\ CallOutside(r)'
    BY <1>1 DEF DraftOutside, CallOutside
  <2> QED BY <1>1, <2>2, <2>3, TurnOutside DEF OtherEditors
<1>2. ASSUME NEW d \in Draft, NEW actor \in Actor, NEW author \in Actor, NEW text \in Text,
             NEW evidence \in Evidence, CreateDraft(r, d, actor, author, text, evidence)
      PROVE  Outside'
  <2>1. /\ Turn(r) /\ call[r].step = "idle" /\ call'[r].step = "record"
        /\ call'[r].draft = d /\ call'[r].actor = actor
        /\ OtherDrafts(d) /\ drafts'[d].status = "draft" /\ UNCHANGED <<approvals, contributed>>
        /\ editors'[d] = editors[d] \cup {actor} /\ OtherEditors(d)
    BY <1>2, CreateDraftEffect
  <2> QED BY <1>1, <2>1, ApprovalsRest
<1>3. CASE CommitUpdate(r)
  <2>1. PICK d : d = call[r].draft
    OBVIOUS
  <2>2. PICK actor : actor = call[r].actor
    OBVIOUS
  <2>3. /\ d \in Draft /\ call[r].actor \in Actor /\ Turn(r) /\ call[r].step = "update"
        /\ Moved(r, "record") /\ OtherDrafts(d) /\ drafts'[d].status = "draft"
        /\ UNCHANGED <<approvals, contributed>>
        /\ editors'[d] = editors[d] \cup {call[r].actor} /\ OtherEditors(d)
    BY <1>3, <2>1, CommitUpdateEffect
  <2>4. call'[r].step = "record" /\ call'[r].draft = d /\ call'[r].actor = actor
    BY <2>1, <2>2, <2>3 DEF Moved
  <2> QED BY <1>1, <2>2, <2>3, <2>4, ApprovalsRest
<1>4. CASE RecordContribution(r)
  <2>1. PICK d : d = call[r].draft
    OBVIOUS
  <2>2. /\ Turn(r) /\ call[r].step = "record" /\ d \in Draft /\ call'[r] = NoCall
        /\ \A x \in Draft : contributed'[x] =
             IF x = d THEN contributed[x] \cup {call[r].actor} ELSE contributed[x]
        /\ UNCHANGED <<drafts, approvals, editors>>
    BY <1>4, <2>1, RecordContributionEffect
  <2>3. \A q \in Request : call[q].step = "record" => q = r
    BY <2>2, Alone DEF Parked
  <2>4. EditorsKnown'
    <3>1. ASSUME NEW x \in Draft, NEW e \in editors[x]
          PROVE  e \in contributed[x] \/ (x = d /\ e = call[r].actor)
      BY <2>1, <2>3 DEF Outside, EditorsKnown
    <3>2. \A x \in Draft : editors'[x] \subseteq contributed'[x]
      BY <2>2, <3>1
    <3> QED BY <3>2 DEF EditorsKnown
  <2>5. CallOutside(r)'
    BY <2>2 DEF CallOutside, NoCall
  <2>6. \A q \in Request : CallOutside(q)'
    BY <2>2, <2>5, Alone DEF CallOutside, Parked
  <2>7. \A x \in Draft : DraftOutside(x)'
    BY <2>2, ApprovalsRest, OutsideRests DEF Outside
  <2> QED BY <2>4, <2>6, <2>7 DEF Outside
<1> QED BY <1>2, <1>3, <1>4

\* verify, gate and the end of publish approve nothing that a person must decide.
LEMMA ColumnsOutside ==
  ASSUME SingleProcess, IInv, Current, Outside, NEW r \in Request,
         CommitVerify(r) \/ CommitGate(r) \/ FinishPublish(r)
  PROVE  Outside'
<1>1. PICK d : d = call[r].draft
  OBVIOUS
<1>2. /\ Turn(r) /\ call[r].step # "record" /\ call'[r] = NoCall /\ OtherDrafts(d)
      /\ UNCHANGED <<approvals, editors, contributed>>
  BY <1>1, CommitVerifyEffect, CommitGateEffect, FinishPublishEffect
<1>3. EditorsKnown'
  BY <1>2, AllKnown DEF Outside, EditorsKnown, Turn
<1>4. d \in Draft => DraftOutside(d)'
  <2>1. CASE CommitVerify(r)
    BY <1>1, <2>1, CommitVerifyEffect DEF DraftOutside
  <2>2. CASE CommitGate(r)
    <3>1. /\ CallCurrent(r) /\ call[r].step = "gate" /\ drafts'[d].status = call[r].row.status
          /\ drafts'[d].approval = call[r].row.approval
      BY <1>1, <2>2, CommitGateEffect DEF Current
    <3>2. drafts'[d].approval # None => drafts'[d].status = "awaiting_approval"
      BY <3>1 DEF CallCurrent, GateStatus
    <3> QED BY <3>2 DEF DraftOutside
  <2>3. CASE FinishPublish(r)
    BY <1>1, <2>3, FinishPublishEffect DEF DraftOutside
  <2> QED BY <2>1, <2>2, <2>3
<1> QED BY <1>2, <1>3, <1>4, ApprovalsRest, TurnOutside

\* decide bars all editors when it reads, and the draft is not edited before it writes.
LEMMA DecideOutside ==
  ASSUME SingleProcess, IInv, Current, Outside, NEW r \in Request,
         \/ \E d \in Draft, actor \in Actor, verdict \in {"approved", "rejected"} :
              BeginDecide(r, d, actor, verdict)
         \/ ReadForDecision(r)
         \/ \E verdict \in {"approved", "rejected"} : CommitDecision(r, verdict)
         \/ WriteDecision(r)
  PROVE  Outside'
<1>1. ASSUME NEW d \in Draft, NEW actor \in Actor, NEW verdict \in {"approved", "rejected"},
             BeginDecide(r, d, actor, verdict)
      PROVE  Outside'
  <2>1. /\ Turn(r) /\ call[r].step = "idle" /\ call'[r].step = "read_for_decision"
        /\ call'[r].draft = d
        /\ call'[r].barred = contributed[d] \cup ({drafts[d].author} \ {None})
        /\ UNCHANGED <<drafts, approvals, contributed, editors>>
    BY <1>1, BeginDecideEffect
  <2>2. editors[d] \subseteq contributed[d]
    BY <2>1, AllKnown DEF Outside, Turn
  <2>3. CallOutside(r)'
    BY <2>1, <2>2 DEF CallOutside
  <2> QED BY <2>1, <2>3, ApprovalsRest, ReadOutside
<1>2. CASE ReadForDecision(r)
  <2> DEFINE next == IF call[r].row.status = "approved" THEN "decide_approved"
                                                        ELSE "decide_rejected"
  <2>1. PICK a : a = call[r].row.approval
    OBVIOUS
  <2>2. /\ Turn(r) /\ call[r].step = "read_for_decision"
        /\ \/ Moved(r, "expire")
           \/ MayDecide(r, approvals[a]) /\ Moved(r, next)
           \/ call'[r] = NoCall
        /\ UNCHANGED <<drafts, approvals, contributed, editors>>
    BY <1>2, <2>1, ReadApprovalEffect DEF ReadForDecision
  <2>3. CallOutside(r)
    BY DEF Outside
  <2>4. call'[r] = NoCall \/ CallOutside(r)'
    BY <2>2, <2>3 DEF CallOutside, Moved, MayDecide
  <2> QED BY <2>2, <2>4, ApprovalsRest, ReadOutside
<1>3. ASSUME NEW verdict \in {"approved", "rejected"}, CommitDecision(r, verdict)
      PROVE  Outside'
  <2>1. PICK a : a = call[r].row.approval
    OBVIOUS
  <2>2. /\ Turn(r) /\ call[r].step \in {"decide_approved", "decide_rejected"}
        /\ Moved(r, "write_decision") /\ Onwards /\ call[r].actor \in Actor
        /\ UNCHANGED <<drafts, contributed, editors>>
    BY <1>3, <2>1, CommitDecisionEffect
  <2>3. CallOutside(r)'
    BY <2>2, NoneAssumption DEF Outside, CallOutside, Moved
  <2> QED BY <2>2, <2>3, ReadOutside
<1>4. CASE WriteDecision(r)
  <2>1. PICK d : d = call[r].draft
    OBVIOUS
  <2>2. /\ Turn(r) /\ call[r].step = "write_decision" /\ d \in Draft /\ call'[r] = NoCall
        /\ OtherDrafts(d) /\ UNCHANGED <<approvals, contributed, editors>>
        /\ drafts'[d].status = call[r].row.status /\ drafts'[d].approval = drafts[d].approval
        /\ drafts'[d].author = drafts[d].author
    BY <1>4, <2>1, WriteDecisionEffect
  <2>3. EditorsKnown'
    BY <2>2, AllKnown DEF Outside, EditorsKnown, Turn
  <2>4. DraftOutside(d)'
    <3> DEFINE a == drafts[d].approval
    <3>1. /\ a # None /\ approvals[a].status = call[r].row.status
          /\ approvals[a].decidedBy = call[r].actor
      BY <2>1, <2>2 DEF Current, CallCurrent
    <3>2. a \in Approval /\ call[r].actor \in Actor
      BY <2>2, <3>1 DEF IInv, TypeOK, DraftRow, CallInv, CallComplete
    <3>3. call[r].actor \notin editors[d] \cup {drafts[d].author}
      BY <2>1, <2>2 DEF Outside, CallOutside
    <3>4. approvals[a].status = "approved" =>
            approvals[a].decidedBy \notin {None, approvals[a].requestedBy}
      BY <3>2 DEF IInv, ApprovalsDecided
    <3> QED BY <2>2, <3>1, <3>3, <3>4 DEF DraftOutside
  <2> QED BY <2>2, <2>3, <2>4, ApprovalsRest, TurnOutside
<1> QED BY <1>1, <1>2, <1>3, <1>4

\* Every other step of a single process keeps four eyes.
LEMMA NextOutside ==
  SingleProcess /\ IInv /\ Current /\ Outside /\ [NextNoAbort]_vars => Outside'
<1> SUFFICES ASSUME SingleProcess, IInv, Current, Outside, [NextNoAbort]_vars PROVE Outside'
  OBVIOUS
<1>1. Onwards
  BY NextOnward DEF Next
<1>2. ASSUME UNCHANGED <<drafts, editors, contributed, call>> PROVE Outside'
  <2>1. EditorsKnown' /\ \A q \in Request : CallOutside(q)'
    BY <1>2 DEF Outside, EditorsKnown, CallOutside
  <2>2. \A d \in Draft : DraftOutside(d)'
    BY <1>1, <1>2, OutsideRests DEF Outside
  <2> QED BY <2>1, <2>2 DEF Outside
<1>3. ASSUME NEW r \in Request, Turn(r), call[r].step # "record",
             UNCHANGED <<drafts, editors, contributed>>,
             \/ call'[r] = NoCall
             \/ call'[r].step \notin {"read_for_decision", "decide_approved", "decide_rejected",
                                      "write_decision"}
      PROVE  Outside'
  <2>1. call'[r] = NoCall \/ CallOutside(r)'
    BY <1>3 DEF CallOutside
  <2> QED BY <1>1, <1>3, <2>1, ReadOutside
<1>4. ASSUME NEW r \in Request, Start(r) PROVE Outside'
  <2>1. ASSUME NEW d \in Draft, BeginVerify(r, d) PROVE Outside'
    BY <1>3, <2>1, BeginVerifyEffect
  <2>2. ASSUME NEW d \in Draft, NEW p \in Publication, BeginPublish(r, d, p) PROVE Outside'
    BY <1>3, <2>2, BeginPublishEffect
  <2>3. ASSUME NEW d \in Draft, NEW actor \in Actor, NEW text \in Text, NEW evidence \in Evidence,
               BeginUpdate(r, d, actor, text, evidence)
        PROVE  Outside'
    BY <1>3, <2>3, BeginUpdateEffect
  <2>4. ASSUME NEW d \in Draft, NEW actor \in Actor, NEW a \in Approval \cup {None},
               BeginGate(r, d, actor, a)
        PROVE  Outside'
    BY <1>3, <2>4, BeginGateEffect
  <2>5. ASSUME NEW outdated \in SUBSET Draft, ApplyRetention(r, outdated) PROVE Outside'
    <3>1. /\ UNCHANGED <<contributed, editors, call>> /\ At(r, "idle")
          /\ \A d \in Draft : drafts'[d] = drafts[d] \/ drafts'[d].status = "deleted"
      BY <2>5, ApplyRetentionEffect
    <3>2. EditorsKnown'
      BY <3>1 DEF Outside, EditorsKnown
    <3>3. \A q \in Request : CallOutside(q)'
      BY <3>1 DEF SingleProcess, At, CanRun, CallOutside, Parked
    <3>4. ASSUME NEW d \in Draft PROVE DraftOutside(d)'
      <4>1. CASE drafts'[d] = drafts[d]
        BY <1>1, <3>1, <4>1, OutsideRests DEF Outside
      <4>2. CASE drafts'[d].status = "deleted"
        BY <4>2 DEF DraftOutside
      <4> QED BY <3>1, <4>1, <4>2
    <3> QED BY <3>2, <3>3, <3>4 DEF Outside
  <2> QED BY <1>4, <2>1, <2>2, <2>3, <2>4, <2>5, EditOutside, DecideOutside DEF Start
<1>5. ASSUME NEW r \in Request, Continue(r) PROVE Outside'
  <2>1. PICK a : a = call[r].row.approval
    OBVIOUS
  <2>2. PICK p : p = call[r].publication
    OBVIOUS
  <2>3. CASE RequestApproval(r) \/ Expire(r) \/ Consume(r)
    BY <1>3, <2>1, <2>3, RequestApprovalEffect, ExpireEffect, ConsumeEffect DEF Moved
  <2>4. CASE InsertPublication(r) \/ RecordFailure(r) \/ SettlePublication(r)
    BY <1>3, <2>2, <2>4, InsertPublicationEffect, RecordFailureEffect, SettlePublicationEffect
       DEF Moved
  <2>5. CASE ReceiveReceipt(r) \/ AdapterFails(r)
    BY <1>3, <2>5, ReceiveReceiptEffect, AdapterFailsEffect DEF Moved
  <2>6. CASE ReadForPublish(r)
    BY <1>3, <2>1, <2>6, ReadApprovalEffect DEF ReadForPublish, Moved
  <2>7. CASE ReadForConsume(r)
    BY <1>3, <2>1, <2>7, ReadApprovalEffect DEF ReadForConsume, Moved
  <2>8. CASE TargetAccepts(r)
    <3>1. /\ OthersWait(r) /\ call[r].step = "sending" /\ call'[r].step = "sent"
          /\ UNCHANGED <<drafts, contributed, editors>>
      BY <2>8, TargetAcceptsEffect DEF Moved
    <3>2. EditorsKnown'
      <4>1. \A q \in Request : call[q].step = "record" => call'[q] = call[q]
        BY <3>1 DEF OthersWait
      <4> QED BY <3>1, <4>1 DEF Outside, EditorsKnown
    <3>3. \A q \in Request : CallOutside(q)'
      BY <3>1 DEF Outside, CallOutside, OthersWait
    <3>4. \A d \in Draft : DraftOutside(d)'
      BY <1>1, <3>1, OutsideRests DEF Outside
    <3> QED BY <3>2, <3>3, <3>4 DEF Outside
  <2> QED BY <1>5, <2>3, <2>4, <2>5, <2>6, <2>7, <2>8, EditOutside, ColumnsOutside, DecideOutside
          DEF Continue
<1>6. ASSUME NEW a \in Approval, Age(a) PROVE Outside'
  BY <1>2, <1>6, AgeEffect
<1>7. CASE UNCHANGED vars
  BY <1>2, <1>7 DEF vars
<1> QED BY <1>4, <1>5, <1>6, <1>7 DEF NextNoAbort

\* Nobody has edited or decided anything in the empty database.
LEMMA InitOutside == Init => Outside
BY DEF Init, Outside, EditorsKnown, CallOutside, DraftOutside, NoCall, NoDraft

-----------------------------------------------------------------------------
(* When no call is cut short: pending publications *)

\* What the call that holds a publication has sent under it.
CallSends(r) ==
  LET c == call[r]  p == call[r].publication IN
  /\ c.step \in {"idle", "record", "update", "verify", "request", "gate", "read_for_decision",
                 "decide_approved", "decide_rejected", "write_decision"} => p = None
  /\ c.step = "finish" => publications[p].status = "published"
  /\ \/ c.step \in {"sent", "read_for_consume", "consume", "settle"}
     \/ c.step = "expire" /\ p # None /\ publications[p].status # "none"
     => \E x \in delivered : x.publication = p /\ x.approval = c.row.approval

Accounted == (\A r \in Request : CallSends(r)) /\ PendingOnlyIfApprovalLost

\* An approval that something was delivered on, once lost, is not given again.
LEMMA LostStays ==
  ASSUME IInv, Current, Onwards, NEW x \in delivered, x.approval # None,
         approvals[x.approval].status # "approved"
  PROVE  approvals'[x.approval].status # "approved"
<1> DEFINE a == x.approval
<1>1. a \in Approval /\ approvals[a].decidedBy # None
  BY DeliveredRows
<1>2. approvals[a].status \notin {"none", "pending"} /\ Onward(a)
  BY <1>1 DEF Current, Undecided, Onwards
<1>3. approvals[a].status \in {"rejected", "expired", "consumed", "deleted"}
  BY <1>1, <1>2 DEF IInv, TypeOK, ApprovalRow
<1> HIDE DEF a
<1> QED BY <1>2, <1>3 DEF Onward, Later, a

\* Publication p was left pending with its approval lost.
Lost(p) ==
  \E x \in delivered : /\ x.publication = p /\ x.approval # None
                       /\ approvals[x.approval].status # "approved"

\* A step of call r accounts for every publication when it does for its own.
LEMMA StepAccounted ==
  ASSUME IInv, Current, Published, Accounted, Onwards, delivered \subseteq delivered',
         NEW r \in Request, OthersWait(r), call'[r] = NoCall \/ CallSends(r)',
         \A o \in Publication : o # call[r].publication =>
           publications'[o] = publications[o] \/ o = call'[r].publication,
         \A q \in Request \ {r} : call[q].publication # None =>
           call[q].publication # call'[r].publication,
         NEW p, p = call[r].publication,
         \/ call'[r].publication = p
         \/ p \in Publication /\ publications'[p].status = "pending" => Lost(p)'
  PROVE  Accounted'
<1>1. CallSends(r)'
  BY DEF CallSends, NoCall
<1>2. ASSUME NEW q \in Request, q # r PROVE CallSends(q)'
  <2>1. CallSends(q) /\ call'[q] = call[q]
    BY <1>2 DEF Accounted, OthersWait
  <2>2. call[q].publication \in Publication \cup {None}
    BY DEF IInv, TypeOK, CallRow
  <2>3. call[q].publication # None => publications'[call[q].publication] = publications[call[q].publication]
    BY <1>2, <2>2 DEF Published, SentOnce
  <2>4. call[q].step = "finish" => call[q].publication # None
    BY NoneAssumption DEF IInv, CallInv, CallComplete
  <2> QED BY <2>1, <2>3, <2>4 DEF CallSends
<1>3. PendingOnlyIfApprovalLost'
  <2> SUFFICES ASSUME NEW o \in Publication, publications'[o].status = "pending",
                      \A q \in Request : call'[q].publication # o
               PROVE  Lost(o)'
    BY DEF PendingOnlyIfApprovalLost, Lost
  <2>1. CASE o = p
    BY <2>1
  <2>2. CASE o # p
    <3>1. publications[o].status = "pending" /\ \A q \in Request : call[q].publication # o
      BY <2>2 DEF OthersWait
    <3>2. Lost(o)
      BY <3>1 DEF Accounted, PendingOnlyIfApprovalLost, Lost
    <3> QED BY <3>2, LostStays DEF Lost
  <2> QED BY <2>1, <2>2
<1> QED BY <1>1, <1>2, <1>3 DEF Accounted

\* In particular one that writes no publication and keeps its own.
LEMMA KeepsAccounted ==
  ASSUME IInv, Current, Published, Accounted, Onwards, UNCHANGED <<publications, delivered>>,
         NEW r \in Request, OthersWait(r),
         CallSends(r)' /\ call'[r].publication = call[r].publication
  PROVE  Accounted'
<1>1. \A q \in Request \ {r} : call[q].publication # None =>
        call[q].publication # call'[r].publication
  BY DEF Published, SentOnce
<1> QED BY <1>1, StepAccounted

\* And one that drops a publication that is not pending, or whose approval is lost.
LEMMA DropsAccounted ==
  ASSUME IInv, Current, Published, Accounted, Onwards, UNCHANGED <<publications, delivered>>,
         NEW r \in Request, OthersWait(r), call'[r] = NoCall, NEW p, p = call[r].publication,
         p \in Publication /\ publications[p].status = "pending" => Lost(p)'
  PROVE  Accounted'
<1>1. call'[r].publication = None
  BY DEF NoCall
<1> QED BY <1>1, StepAccounted

\* A call that publishes nothing holds no publication.
LEMMA ElsewhereAccounted ==
  ASSUME IInv, Current, Published, Accounted, Onwards, UNCHANGED <<publications, delivered>>,
         NEW r \in Request, OthersWait(r),
         call[r].step \in {"idle", "record", "update", "verify", "request", "gate",
                           "read_for_decision", "decide_approved", "decide_rejected",
                           "write_decision"},
         \/ call'[r] = NoCall
         \/ /\ call'[r].publication \in {None, call[r].publication}
            /\ call'[r].step \in {"record", "update", "verify", "request", "gate",
                                  "read_for_decision", "decide_approved", "decide_rejected",
                                  "write_decision", "expire"}
  PROVE  Accounted'
<1>1. call[r].publication = None
  BY DEF Accounted, CallSends
<1>2. call'[r].publication = None
  BY <1>1 DEF NoCall
<1>3. CallSends(r)'
  BY <1>2 DEF CallSends, NoCall
<1> QED BY <1>1, <1>2, <1>3, KeepsAccounted

\* The first steps of a call account for every publication.
LEMMA StartAccounted ==
  ASSUME SingleProcess, IInv, Current, Published, Accounted, NEW r \in Request, Start(r)
  PROVE  Accounted'
<1>1. Onwards
  BY StartOnward
<1>2. ASSUME NEW d \in Draft, BeginVerify(r, d) PROVE Accounted'
  BY <1>1, <1>2, BeginVerifyEffect, ElsewhereAccounted DEF Turn
<1>3. ASSUME NEW d \in Draft, NEW actor \in Actor, NEW text \in Text, NEW evidence \in Evidence,
             NEW author \in Actor, CreateDraft(r, d, actor, author, text, evidence)
      PROVE  Accounted'
  BY <1>1, <1>3, CreateDraftEffect, ElsewhereAccounted DEF Turn
<1>4. ASSUME NEW d \in Draft, NEW actor \in Actor, NEW text \in Text, NEW evidence \in Evidence,
             BeginUpdate(r, d, actor, text, evidence)
      PROVE  Accounted'
  BY <1>1, <1>4, BeginUpdateEffect, ElsewhereAccounted DEF Turn
<1>5. ASSUME NEW d \in Draft, NEW actor \in Actor, NEW a \in Approval \cup {None},
             BeginGate(r, d, actor, a)
      PROVE  Accounted'
  BY <1>1, <1>5, BeginGateEffect, ElsewhereAccounted DEF Turn
<1>6. ASSUME NEW d \in Draft, NEW actor \in Actor, NEW verdict \in {"approved", "rejected"},
             BeginDecide(r, d, actor, verdict)
      PROVE  Accounted'
  BY <1>1, <1>6, BeginDecideEffect, ElsewhereAccounted DEF Turn
<1>7. ASSUME NEW d \in Draft, NEW p \in Publication, BeginPublish(r, d, p) PROVE Accounted'
  <2>1. /\ Turn(r) /\ call[r].step = "idle" /\ FreshPublication(p) /\ call'[r].publication = p
        /\ call'[r].step \in {"insert", "read_for_publish"}
        /\ UNCHANGED <<publications, delivered>>
    BY <1>7, BeginPublishEffect
  <2>2. call[r].publication = None
    BY <2>1 DEF Accounted, CallSends
  <2>3. CallSends(r)'
    BY <2>1 DEF CallSends
  <2>4. \A q \in Request \ {r} : call[q].publication # call'[r].publication
    BY <2>1 DEF FreshPublication
  <2> QED BY <1>1, <2>1, <2>2, <2>3, <2>4, NoneAssumption, StepAccounted DEF Turn
<1>8. ASSUME NEW outdated \in SUBSET Draft, ApplyRetention(r, outdated) PROVE Accounted'
  <2>1. UNCHANGED <<publications, delivered, call>>
    BY <1>8, ApplyRetentionEffect
  <2>2. OthersWait(r) /\ CallSends(r)'
    BY <2>1 DEF OthersWait, Accounted, CallSends
  <2> QED BY <1>1, <2>1, <2>2, KeepsAccounted
<1> QED BY <1>2, <1>3, <1>4, <1>5, <1>6, <1>7, <1>8 DEF Start

\* Reading the approval after the delivery: a call that ends leaves an approval that is
\* no longer approved.
LEMMA ReadForConsumeAccounted ==
  ASSUME SingleProcess, IInv, Current, Published, Accounted, NEW r \in Request,
         ReadForConsume(r)
  PROVE  Accounted'
<1>1. PICK a : a = call[r].row.approval
  OBVIOUS
<1>2. PICK p : p = call[r].publication
  OBVIOUS
<1>3. /\ Turn(r) /\ call[r].step = "read_for_consume"
      /\ \/ Moved(r, "expire") \/ Moved(r, "consume")
         \/ call'[r] = NoCall /\ ~Valid(r, approvals[a])
      /\ UNCHANGED <<approvals, publications, delivered>>
  BY <1>1, ReadApprovalEffect DEF ReadForConsume
<1>4. PICK x \in delivered : x.publication = p /\ x.approval = a
  BY <1>1, <1>2, <1>3 DEF Accounted, CallSends
<1>5. CASE Moved(r, "expire") \/ Moved(r, "consume")
  <2>1. CallSends(r)'
    BY <1>1, <1>2, <1>3, <1>4, <1>5 DEF CallSends, Moved
  <2> QED BY <1>3, <1>5, <2>1, ApprovalsRest, KeepsAccounted DEF Turn, Moved
<1>6. CASE call'[r] = NoCall /\ ~Valid(r, approvals[a])
  <2>1. a # None /\ Covers(a, call[r].draft, call[r].row.text)
    BY <1>1, <1>3 DEF Current, CallCurrent, IInv, CallInv, CallCovered
  <2>2. approvals[a].status # "approved"
    BY <1>6, <2>1 DEF Valid, Covers
  <2>3. Lost(p)'
    BY <1>3, <1>4, <2>1, <2>2 DEF Lost
  <2> QED BY <1>2, <1>3, <1>6, <2>3, ApprovalsRest, DropsAccounted DEF Turn
<1> QED BY <1>3, <1>5, <1>6

\* publish from its first check to the adapter's answer.
LEMMA SendAccounted ==
  ASSUME SingleProcess, IInv, Current, Published, Accounted, NEW r \in Request,
         \/ ReadForPublish(r) \/ InsertPublication(r) \/ TargetAccepts(r)
         \/ ReceiveReceipt(r) \/ AdapterFails(r)
  PROVE  Accounted'
<1>1. PICK a : a = call[r].row.approval
  OBVIOUS
<1>2. PICK p : p = call[r].publication
  OBVIOUS
<1>3. CASE ReadForPublish(r)
  <2>1. /\ Turn(r) /\ call[r].step = "read_for_publish"
        /\ Moved(r, "expire") \/ Moved(r, "insert") \/ call'[r] = NoCall
        /\ UNCHANGED <<approvals, publications, delivered>>
    BY <1>1, <1>3, ReadApprovalEffect DEF ReadForPublish
  <2>2. publications[p].status = "none"
    BY <1>2, <2>1 DEF Published, CallPublishes
  <2>3. CASE Moved(r, "expire") \/ Moved(r, "insert")
    <3>1. CallSends(r)'
      BY <1>2, <2>1, <2>2, <2>3 DEF CallSends, Moved
    <3> QED BY <2>1, <2>3, <3>1, ApprovalsRest, KeepsAccounted DEF Turn, Moved
  <2>4. CASE call'[r] = NoCall
    BY <1>2, <2>1, <2>2, <2>4, ApprovalsRest, DropsAccounted DEF Turn
  <2> QED BY <2>1, <2>3, <2>4
<1>4. CASE InsertPublication(r)
  <2>1. /\ Turn(r) /\ Moved(r, "sending")
        /\ \A o \in Publication : o # p => publications'[o] = publications[o]
        /\ UNCHANGED <<approvals, delivered>>
    BY <1>2, <1>4, InsertPublicationEffect
  <2>2. CallSends(r)'
    BY <2>1 DEF CallSends, Moved
  <2>3. \A q \in Request \ {r} : call[q].publication # None =>
          call[q].publication # call'[r].publication
    BY <2>1 DEF Published, SentOnce, Moved
  <2> QED BY <1>2, <2>1, <2>2, <2>3, ApprovalsRest, StepAccounted DEF Turn, Moved
<1>5. CASE TargetAccepts(r)
  <2>1. /\ OthersWait(r) /\ Moved(r, "sent") /\ UNCHANGED <<approvals, publications>>
        /\ \E x : delivered' = delivered \cup {x} /\ x.approval = a /\ x.publication = p
    BY <1>1, <1>2, <1>5, TargetAcceptsEffect
  <2>2. CallSends(r)'
    BY <1>1, <1>2, <2>1 DEF CallSends, Moved
  <2>3. \A q \in Request \ {r} : call[q].publication # None =>
          call[q].publication # call'[r].publication
    BY <2>1 DEF Published, SentOnce, Moved
  <2> QED BY <1>2, <2>1, <2>2, <2>3, ApprovalsRest, StepAccounted DEF Moved
<1>6. CASE ReceiveReceipt(r)
  <2>1. /\ Turn(r) /\ call[r].step = "sent"
        /\ Moved(r, IF call[r].row.approval = None THEN "settle" ELSE "read_for_consume")
        /\ UNCHANGED <<approvals, publications, delivered>>
    BY <1>6, ReceiveReceiptEffect
  <2>2. CallSends(r)'
    BY <2>1 DEF Accounted, CallSends, Moved
  <2> QED BY <2>1, <2>2, ApprovalsRest, KeepsAccounted DEF Turn, Moved
<1>7. CASE AdapterFails(r)
  <2>1. Turn(r) /\ Moved(r, "failed") /\ UNCHANGED <<approvals, publications, delivered>>
    BY <1>7, AdapterFailsEffect
  <2>2. CallSends(r)'
    BY <2>1 DEF CallSends, Moved
  <2> QED BY <2>1, <2>2, ApprovalsRest, KeepsAccounted DEF Turn, Moved
<1> QED BY <1>3, <1>4, <1>5, <1>6, <1>7

\* publish from there to its end.
LEMMA SettleAccounted ==
  ASSUME SingleProcess, IInv, Current, Published, Accounted, NEW r \in Request,
         \/ RecordFailure(r) \/ Expire(r) \/ Consume(r) \/ SettlePublication(r)
         \/ FinishPublish(r)
  PROVE  Accounted'
<1>1. PICK a : a = call[r].row.approval
  OBVIOUS
<1>2. PICK p : p = call[r].publication
  OBVIOUS
<1>3. CallSends(r)
  BY DEF Accounted
<1>4. \A q \in Request \ {r} : call[q].publication # None => call[q].publication # p
  BY <1>2 DEF Published, SentOnce
<1>5. CASE RecordFailure(r)
  <2>1. /\ Turn(r) /\ call'[r] = NoCall /\ publications'[p].status = "failed"
        /\ \A o \in Publication : o # p => publications'[o] = publications[o]
        /\ UNCHANGED <<approvals, delivered>>
    BY <1>2, <1>5, RecordFailureEffect
  <2>2. call'[r].publication = None
    BY <2>1 DEF NoCall
  <2> QED BY <1>2, <2>1, <2>2, ApprovalsRest, StepAccounted DEF Turn
<1>6. CASE Expire(r)
  <2>1. /\ Turn(r) /\ call[r].step = "expire" /\ call'[r] = NoCall /\ Onwards
        /\ a \in Approval /\ approvals'[a].status = "expired"
        /\ UNCHANGED <<publications, delivered>>
    BY <1>1, <1>6, ExpireEffect
  <2>2. ASSUME p \in Publication, publications[p].status = "pending" PROVE Lost(p)'
    <3>1. p # None /\ a # None
      BY <2>1, <2>2, NoneAssumption
    <3>2. \E x \in delivered : x.publication = p /\ x.approval = a
      BY <1>1, <1>2, <1>3, <2>1, <2>2, <3>1 DEF CallSends
    <3> QED BY <2>1, <3>1, <3>2 DEF Lost
  <2> QED BY <1>2, <2>1, <2>2, DropsAccounted DEF Turn
<1>7. CASE Consume(r)
  <2>1. /\ Turn(r) /\ call[r].step = "consume" /\ Moved(r, "settle") /\ Onwards
        /\ UNCHANGED <<publications, delivered>>
    BY <1>1, <1>7, ConsumeEffect
  <2>2. CallSends(r)'
    BY <1>3, <2>1 DEF CallSends, Moved
  <2> QED BY <2>1, <2>2, KeepsAccounted DEF Turn, Moved
<1>8. CASE SettlePublication(r)
  <2>1. /\ Turn(r) /\ Moved(r, "finish") /\ publications'[p].status = "published"
        /\ \A o \in Publication : o # p => publications'[o] = publications[o]
        /\ UNCHANGED <<approvals, delivered>>
    BY <1>2, <1>8, SettlePublicationEffect
  <2>2. CallSends(r)' /\ call'[r].publication = p
    BY <1>2, <2>1 DEF CallSends, Moved
  <2> QED BY <1>2, <1>4, <2>1, <2>2, ApprovalsRest, StepAccounted DEF Turn
<1>9. CASE FinishPublish(r)
  <2>1. PICK d : d = call[r].draft
    OBVIOUS
  <2>2. /\ Turn(r) /\ call[r].step = "finish" /\ call'[r] = NoCall
        /\ UNCHANGED <<approvals, publications, delivered>>
    BY <1>9, <2>1, FinishPublishEffect
  <2>3. publications[p].status = "published"
    BY <1>2, <1>3, <2>2 DEF CallSends
  <2> QED BY <1>2, <2>2, <2>3, ApprovalsRest, DropsAccounted DEF Turn
<1> QED BY <1>5, <1>6, <1>7, <1>8, <1>9

\* Every step of a single process accounts for every publication.
LEMMA NextAccounted ==
  SingleProcess /\ IInv /\ Current /\ Published /\ Accounted /\ [NextNoAbort]_vars => Accounted'
<1> SUFFICES ASSUME SingleProcess, IInv, Current, Published, Accounted, [NextNoAbort]_vars
             PROVE  Accounted'
  OBVIOUS
<1>1. Onwards
  BY NextOnward DEF Next
<1>2. ASSUME UNCHANGED <<publications, delivered, call>> PROVE Accounted'
  <2>1. \A q \in Request : CallSends(q)'
    BY <1>2 DEF Accounted, CallSends
  <2>2. PendingOnlyIfApprovalLost'
    BY <1>1, <1>2, LostStays DEF Accounted, PendingOnlyIfApprovalLost
  <2> QED BY <2>1, <2>2 DEF Accounted
<1>3. ASSUME NEW r \in Request, Continue(r) PROVE Accounted'
  <2>1. PICK d : d = call[r].draft
    OBVIOUS
  <2>2. PICK a : a = call[r].row.approval
    OBVIOUS
  <2>3. Onwards
    BY <1>3, ContinueOnward
  <2>4. CASE RecordContribution(r) \/ CommitVerify(r) \/ CommitGate(r) \/ WriteDecision(r)
    BY <2>1, <2>3, <2>4, RecordContributionEffect, CommitVerifyEffect, CommitGateEffect,
       WriteDecisionEffect, ElsewhereAccounted DEF Turn
  <2>5. CASE CommitUpdate(r)
    BY <2>1, <2>3, <2>5, CommitUpdateEffect, ElsewhereAccounted DEF Turn, Moved
  <2>6. CASE RequestApproval(r)
    BY <2>2, <2>3, <2>6, RequestApprovalEffect, ElsewhereAccounted DEF Turn, Moved
  <2>7. ASSUME NEW verdict \in {"approved", "rejected"}, CommitDecision(r, verdict)
        PROVE  Accounted'
    BY <2>2, <2>3, <2>7, CommitDecisionEffect, ElsewhereAccounted DEF Turn, Moved
  <2>8. CASE ReadForDecision(r)
    <3>1. /\ Turn(r) /\ call[r].step = "read_for_decision"
          /\ \/ Moved(r, "expire") \/ Moved(r, "decide_approved") \/ Moved(r, "decide_rejected")
             \/ call'[r] = NoCall
          /\ UNCHANGED <<publications, delivered>>
      BY <2>2, <2>8, ReadApprovalEffect DEF ReadForDecision
    <3> QED BY <2>3, <3>1, ElsewhereAccounted DEF Turn, Moved
  <2> QED BY <1>3, <2>4, <2>5, <2>6, <2>7, <2>8, ReadForConsumeAccounted, SendAccounted,
             SettleAccounted DEF Continue
<1>4. ASSUME NEW a \in Approval, Age(a) PROVE Accounted'
  BY <1>2, <1>4, AgeEffect
<1>5. CASE UNCHANGED vars
  BY <1>2, <1>5 DEF vars
<1> QED BY <1>3, <1>4, <1>5, StartAccounted DEF NextNoAbort

\* Nothing is pending in the empty database.
LEMMA InitAccounted == Init => Accounted
BY DEF Init, Accounted, CallSends, PendingOnlyIfApprovalLost, NoCall

-----------------------------------------------------------------------------
(* When no call is cut short: what holds in every state *)

\* Not cutting a call short is one of the things that may happen to it.
LEMMA NoAbortIsSpec == SpecNoAbort => Spec
<1>1. [NextNoAbort]_vars => [Next]_vars
  BY DEF Next
<1> QED BY <1>1, PTL DEF Spec, SpecNoAbort

\* Four eyes and the account of pending publications hold in every state.
LEMMA AlwaysAccounted == SingleProcess => (SpecNoAbort => [](Outside /\ Accounted))
<1> SUFFICES ASSUME SingleProcess PROVE SpecNoAbort => [](Outside /\ Accounted)
  OBVIOUS
<1>1. IInv /\ Current /\ Outside /\ [NextNoAbort]_vars => Outside'
  BY NextOutside
<1>2. IInv /\ Current /\ Published /\ Accounted /\ [NextNoAbort]_vars => Accounted'
  BY NextAccounted
<1>3. Spec => [](IInv /\ Current)
  BY AlwaysCurrent
<1>4. Spec => []Published
  BY AlwaysPublished
<1> QED BY <1>1, <1>2, <1>3, <1>4, NoAbortIsSpec, InitOutside, InitAccounted, PTL
        DEF SpecNoAbort

\* When one process runs the pipeline and none of its calls is cut short, the approver
\* of a draft that stands approved has had no hand in it: decide() bars whoever the
\* ledger names, and no edit is ever missing there (pipeline.ts contributors, decide).
THEOREM ApproversAreOutsiders == SingleProcess => (SpecNoAbort => []ApprovedByOutsider)
<1> SUFFICES ASSUME SingleProcess PROVE SpecNoAbort => []ApprovedByOutsider
  OBVIOUS
<1>1. Outside => ApprovedByOutsider
  BY DEF Outside, DraftOutside, ApprovedByOutsider
<1> QED BY <1>1, AlwaysAccounted, PTL

\* Then, too, a publication stays pending only if the approval of what the target has
\* accepted was spent or expired before the receipt came back (pipeline.ts publish).
THEOREM PendingMeansApprovalLost ==
  SingleProcess => (SpecNoAbort => []PendingOnlyIfApprovalLost)
<1> SUFFICES ASSUME SingleProcess PROVE SpecNoAbort => []PendingOnlyIfApprovalLost
  OBVIOUS
<1>1. Accounted => PendingOnlyIfApprovalLost
  BY DEF Accounted
<1> QED BY <1>1, AlwaysAccounted, PTL

-----------------------------------------------------------------------------
(* When no call is cut short: the pipeline implements EditorialControl *)

\* A draft that is not approved holds no licence.
LEMMA Unlicensed == ASSUME NEW d, drafts[d].status # "approved" PROVE LicenceOf(d) = None
BY DEF LicenceOf

\* While a draft rests its licence stays, or is lost with its approval.
LEMMA LicenceRests ==
  ASSUME IInv, Current, Onwards, NEW d \in Draft, drafts'[d] = drafts[d]
  PROVE  LicenceOf(d)' \in {LicenceOf(d), None}
<1> DEFINE a == drafts[d].approval
<1>1. CASE a = None \/ drafts[d].status # "approved"
  BY <1>1 DEF LicenceOf
<1>2. CASE a # None /\ drafts[d].status = "approved"
  <2>1. a \in Approval
    BY <1>2 DEF IInv, TypeOK, DraftRow
  <2>2. approvals[a].decidedBy # None /\ approvals[a].status \notin {"none", "pending"}
    BY <1>2, <2>1 DEF Current, DraftCurrent, Undecided
  <2>3. approvals[a].status \in
          {"none", "pending", "approved", "rejected", "expired", "consumed", "deleted"}
    BY <2>1 DEF IInv, TypeOK, ApprovalRow
  <2>4. approvals'[a].status = "approved" => approvals[a].status = "approved"
    BY <2>1, <2>2, <2>3 DEF Onwards, Onward, Later
  <2>5. approvals'[a].decidedBy = approvals[a].decidedBy
    BY <2>1, <2>2 DEF Onwards, Onward
  <2> QED BY <1>2, <2>4, <2>5 DEF LicenceOf
<1> QED BY <1>1, <1>2

\* A step that licenses nothing, edits nothing and sends nothing at most withdraws
\* licences.
LEMMA OnlyWithdraws ==
  ASSUME \A d \in Draft : LicenceOf(d)' \in {LicenceOf(d), None},
         \A r \in Request : ParcelOf(r)' = ParcelOf(r),
         UNCHANGED <<editors, delivered>>
  PROVE  Editorial!Next
<1> DEFINE lost == {d \in Draft : LicenceOf(d)' = None}
<1>1. Editorial!Withdraw(lost)
  BY DEF Editorial!Withdraw
<1>2. lost \in SUBSET Draft
  OBVIOUS
<1> QED BY <1>1, <1>2 DEF Editorial!Next

\* A call that is not at its adapter before or after carries nothing.
LEMMA ParcelsRest ==
  ASSUME NEW r \in Request, OthersWait(r), call[r].step # "sending", call'[r].step # "sending"
  PROVE  \A q \in Request : ParcelOf(q)' = ParcelOf(q)
BY DEF OthersWait, ParcelOf

\* Such a call at most withdraws licences when all it does to the drafts is to leave
\* them without one.
LEMMA WithdrawsHere ==
  ASSUME IInv, Current, Onwards, NEW r \in Request, OthersWait(r),
         call[r].step # "sending", call'[r].step # "sending",
         \A d \in Draft : drafts'[d] = drafts[d] \/ drafts'[d].status # "approved",
         UNCHANGED <<editors, delivered>>
  PROVE  Editorial!Next
<1>1. ASSUME NEW d \in Draft PROVE LicenceOf(d)' \in {LicenceOf(d), None}
  <2>1. CASE drafts'[d] = drafts[d]
    BY <2>1, LicenceRests
  <2>2. CASE drafts'[d].status # "approved"
    BY <2>2 DEF LicenceOf
  <2> QED BY <2>1, <2>2
<1> QED BY <1>1, ParcelsRest, OnlyWithdraws

\* An edit is an Edit.
LEMMA EditsIt ==
  ASSUME IInv, Current, UNCHANGED approvals, NEW r \in Request, OthersWait(r),
         call[r].step # "sending", call'[r].step # "sending", NEW d \in Draft, OtherDrafts(d),
         drafts'[d].status # "approved", NEW who \in Actor,
         editors'[d] = editors[d] \cup {who}, OtherEditors(d), editors' \in [Draft -> SUBSET Actor],
         UNCHANGED delivered
  PROVE  Editorial!Next
<1>1. LicenceOf(d)' = None /\ \A x \in Draft : x # d => LicenceOf(x)' = LicenceOf(x)
  BY DEF LicenceOf, OtherDrafts
<1>2. \A q \in Request : ParcelOf(q)' = ParcelOf(q)
  BY ParcelsRest
<1>3. editors' = [editors EXCEPT ![d] = @ \cup {who}]
  BY DEF OtherEditors, IInv, TypeOK
<1>4. Editorial!Edit(d, who)
  BY <1>1, <1>2, <1>3 DEF Editorial!Edit
<1> QED BY <1>4 DEF Editorial!Next

\* A draft that comes to stand approved on the policy's word, or on that of someone who
\* has not edited it, is granted a licence.
LEMMA GrantsIt ==
  ASSUME IInv, Current, UNCHANGED approvals, NEW r \in Request, OthersWait(r),
         call[r].step # "sending", call'[r].step # "sending", NEW d \in Draft, OtherDrafts(d),
         Exists(d), drafts[d].status # "approved", drafts'[d].status = "approved",
         drafts'[d].text = drafts[d].text, drafts'[d].evidence = drafts[d].evidence,
         LET a == drafts'[d].approval IN
         IF a = None THEN Effect[<<drafts[d].text, ContentOf(drafts[d])>>] = "allow"
         ELSE /\ approvals[a].status = "approved"
              /\ approvals[a].decidedBy \in Actor \ editors[d],
         UNCHANGED <<editors, delivered>>
  PROVE  Editorial!Next
<1> DEFINE a == drafts'[d].approval
           by == IF a = None THEN None ELSE approvals[a].decidedBy
           l == [content |-> ContentOf(drafts[d]), by |-> by]
<1>1. ContentOf(drafts[d]) \in Text \X Evidence
  BY DEF IInv, DraftsComplete, ContentOf
<1>2. by \in Actor \cup {None}
  OBVIOUS
<1>3. LicenceOf(d) = None
  BY Unlicensed
<1>4. LicenceOf(d)' = l
  BY DEF LicenceOf, ContentOf
<1>5. IF by = None THEN ContentOf(drafts[d]) \in {c \in Text \X Evidence : Effect[<<c[1], c>>] = "allow"}
                   ELSE by \notin editors[d]
  <2>1. CASE a = None
    BY <1>1, <2>1 DEF ContentOf
  <2>2. CASE a # None
    BY <2>2, NoneAssumption
  <2> QED BY <2>1, <2>2
<1>6. \A x \in Draft : x # d => LicenceOf(x)' = LicenceOf(x)
  BY DEF LicenceOf, OtherDrafts
<1>7. \A q \in Request : ParcelOf(q)' = ParcelOf(q)
  BY ParcelsRest
<1>8. l.content = ContentOf(drafts[d]) /\ l.by = by
  OBVIOUS
<1>9. l \in Editorial!Licence
  BY <1>1, <1>2 DEF Editorial!Licence
<1> HIDE DEF l, by
<1>10. Editorial!Grant(d, l)
  BY <1>3, <1>4, <1>5, <1>6, <1>7, <1>8 DEF Editorial!Grant
<1> QED BY <1>9, <1>10 DEF Editorial!Next

\* A licence is for content of a draft.
LEMMA LicenceType ==
  ASSUME IInv, NEW d \in Draft
  PROVE  LicenceOf(d) \in Editorial!Licence \cup {None}
<1> DEFINE row == drafts[d]
           a == drafts[d].approval
<1>1. a \in Approval \cup {None}
  BY DEF IInv, TypeOK, DraftRow
<1>2. a # None => approvals[a].decidedBy \in Actor \cup {None}
  BY <1>1 DEF IInv, TypeOK, ApprovalRow
<1>3. row.status = "approved" => row.text \in Text /\ row.evidence \in Evidence
  BY DEF IInv, DraftsComplete, Exists
<1> QED BY <1>2, <1>3 DEF LicenceOf, Editorial!Licence

\* A publish whose approval is valid at its insert dispatches what the licence is for.
LEMMA DispatchesIt ==
  ASSUME IInv, Current, NEW r \in Request, InsertPublication(r)
  PROVE  Editorial!Next
<1>1. PICK d : d = call[r].draft
  OBVIOUS
<1>2. PICK p : p = call[r].publication
  OBVIOUS
<1> DEFINE row == call[r].row
           a == row.approval
<1>3. /\ OthersWait(r) /\ call[r].step = "insert" /\ Moved(r, "sending")
      /\ UNCHANGED <<drafts, approvals, delivered, editors>>
  BY <1>2, InsertPublicationEffect DEF Turn
<1>4. /\ d \in Draft /\ drafts[d].status = "approved" /\ drafts[d].approval = a
      /\ ContentOf(row) = ContentOf(drafts[d])
      /\ a # None => approvals[a].status = "approved"
  BY <1>1, <1>3 DEF IInv, CallInv, CallComplete, Current, CallCurrent
<1>5. LicenceOf(d) # None /\ LicenceOf(d).content = ContentOf(row)
  <2> DEFINE l == [content |-> <<drafts[d].text, drafts[d].evidence>>,
                   by |-> IF a = None THEN None ELSE approvals[a].decidedBy]
  <2>1. LicenceOf(d) = l
    BY <1>4 DEF LicenceOf
  <2>2. l \in Editorial!Licence
    <3>1. drafts[d].text \in Text /\ drafts[d].evidence \in Evidence
      BY <1>4 DEF IInv, DraftsComplete, Exists
    <3>2. a # None => approvals[a].decidedBy \in Actor \cup {None}
      BY <1>4 DEF IInv, TypeOK, DraftRow, ApprovalRow
    <3> QED BY <3>1, <3>2 DEF Editorial!Licence
  <2>3. l.content = ContentOf(row)
    BY <1>4 DEF ContentOf
  <2> HIDE DEF l
  <2> QED BY <2>1, <2>2, <2>3, NoneIsNothing
<1>6. ParcelOf(r) = None /\ ParcelOf(r)' = <<d, ContentOf(row)>>
  BY <1>1, <1>3 DEF ParcelOf, Moved, ContentOf
<1>7. \A q \in Request : q # r => ParcelOf(q)' = ParcelOf(q)
  BY <1>3 DEF ParcelOf, OthersWait
<1>8. \A x \in Draft : LicenceOf(x)' = LicenceOf(x)
  BY <1>3 DEF LicenceOf
<1>9. Editorial!Dispatch(d, r)
  BY <1>3, <1>4, <1>5, <1>6, <1>7, <1>8 DEF Editorial!Dispatch
<1> QED BY <1>4, <1>9 DEF Editorial!Next

\* The target releases what the call handed over.
LEMMA DeliversIt ==
  ASSUME IInv, Published, NEW r \in Request, TargetAccepts(r)
  PROVE  Editorial!Next
<1>1. /\ OthersWait(r) /\ call[r].step = "sending" /\ Moved(r, "sent")
      /\ UNCHANGED <<drafts, approvals, editors>>
  BY TargetAcceptsEffect
<1>2. PICK x : /\ delivered' = delivered \cup {x}
               /\ x.draft = call[r].draft /\ ContentOf(x) = ContentOf(call[r].row)
  BY TargetAcceptsEffect DEF ContentOf
<1>3. ParcelOf(r) = <<x.draft, ContentOf(x)>> /\ ParcelOf(r)' = None
  BY <1>1, <1>2 DEF ParcelOf, Moved
<1>4. ParcelOf(r) # None
  <2>1. call[r].draft \in Draft
    BY <1>1 DEF IInv, CallInv, CallComplete
  <2>2. ContentOf(call[r].row) \in Text \X Evidence
    BY <1>1 DEF Published, CallPublishes
  <2> QED BY <1>2, <1>3, <2>1, <2>2, NoneIsNothing DEF Editorial!Parcel
<1>5. \A q \in Request : q # r => ParcelOf(q)' = ParcelOf(q)
  BY <1>1 DEF ParcelOf, OthersWait
<1>6. \A d \in Draft : LicenceOf(d)' = LicenceOf(d)
  BY <1>1 DEF LicenceOf
<1>7. {<<y.draft, ContentOf(y)>> : y \in delivered'}
        = {<<y.draft, ContentOf(y)>> : y \in delivered} \cup {ParcelOf(r)}
  BY <1>2, <1>3
<1>8. Editorial!Deliver(r)
  BY <1>1, <1>3, <1>4, <1>5, <1>6, <1>7 DEF Editorial!Deliver
<1> QED BY <1>8 DEF Editorial!Next

\* The adapter loses it before the target has accepted it.
LEMMA LosesIt ==
  ASSUME IInv, Current, NEW r \in Request, AdapterFails(r), call[r].step = "sending"
  PROVE  Editorial!Next
<1>1. /\ OthersWait(r) /\ Moved(r, "failed")
      /\ UNCHANGED <<drafts, approvals, editors, delivered>>
  BY AdapterFailsEffect DEF Turn
<1>2. ParcelOf(r)' = None /\ \A q \in Request : q # r => ParcelOf(q)' = ParcelOf(q)
  BY <1>1 DEF ParcelOf, OthersWait, Moved
<1>3. \A d \in Draft : LicenceOf(d)' = LicenceOf(d)
  BY <1>1 DEF LicenceOf
<1>4. CASE ParcelOf(r) # None
  <2>1. Editorial!Lose(r)
    BY <1>1, <1>2, <1>3, <1>4 DEF Editorial!Lose
  <2> QED BY <2>1 DEF Editorial!Next
<1>5. CASE ParcelOf(r) = None
  <2>1. \A q \in Request : ParcelOf(q)' = ParcelOf(q)
    BY <1>2, <1>5
  <2> QED BY <1>1, <1>3, <2>1, OnlyWithdraws
<1> QED BY <1>4, <1>5

\* Every first step of a call is an Edit or at most a Withdraw.
LEMMA StartImplements ==
  ASSUME IInv, Current, IInv', NEW r \in Request, Start(r)
  PROVE  Editorial!Next
<1>1. editors' \in [Draft -> SUBSET Actor]
  BY DEF IInv, TypeOK
<1>2. Onwards
  BY StartOnward
<1>3. ASSUME OthersWait(r), call[r].step = "idle", call'[r].step # "sending",
             UNCHANGED <<drafts, editors, delivered>>
      PROVE  Editorial!Next
  BY <1>2, <1>3, WithdrawsHere
<1>4. ASSUME NEW d \in Draft, NEW actor \in Actor, NEW author \in Actor, NEW text \in Text,
             NEW evidence \in Evidence, CreateDraft(r, d, actor, author, text, evidence)
      PROVE  Editorial!Next
  BY <1>1, <1>4, CreateDraftEffect, EditsIt DEF Turn
<1>5. ASSUME NEW d \in Draft, NEW actor \in Actor, NEW text \in Text, NEW evidence \in Evidence,
             BeginUpdate(r, d, actor, text, evidence)
      PROVE  Editorial!Next
  BY <1>3, <1>5, BeginUpdateEffect DEF Turn
<1>6. ASSUME NEW d \in Draft, BeginVerify(r, d) PROVE Editorial!Next
  BY <1>3, <1>6, BeginVerifyEffect DEF Turn
<1>7. ASSUME NEW d \in Draft, NEW actor \in Actor, NEW a \in Approval \cup {None},
             BeginGate(r, d, actor, a)
      PROVE  Editorial!Next
  BY <1>3, <1>7, BeginGateEffect DEF Turn
<1>8. ASSUME NEW d \in Draft, NEW actor \in Actor, NEW verdict \in {"approved", "rejected"},
             BeginDecide(r, d, actor, verdict)
      PROVE  Editorial!Next
  BY <1>3, <1>8, BeginDecideEffect DEF Turn
<1>9. ASSUME NEW d \in Draft, NEW p \in Publication, BeginPublish(r, d, p) PROVE Editorial!Next
  BY <1>3, <1>9, BeginPublishEffect DEF Turn
<1>10. ASSUME NEW outdated \in SUBSET Draft, ApplyRetention(r, outdated) PROVE Editorial!Next
  <2>1. /\ call[r].step = "idle" /\ UNCHANGED <<delivered, editors, call>>
        /\ \A d \in Draft : drafts'[d] = drafts[d] \/ drafts'[d].status = "deleted"
    BY <1>10, ApplyRetentionEffect DEF At
  <2>2. OthersWait(r)
    BY <2>1 DEF OthersWait
  <2> QED BY <1>2, <2>1, <2>2, WithdrawsHere
<1> QED BY <1>4, <1>5, <1>6, <1>7, <1>8, <1>9, <1>10 DEF Start

\* gate's UPDATE grants a licence when the policy allows the content, and else none.
LEMMA GateImplements ==
  ASSUME IInv, Current, NEW r \in Request, CommitGate(r)
  PROVE  Editorial!Next
<1>1. PICK d : d = call[r].draft
  OBVIOUS
<1> DEFINE row == call[r].row
<1>2. /\ OthersWait(r) /\ call[r].step = "gate" /\ d \in Draft /\ call'[r].step # "sending"
      /\ drafts[d].status = "verified" /\ drafts'[d].status = row.status
      /\ drafts'[d].approval = row.approval
      /\ drafts'[d].text = drafts[d].text /\ drafts'[d].evidence = drafts[d].evidence
      /\ OtherDrafts(d) /\ UNCHANGED <<approvals, delivered, editors>>
  BY <1>1, CommitGateEffect DEF Turn, NoCall
<1>3. /\ ContentOf(row) = ContentOf(drafts[d])
      /\ row.gate.effect = Effect[<<row.text, ContentOf(row)>>]
      /\ row.status = GateStatus(row.gate.effect)
      /\ row.approval = None <=> row.gate.effect # "require_approval"
  BY <1>1, <1>2 DEF Current, CallCurrent
<1>4. ContentOf(drafts[d]) \in Text \X Evidence
  BY <1>2 DEF IInv, DraftsComplete, Exists, ContentOf
<1>5. row.text = drafts[d].text
  BY <1>3 DEF ContentOf
<1>6. row.gate.effect \in {"allow", "require_approval", "deny"}
  BY <1>3, <1>4, <1>5, EffectAssumption DEF Report, ContentOf
<1>7. CASE row.status = "approved"
  <2>1. row.gate.effect = "allow" /\ row.approval = None
    BY <1>3, <1>6, <1>7 DEF GateStatus
  <2>2. Effect[<<drafts[d].text, ContentOf(drafts[d])>>] = "allow"
    BY <1>3, <1>5, <2>1
  <2>3. Exists(d) /\ drafts[d].status # "approved"
    BY <1>2 DEF Exists
  <2> QED BY <1>2, <1>7, <2>1, <2>2, <2>3, GrantsIt
<1>8. CASE row.status # "approved"
  <2>1. \A x \in Draft : drafts'[x] = drafts[x] \/ drafts'[x].status # "approved"
    BY <1>2, <1>8 DEF OtherDrafts
  <2> QED BY <1>2, <2>1, ApprovalsRest, WithdrawsHere
<1> QED BY <1>7, <1>8

\* decide's UPDATE grants one when the decider approved, and else none.
LEMMA DecisionImplements ==
  ASSUME IInv, Current, Outside, NEW r \in Request, WriteDecision(r)
  PROVE  Editorial!Next
<1>1. PICK d : d = call[r].draft
  OBVIOUS
<1> DEFINE row == call[r].row
           a == row.approval
<1>2. /\ OthersWait(r) /\ call[r].step = "write_decision" /\ d \in Draft
      /\ call'[r].step # "sending"
      /\ drafts[d].status = "awaiting_approval" /\ drafts'[d].status = row.status
      /\ drafts'[d].approval = drafts[d].approval
      /\ drafts'[d].text = drafts[d].text /\ drafts'[d].evidence = drafts[d].evidence
      /\ OtherDrafts(d) /\ UNCHANGED <<approvals, delivered, editors>>
  BY <1>1, WriteDecisionEffect DEF Turn, NoCall
<1>3. /\ drafts[d].approval = a /\ a # None
      /\ approvals[a].status = row.status /\ approvals[a].decidedBy = call[r].actor
  BY <1>1, <1>2 DEF Current, CallCurrent
<1>4. call[r].actor \in Actor \ editors[d]
  BY <1>1, <1>2 DEF IInv, CallInv, CallComplete, Outside, CallOutside
<1>5. CASE row.status = "approved"
  <2>1. Exists(d) /\ drafts[d].status # "approved"
    BY <1>2 DEF Exists
  <2> QED BY <1>2, <1>3, <1>4, <1>5, <2>1, GrantsIt
<1>6. CASE row.status # "approved"
  <2>1. \A x \in Draft : drafts'[x] = drafts[x] \/ drafts'[x].status # "approved"
    BY <1>2, <1>6 DEF OtherDrafts
  <2> QED BY <1>2, <2>1, ApprovalsRest, WithdrawsHere
<1> QED BY <1>5, <1>6

\* Every later step of a call is a step of EditorialControl or leaves its state alone.
LEMMA ContinueImplements ==
  ASSUME IInv, Current, Published, Outside, IInv', NEW r \in Request, Continue(r)
  PROVE  Editorial!Next
<1>1. PICK d : d = call[r].draft
  OBVIOUS
<1>2. PICK a : a = call[r].row.approval
  OBVIOUS
<1>3. PICK p : p = call[r].publication
  OBVIOUS
<1>4. Onwards
  BY ContinueOnward
<1>5. ASSUME OthersWait(r), call[r].step # "sending", call'[r].step # "sending",
             \A x \in Draft : drafts'[x] = drafts[x] \/ drafts'[x].status # "approved",
             UNCHANGED <<editors, delivered>>
      PROVE  Editorial!Next
  BY <1>4, <1>5, WithdrawsHere
<1>6. NoCall.step # "sending"
  BY DEF NoCall
<1>7. CASE RecordContribution(r)
  BY <1>1, <1>5, <1>6, <1>7, RecordContributionEffect DEF Turn
<1>8. CASE CommitUpdate(r)
  <2>1. editors' \in [Draft -> SUBSET Actor]
    BY DEF IInv, TypeOK
  <2> QED BY <1>1, <1>8, <2>1, CommitUpdateEffect, EditsIt DEF Turn, Moved
<1>9. CASE CommitVerify(r)
  BY <1>1, <1>5, <1>6, <1>9, CommitVerifyEffect DEF Turn, OtherDrafts
<1>10. CASE RequestApproval(r) \/ Expire(r) \/ Consume(r)
  BY <1>2, <1>5, <1>6, <1>10, RequestApprovalEffect, ExpireEffect, ConsumeEffect DEF Turn, Moved
<1>11. ASSUME NEW verdict \in {"approved", "rejected"}, CommitDecision(r, verdict)
       PROVE  Editorial!Next
  BY <1>2, <1>5, <1>11, CommitDecisionEffect DEF Turn, Moved
<1>12. CASE ReadForDecision(r)
  <2>1. /\ OthersWait(r) /\ call[r].step = "read_for_decision"
        /\ \/ Moved(r, "expire") \/ Moved(r, "decide_approved") \/ Moved(r, "decide_rejected")
           \/ call'[r] = NoCall
        /\ UNCHANGED <<drafts, editors, delivered>>
    BY <1>2, <1>12, ReadApprovalEffect DEF ReadForDecision, Turn
  <2> QED BY <1>5, <1>6, <2>1 DEF Moved
<1>13. CASE ReadForPublish(r) \/ ReadForConsume(r)
  <2>1. /\ OthersWait(r) /\ call[r].step \in {"read_for_publish", "read_for_consume"}
        /\ \/ Moved(r, "expire") \/ Moved(r, "insert") \/ Moved(r, "consume")
           \/ call'[r] = NoCall
        /\ UNCHANGED <<drafts, editors, delivered>>
    BY <1>2, <1>13, ReadApprovalEffect DEF ReadForPublish, ReadForConsume, Turn
  <2> QED BY <1>5, <1>6, <2>1 DEF Moved
<1>14. CASE ReceiveReceipt(r)
  BY <1>5, <1>14, ReceiveReceiptEffect DEF Turn, Moved
<1>15. CASE AdapterFails(r)
  <2>1. CASE call[r].step = "sending"
    BY <1>15, <2>1, LosesIt
  <2>2. CASE call[r].step # "sending"
    BY <1>5, <1>15, <2>2, AdapterFailsEffect DEF Turn, Moved
  <2> QED BY <2>1, <2>2
<1>16. CASE RecordFailure(r) \/ SettlePublication(r)
  BY <1>3, <1>5, <1>6, <1>16, RecordFailureEffect, SettlePublicationEffect DEF Turn, Moved
<1>17. CASE FinishPublish(r)
  BY <1>1, <1>5, <1>6, <1>17, FinishPublishEffect DEF Turn, OtherDrafts
<1> QED BY <1>7, <1>8, <1>9, <1>10, <1>11, <1>12, <1>13, <1>14, <1>15, <1>16, <1>17,
           GateImplements, DecisionImplements, DispatchesIt, DeliversIt DEF Continue

\* So is every step of the pipeline.
LEMMA NextImplements ==
  IInv /\ Current /\ Published /\ Outside /\ IInv' /\ [NextNoAbort]_vars
    => [Editorial!Next]_(Editorial!vars)
<1> SUFFICES ASSUME IInv, Current, Published, Outside, IInv', [NextNoAbort]_vars
             PROVE  [Editorial!Next]_(Editorial!vars)
  OBVIOUS
<1>1. ASSUME NEW a \in Approval, Age(a) PROVE Editorial!Next
  <2>1. Onwards /\ UNCHANGED <<drafts, editors, delivered, call>>
    BY <1>1, AgeEffect
  <2>2. \A d \in Draft : LicenceOf(d)' \in {LicenceOf(d), None}
    BY <2>1, LicenceRests
  <2>3. \A r \in Request : ParcelOf(r)' = ParcelOf(r)
    BY <2>1 DEF ParcelOf
  <2> QED BY <2>1, <2>2, <2>3, OnlyWithdraws
<1>2. CASE UNCHANGED vars
  <2>1. \A d \in Draft : LicenceOf(d)' = LicenceOf(d)
    BY <1>2 DEF vars, LicenceOf
  <2>2. \A r \in Request : ParcelOf(r)' = ParcelOf(r)
    BY <1>2 DEF vars, ParcelOf
  <2> QED BY <1>2, <2>1, <2>2 DEF vars, Editorial!vars
<1> QED BY <1>1, <1>2, StartImplements, ContinueImplements DEF NextNoAbort

\* The empty database maps to nothing edited, licensed, sent or released.
LEMMA InitImplements == Init => Editorial!Init
<1> SUFFICES ASSUME Init PROVE Editorial!Init
  OBVIOUS
<1>1. \A d \in Draft : LicenceOf(d) = None
  BY DEF Init, LicenceOf, NoDraft
<1>2. \A r \in Request : ParcelOf(r) = None
  BY DEF Init, ParcelOf, NoCall
<1> QED BY <1>1, <1>2 DEF Init, Editorial!Init

\* The content pipeline of one process, with no call cut short, implements
\* EditorialControl: nothing reaches a target but under a licence for exactly that
\* content, which the policy gave, or a person with no hand in the draft, and which no
\* edit has outlived, for any number of drafts, calls, actors and approvals (pipeline.ts
\* and approvals.ts as a whole).
THEOREM PipelineImplementsEditorialControl ==
  SingleProcess => (SpecNoAbort => ImplementsEditorialControl)
<1> SUFFICES ASSUME SingleProcess PROVE SpecNoAbort => ImplementsEditorialControl
  OBVIOUS
<1>1. IInv /\ Current /\ Published /\ Outside /\ IInv' /\ [NextNoAbort]_vars
        => [Editorial!Next]_(Editorial!vars)
  BY NextImplements
<1>2. Spec => [](IInv /\ Current)
  BY AlwaysCurrent
<1>3. Spec => []Published
  BY AlwaysPublished
<1>4. SpecNoAbort => []Outside
  BY AlwaysAccounted, PTL
<1> QED BY <1>1, <1>2, <1>3, <1>4, NoAbortIsSpec, InitImplements, PTL
        DEF SpecNoAbort, ImplementsEditorialControl, Editorial!Spec
=============================================================================
