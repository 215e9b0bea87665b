------------------------ MODULE PipelineProperties -------------------------
(***************************************************************************)
(* What the content pipeline promises.  The properties fall in two groups: *)
(* those that hold for any number of processes and any failure, and those  *)
(* that need the synchronous sections of pipeline.ts to be atomic, which   *)
(* only a single process gives them.  README.md says which run checks      *)
(* which.                                                                  *)
(***************************************************************************)
EXTENDS ContentPipeline

ContentOf(x) == <<x.text, x.evidence>>

(***************************************************************************)
(* Any deployment                                                          *)
(***************************************************************************)

\* An artefact sent on the strength of an approval has exactly the text whose
\* hash the approval holds, and a person other than its requester decided it
\* (pipeline.ts publish, approvals.ts assertValid and decide).
DeliveredUnderItsApproval ==
  \A x \in delivered : x.approval # None =>
    LET a == approvals[x.approval] IN
    /\ a.draft = x.draft /\ a.payload = x.text
    /\ a.decidedBy \notin {None, a.requestedBy}

\* An approval is consumed only after a target has accepted an artefact that it
\* covers: a publication that fails does not use it up (pipeline.ts publish).
ConsumedWasDelivered ==
  \A a \in Approval : approvals[a].status = "consumed" =>
    \E x \in delivered : x.approval = a /\ x.text = approvals[a].payload

(***************************************************************************)
(* A single process                                                        *)
(***************************************************************************)

\* Whatever a target has accepted, evidence included, was cleared in that very
\* form: the policy allows it as it stands, or it is what an approver was shown
\* and decided on (pipeline.ts gate, decide and publish).
DeliveredAsCleared ==
  \A x \in delivered :
    IF x.approval = None
    THEN Effect[<<x.text, ContentOf(x)>>] = "allow"
    ELSE /\ approvals[x.approval].reviewed = ContentOf(x)
         /\ approvals[x.approval].decidedBy # None

\* A draft that stands approved on a person's decision was approved by someone who
\* neither wrote it, nor edited it, nor requested the approval (pipeline.ts
\* contributors and decide; approvals.ts decide).
ApprovedByOutsider ==
  \A d \in Draft :
    LET a == approvals[drafts[d].approval] IN
    drafts[d].status = "approved" /\ drafts[d].approval # None =>
      a.decidedBy \notin editors[d] \cup {None, drafts[d].author, a.requestedBy}

\* One approval settles at most one publication (approvals.ts consume).
OnePublicationPerApproval ==
  \A x, y \in delivered :
    /\ x.approval = y.approval /\ x.approval # None
    /\ publications[x.publication].status = "published"
    /\ publications[y.publication].status = "published"
    => x.publication = y.publication

\* When nothing is cut short, a publication that its call has left pending is one
\* whose artefact the target did accept, but whose approval was spent or expired by
\* the time the receipt came back (pipeline.ts publish).
PendingOnlyIfApprovalLost ==
  \A p \in Publication :
    publications[p].status = "pending" /\ (\A r \in Request : call[r].publication # p) =>
      \E x \in delivered :
        /\ x.publication = p /\ x.approval # None
        /\ approvals[x.approval].status # "approved"

\* The states an approval goes through: decided once, spent or expired once, and
\* then only removed by retention (approvals.ts, retention.ts).
Later(status) ==
  CASE status = "none"     -> {"pending"}
    [] status = "pending"  -> {"approved", "rejected", "expired", "deleted"}
    [] status = "approved" -> {"consumed", "expired", "deleted"}
    [] status \in {"rejected", "consumed", "expired"} -> {"deleted"}
    [] status = "deleted"  -> {}

ApprovalLifecycle ==
  [][\A a \in Approval : approvals'[a].status # approvals[a].status =>
       approvals'[a].status \in Later(approvals[a].status)]_approvals

\* Nothing changes a published draft (pipeline.ts updateDraft and verify).
PublishedImmutable ==
  [][\A d \in Draft : drafts[d].status = "published" => drafts'[d] = drafts[d]]_drafts

(***************************************************************************)
(* Claims of the documentation that the code does not keep                 *)
(***************************************************************************)

\* "edits reset the draft" (docs/ARCHITECTURE.md:77; pipeline.ts:24): an edit costs
\* a draft its clearance, so a draft that ends up published holds a text that a target
\* accepted.  updateDraft can change the row while publish() awaits its adapter, and
\* publish() then sets the status without looking.
PublishedWasDelivered ==
  \A d \in Draft : drafts[d].status = "published" =>
    \E x \in delivered : x.draft = d /\ x.text = drafts[d].text

\* "Approvals bound to sha256(body) and consumed once"
\* (docs/SECURITY_ARCHITECTURE.md:58): one approval lets one artefact out.
OneDeliveryPerApproval ==
  \A x, y \in delivered : x.approval = y.approval /\ x.approval # None =>
    x.publication = y.publication

\* "only claim 'approved by' when an approval exists"
\* (docs/reviews/ADVERSARIAL_REVIEW.md:151): the approver a publication names, in the
\* disclosure and in its draft.publish event, approved it.
NamedApproverApproved ==
  \A x \in delivered : x.reviewer # None =>
    x.approval # None /\ approvals[x.approval].decidedBy = x.reviewer

(***************************************************************************)
(* Liveness                                                                *)
(***************************************************************************)

\* Calls that are not cut short go on: a Node process runs the continuations that
\* are ready in turn (hence strong fairness: CanRun(r) is false while another call
\* is inside a synchronous section), and every network adapter answers or fails
\* within the time limit of safeFetch.
FairSpec == SpecNoAbort /\ \A r \in Request : SF_vars(Continue(r))

\* Every call returns or throws; none waits for a state that never comes.
CallsReturn == \A r \in Request : call[r].step # "idle" ~> call[r].step = "idle"
=============================================================================
