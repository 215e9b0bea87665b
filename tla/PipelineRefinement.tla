------------------------ MODULE PipelineRefinement -------------------------
(***************************************************************************)
(* The content pipeline of one process, with no call cut short, implements *)
(* EditorialControl.                                                       *)
(***************************************************************************)
EXTENDS PipelineProperties

\* A draft holds a licence while publish() would let it out: it stands approved,
\* and the approval it stands on, if any, has been neither spent nor expired.
LicenceOf(d) ==
  LET row == drafts[d]
      a == row.approval IN
  IF row.status = "approved" /\ (a # None => approvals[a].status = "approved")
  THEN [content |-> <<row.text, row.evidence>>,
        by |-> IF a = None THEN None ELSE approvals[a].decidedBy]
  ELSE None

\* What a call is handing to a publishing target.
ParcelOf(r) ==
  IF call[r].step = "sending" THEN <<call[r].draft, ContentOf(call[r].row)>> ELSE None

Editorial == INSTANCE EditorialControl WITH
  Content  <- Text \X Evidence,
  Courier  <- Request,
  Allowed  <- {c \in Text \X Evidence : Effect[<<c[1], c>>] = "allow"},
  licence  <- [d \in Draft |-> LicenceOf(d)],
  outgoing <- [r \in Request |-> ParcelOf(r)],
  released <- {<<x.draft, ContentOf(x)>> : x \in delivered}

\* SQL NULL is neither a licence nor something a courier carries.
ASSUME NoneIsNothing == None \notin Editorial!Licence \cup Editorial!Parcel

\* Every step of the pipeline is a step of EditorialControl or leaves its state
\* alone (pipeline.ts as a whole).
ImplementsEditorialControl == Editorial!Spec
=============================================================================
