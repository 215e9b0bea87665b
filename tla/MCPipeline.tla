---------------------------- MODULE MCPipeline -----------------------------
\* Finite instances of the content pipeline.
EXTENDS PipelineRefinement, TLC

CONSTANTS d1, t1, t2, e1, e2, ann, bob, r1, r2, p1, p2

\* t1 stands for AI-assisted text, which the default policy lets out only with an
\* approval; t2 for text that it allows.  Evidence e2 does not support either.
MCEffect == [x \in Text \X Report |->
  IF x[2][2] = e2 THEN "deny" ELSE IF x[1] = t1 THEN "require_approval" ELSE "allow"]

OneProcess   == [r \in Request |-> p1]
TwoProcesses == (r1 :> p1) @@ (r2 :> p2)

\* The state after ann has created d1 with text t1: where the larger runs start, to
\* spend their states on what follows.
InitCreated ==
  /\ drafts = [d \in Draft |-> [NoDraft EXCEPT !.status = "draft", !.text = t1,
                                  !.evidence = e1, !.author = ann]]
  /\ contributed = [d \in Draft |-> {ann}]
  /\ editors = [d \in Draft |-> {ann}]
  /\ approvals = [a \in Approval |-> NoApproval]
  /\ publications = [p \in Publication |-> [status |-> "none", draft |-> None]]
  /\ delivered = {}
  /\ call = [r \in Request |-> NoCall]

SpecCreated        == InitCreated /\ [][Next]_vars
SpecCreatedNoAbort == InitCreated /\ [][NextNoAbort]_vars

IdSymmetry   == Permutations(Approval) \cup Permutations(Publication)
CallSymmetry == IdSymmetry \cup Permutations(Request)
Symmetry     == CallSymmetry \cup Permutations(Actor)
=============================================================================
