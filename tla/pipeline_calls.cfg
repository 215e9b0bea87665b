SPECIFICATION FairSpec
CONSTANTS
  None = None
  d1 = d1  t1 = t1  t2 = t2  e1 = e1  e2 = e2
  ann = ann  bob = bob  r1 = r1  r2 = r2  p1 = p1  p2 = p2
  Draft = {d1}  Text = {t1, t2}  Evidence = {e1}  Actor = {ann, bob}
  Approval = {a1}  Publication = {b1}
  Request = {r1, r2}  Process = {p1}
  Host <- OneProcess  Effect <- MCEffect
  Marked = {t1}  SigningKey = TRUE
\* The ids run out and everything may end published.
CHECK_DEADLOCK FALSE
INVARIANTS PendingOnlyIfApprovalLost ApprovedByOutsider
PROPERTIES CallsReturn ImplementsEditorialControl
