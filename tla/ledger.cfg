SPECIFICATION Spec
CONSTANTS
  None = None  EmptyText = EmptyText
  Writer = {w1, w2}  Content = {c1}  RequestId = {i1}
  MaxSeq = 3
SYMMETRY Symmetry
INVARIANTS TypeOK ChainVerifies VerifiedIsAsWritten
PROPERTIES AppendOnly
