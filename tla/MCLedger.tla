------------------------------ MODULE MCLedger ------------------------------
\* Finite instances of the audit ledger.
EXTENDS AuditLedger, TLC

Symmetry == Permutations(Writer) \cup Permutations(Content)
=============================================================================
