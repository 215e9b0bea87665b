----------------------------- MODULE MCConsole -----------------------------
EXTENDS Console, TLC

CONSTANTS ann, bob, k1, k2, r1, r2

\* Keys, requests and users are alike.
Symmetry == Permutations(Key) \cup Permutations(Request) \cup Permutations(User)
=============================================================================
