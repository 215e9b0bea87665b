---------------------------- MODULE MCKnowledge ----------------------------
\* Finite instances of the knowledge store.
EXTENDS KnowledgeStore, TLC

CONSTANTS tail, titled, poison, bank, person

\* Texts with a person's name in a part that no chunk has, there and in the title, and in
\* a chunk; the last one carries an instruction too.
MCMentioned == [c \in Content |-> IF c \in Naming THEN {bank, person} ELSE {bank}]

Symmetry == Permutations(SourceId) \cup Permutations(DocumentId)
              \cup Permutations(Call)
=============================================================================
