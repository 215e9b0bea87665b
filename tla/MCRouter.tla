----------------------------- MODULE MCRouter ------------------------------
\* Finite instances of the model router.
EXTENDS ModelRouter

CONSTANTS eu, fr, local, personal

\* eu and fr chat, local, which has no price, embeds; the record of eu changes.
Seeing(status) == [status |-> status, classes |-> {personal}]
MCRegistered == [m \in Model |-> Seeing("approved")]
MCInput  == [m \in Model |-> IF m = eu THEN {Seeing(s) : s \in Status} ELSE {}]
MCDoes   == [m \in Model |-> IF m = local THEN {"embeddings"} ELSE {"chat"}]
MCPrice  == [m \in Model |-> IF m = local THEN {None} ELSE {1}]
=============================================================================
