------------------------- MODULE EditorialControl --------------------------
(***************************************************************************)
(* What the content pipeline promises its readers, without its mechanism:  *)
(* an artefact leaves only under a licence; a licence is for one piece of  *)
(* content of one draft, is given by the policy or by a person who has had *)
(* no hand in that draft, and is lost as soon as the draft is edited.      *)
(* ContentPipeline implements this with statuses, approval rows, payload   *)
(* hashes and the ledger (PipelineRefinement).                             *)
(***************************************************************************)
CONSTANTS Draft, Content, Actor, Courier,
          Allowed,   \* content the policy lets out unseen
          None

VARIABLES
  editors,   \* who has created or edited each draft
  licence,   \* the licence each draft holds: its content and who gave it
  outgoing,  \* what each courier carries to a publishing target
  released   \* what the targets hold

vars == <<editors, licence, outgoing, released>>

\* by = None: the policy gave it.
Licence == [content : Content, by : Actor \cup {None}]
Parcel  == Draft \X Content

Init ==
  /\ editors = [d \in Draft |-> {}]
  /\ licence = [d \in Draft |-> None]
  /\ outgoing = [k \in Courier |-> None]
  /\ released = {}

\* An edit costs the draft its licence.
Edit(d, who) ==
  /\ editors' = [editors EXCEPT ![d] = @ \cup {who}]
  /\ licence' = [licence EXCEPT ![d] = None]
  /\ UNCHANGED <<outgoing, released>>

Grant(d, l) ==
  /\ licence[d] = None
  /\ IF l.by = None THEN l.content \in Allowed ELSE l.by \notin editors[d]
  /\ licence' = [licence EXCEPT ![d] = l]
  /\ UNCHANGED <<editors, outgoing, released>>

\* Licences may be withdrawn at any time, several at once: they expire, are used
\* up, or the draft is verified again.
Withdraw(D) ==
  /\ licence' = [d \in Draft |-> IF d \in D THEN None ELSE licence[d]]
  /\ UNCHANGED <<editors, outgoing, released>>

Dispatch(d, k) ==
  /\ licence[d] # None /\ outgoing[k] = None
  /\ outgoing' = [outgoing EXCEPT ![k] = <<d, licence[d].content>>]
  /\ UNCHANGED <<editors, licence, released>>

Deliver(k) ==
  /\ outgoing[k] # None
  /\ released' = released \cup {outgoing[k]}
  /\ outgoing' = [outgoing EXCEPT ![k] = None]
  /\ UNCHANGED <<editors, licence>>

Lose(k) ==
  /\ outgoing[k] # None
  /\ outgoing' = [outgoing EXCEPT ![k] = None]
  /\ UNCHANGED <<editors, licence, released>>

Next ==
  \/ \E d \in Draft : \/ \E who \in Actor : Edit(d, who)
                      \/ \E l \in Licence : Grant(d, l)
                      \/ \E k \in Courier : Dispatch(d, k)
  \/ \E D \in SUBSET Draft : Withdraw(D)
  \/ \E k \in Courier : Deliver(k) \/ Lose(k)

Spec == Init /\ [][Next]_vars
=============================================================================
