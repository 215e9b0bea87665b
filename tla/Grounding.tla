----------------------------- MODULE Grounding ------------------------------
(***************************************************************************)
(* The verification of a draft against its evidence                        *)
(* (packages/core/src/content/grounding.ts).                               *)
(*                                                                         *)
(* A sentence is known by what the comparison looks at: its markers, the   *)
(* specifics that have to appear in the evidence as they are (figures with *)
(* their units, qualifiers, proper nouns), its negations, and the share of *)
(* its content words that each item of evidence has, in percent.  An item  *)
(* is known by its specifics and by the negations of the sentence that     *)
(* matches best.                                                           *)
(***************************************************************************)
EXTENDS Integers, FiniteSets, FiniteSetsExt

FiguresIgnored(s, item, id) ==                                              \* mutant
  s.overlap[id] >= 30 /\ s.negations = item.negations

\* supports().
Supports(s, item, id) ==
  /\ s.overlap[id] >= 30
  /\ s.specifics \subseteq item.specifics
  /\ s.negations = item.negations

\* Evidence is a function of ids.  Markers that name no item are passed over; a sentence
\* without markers is held against every item.
Candidates(s, evidence) ==
  IF s.markers # {} THEN s.markers \cap DOMAIN evidence ELSE DOMAIN evidence

SupportedBy(s, evidence) == {id \in Candidates(s, evidence) : Supports(s, evidence[id], id)}

\* Without a marker the overlap has to be stronger.
Supported(s, evidence) ==
  IF s.markers # {} THEN SupportedBy(s, evidence) # {}
  ELSE \E id \in SupportedBy(s, evidence) : s.overlap[id] >= 45

\* verifyDraft: the sentences in which extractClaims finds a claim are the material ones.
VerifyDraft(draft, evidence) ==
  LET material == {i \in DOMAIN draft : draft[i].material}
      supported == {i \in material : Supported(draft[i], evidence)}
      cited == UNION {draft[i].markers : i \in DOMAIN draft}
  IN  [claims |-> [i \in material |-> IF i \in supported THEN SupportedBy(draft[i], evidence) ELSE {}],
       supported |-> Cardinality(supported),
       unsupported |-> Cardinality(material) - Cardinality(supported),
       coverage |-> IF material = {} THEN 100
                    ELSE (100 * Cardinality(supported)) \div Cardinality(material),
       cited |-> cited,
       uncited |-> DOMAIN evidence \ cited]

-----------------------------------------------------------------------------
(* Properties *)

\* A material sentence that states something no item it may rely on contains: one it
\* cites, or any when it cites none.
Fabricated(s, evidence) ==
  /\ s.material
  /\ \A id \in DOMAIN evidence :
       (s.markers = {} \/ id \in s.markers) => ~(s.specifics \subseteq evidence[id].specifics)

\* A report finds every fabricated sentence, and no evidence added to what a draft
\* already has makes a supported claim unsupported (grounding.ts verifyDraft).
ReportSound(draft, evidence) ==
  LET report == VerifyDraft(draft, evidence)
  IN  /\ \A i \in DOMAIN draft : Fabricated(draft[i], evidence) => report.claims[i] = {}
      /\ (\E i \in DOMAIN draft : Fabricated(draft[i], evidence)) =>
           report.unsupported > 0 /\ report.coverage < 100
      /\ \A id \in DOMAIN evidence :
           LET less == VerifyDraft(draft, [x \in DOMAIN evidence \ {id} |-> evidence[x]])
           IN  less.unsupported >= report.unsupported
=============================================================================
