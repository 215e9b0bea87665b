------------------------------- MODULE Policy -------------------------------
(***************************************************************************)
(* The rules of packages/core/src/governance/policy.ts: which models may   *)
(* see which data classes, and what the publication gate says of a draft.  *)
(*                                                                         *)
(* A decision is known by its effect; the texts that explain it are left   *)
(* out, except that the gate counts its blockers and its reasons.          *)
(***************************************************************************)
EXTENDS Integers, FiniteSets

-----------------------------------------------------------------------------
(* Model access *)

\* A requirement names, for some attributes of a registry entry, the values it accepts:
\* one value, the values of a list, or the numbers up to a limit.
RequirementSatisfied(require, model) ==
  \A a \in DOMAIN require : model[a] \in require[a]

\* The rules with this effect that match the model for this class.
Matching(rules, effect, class, model) ==
  {r \in rules : /\ r.effect = effect /\ class \in r.classes
                 /\ RequirementSatisfied(r.require, model)}

\* The registry entry is a ceiling, a deny rule that matches decides, and without a
\* matching allow rule the class is denied.
ClassAllowed(rules, model, class) ==
  /\ class \in model.allowed
  /\ Matching(rules, "deny", class, model) = {}
  /\ Matching(rules, "allow", class, model) # {}

SomeClass(rules, model, classes) ==                                         \* mutant
  IF \E c \in classes : ClassAllowed(rules, model, c) THEN "allow" ELSE "deny"

\* Every class of the request has to be allowed; a request without classes is public.
EvaluateModelAccess(rules, model, classes) ==
  LET asked == IF classes = {} THEN {"public"} ELSE classes
  IN  IF \A c \in asked : ClassAllowed(rules, model, c) THEN "allow" ELSE "deny"

-----------------------------------------------------------------------------
(* Publication *)

\* A readiness of NoScore is null: no analysis is attached to the draft.
NoScore == -1

\* What blocks the publication, each with the rule it comes from.
Blockers(p, facts) ==
  {b \in {"unsupported", "coverage", "source_kind"} :
     CASE b = "unsupported" -> p.blockUnsupported /\ facts.unsupported > 0
       [] b = "coverage"    -> facts.coverage < p.blockCoverageBelow
       [] b = "source_kind" -> facts.kinds \cap p.prohibitedKinds # {}}

ReadinessReason(p, facts) ==
  IF facts.readiness = NoScore THEN p.readinessUnknown
                               ELSE facts.readiness < p.readinessBelow

\* What a human has to approve.
ApprovalReasons(p, facts) ==
  {r \in {"always", "ai", "readiness", "coverage", "topic"} :
     CASE r = "always"    -> p.always
       [] r = "ai"        -> p.approveAi /\ facts.aiAssisted
       [] r = "readiness" -> ReadinessReason(p, facts)
       [] r = "coverage"  -> facts.coverage < p.approveCoverageBelow
       [] r = "topic"     -> facts.topics \cap p.sensitiveTopics # {}}

ApprovalFirst(p, facts) ==                                                  \* mutant
  IF ApprovalReasons(p, facts) # {} THEN "require_approval"
  ELSE IF Blockers(p, facts) # {} THEN "deny" ELSE "allow"

\* The gate: blockers come first.
Effect(p, facts) ==
  IF Blockers(p, facts) # {} THEN "deny"
  ELSE IF ApprovalReasons(p, facts) # {} THEN "require_approval" ELSE "allow"

RequiresDisclosure(p, facts) == facts.aiAssisted /\ p.disclosure
RequiresMarking(p, facts)    == RequiresDisclosure(p, facts) /\ p.marking

EvaluatePublication(p, facts) ==
  [effect |-> Effect(p, facts), disclosure |-> RequiresDisclosure(p, facts),
   marking |-> RequiresMarking(p, facts)]

-----------------------------------------------------------------------------
(* Properties *)

Rank == [allow |-> 0, require_approval |-> 1, deny |-> 2]

\* Facts g are no better than f.  A draft without an analysis compares with no score.
NoBetter(g, f) ==
  /\ f.aiAssisted => g.aiAssisted
  /\ g.readiness = f.readiness \/ (NoScore \notin {f.readiness, g.readiness} /\ g.readiness < f.readiness)
  /\ g.coverage <= f.coverage /\ g.unsupported >= f.unsupported
  /\ f.topics \subseteq g.topics /\ f.kinds \subseteq g.kinds

\* Under policy p, facts that are worse in any respect never get a decision that is more
\* lenient, nor lose a mark (policy.ts evaluatePublication).
WorseNeverEasier(p, F) ==
  \A f, g \in F : NoBetter(g, f) =>
    /\ Rank[EvaluatePublication(p, f).effect] <= Rank[EvaluatePublication(p, g).effect]
    /\ EvaluatePublication(p, f).marking => EvaluatePublication(p, g).marking

\* A model that is allowed for some classes is allowed for each of them alone, each is
\* within its registry entry, and neither a deny rule more nor an allow rule less makes
\* allowed what was denied (policy.ts evaluateModelAccess).
NeverWidens(rules, model, classes) ==
  /\ EvaluateModelAccess(rules, model, classes) = "allow" =>
       /\ classes \subseteq model.allowed
       /\ \A c \in classes : EvaluateModelAccess(rules, model, {c}) = "allow"
  /\ \A r \in rules :
       LET others == EvaluateModelAccess(rules \ {r}, model, classes)
           all    == EvaluateModelAccess(rules, model, classes)
       IN  IF r.effect = "deny" THEN all = "allow" => others = "allow"
                                ELSE others = "allow" => all = "allow"
=============================================================================
