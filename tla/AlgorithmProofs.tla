-------------------------- MODULE AlgorithmProofs --------------------------
(***************************************************************************)
(* Theorems about the pure functions that decide what may be published,    *)
(* which model may see what and what a crawler may fetch, about the        *)
(* chunker, the readiness score, the report of the observatory and the     *)
(* page of a draft, on any input; and what they say of the tasks of        *)
(* MCAlgorithms.                                                           *)
(***************************************************************************)
EXTENDS MCAlgorithms, FiniteSetTheorems, WellFoundedInduction, TLAPS

-----------------------------------------------------------------------------
(* Policy *)

\* The facts of a draft, with any topics and kinds, and the policies for them.
FactsOf(T, K) ==
  [aiAssisted : BOOLEAN, readiness : Int, coverage : Int, unsupported : Int,
   topics : SUBSET T, kinds : SUBSET K]
PolicyOf(T, K) ==
  [blockUnsupported : BOOLEAN, blockCoverageBelow : Int, prohibitedKinds : SUBSET K,
   always : BOOLEAN, approveAi : BOOLEAN, readinessBelow : Int, readinessUnknown : BOOLEAN,
   approveCoverageBelow : Int, sensitiveTopics : SUBSET T, disclosure : BOOLEAN,
   marking : BOOLEAN]

\* What blocks a draft blocks one that is no better.
LEMMA BlockersGrow ==
  ASSUME NEW T, NEW K, NEW p \in PolicyOf(T, K), NEW f \in FactsOf(T, K), NEW g \in FactsOf(T, K),
         NoBetter(g, f)
  PROVE  Blockers(p, f) \subseteq Blockers(p, g)
<1>1. "unsupported" \in Blockers(p, f) => "unsupported" \in Blockers(p, g)
  BY DEF Blockers, NoBetter, FactsOf, PolicyOf
<1>2. "coverage" \in Blockers(p, f) => "coverage" \in Blockers(p, g)
  BY DEF Blockers, NoBetter, FactsOf, PolicyOf
<1>3. "source_kind" \in Blockers(p, f) => "source_kind" \in Blockers(p, g)
  BY DEF Blockers, NoBetter, FactsOf, PolicyOf
<1> QED BY <1>1, <1>2, <1>3 DEF Blockers

\* What a human has to approve of a draft, a human has to approve of one that is no better.
LEMMA ReasonsGrow ==
  ASSUME NEW T, NEW K, NEW p \in PolicyOf(T, K), NEW f \in FactsOf(T, K), NEW g \in FactsOf(T, K),
         NoBetter(g, f)
  PROVE  ApprovalReasons(p, f) \subseteq ApprovalReasons(p, g)
<1>1. "always" \in ApprovalReasons(p, f) => "always" \in ApprovalReasons(p, g)
  BY DEF ApprovalReasons
<1>2. "ai" \in ApprovalReasons(p, f) => "ai" \in ApprovalReasons(p, g)
  BY DEF ApprovalReasons, NoBetter, FactsOf, PolicyOf
<1>3. "readiness" \in ApprovalReasons(p, f) => "readiness" \in ApprovalReasons(p, g)
  <2>1. ReadinessReason(p, f) => ReadinessReason(p, g)
    BY DEF ReadinessReason, NoBetter, NoScore, FactsOf, PolicyOf
  <2> QED BY <2>1 DEF ApprovalReasons
<1>4. "coverage" \in ApprovalReasons(p, f) => "coverage" \in ApprovalReasons(p, g)
  BY DEF ApprovalReasons, NoBetter, FactsOf, PolicyOf
<1>5. "topic" \in ApprovalReasons(p, f) => "topic" \in ApprovalReasons(p, g)
  BY DEF ApprovalReasons, NoBetter, FactsOf, PolicyOf
<1> QED BY <1>1, <1>2, <1>3, <1>4, <1>5 DEF ApprovalReasons

\* Under any policy, facts that are worse in any respect never get a decision that is more
\* lenient, nor lose a mark (policy.ts evaluatePublication).
THEOREM GateMonotone ==
  \A T, K : \A p \in PolicyOf(T, K), F \in SUBSET FactsOf(T, K) : WorseNeverEasier(p, F)
<1> SUFFICES ASSUME NEW T, NEW K, NEW p \in PolicyOf(T, K), NEW F \in SUBSET FactsOf(T, K),
                    NEW f \in F, NEW g \in F, NoBetter(g, f)
             PROVE  /\ Rank[EvaluatePublication(p, f).effect] <= Rank[EvaluatePublication(p, g).effect]
                    /\ EvaluatePublication(p, f).marking => EvaluatePublication(p, g).marking
  BY DEF WorseNeverEasier
<1>1. Blockers(p, f) \subseteq Blockers(p, g) /\ ApprovalReasons(p, f) \subseteq ApprovalReasons(p, g)
  BY BlockersGrow, ReasonsGrow
<1>2. Rank[Effect(p, f)] <= Rank[Effect(p, g)]
  BY <1>1 DEF Effect, Rank
<1>3. RequiresMarking(p, f) => RequiresMarking(p, g)
  BY DEF RequiresMarking, RequiresDisclosure, NoBetter
<1>4. \A h : /\ EvaluatePublication(p, h).effect = Effect(p, h)
             /\ EvaluatePublication(p, h).marking = RequiresMarking(p, h)
  BY DEF EvaluatePublication
<1> QED BY <1>2, <1>3, <1>4

\* A model that is allowed for some classes is allowed for each of them alone, within its
\* registry entry; neither a deny rule more nor an allow rule less makes allowed what was
\* denied: for any rules, model and classes (policy.ts evaluateModelAccess).
THEOREM AccessNeverWidens == \A rules, model, classes : NeverWidens(rules, model, classes)
<1> SUFFICES ASSUME NEW rules, NEW model, NEW classes PROVE NeverWidens(rules, model, classes)
  OBVIOUS
<1> DEFINE Asked(cs) == IF cs = {} THEN {"public"} ELSE cs
<1>1. \A rs, cs : EvaluateModelAccess(rs, model, cs) = "allow"
                    <=> \A c \in Asked(cs) : ClassAllowed(rs, model, c)
  BY DEF EvaluateModelAccess
<1>2. ASSUME EvaluateModelAccess(rules, model, classes) = "allow"
      PROVE  /\ classes \subseteq model.allowed
             /\ \A c \in classes : EvaluateModelAccess(rules, model, {c}) = "allow"
  <2>1. \A c \in classes : ClassAllowed(rules, model, c)
    BY <1>1, <1>2
  <2>2. classes \subseteq model.allowed
    BY <2>1 DEF ClassAllowed
  <2>3. ASSUME NEW c \in classes PROVE EvaluateModelAccess(rules, model, {c}) = "allow"
    <3>1. Asked({c}) = {c}
      OBVIOUS
    <3> HIDE DEF Asked
    <3> QED BY <1>1, <2>1, <3>1
  <2> QED BY <2>2, <2>3
<1>3. ASSUME NEW r \in rules, r.effect = "deny",
             EvaluateModelAccess(rules, model, classes) = "allow"
      PROVE  EvaluateModelAccess(rules \ {r}, model, classes) = "allow"
  <2>1. \A c : /\ Matching(rules \ {r}, "deny", c, model) \subseteq Matching(rules, "deny", c, model)
               /\ Matching(rules \ {r}, "allow", c, model) = Matching(rules, "allow", c, model)
    BY <1>3 DEF Matching
  <2>2. \A c : ClassAllowed(rules, model, c) => ClassAllowed(rules \ {r}, model, c)
    BY <2>1 DEF ClassAllowed
  <2> QED BY <1>1, <1>3, <2>2
<1>4. ASSUME NEW r \in rules, r.effect # "deny",
             EvaluateModelAccess(rules \ {r}, model, classes) = "allow"
      PROVE  EvaluateModelAccess(rules, model, classes) = "allow"
  <2>1. \A c : /\ Matching(rules \ {r}, "deny", c, model) = Matching(rules, "deny", c, model)
               /\ Matching(rules \ {r}, "allow", c, model) \subseteq Matching(rules, "allow", c, model)
    BY <1>4 DEF Matching
  <2>2. \A c : ClassAllowed(rules \ {r}, model, c) => ClassAllowed(rules, model, c)
    BY <2>1 DEF ClassAllowed
  <2> QED BY <1>1, <1>4, <2>2
<1> QED BY <1>2, <1>3, <1>4 DEF NeverWidens

-----------------------------------------------------------------------------
(* Grounding *)

Material(draft) == {i \in DOMAIN draft : draft[i].material}
SupportedIn(draft, evidence) == {i \in Material(draft) : Supported(draft[i], evidence)}

\* What a report says, of a draft of finitely many sentences.
LEMMA ReportSays ==
  ASSUME NEW draft, NEW evidence, IsFiniteSet(DOMAIN draft)
  PROVE  LET report == VerifyDraft(draft, evidence)
             all == Cardinality(Material(draft))
             good == Cardinality(SupportedIn(draft, evidence))
         IN  /\ report.unsupported = all - good /\ all \in Nat /\ good \in Nat /\ good <= all
             /\ report.coverage = IF Material(draft) = {} THEN 100 ELSE (100 * good) \div all
             /\ \A i \in Material(draft) :
                  i \notin SupportedIn(draft, evidence) => report.claims[i] = {} /\ good < all
<1> DEFINE M == Material(draft)
           S == SupportedIn(draft, evidence)
<1>1. IsFiniteSet(M) /\ S \in SUBSET M
  BY FS_Subset DEF Material, SupportedIn
<1>2. VerifyDraft(draft, evidence) =
        [claims |-> [i \in M |-> IF i \in S THEN SupportedBy(draft[i], evidence) ELSE {}],
         supported |-> Cardinality(S), unsupported |-> Cardinality(M) - Cardinality(S),
         coverage |-> IF M = {} THEN 100 ELSE (100 * Cardinality(S)) \div Cardinality(M),
         cited |-> UNION {draft[i].markers : i \in DOMAIN draft},
         uncited |-> DOMAIN evidence \ UNION {draft[i].markers : i \in DOMAIN draft}]
  BY DEF VerifyDraft, Material, SupportedIn
<1> HIDE DEF M, S
<1>3. /\ Cardinality(M) \in Nat /\ Cardinality(S) \in Nat /\ Cardinality(S) <= Cardinality(M)
      /\ Cardinality(S) = Cardinality(M) => S = M
  BY <1>1, FS_Subset, FS_CardinalityType
<1>4. ASSUME NEW i \in M, i \notin S PROVE Cardinality(S) < Cardinality(M)
  BY <1>3, <1>4
<1> QED BY <1>2, <1>3, <1>4 DEF M, S

\* A part of a whole that is not all of it is less than 100 percent.
LEMMA PercentBelow100 ==
  ASSUME NEW part \in Nat, NEW whole \in Nat, part < whole
  PROVE  (100 * part) \div whole < 100
<1>1. whole > 0 /\ 100 * part < 100 * whole
  OBVIOUS
<1> DEFINE q == (100 * part) \div whole
<1>2. q \in Int /\ q * whole <= 100 * part
  BY <1>1
<1>3. q >= 100 => q * whole >= 100 * whole
  BY <1>1, <1>2
<1> QED BY <1>1, <1>2, <1>3

\* No evidence supports a fabricated sentence.
LEMMA FabricatedUnsupported ==
  ASSUME NEW s, NEW evidence, Fabricated(s, evidence)
  PROVE  s.material /\ ~Supported(s, evidence)
BY DEF Fabricated, Supported, SupportedBy, Candidates, Supports

\* What supports a sentence supports it among more evidence.
LEMMA MoreEvidence ==
  ASSUME NEW s, NEW evidence, NEW id \in DOMAIN evidence,
         Supported(s, [x \in DOMAIN evidence \ {id} |-> evidence[x]])
  PROVE  Supported(s, evidence)
<1> DEFINE less == [x \in DOMAIN evidence \ {id} |-> evidence[x]]
<1>1. /\ DOMAIN less \subseteq DOMAIN evidence
      /\ \A x \in DOMAIN less : less[x] = evidence[x]
  OBVIOUS
<1>2. Supported(s, less)
  OBVIOUS
<1> HIDE DEF less
<1>3. Candidates(s, less) \subseteq Candidates(s, evidence) /\ Candidates(s, less) \subseteq DOMAIN less
  BY <1>1 DEF Candidates
<1>4. SupportedBy(s, less) \subseteq SupportedBy(s, evidence)
  BY <1>1, <1>3 DEF SupportedBy
<1> QED BY <1>2, <1>4 DEF Supported

\* A report finds every fabricated sentence of a draft, and evidence added to what the
\* draft has makes no supported claim unsupported: for any draft and any evidence
\* (grounding.ts verifyDraft).
THEOREM ReportsSound ==
  \A draft, evidence : IsFiniteSet(DOMAIN draft) => ReportSound(draft, evidence)
<1> SUFFICES ASSUME NEW draft, NEW evidence, IsFiniteSet(DOMAIN draft)
             PROVE  ReportSound(draft, evidence)
  OBVIOUS
<1> DEFINE report == VerifyDraft(draft, evidence)
           all == Cardinality(Material(draft))
           good == Cardinality(SupportedIn(draft, evidence))
<1>1. ASSUME NEW i \in DOMAIN draft, Fabricated(draft[i], evidence)
      PROVE  report.claims[i] = {} /\ report.unsupported > 0 /\ report.coverage < 100
  <2>1. i \in Material(draft) /\ i \notin SupportedIn(draft, evidence)
    BY <1>1, FabricatedUnsupported DEF Material, SupportedIn
  <2>2. /\ report.claims[i] = {} /\ good < all /\ good \in Nat /\ all \in Nat
        /\ report.unsupported = all - good /\ report.coverage = (100 * good) \div all
    BY <2>1, ReportSays
  <2> HIDE DEF report, all, good
  <2>3. (100 * good) \div all < 100
    BY <2>2, PercentBelow100
  <2> QED BY <2>2, <2>3
<1>2. ASSUME NEW id \in DOMAIN evidence
      PROVE  VerifyDraft(draft, [x \in DOMAIN evidence \ {id} |-> evidence[x]]).unsupported
               >= report.unsupported
  <2> DEFINE less == [x \in DOMAIN evidence \ {id} |-> evidence[x]]
  <2>1. SupportedIn(draft, less) \subseteq SupportedIn(draft, evidence)
    BY MoreEvidence DEF SupportedIn
  <2> HIDE DEF less
  <2>2. IsFiniteSet(SupportedIn(draft, evidence))
    BY FS_Subset DEF SupportedIn, Material
  <2>3. Cardinality(SupportedIn(draft, less)) <= good
    BY <2>1, <2>2, FS_Subset
  <2>4. /\ VerifyDraft(draft, less).unsupported = all - Cardinality(SupportedIn(draft, less))
        /\ Cardinality(SupportedIn(draft, less)) \in Nat
        /\ report.unsupported = all - good /\ all \in Nat /\ good \in Nat
    BY ReportSays
  <2> QED BY <2>3, <2>4 DEF less
<1> QED BY <1>1, <1>2 DEF ReportSound

\* A draft that states what its evidence does not is denied publication by every policy
\* that blocks unsupported claims, whatever else is known of the draft (policy.ts
\* evaluatePublication, grounding.ts verifyDraft).
THEOREM FabricatedIsDenied ==
  \A draft, evidence, policy, facts :
    /\ IsFiniteSet(DOMAIN draft) /\ \E i \in DOMAIN draft : Fabricated(draft[i], evidence)
    /\ policy.blockUnsupported /\ facts.unsupported = VerifyDraft(draft, evidence).unsupported
    => EvaluatePublication(policy, facts).effect = "deny"
<1> SUFFICES ASSUME NEW draft, NEW evidence, NEW policy, NEW facts, IsFiniteSet(DOMAIN draft),
                    \E i \in DOMAIN draft : Fabricated(draft[i], evidence),
                    policy.blockUnsupported,
                    facts.unsupported = VerifyDraft(draft, evidence).unsupported
             PROVE  Effect(policy, facts) = "deny"
  BY DEF EvaluatePublication
<1>1. facts.unsupported > 0
  BY ReportsSound DEF ReportSound
<1>2. "unsupported" \in Blockers(policy, facts)
  BY <1>1 DEF Blockers
<1> QED BY <1>2 DEF Effect

\* In particular for every draft and every evidence of the tasks.
THEOREM FabricationsDenied == Spec => []FabricationDenied
<1> DEFINE Finite == task.of = "draft" => IsFiniteSet(DOMAIN task.draft)
<1>1. Init => Finite
  <2> SUFFICES ASSUME Init, task.of = "draft" PROVE IsFiniteSet(DOMAIN task.draft)
    OBVIOUS
  <2>1. task \in GroundingTasks
    BY DEF Init, RobotsTasks, ChunkTasks, HtmlTasks, GroundingTasks, GateTasks, ReadinessTasks,
           ReportTasks, RenderTasks, AccessTasks
  <2>2. \E s, t : task.draft = <<s>> \/ task.draft = <<s, t>>
    BY <2>1 DEF GroundingTasks
  <2>3. DOMAIN task.draft = 1 .. 1 \/ DOMAIN task.draft = 1 .. 2
    BY <2>2
  <2>4. 1 \in Int /\ 2 \in Int /\ \A n \in Int : IsFiniteSet(1 .. n)
    BY FS_Interval
  <2> QED BY <2>3, <2>4, Zenon
<1>2. Finite /\ [Next]_<<task, answer>> => Finite'
  BY DEF Next, Run
<1>3. Finite => FabricationDenied
  <2> SUFFICES ASSUME Finite, task.of = "draft"
               PROVE  /\ ReportSound(task.draft, task.evidence)
                      /\ LET report == VerifyDraft(task.draft, task.evidence)
                             policy == [blockUnsupported |-> TRUE, blockCoverageBelow |-> 0,
                                        prohibitedKinds |-> {}]
                             facts  == [unsupported |-> report.unsupported,
                                        coverage |-> report.coverage, kinds |-> {}]
                         IN  (\E i \in DOMAIN task.draft : Fabricated(task.draft[i], task.evidence)) =>
                               Blockers(policy, facts) # {}
    BY DEF FabricationDenied, Answered
  <2>1. ReportSound(task.draft, task.evidence)
    BY ReportsSound
  <2> DEFINE n == VerifyDraft(task.draft, task.evidence).unsupported
             c == VerifyDraft(task.draft, task.evidence).coverage
             policy == [blockUnsupported |-> TRUE, blockCoverageBelow |-> 0, prohibitedKinds |-> {}]
             facts == [unsupported |-> n, coverage |-> c, kinds |-> {}]
  <2>2. (\E i \in DOMAIN task.draft : Fabricated(task.draft[i], task.evidence)) => n > 0
    BY <2>1 DEF ReportSound
  <2> HIDE DEF n, c
  <2>3. n > 0 => "unsupported" \in Blockers(policy, facts)
    BY DEF Blockers
  <2> QED BY <2>1, <2>2, <2>3 DEF n, c
<1> HIDE DEF Finite
<1> QED BY <1>1, <1>2, <1>3, PTL DEF Spec
-----------------------------------------------------------------------------
(* Induction *)

\* A set of natural numbers with 0, and with the successor of each of its elements, has
\* all of them.
LEMMA EveryNumber ==
  ASSUME NEW P, 0 \in P, \A n \in Nat : n \in P => n + 1 \in P
  PROVE  \A n \in Nat : n \in P
<1> SUFFICES ASSUME Nat \ P # {} PROVE FALSE
  OBVIOUS
<1>1. PICK n \in Nat \ P : \A m \in Nat \ P : ~ (<<m, n>> \in OpToRel(<, Nat))
  BY NatLessThanWellFounded, WFMin, Zenon
<1>2. \A m \in Nat \ P : ~ (m < n)
  BY <1>1, Zenon DEF OpToRel
<1>3. n # 0 /\ n - 1 \in Nat
  OBVIOUS
<1>4. n - 1 \in P
  BY <1>2, <1>3
<1>5. (n - 1) + 1 \in P
  BY <1>3, <1>4
<1> QED BY <1>3, <1>5

\* Of some numbers there is a least.
LEMMA LeastNumber ==
  ASSUME NEW S \in SUBSET Nat, S # {}
  PROVE  \E n \in S : \A m \in S : n <= m
<1>1. PICK n \in S : \A m \in S : ~ (<<m, n>> \in OpToRel(<, Nat))
  BY NatLessThanWellFounded, WFMin, Zenon
<1>2. \A m \in S : ~ (m < n)
  BY <1>1, Zenon DEF OpToRel
<1> QED BY <1>2

\* Of some numbers up to a bound there is a greatest.
LEMMA GreatestNumber ==
  ASSUME NEW S \in SUBSET Nat, S # {}, NEW b \in Nat, \A m \in S : m <= b
  PROVE  \E n \in S : \A m \in S : m <= n
<1> DEFINE D == {c \in Nat : \A m \in S : m <= c}
<1>1. PICK n \in D : \A m \in D : n <= m
  BY LeastNumber
<1>2. ASSUME n \notin S PROVE FALSE
  <2>1. \A m \in S : m <= n /\ m # n
    BY <1>2
  <2>2. n # 0
    <3>1. PICK m \in S : TRUE
      OBVIOUS
    <3> QED BY <2>1, <3>1
  <2>3. n - 1 \in D
    BY <2>1, <2>2
  <2> QED BY <1>1, <2>3
<1> QED BY <1>1, <1>2

-----------------------------------------------------------------------------
(* robots.txt: the rule that wins *)

Pattern == DOMAIN Length
Rule == [allow : BOOLEAN, pattern : Pattern]

\* The rules among the first n that speak of the path.
Applying(rules, n, path) ==
  {i \in 1 .. n : rules[i].pattern # Empty /\ path \in Covers[rules[i].pattern]}

\* w is the longest of the rules at the positions I, and allows if one as long does.
Wins(w, rules, I) ==
  /\ w \in [allow : BOOLEAN, length : Int]
  /\ I = {} => w.allow /\ w.length = -1
  /\ I # {} => /\ \E i \in I : w.length = Length[rules[i].pattern]
               /\ \A i \in I : Length[rules[i].pattern] <= w.length
               /\ w.allow <=> \E i \in I : rules[i].allow /\ w.length = Length[rules[i].pattern]

\* The rules read one by one.
LEMMA WinnerReads ==
  ASSUME NEW rules, Len(rules) \in Nat, NEW path
  PROVE  \E after :
           /\ after = [n \in 0 .. Len(rules) |->
                         IF n = 0 THEN NoRule ELSE Contend(after[n - 1], rules[n], path)]
           /\ Winner(rules, path) = after[Len(rules)]
<1> DEFINE Turn(g, n) == IF n = 0 THEN NoRule ELSE Contend(g[n - 1], rules[n], path)
           After(g, N) == g = [n \in 0 .. N |-> Turn(g, n)]
           P == {N \in Nat : \E g : After(g, N)}
<1>1. 0 \in P
  <2> DEFINE g == [n \in 0 .. 0 |-> NoRule]
  <2>1. After(g, 0)
    OBVIOUS
  <2> HIDE DEF After
  <2> QED BY <2>1
<1>2. ASSUME NEW N \in Nat, N \in P PROVE N + 1 \in P
  <2>1. PICK g : After(g, N)
    BY <1>2
  <2> DEFINE next == Contend(g[N], rules[N + 1], path)
             h == [n \in 0 .. N + 1 |-> IF n = N + 1 THEN next ELSE g[n]]
  <2>2. \A n \in 0 .. N : g[n] = Turn(g, n)
    BY <2>1
  <2>3. \A n \in 0 .. N + 1 : h[n] = Turn(h, n)
    <3> TAKE n \in 0 .. N + 1
    <3>1. CASE n = N + 1
      BY <3>1
    <3>2. CASE n # N + 1
      <4>1. n \in 0 .. N /\ (n # 0 => n - 1 \in 0 .. N + 1 /\ n - 1 # N + 1)
        BY <3>2
      <4>2. h[n] = Turn(g, n) /\ (n # 0 => h[n - 1] = g[n - 1])
        BY <2>2, <4>1
      <4> QED BY <4>2
    <3> QED BY <3>1, <3>2
  <2>4. After(h, N + 1)
    BY <2>3
  <2> HIDE DEF After
  <2> QED BY <2>4
<1> HIDE DEF P
<1>3. Len(rules) \in P
  BY <1>1, <1>2, EveryNumber
<1>4. \E g : After(g, Len(rules))
  BY <1>3 DEF P
<1> DEFINE after == CHOOSE g : After(g, Len(rules))
<1>5. After(after, Len(rules))
  BY <1>4
<1>6. Winner(rules, path) = after[Len(rules)]
  BY DEF Winner
<1> QED BY <1>5, <1>6

\* One more rule.
LEMMA ContendWins ==
  ASSUME NEW rules, NEW n \in Nat, rules[n + 1] \in Rule, \A i \in 1 .. n : rules[i] \in Rule,
         NEW path, NEW w, Wins(w, rules, Applying(rules, n, path))
  PROVE  Wins(Contend(w, rules[n + 1], path), rules, Applying(rules, n + 1, path))
<1> DEFINE I == Applying(rules, n, path)
           J == Applying(rules, n + 1, path)
           len(i) == Length[rules[i].pattern]
           applies == rules[n + 1].pattern # Empty /\ path \in Covers[rules[n + 1].pattern]
           v == Contend(w, rules[n + 1], path)
<1> SUFFICES Wins(v, rules, J)
  OBVIOUS
<1>1. \A i \in 1 .. n + 1 : len(i) \in Nat /\ rules[i].allow \in BOOLEAN
  BY RobotsAssumption DEF Rule, Pattern
<1>2. J = IF applies THEN I \cup {n + 1} ELSE I
  BY DEF Applying
<1>3. I \subseteq 1 .. n
  BY DEF Applying
<1>4. CASE ~applies
  <2>1. v = w
    BY <1>4 DEF Contend
  <2> QED BY <1>2, <1>4, <2>1
<1>5. CASE applies /\ I = {}
  <2>1. w.length = -1 /\ len(n + 1) > w.length /\ ~(len(n + 1) < w.length)
    BY <1>1, <1>5 DEF Wins
  <2>2. v = [allow |-> rules[n + 1].allow, length |-> len(n + 1)]
    BY <1>5, <2>1 DEF Contend
  <2>3. J = {n + 1}
    BY <1>2, <1>5
  <2> HIDE DEF J, v, I
  <2> QED BY <1>1, <2>2, <2>3 DEF Wins
<1>6. CASE applies /\ I # {}
  <2>1. /\ w.length \in Nat /\ \E i \in I : w.length = len(i)
        /\ \A i \in I : len(i) <= w.length
        /\ w.allow <=> \E i \in I : rules[i].allow /\ w.length = len(i)
    BY <1>1, <1>3, <1>6 DEF Wins
  <2>2. J = I \cup {n + 1} /\ len(n + 1) \in Nat
    BY <1>1, <1>2, <1>6
  <2>3. CASE len(n + 1) < w.length
    <3>1. v = w
      BY <2>3 DEF Contend
    <3> HIDE DEF J, v, I
    <3> QED BY <2>1, <2>2, <2>3, <3>1 DEF Wins
  <2>4. CASE len(n + 1) > w.length
    <3>1. v = [allow |-> rules[n + 1].allow, length |-> len(n + 1)]
      BY <1>6, <2>1, <2>2, <2>4 DEF Contend
    <3>2. \A i \in I : len(i) \in Nat /\ len(i) < len(n + 1)
      BY <1>1, <1>3, <2>1, <2>2, <2>4
    <3>3. v \in [allow : BOOLEAN, length : Int] /\ v.length = len(n + 1) /\ v.allow = rules[n + 1].allow
      BY <1>1, <3>1
    <3> HIDE DEF J, v, I
    <3> QED BY <2>1, <2>2, <3>2, <3>3 DEF Wins
  <2>5. CASE len(n + 1) = w.length
    <3>1. v = OfEqual(w, rules[n + 1])
      BY <1>6, <2>1, <2>2, <2>5 DEF Contend
    <3>2. CASE rules[n + 1].allow
      <4>1. v = [w EXCEPT !.allow = TRUE] /\ w \in [allow : BOOLEAN, length : Int]
        BY <3>1, <3>2 DEF OfEqual, Wins
      <4>2. v.allow = TRUE /\ v.length = w.length /\ v \in [allow : BOOLEAN, length : Int]
        BY <4>1
      <4> HIDE DEF J, v, I
      <4> QED BY <2>1, <2>2, <2>5, <3>2, <4>2 DEF Wins
    <3>3. CASE ~rules[n + 1].allow
      <4>1. v = w
        BY <3>1, <3>3 DEF OfEqual
      <4> HIDE DEF J, v, I
      <4> QED BY <2>1, <2>2, <2>5, <3>3, <4>1 DEF Wins
    <3> QED BY <1>1, <3>2, <3>3
  <2> QED BY <2>1, <2>2, <2>3, <2>4, <2>5
<1> QED BY <1>4, <1>5, <1>6

\* The winner among some rules is as the code reads them: the longest that speaks of the
\* path, and one that allows among the longest.
LEMMA WinnerWins ==
  ASSUME NEW rules \in Seq(Rule), NEW path
  PROVE  Wins(Winner(rules, path), rules, Applying(rules, Len(rules), path))
<1>1. Len(rules) \in Nat /\ \A i \in 1 .. Len(rules) : rules[i] \in Rule
  OBVIOUS
<1>2. PICK after :
        /\ after = [n \in 0 .. Len(rules) |->
                      IF n = 0 THEN NoRule ELSE Contend(after[n - 1], rules[n], path)]
        /\ Winner(rules, path) = after[Len(rules)]
  BY <1>1, WinnerReads
<1> DEFINE P == {n \in Nat : n <= Len(rules) => Wins(after[n], rules, Applying(rules, n, path))}
<1>3. 0 \in P
  <2>1. after[0] = NoRule /\ Applying(rules, 0, path) = {}
    BY <1>1, <1>2 DEF Applying
  <2>2. Wins(NoRule, rules, {})
    BY DEF Wins, NoRule
  <2> QED BY <2>1, <2>2
<1>4. ASSUME NEW n \in Nat, n \in P PROVE n + 1 \in P
  <2> SUFFICES ASSUME n + 1 <= Len(rules)
               PROVE  Wins(after[n + 1], rules, Applying(rules, n + 1, path))
    OBVIOUS
  <2>1. n <= Len(rules) /\ n + 1 \in 0 .. Len(rules) /\ n + 1 # 0 /\ (n + 1) - 1 = n
    BY <1>1
  <2>2. after[n + 1] = Contend(after[n], rules[n + 1], path)
    BY <1>2, <2>1
  <2>3. Wins(after[n], rules, Applying(rules, n, path))
    BY <1>4, <2>1
  <2>4. rules[n + 1] \in Rule /\ \A i \in 1 .. n : rules[i] \in Rule
    BY <1>1, <2>1
  <2> QED BY <2>2, <2>3, <2>4, ContendWins
<1> HIDE DEF P
<1>5. Len(rules) \in P
  BY <1>1, <1>3, <1>4, EveryNumber
<1> QED BY <1>1, <1>2, <1>5 DEF P

-----------------------------------------------------------------------------
(* robots.txt: the groups *)

\* The lines of a file: of the tokens and patterns, the length is known.  The union is
\* STRING: the provers do not know a string to be one of STRING.
Field == STRING \cup {"user-agent", "allow", "disallow", "sitemap"}
LineOf == [field : Field, value : DOMAIN Length]
IsAgent(line) == line.field = "user-agent"
IsRule(line) == line.field \in {"allow", "disallow"}
RuleOf(line) == [allow |-> line.field = "allow", pattern |-> line.value]

\* The user-agent lines up to line n that follow line h with nothing between them, and the
\* rules up to line n below it.
Together(lines, h, n) == {i \in h .. n : \A j \in h .. i : IsAgent(lines[j])}
RulesBelow(lines, h, n) == {r \in Below(lines, h) : r <= n}

GroupOf == [agents : SUBSET DOMAIN Length, rules : Seq(Rule)]

\* What group holds of the first n lines when it begins at line h.
GroupAt(lines, n, group, h) ==
  /\ group \in GroupOf
  /\ group.agents = {lines[i].value : i \in Together(lines, h, n)}
  /\ {group.rules[m] : m \in DOMAIN group.rules} = {RuleOf(lines[r]) : r \in RulesBelow(lines, h, n)}
  /\ h \in 1 .. n /\ IsAgent(lines[h]) /\ (h # 1 => ~IsAgent(lines[h - 1]))

\* The groups read of the first n lines: group g begins at line head[g].
Grouping(lines, n, groups, head) ==
  /\ groups \in Seq(GroupOf)
  /\ \A g \in DOMAIN groups : GroupAt(lines, n, groups[g], head[g])
  /\ \A f, g \in DOMAIN groups : f < g => head[f] < head[g]
  /\ \A i \in 1 .. n : IsAgent(lines[i]) => \E g \in DOMAIN groups : i \in Together(lines, head[g], n)

\* The last group is open: no user-agent line has followed any other line since its head.
LastOpen(lines, n, groups, head, lastWasAgent) ==
  /\ lastWasAgent <=> n # 0 /\ IsAgent(lines[n])
  /\ lastWasAgent => groups # <<>> /\ \A i \in head[Len(groups)] .. n : IsAgent(lines[i])
  /\ groups # <<>> => \A j, k \in head[Len(groups)] .. n :
                         j < k /\ ~IsAgent(lines[j]) => ~IsAgent(lines[k])

\* What one more line adds to what follows a head.
LEMMA OneMoreTogether ==
  ASSUME NEW lines \in Seq(LineOf), NEW n \in Nat, NEW h \in 1 .. n
  PROVE  /\ (\A j \in h .. n + 1 : IsAgent(lines[j])) =>
              Together(lines, h, n + 1) = Together(lines, h, n) \cup {n + 1}
         /\ ~(\A j \in h .. n + 1 : IsAgent(lines[j])) =>
              Together(lines, h, n + 1) = Together(lines, h, n)
<1>1. h .. n + 1 = (h .. n) \cup {n + 1}
  OBVIOUS
<1>2. \A i \in h .. n : i \in Together(lines, h, n + 1) <=> i \in Together(lines, h, n)
  BY <1>1 DEF Together
<1>3. n + 1 \in Together(lines, h, n + 1) <=> \A j \in h .. n + 1 : IsAgent(lines[j])
  BY <1>1 DEF Together
<1>4. Together(lines, h, n) \subseteq h .. n /\ Together(lines, h, n + 1) \subseteq h .. n + 1
  BY DEF Together
<1> QED BY <1>1, <1>2, <1>3, <1>4

\* What it adds to the rules below one.
LEMMA OneMoreBelow ==
  ASSUME NEW lines \in Seq(LineOf), NEW n \in Nat, NEW h
  PROVE  /\ n + 1 \in Below(lines, h) =>
              RulesBelow(lines, h, n + 1) = RulesBelow(lines, h, n) \cup {n + 1}
         /\ n + 1 \notin Below(lines, h) =>
              RulesBelow(lines, h, n + 1) = RulesBelow(lines, h, n)
<1>1. \A r \in DOMAIN lines : r \in Nat /\ (r <= n + 1 <=> r <= n \/ r = n + 1)
  OBVIOUS
<1> QED BY <1>1 DEF RulesBelow, Below

\* A line that is none of its own leaves a group as it is.
LEMMA GroupKept ==
  ASSUME NEW lines \in Seq(LineOf), NEW n \in Nat, NEW group, NEW h, GroupAt(lines, n, group, h),
         ~ \A j \in h .. n + 1 : IsAgent(lines[j]), n + 1 \notin Below(lines, h)
  PROVE  GroupAt(lines, n + 1, group, h)
<1>1. h \in 1 .. n /\ h \in 1 .. n + 1
  BY DEF GroupAt
<1>2. Together(lines, h, n + 1) = Together(lines, h, n)
  BY <1>1, OneMoreTogether
<1>3. RulesBelow(lines, h, n + 1) = RulesBelow(lines, h, n)
  BY OneMoreBelow
<1> QED BY <1>1, <1>2, <1>3 DEF GroupAt

\* A user-agent line after nothing but such lines joins their group.
LEMMA AgentJoins ==
  ASSUME NEW lines \in Seq(LineOf), NEW n \in Nat, n + 1 \in DOMAIN lines,
         NEW group, NEW h, GroupAt(lines, n, group, h), \A j \in h .. n + 1 : IsAgent(lines[j])
  PROVE  GroupAt(lines, n + 1, [group EXCEPT !.agents = @ \cup {lines[n + 1].value}], h)
<1> DEFINE v == lines[n + 1].value
           next == [group EXCEPT !.agents = @ \cup {v}]
<1>1. h \in 1 .. n /\ h \in 1 .. n + 1 /\ n + 1 \in h .. n + 1
  BY DEF GroupAt
<1>2. v \in DOMAIN Length /\ IsAgent(lines[n + 1])
  <2>1. lines[n + 1] \in LineOf
    OBVIOUS
  <2> QED BY <1>1, <2>1 DEF LineOf
<1>3. next \in GroupOf
      /\ next.agents = group.agents \cup {v} /\ next.rules = group.rules
  BY <1>2 DEF GroupAt, GroupOf
<1>4. Together(lines, h, n + 1) = Together(lines, h, n) \cup {n + 1}
  BY <1>1, OneMoreTogether
<1>5. n + 1 \notin Below(lines, h)
  BY <1>2 DEF Below, IsAgent
<1>6. RulesBelow(lines, h, n + 1) = RulesBelow(lines, h, n)
  BY <1>5, OneMoreBelow
<1> HIDE DEF next
<1>7. next.agents = {lines[i].value : i \in Together(lines, h, n + 1)}
  BY <1>3, <1>4 DEF GroupAt
<1>8. GroupAt(lines, n + 1, next, h)
  BY <1>1, <1>3, <1>6, <1>7 DEF GroupAt
<1> QED BY <1>8 DEF next

\* One after another line, or the first, begins a group.
LEMMA AgentBegins ==
  ASSUME NEW lines \in Seq(LineOf), NEW n \in Nat, n + 1 \in DOMAIN lines,
         IsAgent(lines[n + 1]), n # 0 => ~IsAgent(lines[n])
  PROVE  GroupAt(lines, n + 1, NewGroup(lines[n + 1].value), n + 1)
<1> DEFINE v == lines[n + 1].value
           next == NewGroup(v)
<1>1. v \in DOMAIN Length
  <2>1. lines[n + 1] \in LineOf
    OBVIOUS
  <2> QED BY <2>1 DEF LineOf
<1> HIDE DEF v
<1>2. next = [agents |-> {v}, rules |-> <<>>]
  BY DEF NewGroup
<1>3. next \in GroupOf
      /\ next.agents = {v} /\ DOMAIN next.rules = {}
  <2>1. <<>> \in Seq(Rule) /\ DOMAIN <<>> = {}
    OBVIOUS
  <2> QED BY <1>1, <1>2, <2>1 DEF GroupOf
<1>4. Together(lines, n + 1, n + 1) = {n + 1}
  BY DEF Together
<1>5. RulesBelow(lines, n + 1, n + 1) = {}
  BY DEF RulesBelow, Below
<1> HIDE DEF next
<1>6. n + 1 \in 1 .. n + 1 /\ (n + 1 # 1 => n # 0 /\ (n + 1) - 1 = n)
  OBVIOUS
<1>7. GroupAt(lines, n + 1, next, n + 1)
  BY <1>3, <1>4, <1>5, <1>6 DEF GroupAt, v
<1> QED BY <1>7 DEF next, v

\* A rule joins the last group.
LEMMA RuleJoins ==
  ASSUME NEW lines \in Seq(LineOf), NEW n \in Nat, n + 1 \in DOMAIN lines, IsRule(lines[n + 1]),
         NEW group, NEW h, GroupAt(lines, n, group, h),
         \A j, k \in h .. n : j < k /\ ~IsAgent(lines[j]) => ~IsAgent(lines[k])
  PROVE  GroupAt(lines, n + 1, [group EXCEPT !.rules = Append(@, RuleOf(lines[n + 1]))], h)
<1> DEFINE rule == RuleOf(lines[n + 1])
           next == [group EXCEPT !.rules = Append(@, rule)]
<1>1. h \in 1 .. n /\ h \in 1 .. n + 1 /\ n + 1 \in h .. n + 1 /\ n + 1 > h
      /\ \A j \in h .. n + 1 : j \in h .. n \/ j = n + 1
  BY DEF GroupAt
<1>2. rule \in Rule /\ ~IsAgent(lines[n + 1])
  <2>1. lines[n + 1] \in LineOf
    OBVIOUS
  <2> QED BY <2>1 DEF Rule, RuleOf, Pattern, LineOf, IsRule, IsAgent
<1>3. group \in GroupOf
  BY DEF GroupAt
<1> HIDE DEF rule
<1>4. /\ next \in GroupOf
      /\ next.agents = group.agents /\ next.rules = Append(group.rules, rule)
  <2>1. Append(group.rules, rule) \in Seq(Rule)
    BY <1>2, <1>3 DEF GroupOf
  <2> QED BY <1>3, <2>1 DEF GroupOf
<1> HIDE DEF next
<1>5. {next.rules[m] : m \in DOMAIN next.rules} = {group.rules[m] : m \in DOMAIN group.rules} \cup {rule}
  <2> DEFINE s == group.rules
             t == next.rules
  <2>1. s \in Seq(Rule) /\ t = Append(s, rule)
    BY <1>3, <1>4 DEF GroupOf
  <2> HIDE DEF s, t
  <2>2. /\ DOMAIN t = (DOMAIN s) \cup {Len(s) + 1} /\ t[Len(s) + 1] = rule
        /\ \A m \in DOMAIN s : t[m] = s[m]
    BY <2>1
  <2>3. {t[m] : m \in DOMAIN t} = {s[m] : m \in DOMAIN s} \cup {rule}
    BY <2>2
  <2> QED BY <2>3 DEF s, t
<1>6. Together(lines, h, n + 1) = Together(lines, h, n)
  BY <1>1, <1>2, OneMoreTogether
<1>7. n + 1 \in Below(lines, h)
  <2> SUFFICES ASSUME NEW j \in h .. n + 1, NEW k \in h .. n + 1, j < k, ~IsAgent(lines[j])
               PROVE  ~IsAgent(lines[k])
    BY <1>1 DEF Below, IsRule, IsAgent
  <2>1. CASE k = n + 1
    BY <1>2, <2>1
  <2>2. CASE k # n + 1
    <3>1. k \in h .. n /\ j \in h .. n
      BY <1>1, <2>2
    <3> QED BY <3>1
  <2> QED BY <2>1, <2>2
<1>8. RulesBelow(lines, h, n + 1) = RulesBelow(lines, h, n) \cup {n + 1}
  BY <1>7, OneMoreBelow
<1>9. {RuleOf(lines[r]) : r \in RulesBelow(lines, h, n + 1)} =
        {RuleOf(lines[r]) : r \in RulesBelow(lines, h, n)} \cup {rule}
  BY <1>8 DEF rule
<1>10. GroupAt(lines, n + 1, next, h)
  BY <1>1, <1>4, <1>5, <1>6, <1>9 DEF GroupAt
<1> QED BY <1>10 DEF next, rule

\* Groups before the last one stay as they are.
LEMMA OlderKept ==
  ASSUME NEW lines \in Seq(LineOf), NEW n \in Nat, NEW groups, NEW head,
         Grouping(lines, n, groups, head),
         NEW f \in DOMAIN groups, NEW g \in DOMAIN groups, f < g
  PROVE  GroupAt(lines, n + 1, groups[f], head[f])
<1>1. /\ GroupAt(lines, n, groups[f], head[f]) /\ GroupAt(lines, n, groups[g], head[g])
      /\ head[f] < head[g]
  BY DEF Grouping
<1> DEFINE j == head[g] - 1
           k == head[g]
<1>2. /\ head[f] \in 1 .. n /\ head[g] \in 1 .. n /\ j \in head[f] .. n + 1 /\ k \in head[f] .. n + 1
      /\ j < k /\ head[g] # 1
  BY <1>1 DEF GroupAt
<1>3. ~IsAgent(lines[j]) /\ IsAgent(lines[k])
  BY <1>1, <1>2 DEF GroupAt
<1> HIDE DEF j, k
<1>4. n + 1 \notin Below(lines, head[f])
  BY <1>2, <1>3 DEF Below, IsAgent
<1> QED BY <1>1, <1>2, <1>3, <1>4, GroupKept

\* What is known when n lines have been read.
ReadSoFar(lines, n, doc) ==
  /\ doc \in [groups : Seq(GroupOf), lastWasAgent : BOOLEAN]
  /\ \E head : /\ Grouping(lines, n, doc.groups, head)
               /\ LastOpen(lines, n, doc.groups, head, doc.lastWasAgent)

\* When the last group is what the next line makes of it, and the line begins none, the
\* groups are those of one line more.
LEMMA LastChanges ==
  ASSUME NEW lines \in Seq(LineOf), NEW n \in Nat, n + 1 \in DOMAIN lines,
         NEW groups, NEW head, NEW last, NEW lastWasAgent,
         Grouping(lines, n, groups, head), groups # <<>>,
         LastOpen(lines, n, groups, head, lastWasAgent),
         GroupAt(lines, n + 1, last, head[Len(groups)]),
         IsAgent(lines[n + 1]) => lastWasAgent
  PROVE  /\ Grouping(lines, n + 1, [groups EXCEPT ![Len(groups)] = last], head)
         /\ LastOpen(lines, n + 1, [groups EXCEPT ![Len(groups)] = last], head, IsAgent(lines[n + 1]))
<1> DEFINE L == Len(groups)
           next == [groups EXCEPT ![L] = last]
           h == head[L]
<1>1. groups \in Seq(GroupOf) /\ L \in Nat /\ DOMAIN groups = 1 .. L /\ L \in DOMAIN groups
  BY DEF Grouping
<1>2. last \in GroupOf /\ h \in 1 .. n /\ GroupAt(lines, n + 1, last, h)
  BY <1>1 DEF GroupAt, Grouping
<1>3. /\ next \in Seq(GroupOf) /\ Len(next) = L /\ DOMAIN next = 1 .. L /\ next # <<>>
      /\ next[L] = last /\ \A g \in DOMAIN groups : g # L => next[g] = groups[g]
  BY <1>1, <1>2
<1> HIDE DEF next, L
<1>4. ASSUME NEW g \in DOMAIN next PROVE GroupAt(lines, n + 1, next[g], head[g])
  <2>1. CASE g = L
    BY <1>2, <1>3, <2>1
  <2>2. CASE g # L
    <3>1. g \in DOMAIN groups /\ g < L /\ next[g] = groups[g]
      BY <1>1, <1>3, <2>2
    <3> QED BY <1>1, <3>1, OlderKept
  <2> QED BY <2>1, <2>2
<1>5. \A f, g \in DOMAIN next : f < g => head[f] < head[g]
  BY <1>1, <1>3 DEF Grouping
<1>6. IsAgent(lines[n + 1]) => \A i \in h .. n + 1 : IsAgent(lines[i])
  <2>1. IsAgent(lines[n + 1]) => \A i \in h .. n : IsAgent(lines[i])
    BY DEF LastOpen, L
  <2>2. \A i \in h .. n + 1 : i \in h .. n \/ i = n + 1
    BY <1>2
  <2> QED BY <2>1, <2>2
<1>7. ASSUME NEW i \in 1 .. n + 1, IsAgent(lines[i])
      PROVE  \E g \in DOMAIN next : i \in Together(lines, head[g], n + 1)
  <2>1. CASE i = n + 1
    <3>1. i \in Together(lines, h, n + 1)
      BY <1>2, <1>6, <1>7, <2>1 DEF Together
    <3> QED BY <1>1, <1>3, <3>1
  <2>2. CASE i # n + 1
    <3>1. i \in 1 .. n
      BY <2>2
    <3>2. PICK g \in DOMAIN groups : i \in Together(lines, head[g], n)
      BY <1>7, <3>1 DEF Grouping
    <3>3. head[g] \in 1 .. n
      BY DEF Grouping, GroupAt
    <3>4. i \in Together(lines, head[g], n + 1)
      BY <3>2, <3>3, OneMoreTogether
    <3> QED BY <1>1, <1>3, <3>4
  <2> QED BY <2>1, <2>2
<1>8. Grouping(lines, n + 1, next, head)
  BY <1>3, <1>4, <1>5, <1>7 DEF Grouping
<1>9. \A j, k \in h .. n + 1 : j < k /\ ~IsAgent(lines[j]) => ~IsAgent(lines[k])
  <2> SUFFICES ASSUME NEW j \in h .. n + 1, NEW k \in h .. n + 1, j < k, ~IsAgent(lines[j])
               PROVE  ~IsAgent(lines[k])
    OBVIOUS
  <2>1. CASE k = n + 1
    BY <1>6, <2>1
  <2>2. CASE k # n + 1
    <3>1. j \in h .. n /\ k \in h .. n
      BY <1>2, <2>2
    <3> QED BY <3>1 DEF LastOpen, L
  <2> QED BY <2>1, <2>2
<1>10. LastOpen(lines, n + 1, next, head, IsAgent(lines[n + 1]))
  BY <1>3, <1>6, <1>9 DEF LastOpen
<1> QED BY <1>8, <1>10 DEF next, L

\* When it is a user-agent line after another one, they are those with one group more.
LEMMA GroupBegins ==
  ASSUME NEW lines \in Seq(LineOf), NEW n \in Nat, n + 1 \in DOMAIN lines,
         NEW groups, NEW head, Grouping(lines, n, groups, head),
         IsAgent(lines[n + 1]), n # 0 => ~IsAgent(lines[n])
  PROVE  \E h : LET next == Append(groups, NewGroup(lines[n + 1].value))
                IN  Grouping(lines, n + 1, next, h) /\ LastOpen(lines, n + 1, next, h, TRUE)
<1> DEFINE L == Len(groups)
           new == NewGroup(lines[n + 1].value)
           next == Append(groups, new)
           h == [g \in 1 .. L + 1 |-> IF g = L + 1 THEN n + 1 ELSE head[g]]
<1>1. groups \in Seq(GroupOf) /\ L \in Nat /\ DOMAIN groups = 1 .. L
  BY DEF Grouping
<1>2. GroupAt(lines, n + 1, new, n + 1) /\ new \in GroupOf
  BY AgentBegins DEF GroupAt
<1> HIDE DEF new
<1>3. /\ next \in Seq(GroupOf) /\ Len(next) = L + 1 /\ DOMAIN next = 1 .. L + 1 /\ next # <<>>
      /\ next[L + 1] = new /\ \A g \in DOMAIN groups : next[g] = groups[g]
  BY <1>1, <1>2
<1>4. h[L + 1] = n + 1 /\ \A g \in DOMAIN groups : h[g] = head[g]
  BY <1>1
<1>5. \A g \in DOMAIN next : g = L + 1 \/ (g \in DOMAIN groups /\ g < L + 1)
  BY <1>1, <1>3
<1> HIDE DEF next, h, L
<1>6. \A g \in DOMAIN groups : GroupAt(lines, n, groups[g], head[g]) /\ head[g] \in 1 .. n
  BY DEF Grouping, GroupAt
<1>7. n + 1 \notin Below(lines, n + 1) /\ \A i : n + 1 \notin Below(lines, i)
  BY DEF Below, IsAgent
<1>8. ASSUME NEW g \in DOMAIN groups PROVE GroupAt(lines, n + 1, groups[g], head[g])
  <2>1. n \in head[g] .. n + 1 /\ ~IsAgent(lines[n])
    BY <1>6
  <2> QED BY <1>6, <1>7, <2>1, GroupKept
<1>9. \A g \in DOMAIN next : GroupAt(lines, n + 1, next[g], h[g])
  BY <1>2, <1>3, <1>4, <1>5, <1>8
<1>10. ASSUME NEW f \in DOMAIN next, NEW g \in DOMAIN next, f < g PROVE h[f] < h[g]
  <2>1. f \in DOMAIN groups
    BY <1>1, <1>3, <1>5, <1>10
  <2>2. CASE g = L + 1
    BY <1>4, <1>6, <2>1, <2>2
  <2>3. CASE g \in DOMAIN groups
    BY <1>4, <1>10, <2>1, <2>3 DEF Grouping
  <2> QED BY <1>5, <2>2, <2>3
<1>11. ASSUME NEW i \in 1 .. n + 1, IsAgent(lines[i])
       PROVE  \E g \in DOMAIN next : i \in Together(lines, h[g], n + 1)
  <2>1. CASE i = n + 1
    <3>1. i \in Together(lines, n + 1, n + 1)
      BY <1>11, <2>1 DEF Together
    <3>2. L + 1 \in DOMAIN next
      BY <1>1, <1>3
    <3> QED BY <1>4, <3>1, <3>2
  <2>2. CASE i # n + 1
    <3>1. i \in 1 .. n
      BY <2>2
    <3>2. PICK g \in DOMAIN groups : i \in Together(lines, head[g], n)
      BY <1>11, <3>1 DEF Grouping
    <3>3. i \in Together(lines, head[g], n + 1)
      BY <1>6, <3>2, OneMoreTogether
    <3>4. g \in DOMAIN next
      BY <1>1, <1>3
    <3> QED BY <1>4, <3>3, <3>4
  <2> QED BY <2>1, <2>2
<1>12. Grouping(lines, n + 1, next, h)
  BY <1>3, <1>9, <1>10, <1>11 DEF Grouping
<1>13. LastOpen(lines, n + 1, next, h, TRUE)
  BY <1>3, <1>4 DEF LastOpen
<1> QED BY <1>12, <1>13 DEF next, new

\* Before the first group, other lines begin none.
LEMMA NoneBegins ==
  ASSUME NEW lines, NEW n \in Nat, NEW head, Grouping(lines, n, <<>>, head), ~IsAgent(lines[n + 1])
  PROVE  Grouping(lines, n + 1, <<>>, head) /\ LastOpen(lines, n + 1, <<>>, head, FALSE)
<1>1. <<>> \in Seq(GroupOf) /\ DOMAIN <<>> = {}
  OBVIOUS
<1>2. \A i \in 1 .. n + 1 : i \in 1 .. n \/ i = n + 1
  OBVIOUS
<1>3. \A i \in 1 .. n + 1 : ~IsAgent(lines[i])
  BY <1>1, <1>2 DEF Grouping
<1> QED BY <1>1, <1>3 DEF Grouping, LastOpen

\* Reading a line reads it.
LEMMA LineRead ==
  ASSUME NEW lines \in Seq(LineOf), NEW n \in Nat, n + 1 \in DOMAIN lines,
         NEW doc, ReadSoFar(lines, n, doc)
  PROVE  ReadSoFar(lines, n + 1, ParseLine(doc, lines[n + 1]))
<1> DEFINE line == lines[n + 1]
           groups == doc.groups
           next == ParseLine(doc, line)
           L == Len(groups)
           token == line.value
<1>1. PICK head : /\ Grouping(lines, n, groups, head)
                  /\ LastOpen(lines, n, groups, head, doc.lastWasAgent)
  BY DEF ReadSoFar
<1>2. /\ doc \in [groups : Seq(GroupOf), lastWasAgent : BOOLEAN] /\ groups \in Seq(GroupOf)
      /\ doc = [groups |-> groups, lastWasAgent |-> doc.lastWasAgent]
      /\ groups # <<>> => L \in DOMAIN groups
  BY DEF ReadSoFar
<1>3. groups # <<>> => GroupAt(lines, n, groups[L], head[L]) /\ head[L] \in 1 .. n
  BY <1>1, <1>2 DEF Grouping, GroupAt
<1>4. SUFFICES \E gs, h : /\ next = [groups |-> gs, lastWasAgent |-> IsAgent(line)]
                          /\ Grouping(lines, n + 1, gs, h)
                          /\ LastOpen(lines, n + 1, gs, h, IsAgent(line))
  <2>1. PICK gs, h : /\ next = [groups |-> gs, lastWasAgent |-> IsAgent(line)]
                     /\ Grouping(lines, n + 1, gs, h)
                     /\ LastOpen(lines, n + 1, gs, h, IsAgent(line))
    BY <1>4
  <2> HIDE DEF next
  <2>2. next.groups = gs /\ next.lastWasAgent = IsAgent(line) /\ gs \in Seq(GroupOf)
    BY <2>1 DEF Grouping
  <2>3. next \in [groups : Seq(GroupOf), lastWasAgent : BOOLEAN]
    BY <2>1, <2>2 DEF IsAgent
  <2>4. ReadSoFar(lines, n + 1, next)
    BY <2>1, <2>2, <2>3 DEF ReadSoFar
  <2> QED BY <2>4 DEF next
<1>5. CASE IsAgent(line) /\ groups # <<>> /\ doc.lastWasAgent
  <2> DEFINE last == [groups[L] EXCEPT !.agents = @ \cup {token}]
             gs == [groups EXCEPT ![L] = last]
  <2>1. next = [groups |-> gs, lastWasAgent |-> IsAgent(line)]
    BY <1>5 DEF ParseLine, AddAgent, IsAgent
  <2>2. \A j \in head[L] .. n + 1 : j \in head[L] .. n \/ j = n + 1
    BY <1>3, <1>5
  <2>3. \A j \in head[L] .. n + 1 : IsAgent(lines[j])
    BY <1>1, <1>5, <2>2 DEF LastOpen
  <2>4. GroupAt(lines, n + 1, last, head[L])
    BY <1>3, <1>5, <2>3, AgentJoins
  <2> HIDE DEF last, next, L
  <2>5. Grouping(lines, n + 1, gs, head) /\ LastOpen(lines, n + 1, gs, head, IsAgent(line))
    BY <1>1, <1>5, <2>4, LastChanges DEF L
  <2> QED BY <2>1, <2>5
<1>6. CASE IsAgent(line) /\ ~(groups # <<>> /\ doc.lastWasAgent)
  <2> DEFINE gs == Append(groups, NewGroup(token))
  <2>1. next = [groups |-> gs, lastWasAgent |-> TRUE] /\ IsAgent(line) = TRUE
    BY <1>6 DEF ParseLine, AddAgent, IsAgent
  <2>2. n # 0 => ~IsAgent(lines[n])
    BY <1>1, <1>6 DEF LastOpen
  <2>3. \E h : Grouping(lines, n + 1, gs, h) /\ LastOpen(lines, n + 1, gs, h, TRUE)
    BY <1>1, <1>6, <2>2, GroupBegins
  <2> HIDE DEF gs, next
  <2> QED BY <2>1, <2>3
<1>7. CASE ~IsAgent(line) /\ groups = <<>>
  <2>1. next = [groups |-> <<>>, lastWasAgent |-> FALSE] /\ IsAgent(line) = FALSE
    <3>1. CASE IsRule(line)
      BY <1>7, <3>1 DEF ParseLine, AddRule, IsAgent, IsRule
    <3>2. CASE ~IsRule(line)
      <4>1. next = [doc EXCEPT !.lastWasAgent = FALSE]
        BY <1>7, <3>2 DEF ParseLine, IsAgent, IsRule
      <4> QED BY <1>2, <1>7, <4>1 DEF IsAgent
    <3> QED BY <3>1, <3>2
  <2>2. Grouping(lines, n + 1, <<>>, head) /\ LastOpen(lines, n + 1, <<>>, head, FALSE)
    BY <1>1, <1>7, NoneBegins
  <2> HIDE DEF next
  <2> QED BY <2>1, <2>2
<1>8. CASE IsRule(line) /\ groups # <<>>
  <2> DEFINE rule == RuleOf(line)
             last == [groups[L] EXCEPT !.rules = Append(@, rule)]
             gs == [groups EXCEPT ![L] = last]
  <2>1. next = [groups |-> gs, lastWasAgent |-> FALSE] /\ IsAgent(line) = FALSE
    BY <1>8 DEF ParseLine, AddRule, IsAgent, IsRule, RuleOf
  <2>2. \A j, k \in head[L] .. n : j < k /\ ~IsAgent(lines[j]) => ~IsAgent(lines[k])
    BY <1>1, <1>8 DEF LastOpen
  <2>3. GroupAt(lines, n + 1, last, head[L])
    BY <1>3, <1>8, <2>2, RuleJoins
  <2> HIDE DEF last, next, L
  <2>4. Grouping(lines, n + 1, gs, head) /\ LastOpen(lines, n + 1, gs, head, IsAgent(line))
    BY <1>1, <1>8, <2>1, <2>3, LastChanges DEF L
  <2> QED BY <2>1, <2>4
<1>9. CASE ~IsAgent(line) /\ ~IsRule(line) /\ groups # <<>>
  <2> DEFINE gs == [groups EXCEPT ![L] = groups[L]]
  <2>1. next = [groups |-> groups, lastWasAgent |-> FALSE] /\ IsAgent(line) = FALSE
    <3>1. next = [doc EXCEPT !.lastWasAgent = FALSE]
      BY <1>9 DEF ParseLine, IsAgent, IsRule
    <3> QED BY <1>2, <1>9, <3>1 DEF IsAgent
  <2>2. n + 1 \notin Below(lines, head[L]) /\ n + 1 \in head[L] .. n + 1
    BY <1>3, <1>9 DEF Below, IsRule
  <2>3. GroupAt(lines, n + 1, groups[L], head[L])
    BY <1>3, <1>9, <2>2, GroupKept
  <2>4. gs = groups
    BY <1>2
  <2> HIDE DEF next, L
  <2>5. Grouping(lines, n + 1, gs, head) /\ LastOpen(lines, n + 1, gs, head, IsAgent(line))
    BY <1>1, <1>9, <2>3, LastChanges DEF L
  <2> QED BY <2>1, <2>4, <2>5
<1> QED BY <1>5, <1>6, <1>7, <1>8, <1>9

\* The groups that are read are those of all lines.
LEMMA ParseReads ==
  ASSUME NEW lines \in Seq(LineOf)
  PROVE  \E head : Grouping(lines, Len(lines), ParseRobots(lines), head)
<1> DEFINE begin == [groups |-> <<>>, lastWasAgent |-> FALSE]
           Turn(g, n) == IF n = 0 THEN begin ELSE ParseLine(g[n - 1], lines[n])
           Turns(g, N) == g = [n \in 0 .. N |-> Turn(g, n)]
           P == {N \in Nat : \E g : Turns(g, N)}
<1>1. 0 \in P
  <2> DEFINE g == [n \in 0 .. 0 |-> begin]
  <2>1. Turns(g, 0)
    OBVIOUS
  <2> HIDE DEF Turns
  <2> QED BY <2>1
<1>2. ASSUME NEW N \in Nat, N \in P PROVE N + 1 \in P
  <2>1. PICK g : Turns(g, N)
    BY <1>2
  <2> DEFINE next == ParseLine(g[N], lines[N + 1])
             h == [n \in 0 .. N + 1 |-> IF n = N + 1 THEN next ELSE g[n]]
  <2>2. \A n \in 0 .. N : g[n] = Turn(g, n)
    BY <2>1
  <2>3. \A n \in 0 .. N + 1 : h[n] = Turn(h, n)
    <3> TAKE n \in 0 .. N + 1
    <3>1. CASE n = N + 1
      BY <3>1
    <3>2. CASE n # N + 1
      <4>1. n \in 0 .. N /\ (n # 0 => n - 1 \in 0 .. N + 1 /\ n - 1 # N + 1)
        BY <3>2
      <4>2. h[n] = Turn(g, n) /\ (n # 0 => h[n - 1] = g[n - 1])
        BY <2>2, <4>1
      <4> QED BY <4>2
    <3> QED BY <3>1, <3>2
  <2>4. Turns(h, N + 1)
    BY <2>3
  <2> HIDE DEF Turns
  <2> QED BY <2>4
<1>3. Len(lines) \in Nat /\ DOMAIN lines = 1 .. Len(lines)
  OBVIOUS
<1> HIDE DEF P
<1>4. Len(lines) \in P
  BY <1>1, <1>2, <1>3, EveryNumber
<1>5. \E g : Turns(g, Len(lines))
  BY <1>4 DEF P
<1> DEFINE read == CHOOSE g : Turns(g, Len(lines))
<1>6. Turns(read, Len(lines))
  BY <1>5
<1>7. ParseRobots(lines) = read[Len(lines)].groups
  BY DEF ParseRobots
<1>8. \A n \in 0 .. Len(lines) : read[n] = Turn(read, n)
  BY <1>6
<1> HIDE DEF read
<1> DEFINE Q == {n \in Nat : n <= Len(lines) => ReadSoFar(lines, n, read[n])}
<1>9. 0 \in Q
  <2>1. read[0] = begin
    BY <1>3, <1>8
  <2>2. begin \in [groups : Seq(GroupOf), lastWasAgent : BOOLEAN] /\ begin.groups = <<>>
        /\ begin.lastWasAgent = FALSE /\ <<>> \in Seq(GroupOf) /\ DOMAIN <<>> = {}
    OBVIOUS
  <2>3. Grouping(lines, 0, <<>>, <<>>) /\ LastOpen(lines, 0, <<>>, <<>>, FALSE)
    BY <2>2 DEF Grouping, LastOpen
  <2> HIDE DEF begin
  <2> QED BY <2>1, <2>2, <2>3 DEF ReadSoFar
<1>10. ASSUME NEW n \in Nat, n \in Q PROVE n + 1 \in Q
  <2> SUFFICES ASSUME n + 1 <= Len(lines) PROVE ReadSoFar(lines, n + 1, read[n + 1])
    OBVIOUS
  <2>1. n <= Len(lines) /\ n + 1 \in 0 .. Len(lines) /\ n + 1 # 0 /\ (n + 1) - 1 = n
        /\ n + 1 \in DOMAIN lines
    BY <1>3
  <2>2. read[n + 1] = ParseLine(read[n], lines[n + 1])
    BY <1>8, <2>1
  <2>3. ReadSoFar(lines, n, read[n])
    BY <1>10, <2>1
  <2> QED BY <2>1, <2>2, <2>3, LineRead
<1> HIDE DEF Q
<1>11. Len(lines) \in Q
  BY <1>3, <1>9, <1>10, EveryNumber
<1> QED BY <1>3, <1>7, <1>11 DEF Q, ReadSoFar

-----------------------------------------------------------------------------
(* robots.txt: what its lines say *)

\* A line that stands with the head of a group has the same rules below it.
LEMMA BelowTogether ==
  ASSUME NEW lines \in Seq(LineOf), NEW n \in Nat, NEW h \in 1 .. n, NEW i \in Together(lines, h, n)
  PROVE  Below(lines, i) = Below(lines, h)
<1>1. i \in h .. n /\ \A j \in h .. i : IsAgent(lines[j])
  BY DEF Together
<1>2. ASSUME NEW r \in Below(lines, h) PROVE r \in Below(lines, i)
  <2>1. r \in DOMAIN lines /\ r \in Nat /\ r > h /\ IsRule(lines[r]) /\ ~IsAgent(lines[r])
    BY DEF Below, IsRule, IsAgent
  <2>2. r > i
    BY <1>1, <2>1
  <2>3. \A j \in i .. r : j \in h .. r
    BY <1>1
  <2> QED BY <2>1, <2>2, <2>3 DEF Below
<1>3. ASSUME NEW r \in Below(lines, i) PROVE r \in Below(lines, h)
  <2>1. r \in DOMAIN lines /\ r \in Nat /\ r > i /\ r > h
    BY <1>1 DEF Below
  <2>2. ASSUME NEW j \in h .. r, NEW k \in h .. r, j < k, ~IsAgent(lines[j])
        PROVE  ~IsAgent(lines[k])
    <3>1. j \in i .. r /\ k \in i .. r
      BY <1>1, <2>1, <2>2
    <3> QED BY <2>2, <3>1 DEF Below, IsAgent
  <2> QED BY <2>1, <2>2 DEF Below, IsAgent
<1> QED BY <1>2, <1>3

\* The groups stand in the order of their user-agent lines.
LEMMA GroupsInOrder ==
  ASSUME NEW lines \in Seq(LineOf), NEW n \in Nat, NEW groups, NEW head,
         Grouping(lines, n, groups, head), NEW f \in DOMAIN groups, NEW g \in DOMAIN groups,
         NEW i \in Together(lines, head[f], n), NEW k \in Together(lines, head[g], n), i <= k
  PROVE  f <= g
<1>1. f \in Nat /\ g \in Nat
  BY DEF Grouping
<1>2. CASE g < f
  <2>1. /\ head[g] < head[f] /\ GroupAt(lines, n, groups[f], head[f]) /\ head[g] \in 1 .. n
    BY <1>2 DEF Grouping, GroupAt
  <2>2. head[f] \in 1 .. n /\ head[f] # 1 /\ ~IsAgent(lines[head[f] - 1])
    BY <2>1 DEF GroupAt
  <2>3. i \in head[f] .. n /\ k \in head[g] .. n /\ \A j \in head[g] .. k : IsAgent(lines[j])
    BY DEF Together
  <2>4. head[f] - 1 \in head[g] .. k
    BY <2>1, <2>2, <2>3
  <2> QED BY <2>2, <2>3, <2>4
<1> QED BY <1>1, <1>2

\* The first group with one of some tokens is that of the first line with one.
LEMMA FirstLineSpeaks ==
  ASSUME NEW lines \in Seq(LineOf), NEW groups, NEW head,
         Grouping(lines, Len(lines), groups, head), NEW tokens
  PROVE  LET from == {i \in AgentLines(lines) : lines[i].value \in tokens}
             g == FirstGroup(groups, tokens)
         IN  /\ from = {} => g = 0
             /\ from # {} => /\ g \in DOMAIN groups
                             /\ \E i \in from : /\ \A j \in from : i <= j
                                                /\ i \in Together(lines, head[g], Len(lines))
<1> DEFINE N == Len(lines)
           from == {i \in AgentLines(lines) : lines[i].value \in tokens}
           g == FirstGroup(groups, tokens)
           having == {f \in DOMAIN groups : groups[f].agents \cap tokens # {}}
<1> SUFFICES /\ from = {} => g = 0
             /\ from # {} => /\ g \in DOMAIN groups
                             /\ \E i \in from : /\ \A j \in from : i <= j
                                                /\ i \in Together(lines, head[g], N)
  OBVIOUS
<1>1. N \in Nat /\ DOMAIN lines = 1 .. N /\ DOMAIN groups \subseteq Nat
  BY DEF Grouping
<1>2. ASSUME NEW f \in DOMAIN groups
      PROVE  /\ groups[f].agents = {lines[i].value : i \in Together(lines, head[f], N)}
             /\ head[f] \in 1 .. N
  BY DEF Grouping, GroupAt
<1>3. \A f \in DOMAIN groups : \A i \in Together(lines, head[f], N) : i \in AgentLines(lines)
  <2> TAKE f \in DOMAIN groups
  <2> TAKE i \in Together(lines, head[f], N)
  <2>1. i \in head[f] .. N /\ IsAgent(lines[i])
    BY <1>2 DEF Together
  <2> QED BY <1>1, <1>2, <2>1 DEF AgentLines, IsAgent
<1>4. \A i \in AgentLines(lines) : \E f \in DOMAIN groups : i \in Together(lines, head[f], N)
  BY <1>1 DEF Grouping, AgentLines, IsAgent
<1>5. \A f \in DOMAIN groups : f \in having <=> \E i \in Together(lines, head[f], N) : i \in from
  BY <1>2, <1>3
<1>6. from = {} => having = {}
  BY <1>5
<1>7. ASSUME from = {} PROVE g = 0
  BY <1>6, <1>7 DEF FirstGroup
<1>8. ASSUME from # {}
      PROVE  /\ g \in DOMAIN groups
             /\ \E i \in from : (\A j \in from : i <= j) /\ i \in Together(lines, head[g], N)
  <2>1. from \in SUBSET Nat
    BY <1>1 DEF AgentLines
  <2>2. PICK i \in from : \A j \in from : i <= j
    BY <1>8, <2>1, LeastNumber
  <2>3. PICK f \in DOMAIN groups : i \in Together(lines, head[f], N)
    BY <1>4, <2>2
  <2>4. f \in having
    BY <1>5, <2>2, <2>3
  <2>5. \A k \in having : f <= k
    <3> TAKE k \in having
    <3>1. PICK j \in Together(lines, head[k], N) : j \in from
      BY <1>5
    <3> QED BY <1>1, <2>2, <2>3, <3>1, GroupsInOrder
  <2>6. g = f
    <3>1. having # {} /\ g = CHOOSE x \in having : \A k \in having : x <= k
      BY <2>4 DEF FirstGroup
    <3> DEFINE least == CHOOSE x \in having : \A k \in having : x <= k
    <3>2. least \in having /\ \A k \in having : least <= k
      BY <2>4, <2>5
    <3>3. least <= f /\ f <= least /\ least \in Nat /\ f \in Nat
      BY <1>1, <2>4, <2>5, <3>2
    <3> HIDE DEF least
    <3>4. least = f
      BY <3>3
    <3> QED BY <3>1, <3>4 DEF least
  <2> HIDE DEF g, from, N
  <2> QED BY <2>2, <2>3, <2>6
<1> HIDE DEF g, from, N
<1> QED BY <1>7, <1>8

\* Of the lines of a file, the lengths of the values have a bound.
LEMMA LengthsBounded ==
  ASSUME NEW lines \in Seq(LineOf)
  PROVE  \E b \in Nat : \A i \in DOMAIN lines : Length[lines[i].value] \in Nat
                                              /\ Length[lines[i].value] <= b
<1> DEFINE Q(n) == \E b \in Nat : \A i \in DOMAIN lines : i <= n => Length[lines[i].value] <= b
           P == {n \in Nat : Q(n)}
<1>1. \A i \in DOMAIN lines : i \in Nat /\ i <= Len(lines) /\ Length[lines[i].value] \in Nat
  <2> TAKE i \in DOMAIN lines
  <2>1. lines[i] \in LineOf /\ i \in Nat /\ i <= Len(lines)
    OBVIOUS
  <2> QED BY <2>1, RobotsAssumption DEF LineOf
<1>2. 0 \in P
  <2>1. \A i \in DOMAIN lines : ~(i <= 0)
    OBVIOUS
  <2> QED BY <2>1
<1>3. ASSUME NEW n \in Nat, n \in P PROVE n + 1 \in P
  <2>1. PICK b \in Nat : \A i \in DOMAIN lines : i <= n => Length[lines[i].value] <= b
    BY <1>3
  <2>2. CASE n + 1 \in DOMAIN lines
    <3> DEFINE l == Length[lines[n + 1].value]
    <3>1. l \in Nat
      BY <1>1, <2>2
    <3> HIDE DEF l
    <3>2. b + l \in Nat /\ b <= b + l /\ l <= b + l
      BY <3>1
    <3>3. ASSUME NEW i \in DOMAIN lines, i <= n + 1 PROVE Length[lines[i].value] <= b + l
      <4>1. CASE i = n + 1
        BY <3>2, <4>1 DEF l
      <4>2. CASE i # n + 1
        <5>1. i <= n /\ Length[lines[i].value] \in Nat
          BY <1>1, <3>3, <4>2
        <5>2. Length[lines[i].value] <= b
          BY <2>1, <5>1
        <5> QED BY <3>1, <5>1, <5>2
      <4> QED BY <4>1, <4>2
    <3>4. Q(n + 1)
      BY <3>2, <3>3
    <3> HIDE DEF Q
    <3> QED BY <3>4
  <2>3. CASE n + 1 \notin DOMAIN lines
    <3>1. \A i \in DOMAIN lines : i <= n + 1 => i <= n
      BY <1>1, <2>3
    <3>2. Q(n + 1)
      BY <2>1, <3>1
    <3> HIDE DEF Q
    <3> QED BY <3>2
  <2> QED BY <2>2, <2>3
<1> HIDE DEF P
<1>4. Len(lines) \in P
  BY <1>2, <1>3, EveryNumber
<1> QED BY <1>1, <1>4 DEF P

\* Of some of the lines, a longest.
LEMMA LongestLine ==
  ASSUME NEW lines \in Seq(LineOf), NEW I \in SUBSET DOMAIN lines, I # {}
  PROVE  \E i \in I : \A j \in I : Length[lines[j].value] <= Length[lines[i].value]
<1> DEFINE S == {Length[lines[i].value] : i \in I}
<1>1. PICK b \in Nat : \A i \in DOMAIN lines : /\ Length[lines[i].value] \in Nat
                                               /\ Length[lines[i].value] <= b
  BY LengthsBounded
<1>2. S \in SUBSET Nat /\ S # {} /\ \A m \in S : m <= b
  BY <1>1
<1>3. \E n \in S : \A m \in S : m <= n
  BY <1>2, GreatestNumber
<1> QED BY <1>3

\* What stands below the line that speaks for an agent stands below the head of the group
\* that is selected for it; where no line speaks for it, none is.
LEMMA SelectedSpeaks ==
  ASSUME NEW lines \in Seq(LineOf), NEW groups, NEW head,
         Grouping(lines, Len(lines), groups, head), NEW a
  PROVE  LET g == SelectGroup(groups, a)
             below == UNION {Below(lines, i) : i \in SpeakingFor(lines, a)}
         IN  \/ g = 0 /\ below = {}
             \/ g \in DOMAIN groups /\ g # 0 /\ below = Below(lines, head[g])
<1> DEFINE N == Len(lines)
           g == SelectGroup(groups, a)
           len(i) == Length[lines[i].value]
           fits == {i \in AgentLines(lines) : lines[i].value \in Fits[a]}
           from == IF fits # {} THEN fits ELSE {i \in AgentLines(lines) : lines[i].value = Star}
           speaking == {i \in from : \A j \in from : len(j) < len(i) \/ (len(j) = len(i) /\ i <= j)}
           below == UNION {Below(lines, i) : i \in speaking}
           fitting == Fits[a] \cap UNION {groups[f].agents : f \in DOMAIN groups}
           longest == {t \in fitting : \A u \in fitting : Length[u] <= Length[t]}
           tokens == IF fitting # {} THEN longest ELSE {Star}
           with == {i \in AgentLines(lines) : lines[i].value \in tokens}
<1> SUFFICES \/ g = 0 /\ below = {}
             \/ g \in DOMAIN groups /\ g # 0 /\ below = Below(lines, head[g])
  BY DEF SpeakingFor
<1>1. N \in Nat /\ DOMAIN lines = 1 .. N /\ AgentLines(lines) \subseteq DOMAIN lines
      /\ AgentLines(lines) \subseteq Nat
  BY DEF AgentLines
<1>2. \A f \in DOMAIN groups : f \in Nat /\ f # 0
  BY DEF Grouping
<1>3. \A i \in DOMAIN lines : len(i) \in Nat
  BY LengthsBounded
<1>4. \A t : t \in UNION {groups[f].agents : f \in DOMAIN groups}
               <=> \E i \in AgentLines(lines) : lines[i].value = t
  <2>1. ASSUME NEW f \in DOMAIN groups, NEW t \in groups[f].agents
        PROVE  \E i \in AgentLines(lines) : lines[i].value = t
    <3>1. PICK i \in Together(lines, head[f], N) : t = lines[i].value
      BY DEF Grouping, GroupAt
    <3>2. head[f] \in 1 .. N /\ i \in head[f] .. N /\ IsAgent(lines[i])
      BY DEF Grouping, GroupAt, Together
    <3>3. i \in AgentLines(lines)
      BY <1>1, <3>2 DEF AgentLines, IsAgent
    <3> QED BY <3>1, <3>3
  <2>2. ASSUME NEW i \in AgentLines(lines)
        PROVE  \E f \in DOMAIN groups : lines[i].value \in groups[f].agents
    <3>1. PICK f \in DOMAIN groups : i \in Together(lines, head[f], N)
      BY <1>1 DEF Grouping, AgentLines, IsAgent
    <3> QED BY <3>1 DEF Grouping, GroupAt
  <2> QED BY <2>1, <2>2
<1>5. \A t : t \in fitting <=> \E i \in fits : lines[i].value = t
  BY <1>4
<1>6. /\ fitting = {} <=> fits = {}
      /\ with \subseteq from
  BY <1>5
<1>7. g = FirstGroup(groups, tokens)
  BY DEF SelectGroup
<1>8. /\ with = {} => g = 0
      /\ with # {} => /\ g \in DOMAIN groups
                      /\ \E i \in with : (\A j \in with : i <= j) /\ i \in Together(lines, head[g], N)
  <2> HIDE DEF g, tokens
  <2> QED BY <1>7, FirstLineSpeaks
<1>9. ASSUME NEW i \in from
      PROVE  i \in with <=> \A j \in from : len(j) <= len(i)
  <2>1. CASE fits # {}
    <3>1. i \in fits /\ lines[i].value \in fitting /\ tokens = longest /\ from = fits
      BY <1>5, <1>6, <1>9, <2>1
    <3>2. lines[i].value \in longest <=> \A j \in fits : len(j) <= len(i)
      BY <1>5, <3>1
    <3> QED BY <3>1, <3>2
  <2>2. CASE fits = {}
    <3>1. tokens = {Star} /\ from = {j \in AgentLines(lines) : lines[j].value = Star}
      BY <1>6, <2>2
    <3>2. i \in with /\ \A j \in from : len(j) = len(i)
      BY <1>9, <3>1
    <3>3. len(i) \in Nat
      BY <1>1, <1>3, <1>9
    <3> QED BY <3>2, <3>3
  <2> QED BY <2>1, <2>2
<1>10. from \subseteq DOMAIN lines /\ from \subseteq Nat
  BY <1>1
<1>11. from # {} => with # {}
  <2> SUFFICES ASSUME from # {} PROVE with # {}
    OBVIOUS
  <2> HIDE DEF from, with
  <2>1. PICK i \in from : \A j \in from : len(j) <= len(i)
    BY <1>10, LongestLine
  <2> QED BY <1>9, <2>1
<1> HIDE DEF from, with, fits, fitting, longest, tokens, g, N
<1>12. CASE with = {}
  BY <1>8, <1>11, <1>12
<1>13. CASE with # {}
  <2>1. g \in DOMAIN groups /\ g # 0
    BY <1>2, <1>8, <1>13
  <2>2. PICK i \in with : (\A j \in with : i <= j) /\ i \in Together(lines, head[g], N)
    BY <1>8, <1>13
  <2>3. i \in from /\ \A j \in from : len(j) <= len(i)
    BY <1>6, <1>9, <2>2
  <2>4. \A j \in from : len(j) \in Nat /\ j \in Nat
    BY <1>3, <1>10
  <2>5. i \in speaking
    <3> SUFFICES ASSUME NEW j \in from PROVE len(j) < len(i) \/ (len(j) = len(i) /\ i <= j)
      BY <2>3
    <3>1. CASE len(j) = len(i)
      <4>1. \A k \in from : len(k) <= len(j)
        BY <2>3, <3>1
      <4>2. j \in with
        BY <1>9, <4>1
      <4> QED BY <2>2, <3>1, <4>2
    <3>2. CASE len(j) # len(i)
      BY <2>3, <2>4, <3>2
    <3> QED BY <3>1, <3>2
  <2>6. ASSUME NEW k \in speaking PROVE k = i
    <3>1. k \in from /\ (len(i) < len(k) \/ (len(i) = len(k) /\ k <= i))
          /\ (len(k) < len(i) \/ (len(k) = len(i) /\ i <= k))
      BY <2>3, <2>5
    <3>2. len(i) \in Nat /\ len(k) \in Nat /\ i \in Nat /\ k \in Nat
      BY <2>3, <2>4, <3>1
    <3> HIDE DEF len
    <3> QED BY <3>1, <3>2
  <2>7. speaking = {i}
    BY <2>5, <2>6
  <2> HIDE DEF speaking
  <2>8. below = Below(lines, i)
    BY <2>7
  <2>9. Below(lines, i) = Below(lines, head[g])
    <3>1. head[g] \in 1 .. N /\ N \in Nat
      BY <1>1, <2>1 DEF Grouping, GroupAt, N
    <3> QED BY <2>2, <3>1, BelowTogether
  <2> QED BY <2>1, <2>8, <2>9
<1> QED BY <1>12, <1>13

\* Every agent may fetch what the lines of a file, read as they stand, do not deny it: the
\* longest pattern below the line that speaks for the agent decides, for any file (robots.ts
\* parseRobots, selectGroup, isAllowed).
THEOREM RobotsDeclared ==
  \A lines \in Seq(LineOf) : AsDeclared(lines)
<1> SUFFICES ASSUME NEW lines \in Seq(LineOf), NEW a \in Agent, NEW p \in Path
             PROVE  LET rules == UNION {Below(lines, i) : i \in SpeakingFor(lines, a)}
                        apply == {r \in rules : lines[r].value # Empty /\ p \in Covers[lines[r].value]}
                        denied == \E r \in apply : \A s \in apply :
                                    /\ lines[r].field = "disallow"
                                    /\ \/ Length[lines[s].value] < Length[lines[r].value]
                                       \/ /\ Length[lines[s].value] = Length[lines[r].value]
                                          /\ lines[s].field = "disallow"
                    IN  EvaluateAiAccess(lines, p)[a] = ~denied
  BY Zenon DEF AsDeclared
<1> DEFINE groups == ParseRobots(lines)
           below == UNION {Below(lines, i) : i \in SpeakingFor(lines, a)}
           len(r) == Length[lines[r].value]
           apply == {r \in below : lines[r].value # Empty /\ p \in Covers[lines[r].value]}
           denied == \E r \in apply : \A s \in apply :
                       /\ lines[r].field = "disallow"
                       /\ len(s) < len(r) \/ (len(s) = len(r) /\ lines[s].field = "disallow")
           g == SelectGroup(groups, a)
<1> SUFFICES EvaluateAiAccess(lines, p)[a] = ~denied
  OBVIOUS
<1> SUFFICES (g = 0 \/ Winner(groups[g].rules, p).allow) = ~denied
  <2>1. EvaluateAiAccess(lines, p)[a] = (g = 0 \/ Winner(groups[g].rules, p).allow)
    BY DEF EvaluateAiAccess, IsAllowed
  <2> HIDE DEF g, denied
  <2> QED BY <2>1
<1>1. PICK head : Grouping(lines, Len(lines), groups, head)
  BY ParseReads
<1>2. \/ g = 0 /\ below = {}
      \/ g \in DOMAIN groups /\ g # 0 /\ below = Below(lines, head[g])
  <2> HIDE DEF groups
  <2> QED BY <1>1, SelectedSpeaks
<1> HIDE DEF groups, g, below
<1>3. CASE g = 0 /\ below = {}
  BY <1>3
<1>4. CASE g \in DOMAIN groups /\ g # 0 /\ below = Below(lines, head[g])
  <2> DEFINE rules == groups[g].rules
             w == Winner(rules, p)
             I == Applying(rules, Len(rules), p)
  <2>1. GroupAt(lines, Len(lines), groups[g], head[g])
    BY <1>1, <1>4 DEF Grouping
  <2>2. rules \in Seq(Rule)
    BY <2>1 DEF GroupAt, GroupOf
  <2>3. below = RulesBelow(lines, head[g], Len(lines))
    BY <1>4 DEF RulesBelow, Below
  <2>4. {rules[m] : m \in DOMAIN rules} = {RuleOf(lines[r]) : r \in below}
    BY <2>1, <2>3 DEF GroupAt
  <2>5. \A r \in below : /\ r \in DOMAIN lines /\ lines[r] \in LineOf
                         /\ lines[r].field \in {"allow", "disallow"}
    BY <1>4 DEF Below
  <2>6. \A r \in below : len(r) \in Nat
    BY <2>5, LengthsBounded
  <2> HIDE DEF rules
  <2>7. ASSUME NEW m \in I
        PROVE  \E r \in apply : len(r) = Length[rules[m].pattern]
                                /\ (rules[m].allow <=> lines[r].field = "allow")
    <3>1. m \in DOMAIN rules /\ rules[m].pattern # Empty /\ p \in Covers[rules[m].pattern]
      BY <2>2 DEF Applying
    <3>2. PICK r \in below : rules[m] = RuleOf(lines[r])
      BY <2>4, <3>1
    <3>3. rules[m].pattern = lines[r].value /\ rules[m].allow = (lines[r].field = "allow")
      BY <3>2 DEF RuleOf
    <3> QED BY <3>1, <3>3
  <2>8. ASSUME NEW r \in apply
        PROVE  \E m \in I : len(r) = Length[rules[m].pattern]
                            /\ (rules[m].allow <=> lines[r].field = "allow")
    <3>1. r \in below /\ lines[r].value # Empty /\ p \in Covers[lines[r].value]
      OBVIOUS
    <3>2. PICK m \in DOMAIN rules : rules[m] = RuleOf(lines[r])
      BY <2>4, <3>1
    <3>3. rules[m].pattern = lines[r].value /\ rules[m].allow = (lines[r].field = "allow")
      BY <3>2 DEF RuleOf
    <3>4. m \in 1 .. Len(rules)
      BY <2>2
    <3> QED BY <3>1, <3>3, <3>4 DEF Applying
  <2>9. Wins(w, rules, I)
    BY <2>2, WinnerWins
  <2>10. apply \subseteq below
    OBVIOUS
  <2> HIDE DEF I, w, apply
  <2>11. CASE I = {}
    <3>1. apply = {}
      BY <2>8, <2>11
    <3>2. w.allow = TRUE
      BY <2>9, <2>11 DEF Wins
    <3> QED BY <1>4, <3>1, <3>2 DEF w, rules
  <2>12. CASE I # {}
    <3>1. /\ \E m \in I : w.length = Length[rules[m].pattern]
          /\ \A m \in I : Length[rules[m].pattern] <= w.length
          /\ w.allow <=> \E m \in I : rules[m].allow /\ w.length = Length[rules[m].pattern]
      BY <2>9, <2>12 DEF Wins
    <3>2. \A r \in apply : len(r) <= w.length
      BY <2>8, <3>1
    <3>3. PICK t \in apply : len(t) = w.length
      BY <2>7, <3>1
    <3>4. w.length \in Nat /\ \A r \in apply : len(r) \in Nat
      BY <2>6, <2>10, <3>3
    <3>5. w.allow <=> \E r \in apply : lines[r].field = "allow" /\ len(r) = w.length
      <4>1. w.allow => \E r \in apply : lines[r].field = "allow" /\ len(r) = w.length
        BY <2>7, <3>1
      <4>2. ASSUME NEW r \in apply, lines[r].field = "allow", len(r) = w.length PROVE w.allow
        BY <2>8, <3>1, <4>2
      <4> QED BY <4>1, <4>2
    <3>6. ASSUME denied PROVE ~w.allow
      <4>1. PICK r \in apply : \A s \in apply :
                       /\ lines[r].field = "disallow"
                       /\ len(s) < len(r) \/ (len(s) = len(r) /\ lines[s].field = "disallow")
        BY <3>6
      <4>2. len(r) = w.length
        <5>1. len(r) <= w.length /\ (w.length < len(r) \/ w.length = len(r))
          BY <3>2, <3>3, <4>1
        <5>2. len(r) \in Nat /\ w.length \in Nat
          BY <3>4
        <5> HIDE DEF len
        <5> QED BY <5>1, <5>2
      <4>3. ASSUME NEW s \in apply, lines[s].field = "allow", len(s) = w.length PROVE FALSE
        <5>1. len(s) < len(r)
          BY <4>1, <4>3
        <5>2. len(s) = len(r) /\ len(r) \in Nat
          BY <3>4, <4>2, <4>3
        <5> HIDE DEF len
        <5> QED BY <5>1, <5>2
      <4> QED BY <3>5, <4>3
    <3>7. ASSUME ~w.allow PROVE denied
      <4>1. \A s \in apply : lines[s].field = "allow" \/ lines[s].field = "disallow"
        BY <2>5, <2>10
      <4>2. \A s \in apply : len(s) = w.length => lines[s].field = "disallow"
        BY <3>5, <3>7, <4>1
      <4>3. \A s \in apply : len(s) < w.length \/ len(s) = w.length
        BY <3>2, <3>4
      <4> QED BY <3>3, <4>2, <4>3
    <3> HIDE DEF denied
    <3> QED BY <1>4, <3>6, <3>7 DEF w, rules
  <2> QED BY <2>11, <2>12
<1> QED BY <1>2, <1>3, <1>4

\* In particular for every file of the tasks.
THEOREM RobotsAnswered == Spec => []RobotsAsDeclared
<1> DEFINE File == task.of = "robots" => task.lines \in Seq(LineOf)
<1>1. Init => File
  <2> SUFFICES ASSUME Init, task.of = "robots" PROVE task.lines \in Seq(LineOf)
    OBVIOUS
  <2>1. task \in RobotsTasks
    BY DEF Init, RobotsTasks, ChunkTasks, HtmlTasks, GroundingTasks, GateTasks, ReadinessTasks,
           ReportTasks, RenderTasks, AccessTasks
  <2>2. task.lines \in SeqOf(Records, 5)
    BY <2>1 DEF RobotsTasks
  <2>3. Records \subseteq LineOf
    <3>1. ASSUME NEW f, f \in Field, NEW vs, vs \subseteq DOMAIN Length
          PROVE  Record(f, vs) \subseteq LineOf
      BY <3>1 DEF Record, LineOf
    <3>2. /\ {gpt, gptbot, Star} \subseteq DOMAIN Length /\ {dir} \subseteq DOMAIN Length
          /\ {dir, root, Empty} \subseteq DOMAIN Length /\ {root} \subseteq DOMAIN Length
      BY TokenAssumption
    <3>3. "user-agent" \in Field /\ "allow" \in Field /\ "disallow" \in Field /\ "sitemap" \in Field
      BY DEF Field
    <3>4. /\ Record("user-agent", {gpt, gptbot, Star}) \subseteq LineOf
          /\ Record("allow", {dir}) \subseteq LineOf
      BY <3>1, <3>2, <3>3, Zenon
    <3>5. /\ Record("disallow", {dir, root, Empty}) \subseteq LineOf
          /\ Record("sitemap", {root}) \subseteq LineOf
      BY <3>1, <3>2, <3>3, Zenon
    <3> QED BY <3>4, <3>5, Zenon DEF Records
  <2>4. PICK n \in 0 .. 5 : task.lines \in [1 .. n -> Records]
    BY <2>2 DEF SeqOf
  <2>5. task.lines \in Seq(Records) /\ Records \subseteq LineOf
    BY <2>3, <2>4
  <2> QED BY <2>5
<1>2. File /\ [Next]_<<task, answer>> => File'
  BY DEF Next, Run
<1>3. File => RobotsAsDeclared
  BY RobotsDeclared DEF RobotsAsDeclared, Answered
<1> HIDE DEF File
<1> QED BY <1>1, <1>2, <1>3, PTL DEF Spec

-----------------------------------------------------------------------------
(* Chunks: the windows *)

Span == [start : Nat, end : Nat]

\* The sentences of a text: none is empty, and each ends before the next begins.
InText(units) ==
  /\ units \in Seq(Span)
  /\ \A n \in DOMAIN units : units[n].start < units[n].end
  /\ \A m, n \in DOMAIN units : m < n => units[m].end <= units[n].start

\* What is known of the units of a text.
LEMMA UnitsInOrder ==
  ASSUME NEW units, InText(units)
  PROVE  /\ Len(units) \in Nat /\ DOMAIN units = 1 .. Len(units)
         /\ \A n \in 1 .. Len(units) : /\ units[n].start \in Nat /\ units[n].end \in Nat
                                       /\ units[n].start < units[n].end
         /\ \A m, n \in 1 .. Len(units) : m < n => units[m].end <= units[n].start
         /\ \A m, n \in 1 .. Len(units) : m < n => units[m].start < units[n].start
         /\ \A m, n \in 1 .. Len(units) : m <= n => units[m].end <= units[n].end
<1>1. Len(units) \in Nat /\ DOMAIN units = 1 .. Len(units)
  BY DEF InText
<1>2. ASSUME NEW n \in 1 .. Len(units)
      PROVE  units[n].start \in Nat /\ units[n].end \in Nat /\ units[n].start < units[n].end
  <2>1. units[n] \in Span
    BY <1>1 DEF InText
  <2> QED BY <1>1, <2>1 DEF InText, Span
<1>3. \A m, n \in 1 .. Len(units) : m < n => units[m].end <= units[n].start
  BY <1>1 DEF InText
<1>4. ASSUME NEW m \in 1 .. Len(units), NEW n \in 1 .. Len(units), m < n
      PROVE  units[m].start < units[n].start /\ units[m].end <= units[n].end
  <2>1. units[m].end <= units[n].start
    BY <1>3, <1>4
  <2> QED BY <1>2, <2>1
<1>5. ASSUME NEW m \in 1 .. Len(units), NEW n \in 1 .. Len(units), m <= n
      PROVE  units[m].end <= units[n].end
  <2>1. m < n \/ m = n
    BY <1>5
  <2> QED BY <1>2, <1>4, <2>1
<1> QED BY <1>1, <1>2, <1>3, <1>4, <1>5

\* The units that fit are the first ones, as many as Fitting says.
LEMMA FittingFirst ==
  ASSUME NEW units, InText(units), NEW i \in 1 .. Len(units)
  PROVE  /\ Fitting(units, i) \in Nat /\ i + Fitting(units, i) <= Len(units) + 1
         /\ \A j \in i .. Len(units) :
              units[j].end - units[i].start <= Target <=> j < i + Fitting(units, i)
<1> DEFINE N == Len(units)
           fits(j) == units[j].end - units[i].start <= Target
           S == {j \in i .. N : fits(j)}
           beyond == {j \in i .. N + 1 : j = N + 1 \/ ~fits(j)}
<1>1. N \in Nat /\ i \in Nat /\ i <= N /\ Target \in Nat
  BY UnitsInOrder, ChunkAssumption
<1>2. PICK m \in beyond : \A j \in beyond : m <= j
  <2>1. N + 1 \in beyond /\ beyond \in SUBSET Nat
    BY <1>1
  <2> HIDE DEF beyond
  <2> QED BY <2>1, LeastNumber
<1>3. m \in i .. N + 1 /\ \A j \in i .. N : j < m => fits(j)
  <2>1. ASSUME NEW j \in i .. N, j < m PROVE fits(j)
    <3>1. j \notin beyond /\ j \in i .. N + 1
      BY <1>1, <1>2, <2>1
    <3> QED BY <3>1
  <2> QED BY <2>1
<1>4. ASSUME NEW j \in i .. N, fits(j) PROVE j < m
  <2>1. CASE m <= j
    <3>1. m \in 1 .. N /\ j \in 1 .. N /\ m # N + 1 /\ i \in 1 .. N
      BY <1>1, <1>3, <2>1
    <3>2. ~fits(m)
      BY <1>2, <3>1
    <3>3. units[m].end <= units[j].end
      BY <2>1, <3>1, UnitsInOrder
    <3>4. units[m].end \in Nat /\ units[j].end \in Nat /\ units[i].start \in Nat
      BY <3>1, UnitsInOrder
    <3> QED BY <1>1, <1>4, <3>2, <3>3, <3>4
  <2> QED BY <1>1, <1>3, <2>1
<1>5. S = i .. m - 1
  <2>1. \A j \in i .. m - 1 : j \in i .. N /\ j < m
    BY <1>1, <1>3
  <2>2. \A j \in S : j \in i .. N /\ j < m /\ m \in Int /\ j \in Int
    BY <1>1, <1>3, <1>4
  <2>3. \A j \in S : j \in i .. m - 1
    BY <2>2
  <2> QED BY <1>3, <2>1, <2>3
<1>6. Cardinality(S) = m - i
  <2>1. i \in Int /\ m \in Int /\ m - 1 \in Int /\ i <= m
    BY <1>1, <1>3
  <2>2. Cardinality(i .. m - 1) = IF i > m - 1 THEN 0 ELSE (m - 1) - i + 1
    BY <2>1, FS_Interval
  <2>3. (IF i > m - 1 THEN 0 ELSE (m - 1) - i + 1) = m - i
    BY <2>1
  <2> QED BY <1>5, <2>2, <2>3
<1>7. Fitting(units, i) = m - i
  BY <1>6 DEF Fitting
<1> HIDE DEF N, S, beyond, fits
<1>8. m - i \in Nat /\ i + (m - i) = m /\ m <= N + 1
  BY <1>1, <1>3
<1>9. \A j \in i .. N : fits(j) <=> j < m
  BY <1>3, <1>4
<1> QED BY <1>7, <1>8, <1>9 DEF N, fits

\* The smaller of two numbers.
LEMMA MinOfTwo ==
  ASSUME NEW a \in Int, NEW b \in Int
  PROVE  /\ a <= b => Min({a, b}) = a
         /\ b <= a => Min({a, b}) = b
<1> DEFINE P(x) == x \in {a, b} /\ \A y \in {a, b} : x <= y
           m == CHOOSE x \in {a, b} : \A y \in {a, b} : x <= y
<1>1. m = Min({a, b})
  BY DEF Min
<1>2. (a <= b => P(a)) /\ (b <= a => P(b))
  OBVIOUS
<1>3. a <= b \/ b <= a
  OBVIOUS
<1>4. m \in {a, b} /\ m <= a /\ m <= b
  BY <1>2, <1>3
<1> HIDE DEF m
<1> QED BY <1>1, <1>4

\* Where the window that starts at unit i ends: after that unit or the target-th character
\* of it, after all units before the next one, and before that; and no later window ends
\* before it.
LEMMA WindowSpans ==
  ASSUME NEW units, InText(units), NEW i \in 1 .. Len(units)
  PROVE  /\ WindowNext(units, i) \in i + 1 .. Len(units) + 1
         /\ WindowEnd(units, i) \in Nat /\ units[i].start < WindowEnd(units, i)
         /\ \A j \in i .. WindowNext(units, i) - 1 :
              Min({units[j].end, units[j].start + Target}) <= WindowEnd(units, i)
         /\ \A j \in WindowNext(units, i) .. Len(units) : WindowEnd(units, i) <= units[j].start
<1> DEFINE N == Len(units)
           F == Fitting(units, i)
           next == WindowNext(units, i)
           end == WindowEnd(units, i)
<1>1. N \in Nat /\ i \in Nat /\ i <= N /\ Target \in Nat /\ Target > 0
  BY UnitsInOrder, ChunkAssumption
<1>2. F \in Nat /\ i + F <= N + 1 /\ \A j \in i .. N : units[j].end - units[i].start <= Target <=> j < i + F
  BY FittingFirst
<1>3. \A n \in 1 .. N : units[n].start \in Nat /\ units[n].end \in Nat /\ units[n].start < units[n].end
  BY UnitsInOrder
<1> HIDE DEF F, N
<1>4. CASE F = 0
  <2>1. next = i + 1
    <3>1. Max({1, 0}) = 1
      BY DEF Max
    <3> QED BY <1>4, <3>1 DEF WindowNext, F
  <2>2. end = Min({units[i].end, units[i].start + Target})
    BY <1>4 DEF WindowEnd, F
  <2>3. ~(units[i].end - units[i].start <= Target)
    BY <1>1, <1>2, <1>4
  <2>4. units[i].start \in Nat /\ units[i].end \in Nat /\ units[i].start + Target \in Nat
        /\ units[i].start + Target <= units[i].end
    BY <1>1, <1>3, <2>3
  <2>5. end = units[i].start + Target
    BY <2>2, <2>4, MinOfTwo
  <2>6. \A j \in i .. next - 1 : j = i
    BY <1>1, <2>1
  <2>7. \A j \in next .. N : end <= units[j].start
    <3> TAKE j \in next .. N
    <3>1. i \in 1 .. N /\ j \in 1 .. N /\ i < j
      BY <1>1, <2>1
    <3>2. units[i].end <= units[j].start
      BY <3>1, UnitsInOrder DEF N
    <3> QED BY <1>3, <2>4, <2>5, <3>1, <3>2
  <2>8. next \in i + 1 .. N + 1 /\ end \in Nat /\ units[i].start < end /\ end <= end
    BY <1>1, <2>1, <2>4, <2>5
  <2> HIDE DEF next, end
  <2> QED BY <2>2, <2>6, <2>7, <2>8 DEF next, end, N
<1>5. CASE F # 0
  <2>1. next = i + F
    <3>1. Max({1, F}) = F
      <4> DEFINE P(x) == x \in {1, F} /\ \A y \in {1, F} : x >= y
                 m == CHOOSE x \in {1, F} : \A y \in {1, F} : x >= y
      <4>1. P(F)
        BY <1>2, <1>5
      <4>2. m \in {1, F} /\ m >= F /\ m >= 1
        BY <4>1
      <4>3. m = Max({1, F})
        BY DEF Max
      <4> HIDE DEF m
      <4> QED BY <1>2, <1>5, <4>2, <4>3
    <3> QED BY <3>1 DEF WindowNext, F
  <2>2. end = units[next - 1].end
    BY <1>5 DEF WindowEnd, F
  <2>3. next \in i + 1 .. N + 1 /\ next - 1 \in 1 .. N /\ i <= next - 1
    BY <1>1, <1>2, <1>5, <2>1
  <2> HIDE DEF next, end
  <2>4. units[i].end <= units[next - 1].end
    BY <1>1, <2>3, UnitsInOrder DEF N
  <2>5. end \in Nat /\ units[i].start < end
    BY <1>1, <1>3, <2>2, <2>3, <2>4
  <2>6. ASSUME NEW j \in i .. next - 1
        PROVE  Min({units[j].end, units[j].start + Target}) <= end
    <3>1. j \in 1 .. N /\ j <= next - 1
      BY <1>1, <2>3
    <3>2. units[j].end <= end
      BY <2>2, <2>3, <3>1, UnitsInOrder DEF N
    <3>3. units[j].end \in Nat /\ units[j].start + Target \in Nat
      BY <1>1, <1>3, <3>1
    <3>4. Min({units[j].end, units[j].start + Target}) <= units[j].end
          /\ Min({units[j].end, units[j].start + Target}) \in Nat
      BY <3>3, MinOfTwo
    <3> QED BY <2>5, <3>2, <3>3, <3>4
  <2>7. ASSUME NEW j \in next .. N PROVE end <= units[j].start
    <3>1. j \in 1 .. N /\ next - 1 < j
      BY <1>1, <2>3
    <3> QED BY <2>2, <2>3, <3>1, UnitsInOrder DEF N
  <2> QED BY <2>3, <2>5, <2>6, <2>7 DEF next, end, N
<1> QED BY <1>4, <1>5

\* No window ends before one that starts earlier.
LEMMA WindowsAdvance ==
  ASSUME NEW units, InText(units), NEW i \in 1 .. Len(units), NEW k \in 1 .. Len(units), i < k
  PROVE  WindowEnd(units, i) <= WindowEnd(units, k)
<1> DEFINE N == Len(units)
           end(n) == WindowEnd(units, n)
           next == WindowNext(units, i)
<1>1. /\ next \in i + 1 .. N + 1 /\ end(i) \in Nat /\ end(k) \in Nat
      /\ units[k].start < end(k) /\ units[k].start \in Nat
      /\ \A j \in next .. N : end(i) <= units[j].start
  BY WindowSpans, UnitsInOrder
<1>2. N \in Nat /\ i \in Nat /\ k \in Nat /\ Target \in Nat
  BY UnitsInOrder, ChunkAssumption
<1>3. CASE next <= k
  <2>1. end(i) <= units[k].start
    BY <1>1, <1>2, <1>3
  <2> HIDE DEF end
  <2> QED BY <1>1, <2>1 DEF end
<1>4. CASE k < next
  <2> DEFINE F == Fitting(units, i)
             G == Fitting(units, k)
  <2>1. /\ F \in Nat /\ i + F <= N + 1
        /\ \A j \in i .. N : units[j].end - units[i].start <= Target <=> j < i + F
    BY FittingFirst
  <2>2. /\ G \in Nat /\ k + G <= N + 1
        /\ \A j \in k .. N : units[j].end - units[k].start <= Target <=> j < k + G
    BY FittingFirst
  <2>3. next = i + Max({1, F})
    BY DEF WindowNext
  <2>4. F # 0 /\ next = i + F
    <3>1. Max({1, F}) \in {1, F}
      <4> DEFINE m == CHOOSE x \in {1, F} : \A y \in {1, F} : x >= y
      <4>1. (F >= 1 => \A y \in {1, F} : F >= y) /\ (~(F >= 1) => \A y \in {1, F} : 1 >= y)
        BY <2>1
      <4>2. m \in {1, F}
        BY <4>1
      <4> QED BY <4>2 DEF Max
    <3> HIDE DEF next, F
    <3>2. next # i + 1
      BY <1>2, <1>4
    <3> QED BY <1>1, <1>2, <2>1, <2>3, <3>1, <3>2
  <2>5. end(i) = units[next - 1].end
    BY <2>4 DEF WindowEnd
  <2> DEFINE last == next - 1
  <2>6. last \in k .. N /\ last \in i .. N /\ last \in 1 .. N /\ last < i + F
    BY <1>1, <1>2, <1>4, <2>1, <2>4
  <2>7. units[last].end - units[k].start <= Target
    <3>1. units[last].end - units[i].start <= Target
      BY <2>1, <2>6
    <3>2. units[i].start < units[k].start /\ units[i].start \in Nat /\ units[k].start \in Nat
          /\ units[last].end \in Nat
      BY <2>6, UnitsInOrder
    <3> QED BY <1>2, <3>1, <3>2
  <2>8. last < k + G
    BY <2>2, <2>6, <2>7
  <2> HIDE DEF F, G, next
  <2>9. G # 0 /\ last <= (k + G) - 1 /\ (k + G) - 1 \in 1 .. N
    BY <1>2, <2>2, <2>6, <2>8
  <2>10. end(k) = units[(k + G) - 1].end
    <3>1. WindowNext(units, k) = k + G
      <4> DEFINE m == CHOOSE x \in {1, G} : \A y \in {1, G} : x >= y
      <4>1. \A y \in {1, G} : G >= y
        BY <2>2, <2>9
      <4>2. m \in {1, G} /\ m >= G
        BY <4>1
      <4>3. m = G
        <5> HIDE DEF m
        <5> QED BY <2>2, <2>9, <4>2
      <4> QED BY <4>3 DEF WindowNext, Max, G
    <3> QED BY <2>9, <3>1 DEF WindowEnd, G
  <2>11. units[last].end <= units[(k + G) - 1].end
    BY <2>6, <2>9, UnitsInOrder
  <2> HIDE DEF end, last
  <2> QED BY <2>5, <2>10, <2>11 DEF last, end
<1>5. next <= k \/ k < next
  <2> HIDE DEF next
  <2> QED BY <1>1, <1>2
<1> QED BY <1>3, <1>4, <1>5

\* The next window starts later, and leaves no unit out.
LEMMA RestartsLater ==
  ASSUME NEW units, InText(units), NEW i \in 1 .. Len(units)
  PROVE  Restart(units, i) \in i + 1 .. WindowNext(units, i)
<1> DEFINE next == WindowNext(units, i)
           base == IF Overlap > 0 /\ next - 1 > i THEN next - 1 ELSE next
           S == {base} \cup {k \in i + 1 .. base - 1 : units[k].start >= WindowEnd(units, i) - Overlap}
           least == CHOOSE x \in S : \A y \in S : x <= y
<1>1. next \in i + 1 .. Len(units) + 1 /\ i \in Nat /\ Len(units) \in Nat
  BY WindowSpans, UnitsInOrder
<1> HIDE DEF next
<1>2. base \in i + 1 .. next
  BY <1>1
<1> HIDE DEF base
<1>3. S \subseteq i + 1 .. next /\ S \in SUBSET Nat /\ S # {}
  BY <1>1, <1>2
<1> HIDE DEF S
<1>4. \E x \in S : \A y \in S : x <= y
  BY <1>3, LeastNumber
<1>5. least \in S
  BY <1>4
<1>6. Restart(units, i) = least
  BY DEF Restart, Min, next, base, S
<1> HIDE DEF least
<1> QED BY <1>3, <1>5, <1>6 DEF next

-----------------------------------------------------------------------------
(* Chunks: the loop *)

\* A character of one of the units, up to the target-th, is in one of the chunks.
Covered(chunks, units, n) ==
  \A x \in units[n].start .. Min({units[n].end, units[n].start + Target}) - 1 :
    \E c \in DOMAIN chunks : chunks[c].start <= x /\ x < chunks[c].end

\* What is known of the chunks when the next window starts at unit i.
Chunked(units, i, chunks) ==
  /\ i \in 1 .. Len(units) + 1 /\ chunks \in Seq(Span)
  /\ i # 1 => chunks # <<>>
  /\ \A n \in 1 .. i - 1 : Covered(chunks, units, n)
  /\ InOrder(chunks)
  /\ chunks # <<>> /\ i <= Len(units) =>
       /\ chunks[Len(chunks)].start < units[i].start
       /\ chunks[Len(chunks)].end <= WindowEnd(units, i)

\* A chunk that begins with a unit of the window, or before, and ends with the window has
\* all units of the window.
LEMMA WindowCovers ==
  ASSUME NEW units, InText(units), NEW i \in 1 .. Len(units),
         NEW chunks, NEW c \in DOMAIN chunks, chunks[c].start \in Nat,
         chunks[c].start <= units[i].start, chunks[c].end = WindowEnd(units, i),
         NEW n \in i .. Restart(units, i) - 1
  PROVE  Covered(chunks, units, n)
<1>1. n \in i .. WindowNext(units, i) - 1 /\ n \in 1 .. Len(units)
  BY RestartsLater, WindowSpans, UnitsInOrder
<1>2. units[i].start <= units[n].start /\ units[i].start \in Nat /\ units[n].start \in Nat
      /\ units[n].end \in Nat /\ WindowEnd(units, i) \in Nat
  <2>1. i < n \/ i = n
    BY <1>1
  <2>2. /\ \A m \in 1 .. Len(units) : units[m].start \in Nat /\ units[m].end \in Nat
        /\ \A m, k \in 1 .. Len(units) : m < k => units[m].start < units[k].start
    BY UnitsInOrder
  <2>3. /\ units[i].start \in Nat /\ units[n].start \in Nat /\ units[n].end \in Nat
        /\ i < n => units[i].start < units[n].start
    BY <1>1, <2>2
  <2>4. WindowEnd(units, i) \in Nat
    BY WindowSpans
  <2>5. units[i].start <= units[n].start
    BY <2>1, <2>3
  <2> QED BY <2>3, <2>4, <2>5
<1> DEFINE least == Min({units[n].end, units[n].start + Target})
<1>3. least <= WindowEnd(units, i)
  BY <1>1, WindowSpans
<1>4. least \in Nat
  <2>1. units[n].start + Target \in Nat /\ units[n].end \in Int /\ units[n].start + Target \in Int
    BY <1>2, ChunkAssumption
  <2>2. units[n].end <= units[n].start + Target \/ units[n].start + Target <= units[n].end
    BY <2>1
  <2> QED BY <1>2, <2>1, <2>2, MinOfTwo
<1> HIDE DEF least
<1>5. ASSUME NEW x \in units[n].start .. least - 1
      PROVE  chunks[c].start <= x /\ x < chunks[c].end
  BY <1>2, <1>3, <1>4
<1> QED BY <1>5 DEF Covered, least

\* One window more.
LEMMA WindowEmitted ==
  ASSUME NEW units, InText(units), NEW i \in 1 .. Len(units), NEW chunks,
         Chunked(units, i, chunks)
  PROVE  Chunked(units, Restart(units, i), Emit(units, chunks, i))
<1> DEFINE N == Len(units)
           k == Restart(units, i)
           L == Len(chunks)
           end == WindowEnd(units, i)
           next == Emit(units, chunks, i)
<1> SUFFICES Chunked(units, k, next)
  OBVIOUS
<1>1. k \in i + 1 .. WindowNext(units, i) /\ WindowNext(units, i) \in i + 1 .. N + 1
      /\ N \in Nat /\ i \in Nat
  BY RestartsLater, WindowSpans, UnitsInOrder
<1>2. units[i].start \in Nat /\ end \in Nat /\ units[i].start < end
  BY WindowSpans, UnitsInOrder
<1>3. chunks \in Seq(Span) /\ L \in Nat /\ DOMAIN chunks = 1 .. L /\ (chunks = <<>> <=> L = 0)
  BY DEF Chunked
<1>4. \A c \in 1 .. L : chunks[c].start \in Nat /\ chunks[c].end \in Nat
  <2> TAKE c \in 1 .. L
  <2>1. chunks[c] \in Span
    BY <1>3
  <2> QED BY <2>1 DEF Span
<1>5. k <= N => units[i].start < units[k].start /\ end <= WindowEnd(units, k)
  BY <1>1, UnitsInOrder, WindowsAdvance
<1>6. k \in 1 .. N + 1 /\ k # 1
  BY <1>1
<1>7. \A n \in 1 .. k - 1 : n \in 1 .. i - 1 \/ n \in i .. k - 1
  BY <1>1
<1> DEFINE new == [start |-> units[i].start, end |-> end]
<1>8. CASE next = Append(chunks, new)
  <2>1. new \in Span /\ new.start = units[i].start /\ new.end = end
    BY <1>2 DEF Span
  <2> HIDE DEF new
  <2>2. /\ next \in Seq(Span) /\ Len(next) = L + 1 /\ DOMAIN next = 1 .. L + 1 /\ next[L + 1] = new
        /\ \A c \in 1 .. L : next[c] = chunks[c]
    BY <1>3, <1>8, <2>1
  <2> HIDE DEF next, end, k, L
  <2>3. ASSUME NEW n \in 1 .. i - 1 PROVE Covered(next, units, n)
    <3>1. Covered(chunks, units, n)
      BY DEF Chunked
    <3>2. \A c \in DOMAIN chunks : c \in DOMAIN next /\ next[c] = chunks[c]
      BY <1>3, <2>2
    <3> QED BY <3>1, <3>2 DEF Covered
  <2>4. ASSUME NEW n \in i .. k - 1 PROVE Covered(next, units, n)
    <3>1. L + 1 \in DOMAIN next /\ next[L + 1].start = units[i].start /\ next[L + 1].end = end
      BY <1>3, <2>1, <2>2
    <3>2. next[L + 1].start <= units[i].start /\ next[L + 1].start \in Nat
      BY <1>2, <3>1
    <3> QED BY <3>1, <3>2, WindowCovers DEF end, k
  <2>5. InOrder(next)
    <3>1. ASSUME NEW n \in DOMAIN next PROVE next[n].start < next[n].end
      <4>1. n \in 1 .. L \/ n = L + 1
        BY <1>3, <2>2
      <4> QED BY <1>2, <1>3, <2>1, <2>2, <4>1 DEF Chunked, InOrder
    <3>2. ASSUME NEW n \in 2 .. Len(next) PROVE next[n - 1].start < next[n].start
      <4>1. CASE n = L + 1
        <5>1. n - 1 = L /\ L \in 1 .. L /\ L # 0
          BY <1>3, <4>1
        <5>2. chunks[L].start < units[i].start
          BY <1>1, <1>3, <5>1 DEF Chunked, L
        <5> QED BY <2>1, <2>2, <4>1, <5>1, <5>2
      <4>2. CASE n # L + 1
        <5>1. n \in 2 .. L /\ n - 1 \in 1 .. L /\ n \in 1 .. L
          BY <1>3, <2>2, <4>2
        <5> QED BY <2>2, <5>1 DEF Chunked, InOrder, L
      <4> QED BY <4>1, <4>2
    <3> QED BY <3>1, <3>2 DEF InOrder
  <2>6. next # <<>>
    BY <1>3, <2>2
  <2>7. k <= N => next[Len(next)].start < units[k].start /\ next[Len(next)].end <= WindowEnd(units, k)
    BY <1>5, <2>1, <2>2
  <2> QED BY <1>6, <1>7, <2>2, <2>3, <2>4, <2>5, <2>6, <2>7 DEF Chunked
<1>9. CASE next = Extend(chunks, end) /\ chunks # <<>>
  <2>1. L # 0 /\ L \in 1 .. L /\ chunks[L] \in Span
    BY <1>3, <1>9
  <2>2. /\ chunks[L].start < units[i].start /\ chunks[L].end <= end
        /\ chunks[L].start \in Nat /\ chunks[L].end \in Nat
    BY <1>1, <1>4, <1>9, <2>1 DEF Chunked
  <2> DEFINE longer == [chunks[L] EXCEPT !.end = end]
  <2>3. next = [chunks EXCEPT ![L] = longer]
    BY <1>9 DEF Extend
  <2>4. longer \in Span /\ longer.start = chunks[L].start /\ longer.end = end
    BY <1>2, <2>1 DEF Span
  <2> HIDE DEF longer
  <2>5. /\ next \in Seq(Span) /\ Len(next) = L /\ DOMAIN next = 1 .. L /\ next[L] = longer
        /\ \A c \in 1 .. L : c # L => next[c] = chunks[c]
    BY <1>3, <2>1, <2>3, <2>4
  <2> HIDE DEF next, end, k, L
  <2>6. ASSUME NEW n \in 1 .. i - 1 PROVE Covered(next, units, n)
    <3> SUFFICES ASSUME NEW x \in units[n].start .. Min({units[n].end, units[n].start + Target}) - 1
                 PROVE  \E c \in DOMAIN next : next[c].start <= x /\ x < next[c].end
      BY DEF Covered
    <3>1. PICK c \in DOMAIN chunks : chunks[c].start <= x /\ x < chunks[c].end
      BY DEF Chunked, Covered
    <3>2. CASE c # L
      BY <1>3, <2>5, <3>1, <3>2
    <3>3. CASE c = L
      <4>1. n \in 1 .. N
        BY <1>1
      <4>2. units[n].start \in Nat /\ units[n].end \in Nat
        BY <4>1, UnitsInOrder
      <4>3. Min({units[n].end, units[n].start + Target}) \in Nat
        BY <4>2, MinOfTwo, ChunkAssumption
      <4>4. x \in Int
        BY <4>2, <4>3
      <4> QED BY <1>2, <2>1, <2>2, <2>4, <2>5, <3>1, <3>3, <4>4
    <3> QED BY <3>2, <3>3
  <2>7. ASSUME NEW n \in i .. k - 1 PROVE Covered(next, units, n)
    <3>1. L \in DOMAIN next /\ next[L].start \in Nat /\ next[L].end = end
          /\ next[L].start <= units[i].start
      BY <1>2, <2>1, <2>2, <2>4, <2>5
    <3> QED BY <3>1, WindowCovers DEF end, k
  <2>8. InOrder(next)
    <3>1. ASSUME NEW n \in DOMAIN next PROVE next[n].start < next[n].end
      <4>1. CASE n # L
        BY <1>3, <2>5, <4>1 DEF Chunked, InOrder
      <4>2. CASE n = L
        BY <1>2, <2>2, <2>4, <2>5, <4>2
      <4> QED BY <4>1, <4>2
    <3>2. ASSUME NEW n \in 2 .. Len(next) PROVE next[n - 1].start < next[n].start
      <4>1. n \in 1 .. L /\ n - 1 \in 1 .. L
        BY <1>3, <2>5
      <4>2. \A c \in 1 .. L : next[c].start = chunks[c].start
        BY <2>4, <2>5
      <4>3. chunks[n - 1].start < chunks[n].start
        BY <2>5, Zenon DEF Chunked, InOrder, L
      <4> QED BY <4>1, <4>2, <4>3
    <3> QED BY <3>1, <3>2 DEF InOrder
  <2>9. next # <<>>
    BY <2>1, <2>5
  <2>10. k <= N => next[Len(next)].start < units[k].start /\ next[Len(next)].end <= WindowEnd(units, k)
    <3> SUFFICES ASSUME k <= N
                 PROVE  next[L].start < units[k].start /\ next[L].end <= WindowEnd(units, k)
      BY <2>5
    <3>1. units[k].start \in Nat
      BY <1>6, UnitsInOrder
    <3> QED BY <1>2, <1>5, <2>2, <2>4, <2>5, <3>1
  <2> QED BY <1>6, <1>7, <2>5, <2>6, <2>7, <2>8, <2>9, <2>10 DEF Chunked
<1> HIDE DEF k, new
<1>10. next = Append(chunks, [start |-> units[i].start, end |-> end])
       \/ (next = Extend(chunks, end) /\ chunks # <<>>)
  BY DEF Emit
<1> HIDE DEF next, end
<1> QED BY <1>8, <1>9, <1>10 DEF new

\* The chunks of all windows.
LEMMA WindowsChunked ==
  ASSUME NEW units, InText(units)
  PROVE  Chunked(units, Len(units) + 1, Windows(units))
<1> DEFINE begin == [i |-> 1, chunks |-> <<>>]
           Turn(s) == IF s.i > Len(units) THEN s
                      ELSE [i |-> Restart(units, s.i), chunks |-> Emit(units, s.chunks, s.i)]
           Turned(g, n) == IF n = 0 THEN begin ELSE Turn(g[n - 1])
           Turns(g, N) == g = [n \in 0 .. N |-> Turned(g, n)]
           P == {N \in Nat : \E g : Turns(g, N)}
<1>1. 0 \in P
  <2> DEFINE g == [n \in 0 .. 0 |-> begin]
  <2>1. Turns(g, 0)
    OBVIOUS
  <2> HIDE DEF Turns
  <2> QED BY <2>1
<1>2. ASSUME NEW N \in Nat, N \in P PROVE N + 1 \in P
  <2>1. PICK g : Turns(g, N)
    BY <1>2
  <2> DEFINE next == Turn(g[N])
             h == [n \in 0 .. N + 1 |-> IF n = N + 1 THEN next ELSE g[n]]
  <2>2. \A n \in 0 .. N : g[n] = Turned(g, n)
    BY <2>1
  <2> HIDE DEF Turn
  <2>3. \A n \in 0 .. N + 1 : h[n] = Turned(h, n)
    <3> TAKE n \in 0 .. N + 1
    <3>1. CASE n = N + 1
      BY <3>1
    <3>2. CASE n # N + 1
      <4>1. n \in 0 .. N /\ (n # 0 => n - 1 \in 0 .. N + 1 /\ n - 1 # N + 1)
        BY <3>2
      <4>2. h[n] = Turned(g, n) /\ (n # 0 => h[n - 1] = g[n - 1])
        BY <2>2, <4>1
      <4> QED BY <4>2
    <3> QED BY <3>1, <3>2
  <2>4. Turns(h, N + 1)
    BY <2>3
  <2> HIDE DEF Turns
  <2> QED BY <2>4
<1>3. Len(units) \in Nat /\ DOMAIN units = 1 .. Len(units)
  BY UnitsInOrder
<1> HIDE DEF P
<1>4. Len(units) \in P
  BY <1>1, <1>2, <1>3, EveryNumber
<1>5. \E g : Turns(g, Len(units))
  BY <1>4 DEF P
<1> DEFINE after == CHOOSE g : Turns(g, Len(units))
<1>6. Turns(after, Len(units))
  BY <1>5, Zenon
<1>7. Windows(units) = after[Len(units)].chunks
  BY DEF Windows
<1>8. \A n \in 0 .. Len(units) : after[n] = Turned(after, n)
  BY <1>6, Zenon
<1> HIDE DEF after
<1> DEFINE Q == {n \in Nat : n <= Len(units) =>
                   /\ Chunked(units, after[n].i, after[n].chunks)
                   /\ after[n].i > n}
<1>9. 0 \in Q
  <2>1. after[0] = begin
    <3>1. after[0] = Turned(after, 0)
      <4>1. 0 \in 0 .. Len(units)
        BY <1>3
      <4> HIDE DEF Turned
      <4> QED BY <1>8, <4>1
    <3> HIDE DEF Turn
    <3> QED BY <3>1
  <2>2. after[0].i = 1 /\ after[0].chunks = <<>>
    BY <2>1
  <2>3. Chunked(units, 1, <<>>)
    <3>1. <<>> \in Seq(Span) /\ Len(<<>>) = 0 /\ DOMAIN <<>> = {} /\ 1 \in 1 .. Len(units) + 1
      BY <1>3
    <3>2. InOrder(<<>>)
      BY <3>1 DEF InOrder
    <3> QED BY <3>1, <3>2 DEF Chunked
  <2> QED BY <2>2, <2>3
<1>10. ASSUME NEW n \in Nat, n \in Q PROVE n + 1 \in Q
  <2> DEFINE s == after[n]
  <2> SUFFICES ASSUME n + 1 <= Len(units)
               PROVE  /\ Chunked(units, after[n + 1].i, after[n + 1].chunks)
                      /\ after[n + 1].i > n + 1
    OBVIOUS
  <2>1. n <= Len(units) /\ n + 1 \in 0 .. Len(units) /\ n + 1 # 0 /\ (n + 1) - 1 = n
    BY <1>3
  <2>2. after[n + 1] = Turn(s)
    BY <1>8, <2>1
  <2>3. Chunked(units, s.i, s.chunks) /\ s.i > n
    BY <1>10, <2>1
  <2>4. s.i \in 1 .. Len(units) + 1
    BY <2>3 DEF Chunked
  <2> HIDE DEF s
  <2>5. CASE s.i > Len(units)
    <3>1. after[n + 1] = s
      BY <2>2, <2>5
    <3> QED BY <1>3, <2>3, <2>4, <2>5, <3>1
  <2>6. CASE ~(s.i > Len(units))
    <3>1. after[n + 1].i = Restart(units, s.i) /\ after[n + 1].chunks = Emit(units, s.chunks, s.i)
      BY <2>2, <2>6
    <3>2. s.i \in 1 .. Len(units)
      BY <1>3, <2>4, <2>6
    <3>3. Restart(units, s.i) \in s.i + 1 .. WindowNext(units, s.i)
      BY <3>2, RestartsLater
    <3>4. WindowNext(units, s.i) \in s.i + 1 .. Len(units) + 1
      BY <3>2, WindowSpans
    <3>5. after[n + 1].i > n + 1
      BY <1>3, <2>3, <2>4, <3>1, <3>3, <3>4
    <3>6. Chunked(units, Restart(units, s.i), Emit(units, s.chunks, s.i))
      BY <2>3, <3>2, WindowEmitted
    <3> QED BY <3>1, <3>5, <3>6
  <2> QED BY <2>5, <2>6
<1> HIDE DEF Q
<1>11. Len(units) \in Q
  BY <1>3, <1>9, <1>10, EveryNumber
<1>12. /\ Chunked(units, after[Len(units)].i, Windows(units))
       /\ after[Len(units)].i > Len(units)
  BY <1>3, <1>7, <1>11 DEF Q
<1>13. after[Len(units)].i = Len(units) + 1
  BY <1>3, <1>12 DEF Chunked
<1> QED BY <1>12, <1>13

-----------------------------------------------------------------------------
(* Chunks: their headings *)

HeadingOf == [offset : Nat, level : Nat]

\* The headings of a text, each after the one before.
HeadingsInOrder(headings) ==
  /\ headings \in Seq(HeadingOf)
  /\ \A m, n \in DOMAIN headings : m < n => headings[m].offset < headings[n].offset

\* The path at the last of the first n headings: those no later one of them has closed, one
\* level below the other.
PathAt(headings, n, s) ==
  /\ s.path \in Seq(HeadingOf)
  /\ {s.path[q] : q \in DOMAIN s.path} =
       {headings[m] : m \in {k \in 1 .. n : \A l \in k + 1 .. n : headings[k].level < headings[l].level}}
  /\ n # 0 => s.last = headings[n].level
  /\ \A q \in DOMAIN s.path : s.path[q].level = s.last - (Len(s.path) - q)

\* The larger of a number and zero.
LEMMA MaxOfZero ==
  ASSUME NEW a \in Int
  PROVE  Max({0, a}) = IF a > 0 THEN a ELSE 0
<1> DEFINE m == CHOOSE x \in {0, a} : \A y \in {0, a} : x >= y
           P(x) == x \in {0, a} /\ \A y \in {0, a} : x >= y
<1>1. m = Max({0, a})
  BY DEF Max
<1>2. P(0) \/ P(a)
  OBVIOUS
<1>3. m \in {0, a} /\ m >= 0 /\ m >= a
  BY <1>2
<1> HIDE DEF m
<1> QED BY <1>1, <1>3

\* What is popped of a path is what the next heading closes.
LEMMA PoppedCloses ==
  ASSUME NEW path \in Seq(HeadingOf), NEW last \in Int, NEW level \in Nat,
         \A q \in DOMAIN path : path[q].level = last - (Len(path) - q),
         path # <<>> => level <= last + 1
  PROVE  \E kept \in 0 .. Len(path) :
           /\ Popped(path, last, level) = SubSeq(path, 1, kept)
           /\ \A q \in DOMAIN path : path[q].level < level <=> q <= kept
           /\ kept # 0 => last - (Len(path) - kept) = level - 1
<1> DEFINE L == Len(path)
           more == IF last - level + 1 > 0 THEN last - level + 1 ELSE 0
           pops == IF L <= more THEN L ELSE more
           kept == L - pops
<1>1. L \in Nat /\ DOMAIN path = 1 .. L
  OBVIOUS
<1>2. last - level + 1 \in Int /\ more \in Nat
  OBVIOUS
<1>3. Max({0, last - level + 1}) = more
  BY <1>2, MaxOfZero
<1> HIDE DEF L
<1>4. Min({L, more}) = pops
  <2> HIDE DEF more
  <2>1. L \in Int /\ more \in Int /\ (L <= more \/ more <= L)
    BY <1>1, <1>2
  <2> QED BY <2>1, MinOfTwo
<1>5. kept \in 0 .. L
  BY <1>1, <1>2
<1>6. Popped(path, last, level) = SubSeq(path, 1, kept)
  BY <1>3, <1>4 DEF Popped, L
<1>7. ASSUME NEW q \in DOMAIN path PROVE path[q].level < level <=> q <= kept
  <2>1. path[q].level = last - (L - q) /\ q \in 1 .. L /\ level <= last + 1
    BY <1>1, <1>7 DEF L
  <2> QED BY <1>1, <2>1
<1>8. kept # 0 => last - (L - kept) = level - 1
  <2> SUFFICES ASSUME kept # 0 PROVE last - (L - kept) = level - 1
    OBVIOUS
  <2>1. L # 0 /\ path # <<>>
    BY <1>1, <1>5 DEF L
  <2>2. level <= last + 1
    BY <2>1
  <2> QED BY <1>1, <2>2
<1> HIDE DEF kept
<1> QED BY <1>5, <1>6, <1>7, <1>8 DEF L

\* One heading more.
LEMMA HeadingPushed ==
  ASSUME NEW headings, HeadingsInOrder(headings), NoLevelSkipped(headings), NEW n \in Nat,
         n + 1 \in DOMAIN headings, NEW s, s.last \in Int, PathAt(headings, n, s)
  PROVE  PathAt(headings, n + 1, Push(s, headings[n + 1])) /\ Push(s, headings[n + 1]).last \in Int
<1> DEFINE h == headings[n + 1]
           path == s.path
           L == Len(path)
           open(k, b) == \A l \in k + 1 .. b : headings[k].level < headings[l].level
           next == Append(Popped(path, s.last, h.level), h)
           t == Push(s, h)
<1>1. t.path = next /\ t.last = h.level
  BY DEF Push
<1>2. \A k \in DOMAIN headings : headings[k] \in HeadingOf /\ headings[k].level \in Nat /\ k \in Nat
  <2> TAKE k \in DOMAIN headings
  <2>1. headings[k] \in HeadingOf /\ k \in Nat
    BY DEF HeadingsInOrder
  <2> QED BY <2>1 DEF HeadingOf
<1>3. h \in HeadingOf /\ h.level \in Nat
  BY <1>2
<1>4. path \in Seq(HeadingOf) /\ L \in Nat /\ DOMAIN path = 1 .. L
  BY DEF PathAt
<1>5. path # <<>> => h.level <= s.last + 1
  <2> SUFFICES ASSUME path # <<>> PROVE h.level <= s.last + 1
    OBVIOUS
  <2>1. n # 0
    <3> SUFFICES ASSUME n = 0 PROVE FALSE
      OBVIOUS
    <3>0. {headings[m] : m \in {k \in 1 .. 0 : open(k, 0)}} = {}
      OBVIOUS
    <3>1. {path[q] : q \in DOMAIN path} = {}
      BY <3>0 DEF PathAt
    <3>2. 1 \in DOMAIN path
      BY <1>4
    <3> QED BY <3>1, <3>2
  <2>2. n + 1 \in 2 .. Len(headings) /\ (n + 1) - 1 = n
    BY <2>1 DEF HeadingsInOrder
  <2>3. h.level <= headings[n].level + 1
    BY <2>2 DEF NoLevelSkipped
  <2> QED BY <2>1, <2>3 DEF PathAt
<1>6. PICK kept \in 0 .. L :
        /\ Popped(path, s.last, h.level) = SubSeq(path, 1, kept)
        /\ \A q \in DOMAIN path : path[q].level < h.level <=> q <= kept
        /\ kept # 0 => s.last - (L - kept) = h.level - 1
  <2>1. \A q \in DOMAIN path : path[q].level = s.last - (L - q)
    BY DEF PathAt
  <2> HIDE DEF path, h
  <2> QED BY <1>3, <1>4, <1>5, <2>1, PoppedCloses
<1> HIDE DEF next
<1>7. /\ next \in Seq(HeadingOf) /\ Len(next) = kept + 1 /\ DOMAIN next = 1 .. kept + 1
      /\ next[kept + 1] = h /\ \A q \in 1 .. kept : next[q] = path[q]
  <2> DEFINE popped == Popped(path, s.last, h.level)
  <2>1. /\ popped \in Seq(HeadingOf) /\ Len(popped) = kept
        /\ \A q \in 1 .. kept : popped[q] = path[q]
    BY <1>4, <1>6
  <2>2. next = Append(popped, h)
    BY DEF next
  <2> HIDE DEF popped, h
  <2> QED BY <1>3, <1>4, <2>1, <2>2
<1>8. \A k \in 1 .. n : open(k, n + 1) <=> open(k, n) /\ headings[k].level < h.level
  <2> TAKE k \in 1 .. n
  <2>1. \A l \in k + 1 .. n + 1 : l \in k + 1 .. n \/ l = n + 1
    OBVIOUS
  <2>2. \A l \in k + 1 .. n : l \in k + 1 .. n + 1
    OBVIOUS
  <2>3. n + 1 \in k + 1 .. n + 1
    OBVIOUS
  <2> QED BY <2>1, <2>2, <2>3
<1>9. open(n + 1, n + 1)
  OBVIOUS
<1> DEFINE In(p, x) == \E q \in DOMAIN p : p[q] = x
           Open(b, x) == \E m \in 1 .. b : open(m, b) /\ headings[m] = x
<1>10. \A x : In(path, x) <=> Open(n, x)
  <2>1. {path[q] : q \in DOMAIN path} = {headings[m] : m \in {k \in 1 .. n : open(k, n)}}
    BY DEF PathAt
  <2>2. \A x : In(path, x) <=> x \in {path[q] : q \in DOMAIN path}
    OBVIOUS
  <2>3. \A x : Open(n, x) <=> x \in {headings[m] : m \in {k \in 1 .. n : open(k, n)}}
    OBVIOUS
  <2> HIDE DEF In, Open
  <2> QED BY <2>1, <2>2, <2>3
<1> HIDE DEF path, h
<1>11. \A x : In(next, x) <=> x = h \/ (In(path, x) /\ x.level < h.level)
  <2> TAKE x
  <2>1. ASSUME In(next, x) PROVE x = h \/ (In(path, x) /\ x.level < h.level)
    <3>1. PICK q \in 1 .. kept + 1 : next[q] = x
      BY <1>7, <2>1
    <3>2. CASE q = kept + 1
      BY <1>7, <3>1, <3>2
    <3>3. CASE q # kept + 1
      <4>1. q \in 1 .. kept /\ q \in 1 .. L /\ q <= kept
        BY <1>4, <1>6, <3>3
      <4> QED BY <1>4, <1>6, <1>7, <3>1, <4>1
    <3> QED BY <3>2, <3>3
  <2>2. ASSUME In(path, x), x.level < h.level PROVE In(next, x)
    <3>1. PICK q \in DOMAIN path : path[q] = x
      BY <2>2
    <3>2. q <= kept /\ q \in 1 .. L
      BY <1>4, <1>6, <2>2, <3>1
    <3>3. q \in 1 .. kept /\ q \in 1 .. kept + 1
      BY <1>4, <1>6, <3>2
    <3> QED BY <1>7, <3>1, <3>3
  <2>3. In(next, h)
    BY <1>6, <1>7
  <2> HIDE DEF In
  <2> QED BY <2>1, <2>2, <2>3
<1>12. \A x : Open(n + 1, x) <=> x = h \/ (Open(n, x) /\ x.level < h.level)
  <2> TAKE x
  <2>1. ASSUME Open(n + 1, x) PROVE x = h \/ (Open(n, x) /\ x.level < h.level)
    <3>1. PICK m \in 1 .. n + 1 : open(m, n + 1) /\ headings[m] = x
      BY <2>1
    <3>2. CASE m = n + 1
      BY <3>1, <3>2 DEF h
    <3>3. CASE m # n + 1
      <4>1. m \in 1 .. n
        BY <3>3
      <4> HIDE DEF open
      <4> QED BY <1>8, <3>1, <4>1
    <3> QED BY <3>2, <3>3
  <2>2. ASSUME Open(n, x), x.level < h.level PROVE Open(n + 1, x)
    <3>1. PICK m \in 1 .. n : open(m, n) /\ headings[m] = x
      BY <2>2
    <3>2. m \in 1 .. n + 1
      OBVIOUS
    <3> HIDE DEF open
    <3> QED BY <1>8, <2>2, <3>1, <3>2
  <2>3. Open(n + 1, h)
    <3>1. n + 1 \in 1 .. n + 1
      OBVIOUS
    <3> HIDE DEF open
    <3> QED BY <1>9, <3>1 DEF h
  <2> HIDE DEF Open
  <2> QED BY <2>1, <2>2, <2>3
<1>13. {next[q] : q \in DOMAIN next} = {headings[m] : m \in {k \in 1 .. n + 1 : open(k, n + 1)}}
  <2>1. \A x : In(next, x) <=> Open(n + 1, x)
    <3> HIDE DEF In, Open
    <3> QED BY <1>10, <1>11, <1>12
  <2>2. \A x : In(next, x) <=> x \in {next[q] : q \in DOMAIN next}
    OBVIOUS
  <2>3. \A x : Open(n + 1, x) <=> x \in {headings[m] : m \in {k \in 1 .. n + 1 : open(k, n + 1)}}
    OBVIOUS
  <2> HIDE DEF In, Open, open
  <2> QED BY <2>1, <2>2, <2>3
<1>14. ASSUME NEW q \in DOMAIN next PROVE next[q].level = h.level - (Len(next) - q)
  <2>1. CASE q = kept + 1
    BY <1>3, <1>6, <1>7, <2>1
  <2>2. CASE q # kept + 1
    <3>1. q \in 1 .. kept /\ q \in 1 .. L /\ kept # 0
      BY <1>4, <1>6, <1>7, <2>2
    <3>2. next[q] = path[q] /\ path[q].level = s.last - (L - q)
      BY <1>4, <1>7, <3>1 DEF PathAt, path
    <3>3. s.last - (L - kept) = h.level - 1 /\ kept \in Nat /\ q \in Nat /\ h.level \in Nat
      BY <1>3, <1>4, <1>6, <3>1
    <3>4. next[q].level = s.last - (L - q) /\ Len(next) = kept + 1
      BY <1>7, <3>2
    <3>5. \A a, b, c, d, e \in Int : a - (b - c) = e - 1 => a - (b - d) = e - ((c + 1) - d)
      OBVIOUS
    <3>6. s.last \in Int /\ L \in Int /\ kept \in Int /\ q \in Int /\ h.level \in Int
      BY <1>4, <3>3
    <3>7. s.last - (L - q) = h.level - ((kept + 1) - q)
      <4> HIDE DEF L
      <4> QED BY <3>3, <3>5, <3>6
    <3> QED BY <3>4, <3>7
  <2> QED BY <2>1, <2>2
<1> HIDE DEF t
<1>15. PathAt(headings, n + 1, t)
  <2>1. t.path \in Seq(HeadingOf) /\ t.last = headings[n + 1].level
    BY <1>1, <1>7 DEF h
  <2>2. {t.path[q] : q \in DOMAIN t.path} =
          {headings[m] : m \in {k \in 1 .. n + 1 : open(k, n + 1)}}
    BY <1>1, <1>13
  <2>3. \A q \in DOMAIN t.path : t.path[q].level = t.last - (Len(t.path) - q)
    BY <1>1, <1>14
  <2> QED BY <2>1, <2>2, <2>3, Zenon DEF PathAt
<1> QED BY <1>1, <1>3, <1>15 DEF t, h

\* The path at an offset is that of the headings which enclose it.
LEMMA PathEncloses ==
  ASSUME NEW headings, HeadingsInOrder(headings), NoLevelSkipped(headings), NEW offset \in Nat
  PROVE  Range(HeadingPathAt(offset, headings)) = Enclosing(offset, headings)
<1> DEFINE begin == [path |-> <<>>, last |-> 0]
           beyond(n) == \E m \in 1 .. n : headings[m].offset > offset
           Turn(s, n) == IF beyond(n) THEN s ELSE Push(s, headings[n])
           ReadAt(g, n) == IF n = 0 THEN begin ELSE Turn(g[n - 1], n)
           Reads(g, N) == g = [n \in 0 .. N |-> ReadAt(g, n)]
           P == {N \in Nat : \E g : Reads(g, N)}
<1>1. 0 \in P
  <2> DEFINE g == [n \in 0 .. 0 |-> begin]
  <2>1. Reads(g, 0)
    OBVIOUS
  <2> HIDE DEF Reads
  <2> QED BY <2>1
<1>2. ASSUME NEW N \in Nat, N \in P PROVE N + 1 \in P
  <2>1. PICK g : Reads(g, N)
    BY <1>2
  <2> DEFINE next == Turn(g[N], N + 1)
             h == [n \in 0 .. N + 1 |-> IF n = N + 1 THEN next ELSE g[n]]
  <2>2. \A n \in 0 .. N : g[n] = ReadAt(g, n)
    BY <2>1
  <2> HIDE DEF Turn
  <2>3. \A n \in 0 .. N + 1 : h[n] = ReadAt(h, n)
    <3> TAKE n \in 0 .. N + 1
    <3>1. CASE n = N + 1
      BY <3>1
    <3>2. CASE n # N + 1
      <4>1. n \in 0 .. N /\ (n # 0 => n - 1 \in 0 .. N + 1 /\ n - 1 # N + 1)
        BY <3>2
      <4>2. h[n] = ReadAt(g, n) /\ (n # 0 => h[n - 1] = g[n - 1])
        BY <2>2, <4>1
      <4> QED BY <4>2
    <3> QED BY <3>1, <3>2
  <2>4. Reads(h, N + 1)
    BY <2>3
  <2> HIDE DEF Reads
  <2> QED BY <2>4
<1>3. Len(headings) \in Nat /\ DOMAIN headings = 1 .. Len(headings)
  BY DEF HeadingsInOrder
<1> HIDE DEF P
<1>4. Len(headings) \in P
  BY <1>1, <1>2, <1>3, EveryNumber
<1>5. \E g : Reads(g, Len(headings))
  BY <1>4 DEF P
<1> DEFINE after == CHOOSE g : Reads(g, Len(headings))
<1>6. Reads(after, Len(headings))
  BY <1>5
<1>7. HeadingPathAt(offset, headings) = after[Len(headings)].path
  BY DEF HeadingPathAt
<1>8. \A n \in 0 .. Len(headings) : after[n] = ReadAt(after, n)
  BY <1>6
<1> HIDE DEF after
<1>9. \A m \in 1 .. Len(headings) :
        headings[m] \in HeadingOf /\ headings[m].offset \in Nat /\ headings[m].level \in Nat
  <2> TAKE m \in 1 .. Len(headings)
  <2>1. headings[m] \in HeadingOf
    BY <1>3 DEF HeadingsInOrder
  <2> QED BY <2>1 DEF HeadingOf
<1> DEFINE reached(n, r) == /\ r \in 0 .. n
                            /\ \A m \in 1 .. n : headings[m].offset <= offset <=> m <= r
           Q == {n \in Nat : n <= Len(headings) =>
                   /\ after[n].last \in Int
                   /\ \E r \in 0 .. n : reached(n, r) /\ PathAt(headings, r, after[n])}
<1>10. 0 \in Q
  <2>1. after[0] = begin
    <3>1. 0 \in 0 .. Len(headings)
      BY <1>3
    <3>2. after[0] = ReadAt(after, 0)
      <4> HIDE DEF ReadAt
      <4> QED BY <1>8, <3>1
    <3> HIDE DEF Turn
    <3> QED BY <3>2
  <2>2. after[0].path = <<>> /\ after[0].last = 0
    BY <2>1
  <2>3. PathAt(headings, 0, after[0])
    <3>1. /\ {k \in 1 .. 0 : \A l \in k + 1 .. 0 : headings[k].level < headings[l].level} = {}
          /\ <<>> \in Seq(HeadingOf) /\ DOMAIN <<>> = {}
      OBVIOUS
    <3>2. \A m \in {k \in 1 .. 0 : \A l \in k + 1 .. 0 : headings[k].level < headings[l].level} : FALSE
      BY <3>1
    <3> QED BY <2>2, <3>1, <3>2 DEF PathAt
  <2>4. reached(0, 0) /\ 0 \in 0 .. 0
    OBVIOUS
  <2> HIDE DEF reached
  <2> QED BY <2>2, <2>3, <2>4
<1>11. ASSUME NEW n \in Nat, n \in Q PROVE n + 1 \in Q
  <2> SUFFICES ASSUME n + 1 <= Len(headings)
               PROVE  /\ after[n + 1].last \in Int
                      /\ \E r \in 0 .. n + 1 : reached(n + 1, r) /\ PathAt(headings, r, after[n + 1])
    <3> HIDE DEF reached
    <3> QED OBVIOUS
  <2>1. n <= Len(headings) /\ n + 1 \in 0 .. Len(headings) /\ n + 1 # 0 /\ (n + 1) - 1 = n
        /\ n + 1 \in 1 .. Len(headings)
    BY <1>3
  <2>2. after[n + 1] = Turn(after[n], n + 1)
    <3>1. after[n + 1] = ReadAt(after, n + 1)
      <4> HIDE DEF ReadAt
      <4> QED BY <1>8, <2>1
    <3> HIDE DEF Turn
    <3> QED BY <2>1, <3>1
  <2>3. PICK r \in 0 .. n : reached(n, r) /\ PathAt(headings, r, after[n])
    BY <1>11, <2>1
  <2>4. after[n].last \in Int
    BY <1>11, <2>1
  <2>5. CASE beyond(n + 1)
    <3>1. after[n + 1] = after[n]
      BY <2>2, <2>5
    <3>2. headings[n + 1].offset > offset
      <4>1. PICK m \in 1 .. n + 1 : headings[m].offset > offset
        BY <2>5
      <4>2. m \in 1 .. Len(headings) /\ (m < n + 1 => headings[m].offset < headings[n + 1].offset)
        BY <1>3, <2>1 DEF HeadingsInOrder
      <4> QED BY <1>9, <2>1, <4>1, <4>2
    <3>3. \A m \in 1 .. n + 1 : m \in 1 .. n \/ m = n + 1
      OBVIOUS
    <3>4. reached(n + 1, r) /\ r \in 0 .. n + 1
      BY <1>9, <2>1, <2>3, <3>2, <3>3
    <3> HIDE DEF reached
    <3> QED BY <2>3, <2>4, <3>1, <3>4
  <2>6. CASE ~beyond(n + 1)
    <3>1. \A m \in 1 .. n + 1 : headings[m].offset <= offset
      BY <1>9, <2>1, <2>6
    <3>2. r = n
      <4>1. CASE r # n
        <5>1. n \in 1 .. n /\ ~(n <= r) /\ n \in 1 .. n + 1
          BY <2>3, <4>1
        <5> QED BY <2>3, <3>1, <5>1
      <4> QED BY <4>1
    <3>3. after[n + 1] = Push(after[n], headings[n + 1])
      BY <2>2, <2>6
    <3>4. PathAt(headings, n + 1, after[n + 1]) /\ after[n + 1].last \in Int
      BY <1>3, <2>1, <2>3, <2>4, <3>2, <3>3, HeadingPushed
    <3>5. reached(n + 1, n + 1) /\ n + 1 \in 0 .. n + 1
      BY <3>1
    <3> HIDE DEF reached
    <3> QED BY <3>4, <3>5
  <2> QED BY <2>5, <2>6
<1> HIDE DEF Q
<1>12. Len(headings) \in Q
  BY <1>3, <1>10, <1>11, EveryNumber
<1> DEFINE N == Len(headings)
           path == HeadingPathAt(offset, headings)
<1>13. PICK r \in 0 .. N : reached(N, r) /\ PathAt(headings, r, after[N])
  BY <1>3, <1>12 DEF Q
<1>14. path = after[N].path
  BY <1>7
<1> HIDE DEF path
<1>15. {path[q] : q \in DOMAIN path} =
         {headings[m] : m \in {k \in 1 .. r : \A l \in k + 1 .. r : headings[k].level < headings[l].level}}
  BY <1>13, <1>14 DEF PathAt
<1>16. Range(path) = {path[q] : q \in DOMAIN path}
  BY DEF Range
<1>17. ASSUME NEW m \in 1 .. r, \A l \in m + 1 .. r : headings[m].level < headings[l].level
       PROVE  headings[m] \in Enclosing(offset, headings)
  <2>1. m \in 1 .. N /\ headings[m] \in Range(headings) /\ headings[m].offset <= offset
    <3>1. m \in 1 .. N /\ m <= r
      BY <1>13
    <3> QED BY <1>3, <1>13, <3>1 DEF Range
  <2>2. ASSUME NEW g \in Range(headings), headings[m].offset < g.offset, g.offset <= offset
        PROVE  headings[m].level < g.level
    <3>1. PICK l \in 1 .. N : g = headings[l]
      BY <1>3 DEF Range
    <3>2. l <= r
      BY <1>13, <2>2, <3>1
    <3>3. m < l
      <4>1. headings[m].offset < headings[l].offset
        BY <2>2, <3>1
      <4>2. headings[m].offset \in Nat /\ headings[l].offset \in Nat
        BY <1>9, <2>1, <3>1
      <4>3. l < m => headings[l].offset < headings[m].offset
        BY <1>3, <2>1, <3>1 DEF HeadingsInOrder
      <4>4. l # m /\ ~(l < m)
        BY <4>1, <4>2, <4>3
      <4> QED BY <2>1, <3>1, <4>4
    <3>4. l \in m + 1 .. r
      BY <1>3, <3>2, <3>3
    <3> QED BY <1>17, <3>1, <3>4
  <2> QED BY <2>1, <2>2 DEF Enclosing
<1>18. ASSUME NEW h \in Enclosing(offset, headings)
       PROVE  \E m \in 1 .. r : /\ h = headings[m]
                                /\ \A l \in m + 1 .. r : headings[m].level < headings[l].level
  <2>1. h \in Range(headings) /\ h.offset <= offset
        /\ \A g \in Range(headings) : h.offset < g.offset /\ g.offset <= offset => h.level < g.level
    BY DEF Enclosing
  <2>2. PICK m \in 1 .. N : h = headings[m]
    BY <1>3, <2>1 DEF Range
  <2>3. m <= r /\ m \in 1 .. r
    BY <1>13, <2>1, <2>2
  <2>4. ASSUME NEW l \in m + 1 .. r PROVE headings[m].level < headings[l].level
    <3>1. l \in 1 .. N /\ m < l /\ l <= r
      BY <1>3
    <3>2. headings[l] \in Range(headings) /\ headings[m].offset < headings[l].offset
          /\ headings[l].offset <= offset
      BY <1>3, <1>13, <3>1 DEF Range, HeadingsInOrder
    <3> QED BY <2>1, <2>2, <3>2
  <2> QED BY <2>2, <2>3, <2>4
<1> HIDE DEF reached, N
<1>19. \A h : h \in Range(path) <=>
         \E m \in 1 .. r : h = headings[m] /\ \A l \in m + 1 .. r : headings[m].level < headings[l].level
  BY <1>15, <1>16
<1>20. \A h : h \in Range(path) <=> h \in Enclosing(offset, headings)
  BY <1>17, <1>18, <1>19
<1> QED BY <1>20 DEF path

\* The chunks of a text have every character of its sentences, up to the target-th of each;
\* they are in order, none is empty, and each knows the headings it stands under: for every
\* text, every headings in order and any options (chunker.ts chunkText, headingPathAt).
THEOREM ChunksComplete ==
  \A units, headings : InText(units) /\ HeadingsInOrder(headings) => Complete(units, headings)
<1> SUFFICES ASSUME NEW units, NEW headings, InText(units), HeadingsInOrder(headings)
             PROVE  Complete(units, headings)
  OBVIOUS
<1> DEFINE windows == Windows(units)
           chunks == ChunkText(units, headings)
           N == Len(units)
<1>1. Chunked(units, N + 1, windows) /\ N \in Nat /\ DOMAIN units = 1 .. N
  BY WindowsChunked, UnitsInOrder
<1>2. /\ windows \in Seq(Span) /\ InOrder(windows)
      /\ \A n \in 1 .. N : Covered(windows, units, n)
  BY <1>1 DEF Chunked
<1>3. chunks = [n \in DOMAIN windows |->
                  [start |-> windows[n].start, end |-> windows[n].end,
                   headings |-> HeadingPathAt(windows[n].start, headings)]]
  BY DEF ChunkText
<1> HIDE DEF windows, chunks
<1>4. /\ DOMAIN chunks = DOMAIN windows /\ Len(chunks) = Len(windows)
      /\ DOMAIN windows = 1 .. Len(windows) /\ Len(windows) \in Nat
  BY <1>2, <1>3
<1>5. \A n \in DOMAIN windows :
        /\ chunks[n].start = windows[n].start /\ chunks[n].end = windows[n].end
        /\ chunks[n].headings = HeadingPathAt(windows[n].start, headings)
  BY <1>3
<1>6. Covering(chunks, units)
  <2> SUFFICES ASSUME NEW u \in Range(units),
                      NEW x \in u.start .. Min({u.end, u.start + Target}) - 1
               PROVE  \E c \in Range(chunks) : c.start <= x /\ x < c.end
    BY DEF Covering
  <2>1. PICK n \in 1 .. N : u = units[n]
    BY <1>1 DEF Range
  <2>2. PICK c \in DOMAIN windows : windows[c].start <= x /\ x < windows[c].end
    BY <1>2, <2>1 DEF Covered
  <2>3. chunks[c] \in Range(chunks)
    BY <1>4, <2>2 DEF Range
  <2> QED BY <1>5, <2>2, <2>3
<1>7. InOrder(chunks)
  <2>1. \A n \in DOMAIN chunks : chunks[n].start < chunks[n].end
    BY <1>2, <1>4, <1>5 DEF InOrder
  <2>2. ASSUME NEW n \in 2 .. Len(chunks) PROVE chunks[n - 1].start < chunks[n].start
    <3>1. n \in DOMAIN windows /\ n - 1 \in DOMAIN windows /\ n \in 2 .. Len(windows)
      BY <1>4
    <3> QED BY <1>2, <1>5, <3>1 DEF InOrder
  <2> QED BY <2>1, <2>2 DEF InOrder
<1>8. Headed(chunks, headings)
  <2> SUFFICES ASSUME NoLevelSkipped(headings), NEW c \in Range(chunks)
               PROVE  Range(c.headings) = Enclosing(c.start, headings)
    BY DEF Headed
  <2>1. PICK n \in DOMAIN windows : c = chunks[n]
    BY <1>4 DEF Range
  <2>2. windows[n] \in Span
    BY <1>2
  <2>3. windows[n].start \in Nat
    BY <2>2 DEF Span
  <2>4. c.start = windows[n].start /\ c.headings = HeadingPathAt(windows[n].start, headings)
    BY <1>5, <2>1
  <2> QED BY <2>3, <2>4, PathEncloses
<1> QED BY <1>6, <1>7, <1>8 DEF Complete, chunks
-----------------------------------------------------------------------------
(* Readiness: the facts of a page *)

Fact ==
  {"blocked", "index", "canonical", "words", "headings", "stats", "domains", "quotes",
   "tables", "entity", "summary", "dates", "age", "author", "org", "parses", "matches",
   "h1", "skips", "landmarks", "alt", "lang", "hreflang", "repeats", "hidden", "quality"}

\* The values of a fact, worst first: at least two, and each but once.
Graded(s) ==
  /\ Len(s) \in Nat /\ Len(s) > 1 /\ DOMAIN s = 1 .. Len(s)
  /\ \A m, n \in DOMAIN s : s[m] = s[n] => m = n

\* Two, three or four different values are graded.
LEMMA GradedValues ==
  /\ \A a, b : a # b => Graded(<<a, b>>)
  /\ \A a, b, c : a # b /\ a # c /\ b # c => Graded(<<a, b, c>>)
  /\ \A a, b, c, d : a # b /\ a # c /\ a # d /\ b # c /\ b # d /\ c # d => Graded(<<a, b, c, d>>)
<1>1. ASSUME NEW a, NEW b, a # b PROVE Graded(<<a, b>>)
  BY <1>1 DEF Graded
<1>2. ASSUME NEW a, NEW b, NEW c, a # b, a # c, b # c PROVE Graded(<<a, b, c>>)
  BY <1>2 DEF Graded
<1>3. ASSUME NEW a, NEW b, NEW c, NEW d, a # b, a # c, a # d, b # c, b # d, c # d
      PROVE  Graded(<<a, b, c, d>>)
  BY <1>3 DEF Graded
<1> QED BY <1>1, <1>2, <1>3

\* The values of every fact are.
LEMMA ValuesGraded ==
  DOMAIN Values = Fact /\ \A f \in Fact : Graded(Values[f])
<1>1. DOMAIN Values = Fact
  BY DEF Values, Fact
<1>2. Graded(Values.blocked)
  BY GradedValues DEF Values
<1>3. Graded(Values.index)
  BY GradedValues DEF Values
<1>4. Graded(Values.canonical)
  BY GradedValues, Zenon DEF Values
<1>5. Graded(Values.words)
  BY GradedValues DEF Values
<1>6. Graded(Values.headings)
  BY GradedValues DEF Values
<1>7. Graded(Values.stats)
  BY GradedValues DEF Values
<1>8. Graded(Values.domains)
  BY GradedValues DEF Values
<1>9. Graded(Values.quotes)
  BY GradedValues DEF Values
<1>10. Graded(Values.tables)
  BY GradedValues DEF Values
<1>11. Graded(Values.entity)
  BY GradedValues DEF Values
<1>12. Graded(Values.summary)
  BY GradedValues DEF Values
<1>13. Graded(Values.dates)
  BY GradedValues DEF Values
<1>14. Graded(Values.age)
  BY GradedValues, Zenon DEF Values
<1>15. Graded(Values.author)
  BY GradedValues DEF Values
<1>16. Graded(Values.org)
  BY GradedValues DEF Values
<1>17. Graded(Values.parses)
  BY GradedValues DEF Values
<1>18. Graded(Values.matches)
  BY GradedValues DEF Values
<1>19. Graded(Values.h1)
  BY GradedValues DEF Values
<1>20. Graded(Values.skips)
  BY GradedValues DEF Values
<1>21. Graded(Values.landmarks)
  BY GradedValues, Zenon DEF Values
<1>22. Graded(Values.alt)
  BY GradedValues DEF Values
<1>23. Graded(Values.lang)
  BY GradedValues DEF Values
<1>24. Graded(Values.hreflang)
  BY GradedValues DEF Values
<1>25. Graded(Values.repeats)
  BY GradedValues, Zenon DEF Values
<1>26. Graded(Values.hidden)
  BY GradedValues DEF Values
<1>27. Graded(Values.quality)
  BY GradedValues DEF Values
<1>28. ASSUME NEW f \in Fact PROVE Graded(Values[f])
  BY <1>2, <1>3, <1>4, <1>5, <1>6, <1>7, <1>8, <1>9, <1>10, <1>11, <1>12, <1>13, <1>14, <1>15, <1>16, <1>17, <1>18, <1>19, <1>20, <1>21, <1>22, <1>23, <1>24, <1>25, <1>26, <1>27 DEF Fact
<1> QED BY <1>1, <1>28

\* A page whose facts are known, or as unknown as they may be.
Page(p) ==
  \A f \in Fact : \/ \E n \in DOMAIN Values[f] : p[f] = Values[f][n]
                  \/ f = "blocked" /\ p.blocked = Unknown
                  \/ f = "quality" /\ p.quality = Unjudged

\* Every fact of q is that of p, or better.
NoWorse(p, q, f) ==
  q[f] = p[f] \/ \E m, n \in DOMAIN Values[f] : m < n /\ p[f] = Values[f][m] /\ q[f] = Values[f][n]
Better(p, q) == \A f \in Fact : NoWorse(p, q, f)

\* An improvement of one fact is one.
LEMMA ImprovedBetter ==
  ASSUME NEW p, Page(p), DOMAIN p = Fact, NEW q \in Improvements(p)
  PROVE  Page(q) /\ Better(p, q)
<1>1. PICK f \in Fact : Known(p, f) /\ ~Best(p, f) /\ q = Improved(p, f)
  BY ValuesGraded DEF Improvements
<1> DEFINE V == Values[f]
           place == CHOOSE n \in DOMAIN V : V[n] = p[f]
<1>2. Graded(V)
  BY ValuesGraded
<1>3. q = [p EXCEPT ![f] = V[1 + place]]
  BY <1>1 DEF Improved
<1>4. \E n \in DOMAIN V : V[n] = p[f]
  BY <1>1 DEF Page, Known
<1>5. place \in DOMAIN V /\ V[place] = p[f]
  BY <1>4
<1>6. place # Len(V)
  BY <1>1, <1>5 DEF Best
<1> HIDE DEF place, V
<1>7. 1 + place \in DOMAIN V /\ place < 1 + place
  BY <1>2, <1>5, <1>6 DEF Graded
<1>8. q[f] = V[1 + place] /\ \A g \in Fact : g # f => q[g] = p[g]
  BY <1>3
<1>9. NoWorse(p, q, f)
  BY <1>5, <1>7, <1>8 DEF NoWorse, V
<1>10. \A g \in Fact : NoWorse(p, q, g)
  <2> TAKE g \in Fact
  <2>1. CASE g = f
    BY <1>9, <2>1
  <2>2. CASE g # f
    BY <1>8, <2>2 DEF NoWorse
  <2> QED BY <2>1, <2>2
<1>11. ASSUME NEW g \in Fact
       PROVE  \/ \E n \in DOMAIN Values[g] : q[g] = Values[g][n]
              \/ g = "blocked" /\ q.blocked = Unknown
              \/ g = "quality" /\ q.quality = Unjudged
  <2>1. CASE g = f
    BY <1>7, <1>8, <2>1 DEF V
  <2>2. CASE g # f
    <3>1. q[g] = p[g]
      BY <1>8, <2>2
    <3>2. \/ \E n \in DOMAIN Values[g] : p[g] = Values[g][n]
          \/ g = "blocked" /\ p.blocked = Unknown
          \/ g = "quality" /\ p.quality = Unjudged
      BY DEF Page
    <3> QED BY <3>1, <3>2
  <2> QED BY <2>1, <2>2
<1> QED BY <1>10, <1>11 DEF Page, Better

-----------------------------------------------------------------------------
(* Readiness: the checks *)

Status == {"pass", "warn", "fail"}
\* The status t is no worse than s.
Up(s, t) == (s = "pass" => t = "pass") /\ (s = "warn" => t # "fail")

\* A grade is a status, and worth at least none and at most all of the points.
LEMMA GradesAre ==
  ASSUME NEW pass \in BOOLEAN, NEW warn \in BOOLEAN
  PROVE  /\ Grade(pass, warn) \in Status
         /\ Grade(pass, warn) = "pass" <=> pass
         /\ Grade(pass, warn) = "warn" <=> ~pass /\ warn
  BY DEF Grade, Status

\* What a status is worth.
LEMMA HalvesAre ==
  ASSUME NEW max \in Nat, NEW s \in Status
  PROVE  /\ Halves(max, s) \in 0 .. 2 * max
         /\ s = "pass" => Halves(max, s) = 2 * max
         /\ s = "warn" => Halves(max, s) = max
         /\ s = "fail" => Halves(max, s) = 0
  BY DEF Halves, Status

\* A better status is worth no less.
LEMMA HalvesGrow ==
  ASSUME NEW max \in Nat, NEW s \in Status, NEW t \in Status, Up(s, t)
  PROVE  Halves(max, s) <= Halves(max, t)
  BY HalvesAre DEF Up, Status

\* A fact that is no worse is ranked no lower.
LEMMA RankedGrows ==
  ASSUME NEW p, NEW q, NEW f \in Fact, NoWorse(p, q, f)
  PROVE  /\ Ranked(p, f) \in Status /\ Ranked(q, f) \in Status
         /\ Up(Ranked(p, f), Ranked(q, f))
<1>1. Graded(Values[f])
  BY ValuesGraded
<1>2. Best(p, f) \in BOOLEAN /\ Worst(p, f) \in BOOLEAN /\ Best(q, f) \in BOOLEAN /\ Worst(q, f) \in BOOLEAN
  BY DEF Best, Worst
<1>3. Best(p, f) => Best(q, f)
  BY <1>1 DEF NoWorse, Best, Graded
<1>4. ~Worst(p, f) => ~Worst(q, f)
  BY <1>1 DEF NoWorse, Worst, Graded
<1>5. /\ Ranked(p, f) \in Status /\ Ranked(q, f) \in Status
      /\ Ranked(p, f) = "pass" <=> Best(p, f)
      /\ Ranked(q, f) = "pass" <=> Best(q, f)
      /\ Ranked(p, f) = "warn" <=> ~Best(p, f) /\ ~Worst(p, f)
      /\ Ranked(q, f) = "warn" <=> ~Best(q, f) /\ ~Worst(q, f)
  BY <1>2, GradesAre DEF Ranked
<1> QED BY <1>3, <1>4, <1>5 DEF Up, Status

\* A number or a flag that is no worse.
LEMMA FactsGrow ==
  ASSUME NEW p, Page(p), NEW q, Page(q), Better(p, q)
  PROVE  /\ p.words \in Nat /\ q.words \in Nat /\ p.words <= q.words
         /\ p.headings \in Nat /\ q.headings \in Nat /\ p.headings <= q.headings
         /\ p.quotes \in Nat /\ q.quotes \in Nat /\ p.quotes <= q.quotes
         /\ p.tables \in Nat /\ q.tables \in Nat /\ p.tables <= q.tables
         /\ p.quality \in -1 .. 60 /\ q.quality \in -1 .. 60 /\ p.quality <= q.quality
         /\ p.quality = Unjudged <=> q.quality = Unjudged
         /\ \A f \in {"entity", "summary", "author", "parses", "matches", "lang", "hreflang"} :
              p[f] \in BOOLEAN /\ q[f] \in BOOLEAN /\ (p[f] => q[f])
         /\ p.skips \in BOOLEAN /\ q.skips \in BOOLEAN /\ (q.skips => p.skips)
         /\ p.blocked = Unknown <=> q.blocked = Unknown
         /\ q.blocked = "all" => p.blocked = "all"
         /\ p.stats \in {"none", "bare", "attributed"} /\ q.stats \in {"none", "bare", "attributed"}
         /\ p.stats = "bare" => q.stats # "none"
         /\ p.stats = "attributed" => q.stats = "attributed"
         /\ q.dates = "none" => p.dates = "none"
<1> DEFINE Of(f, x, y) == /\ \E n \in DOMAIN Values[f] : x = Values[f][n]
                          /\ \E n \in DOMAIN Values[f] : y = Values[f][n]
                          /\ y = x \/ \E m, n \in DOMAIN Values[f] : m < n /\ x = Values[f][m] /\ y = Values[f][n]
<1>1. \A f \in Fact \ {"blocked", "quality"} : Of(f, p[f], q[f])
  BY DEF Page, Better, NoWorse
<1> HIDE DEF Of
<1>2. ASSUME NEW f, NEW a, NEW b, Values[f] = <<a, b>>, NEW x, NEW y, Of(f, x, y)
      PROVE  (x = a /\ y \in {a, b}) \/ (x = b /\ y = b)
  BY <1>2 DEF Of
<1>3. ASSUME NEW f, NEW a, NEW b, NEW c, Values[f] = <<a, b, c>>, NEW x, NEW y, Of(f, x, y)
      PROVE  (x = a /\ y \in {a, b, c}) \/ (x = b /\ y \in {b, c}) \/ (x = c /\ y = c)
  BY <1>3 DEF Of
<1>4. /\ Of("words", p.words, q.words) /\ Of("headings", p.headings, q.headings)
      /\ Of("quotes", p.quotes, q.quotes) /\ Of("tables", p.tables, q.tables)
      /\ Of("skips", p.skips, q.skips)
      /\ Of("stats", p.stats, q.stats) /\ Of("dates", p.dates, q.dates)
  BY <1>1 DEF Fact
<1>5. p.words \in Nat /\ q.words \in Nat /\ p.words <= q.words
  <2>1. Values["words"] = <<20, 50, 150>>
    BY DEF Values
  <2> QED BY <1>3, <1>4, <2>1
<1>6. p.headings \in Nat /\ q.headings \in Nat /\ p.headings <= q.headings
  <2>1. Values["headings"] = <<0, 1, 2>>
    BY DEF Values
  <2> QED BY <1>3, <1>4, <2>1
<1>7. /\ p.quotes \in Nat /\ q.quotes \in Nat /\ p.quotes <= q.quotes
      /\ p.tables \in Nat /\ q.tables \in Nat /\ p.tables <= q.tables
  <2>1. Values["quotes"] = <<0, 1>> /\ Values["tables"] = <<0, 1>>
    BY DEF Values
  <2> QED BY <1>2, <1>4, <2>1
<1>8. /\ p.quality \in -1 .. 60 /\ q.quality \in -1 .. 60 /\ p.quality <= q.quality
      /\ p.quality = Unjudged <=> q.quality = Unjudged
  <2>1. Values["quality"] = <<0, 24, 42, 60>> /\ Unjudged = -1
    BY DEF Values, Unjudged
  <2>2. NoWorse(p, q, "quality")
    BY DEF Better, Fact
  <2>3. p.quality = -1 \/ \E n \in DOMAIN Values["quality"] : p.quality = Values["quality"][n]
    BY <2>1 DEF Page, Fact
  <2>4. p.quality \in {-1, 0, 24, 42, 60}
    BY <2>1, <2>3
  <2>5. q.quality = p.quality \/ \E m, n \in 1 .. 4 :
          m < n /\ p.quality = Values["quality"][m] /\ q.quality = Values["quality"][n]
    BY <2>1, <2>2 DEF NoWorse
  <2> QED BY <2>1, <2>4, <2>5
<1>9. ASSUME NEW f \in {"entity", "summary", "author", "parses", "matches", "lang", "hreflang"}
      PROVE  p[f] \in BOOLEAN /\ q[f] \in BOOLEAN /\ (p[f] => q[f])
  <2>1. Of(f, p[f], q[f])
    BY <1>1 DEF Fact
  <2>2. Values[f] = <<FALSE, TRUE>>
    <3>1. /\ Values["entity"] = <<FALSE, TRUE>> /\ Values["summary"] = <<FALSE, TRUE>>
          /\ Values["author"] = <<FALSE, TRUE>> /\ Values["parses"] = <<FALSE, TRUE>>
          /\ Values["matches"] = <<FALSE, TRUE>> /\ Values["lang"] = <<FALSE, TRUE>>
          /\ Values["hreflang"] = <<FALSE, TRUE>>
      BY DEF Values
    <3> QED BY <3>1
  <2>3. (p[f] = FALSE /\ q[f] \in {FALSE, TRUE}) \/ (p[f] = TRUE /\ q[f] = TRUE)
    BY <1>2, <2>1, <2>2
  <2> QED BY <2>3
<1>10. p.skips \in BOOLEAN /\ q.skips \in BOOLEAN /\ (q.skips => p.skips)
  <2>1. Values["skips"] = <<TRUE, FALSE>>
    BY DEF Values
  <2>2. ASSUME NEW x, NEW y, Of("skips", x, y)
        PROVE  (x = TRUE /\ y \in {TRUE, FALSE}) \/ (x = FALSE /\ y = FALSE)
    BY <1>2, <2>1, <2>2
  <2>3. (p.skips = TRUE /\ q.skips \in {TRUE, FALSE}) \/ (p.skips = FALSE /\ q.skips = FALSE)
    BY <1>4, <2>2, Zenon
  <2> QED BY <2>3
<1>11. (p.blocked = Unknown <=> q.blocked = Unknown) /\ (q.blocked = "all" => p.blocked = "all")
  <2>1. Values["blocked"] = <<"all", "some", "none">> /\ Unknown = "unknown"
    BY DEF Values, Unknown
  <2>2. NoWorse(p, q, "blocked")
    BY DEF Better, Fact
  <2>3. q.blocked = p.blocked \/ \E m, n \in 1 .. 3 :
          m < n /\ p.blocked = Values["blocked"][m] /\ q.blocked = Values["blocked"][n]
    BY <2>1, <2>2 DEF NoWorse
  <2> QED BY <2>1, <2>3
<1>12. /\ p.stats \in {"none", "bare", "attributed"} /\ q.stats \in {"none", "bare", "attributed"}
       /\ p.stats = "bare" => q.stats # "none"
       /\ p.stats = "attributed" => q.stats = "attributed"
  <2>1. Values["stats"] = <<"none", "bare", "attributed">>
    BY DEF Values
  <2> QED BY <1>3, <1>4, <2>1
<1>13. q.dates = "none" => p.dates = "none"
  <2>1. Values["dates"] = <<"none", "one", "both">>
    BY DEF Values
  <2> QED BY <1>3, <1>4, <2>1
<1> QED BY <1>5, <1>6, <1>7, <1>8, <1>9, <1>10, <1>11, <1>12, <1>13

\* The checks of a sum, one by one.
LEMMA SumReads ==
  ASSUME NEW checks, Len(checks) \in Nat, NEW field
  PROVE  \E sum :
           /\ SumOf(checks, field) = sum[Len(checks)]
           /\ sum[0] = 0
           /\ \A n \in 1 .. Len(checks) :
                sum[n] = sum[n - 1] + IF checks[n].status = "na" THEN 0 ELSE checks[n][field]
<1> DEFINE Turn(s, n) == s + IF checks[n].status = "na" THEN 0 ELSE checks[n][field]
           SumAt(g, n) == IF n = 0 THEN 0 ELSE Turn(g[n - 1], n)
           Sums(g, N) == g = [n \in 0 .. N |-> SumAt(g, n)]
           P == {N \in Nat : \E g : Sums(g, N)}
<1>1. 0 \in P
  <2> DEFINE g == [n \in 0 .. 0 |-> 0]
  <2>1. Sums(g, 0)
    OBVIOUS
  <2> HIDE DEF Sums
  <2> QED BY <2>1
<1>2. ASSUME NEW N \in Nat, N \in P PROVE N + 1 \in P
  <2>1. PICK g : Sums(g, N)
    BY <1>2
  <2> DEFINE next == Turn(g[N], N + 1)
             h == [n \in 0 .. N + 1 |-> IF n = N + 1 THEN next ELSE g[n]]
  <2>2. \A n \in 0 .. N : g[n] = SumAt(g, n)
    BY <2>1
  <2> HIDE DEF Turn
  <2>3. \A n \in 0 .. N + 1 : h[n] = SumAt(h, n)
    <3> TAKE n \in 0 .. N + 1
    <3>1. CASE n = N + 1
      BY <3>1
    <3>2. CASE n # N + 1
      <4>1. n \in 0 .. N /\ (n # 0 => n - 1 \in 0 .. N + 1 /\ n - 1 # N + 1)
        BY <3>2
      <4>2. h[n] = SumAt(g, n) /\ (n # 0 => h[n - 1] = g[n - 1])
        BY <2>2, <4>1
      <4> QED BY <4>2
    <3> QED BY <3>1, <3>2
  <2>4. Sums(h, N + 1)
    BY <2>3
  <2> HIDE DEF Sums
  <2> QED BY <2>4
<1> HIDE DEF P
<1>3. Len(checks) \in P
  BY <1>1, <1>2, EveryNumber
<1>4. \E g : Sums(g, Len(checks))
  BY <1>3 DEF P
<1> DEFINE sum == CHOOSE g : Sums(g, Len(checks))
<1>5. Sums(sum, Len(checks))
  BY <1>4
<1>6. SumOf(checks, field) = sum[Len(checks)]
  BY DEF SumOf
<1>7. \A n \in 0 .. Len(checks) : sum[n] = SumAt(sum, n)
  BY <1>5
<1> HIDE DEF sum, Turn
<1>8. sum[0] = 0 /\ \A n \in 1 .. Len(checks) : sum[n] = Turn(sum[n - 1], n)
  BY <1>7
<1> QED BY <1>6, <1>8 DEF Turn

\* The sum of four, five or six checks.
LEMMA SumOfFew ==
  ASSUME NEW checks, Len(checks) \in 4 .. 6, NEW field, NEW x,
         \A n \in 1 .. Len(checks) :
           x[n] \in Int /\ x[n] = IF checks[n].status = "na" THEN 0 ELSE checks[n][field]
  PROVE  /\ Len(checks) = 4 => SumOf(checks, field) = x[1] + x[2] + x[3] + x[4]
         /\ Len(checks) = 5 => SumOf(checks, field) = x[1] + x[2] + x[3] + x[4] + x[5]
         /\ Len(checks) = 6 => SumOf(checks, field) = x[1] + x[2] + x[3] + x[4] + x[5] + x[6]
<1>1. PICK sum : /\ SumOf(checks, field) = sum[Len(checks)]
                 /\ sum[0] = 0
                 /\ \A n \in 1 .. Len(checks) :
                      sum[n] = sum[n - 1] + IF checks[n].status = "na" THEN 0 ELSE checks[n][field]
  BY SumReads
<1> DEFINE N == Len(checks)
<1>2. \A n \in 1 .. N : sum[n] = sum[n - 1] + x[n] /\ x[n] \in Int
  BY <1>1
<1>3. N = 4 \/ N = 5 \/ N = 6
  OBVIOUS
<1> HIDE DEF N
<1>4. ASSUME NEW n \in 1 .. 4 PROVE sum[n] = sum[n - 1] + x[n] /\ x[n] \in Int
  BY <1>2, <1>3
<1>5. /\ sum[1] = sum[0] + x[1] /\ sum[2] = sum[1] + x[2]
      /\ sum[3] = sum[2] + x[3] /\ sum[4] = sum[3] + x[4]
  <2>1. /\ 1 \in 1 .. 4 /\ 2 \in 1 .. 4 /\ 3 \in 1 .. 4 /\ 4 \in 1 .. 4
        /\ 1 - 1 = 0 /\ 2 - 1 = 1 /\ 3 - 1 = 2 /\ 4 - 1 = 3
    OBVIOUS
  <2> QED BY <1>4, <2>1
<1>6. x[1] \in Int /\ x[2] \in Int /\ x[3] \in Int /\ x[4] \in Int
  BY <1>4
<1>7. sum[4] = x[1] + x[2] + x[3] + x[4] /\ sum[4] \in Int
  BY <1>1, <1>5, <1>6
<1>8. N > 4 => sum[5] = sum[4] + x[5] /\ x[5] \in Int
  <2>1. N > 4 => 5 \in 1 .. N /\ 5 - 1 = 4
    BY <1>3
  <2> QED BY <1>2, <2>1
<1>9. N > 5 => sum[6] = sum[5] + x[6] /\ x[6] \in Int
  <2>1. N > 5 => 6 \in 1 .. N /\ 6 - 1 = 5
    BY <1>3
  <2> QED BY <1>2, <2>1
<1>10. SumOf(checks, field) = sum[N]
  BY <1>1 DEF N
<1> SUFFICES /\ N = 4 => SumOf(checks, field) = x[1] + x[2] + x[3] + x[4]
             /\ N = 5 => SumOf(checks, field) = x[1] + x[2] + x[3] + x[4] + x[5]
             /\ N = 6 => SumOf(checks, field) = x[1] + x[2] + x[3] + x[4] + x[5] + x[6]
  BY DEF N
<1>11. CASE N = 4
  BY <1>7, <1>10, <1>11
<1>12. CASE N = 5
  BY <1>7, <1>8, <1>10, <1>12
<1>13. CASE N = 6
  BY <1>7, <1>8, <1>9, <1>10, <1>13
<1> QED BY <1>3, <1>11, <1>12, <1>13

\* What each check is worth, in halves of a point.
RetrievabilityHalves(p) == <<
  IF p.blocked = Unknown THEN 0 ELSE Halves(10, Ranked(p, "blocked")),
  Halves(8, Ranked(p, "index")),
  Halves(6, Ranked(p, "canonical")),
  Halves(6, Grade(p.words >= 150 /\ p.headings > 0, p.words >= 50))>>
EvidenceHalves(p) == <<
  IF p.stats = "none" THEN 4 ELSE IF p.stats = "bare" THEN 7 ELSE 14,
  Halves(6, Ranked(p, "domains")),
  Halves(4, Grade(p.quotes > 0, TRUE)),
  Halves(4, Grade(p.tables > 0, TRUE)),
  Halves(2, Grade(p.entity, TRUE)),
  Halves(2, Grade(p.summary, TRUE))>>
ProvenanceHalves(p) == <<
  Halves(6, Ranked(p, "dates")),
  IF p.dates = "none" THEN 0 ELSE Halves(4, Ranked(p, "age")),
  Halves(4, Grade(p.author, TRUE)),
  Halves(4, Ranked(p, "org")),
  Halves(2, Grade(p.parses /\ p.matches, TRUE))>>
StructureHalves(p) == <<
  Halves(3, Ranked(p, "h1")),
  Halves(2, Grade(p.headings > 1 /\ ~p.skips, TRUE)),
  Halves(2, Ranked(p, "landmarks")),
  Halves(1, Ranked(p, "alt")),
  Halves(1, Grade(p.lang, TRUE)),
  Halves(1, Grade(p.hreflang, TRUE))>>
Taken(status, onFail, onWarn) == CASE status = "fail" -> onFail [] status = "warn" -> onWarn [] OTHER -> 0
HygieneTaken(p) == <<
  Taken(Ranked(p, "repeats"), 10, 4),
  Taken(Ranked(p, "hidden"), 12, 6),
  Taken(Grade(p.words >= 150, FALSE), 4, 0),
  Taken(Grade(p.matches, FALSE), 4, 0)>>

\* Every fact has a rank, and every grade is a status.
LEMMA AllGraded ==
  /\ \A p, f : Ranked(p, f) \in Status
  /\ \A a, b : Grade(a, b) \in Status
  /\ "na" \notin Status
<1>0. (\A a, b : Grade(a, b) \in Status) /\ "na" \notin Status
  BY DEF Grade, Status
<1>1. ASSUME NEW p, NEW f PROVE Ranked(p, f) \in Status
  BY <1>0 DEF Ranked
<1> QED BY <1>0, <1>1

\* The share of retrievability.
LEMMA RetrievabilityIs ==
  ASSUME NEW p
  PROVE  LET h == RetrievabilityHalves(p)
         IN  /\ h[1] \in 0 .. 20 /\ h[2] \in 0 .. 16 /\ h[3] \in 0 .. 12 /\ h[4] \in 0 .. 12
             /\ p.blocked = Unknown => Weighted(Retrievability(p), 30) = 3 * (h[2] + h[3] + h[4])
             /\ p.blocked # Unknown => Weighted(Retrievability(p), 30) = 2 * (h[1] + h[2] + h[3] + h[4])
<1> DEFINE c == Retrievability(p)
           h == RetrievabilityHalves(p)
           known == p.blocked # Unknown
           s1 == Ranked(p, "blocked")
           s2 == Ranked(p, "index")
           s3 == Ranked(p, "canonical")
           s4 == Grade(p.words >= 150 /\ p.headings > 0, p.words >= 50)
           short == p.words < 150
<1> SUFFICES /\ h[1] \in 0 .. 20 /\ h[2] \in 0 .. 16 /\ h[3] \in 0 .. 12 /\ h[4] \in 0 .. 12
             /\ ~known => Weighted(c, 30) = 3 * (h[2] + h[3] + h[4])
             /\ known => Weighted(c, 30) = 2 * (h[1] + h[2] + h[3] + h[4])
  OBVIOUS
<1>1. s1 \in Status /\ s2 \in Status /\ s3 \in Status /\ s4 \in Status
  BY AllGraded
<1>2. c = <<Check("retrievability", 10, IF known THEN s1 ELSE "na"),
            Check("retrievability", 8, s2), Check("retrievability", 6, s3),
            Advised(Check("retrievability", 6, s4), short)>>
  BY DEF Retrievability
<1>3. /\ h[1] = (IF known THEN Halves(10, s1) ELSE 0)
      /\ h[2] = Halves(8, s2) /\ h[3] = Halves(6, s3) /\ h[4] = Halves(6, s4)
  BY DEF RetrievabilityHalves
<1> HIDE DEF c, h, s1, s2, s3, s4, known, short
<1>4. Len(c) = 4
  BY <1>2
<1>51. /\ c[1] = Check("retrievability", 10, IF known THEN s1 ELSE "na")
       /\ c[2] = Check("retrievability", 8, s2) /\ c[3] = Check("retrievability", 6, s3)
       /\ c[4] = Advised(Check("retrievability", 6, s4), short)
  BY <1>2
<1>5. c[1].status = (IF known THEN s1 ELSE "na") /\ c[1].max = 10 /\ (known => c[1].halves = Halves(10, s1))
  BY <1>51 DEF Check, Advised
<1>6. /\ c[2].status = s2 /\ c[2].max = 8 /\ c[2].halves = Halves(8, s2)
      /\ c[3].status = s3 /\ c[3].max = 6 /\ c[3].halves = Halves(6, s3)
  BY <1>51 DEF Check, Advised
<1>7. c[4].status = s4 /\ c[4].max = 6 /\ c[4].halves = Halves(6, s4)
  BY <1>51 DEF Check, Advised
<1>8. 10 \in Nat /\ 8 \in Nat /\ 6 \in Nat
  OBVIOUS
<1>9. h[2] \in 0 .. 16 /\ h[3] \in 0 .. 12 /\ h[4] \in 0 .. 12
  <2>1. Halves(8, s2) \in 0 .. 2 * 8
    BY <1>1, <1>8, HalvesAre
  <2>2. Halves(6, s3) \in 0 .. 2 * 6 /\ Halves(6, s4) \in 0 .. 2 * 6
    BY <1>1, <1>8, HalvesAre
  <2> QED BY <1>3, <2>1, <2>2
<1>10. h[1] \in 0 .. 20
  <2>1. Halves(10, s1) \in 0 .. 2 * 10
    BY <1>1, <1>8, HalvesAre
  <2> QED BY <1>3, <2>1
<1>11. \A n \in 1 .. 4 : n = 1 \/ n = 2 \/ n = 3 \/ n = 4
  OBVIOUS
<1>12. /\ h[1] = IF c[1].status = "na" THEN 0 ELSE c[1]["halves"]
       /\ h[2] = IF c[2].status = "na" THEN 0 ELSE c[2]["halves"]
       /\ h[3] = IF c[3].status = "na" THEN 0 ELSE c[3]["halves"]
       /\ h[4] = IF c[4].status = "na" THEN 0 ELSE c[4]["halves"]
  <2>1. "na" \notin Status
    BY AllGraded
  <2> QED BY <1>1, <1>3, <1>5, <1>6, <1>7, <2>1
<1>13. SumOf(c, "halves") = h[1] + h[2] + h[3] + h[4]
  <2>1. ASSUME NEW n \in 1 .. Len(c)
        PROVE  h[n] \in Int /\ h[n] = IF c[n].status = "na" THEN 0 ELSE c[n]["halves"]
    BY <1>4, <1>9, <1>10, <1>11, <1>12
  <2>2. Len(c) \in 4 .. 6
    BY <1>4
  <2> QED BY <1>4, <2>1, <2>2, SumOfFew, Zenon
<1>14. SumOf(c, "max") = IF known THEN 30 ELSE 20
  <2> DEFINE x == <<IF known THEN 10 ELSE 0, 8, 6, 6>>
  <2>1. x[1] = (IF known THEN 10 ELSE 0) /\ x[2] = 8 /\ x[3] = 6 /\ x[4] = 6
    OBVIOUS
  <2> HIDE DEF x
  <2>2. /\ x[1] = IF c[1].status = "na" THEN 0 ELSE c[1]["max"]
        /\ x[2] = IF c[2].status = "na" THEN 0 ELSE c[2]["max"]
        /\ x[3] = IF c[3].status = "na" THEN 0 ELSE c[3]["max"]
        /\ x[4] = IF c[4].status = "na" THEN 0 ELSE c[4]["max"]
    <3>1. "na" \notin Status
      BY AllGraded
    <3> QED BY <1>1, <1>5, <1>6, <1>7, <2>1, <3>1
  <2>3. ASSUME NEW n \in 1 .. Len(c)
        PROVE  x[n] \in Int /\ x[n] = IF c[n].status = "na" THEN 0 ELSE c[n]["max"]
    BY <1>4, <1>11, <2>1, <2>2
  <2>4. Len(c) \in 4 .. 6
    BY <1>4
  <2>5. SumOf(c, "max") = x[1] + x[2] + x[3] + x[4]
    BY <1>4, <2>3, <2>4, SumOfFew, Zenon
  <2> QED BY <2>1, <2>5
<1>15. ~known => h[1] = 0
  BY <1>3
<1>16. Weighted(c, 30) = (60 * (h[1] + h[2] + h[3] + h[4])) \div IF known THEN 30 ELSE 20
  BY <1>9, <1>10, <1>13, <1>14 DEF Weighted
<1> QED BY <1>9, <1>10, <1>15, <1>16
\* The share of evidence.
LEMMA EvidenceIs ==
  ASSUME NEW p
  PROVE  LET h == EvidenceHalves(p)
         IN  /\ h[1] \in 0 .. 14 /\ h[2] \in 0 .. 12 /\ h[3] \in 0 .. 8
             /\ h[4] \in 0 .. 8 /\ h[5] \in 0 .. 4 /\ h[6] \in 0 .. 4
             /\ Weighted(Evidence(p), 25) = 2 * (h[1] + h[2] + h[3] + h[4] + h[5] + h[6])
<1> DEFINE c == Evidence(p)
           h == EvidenceHalves(p)
           stats == IF p.stats = "none" THEN 4 ELSE IF p.stats = "bare" THEN 7 ELSE 14
           s1 == Grade(Best(p, "stats"), TRUE)
           s2 == Ranked(p, "domains")
           s3 == Grade(p.quotes > 0, TRUE)
           s4 == Grade(p.tables > 0, TRUE)
           s5 == Grade(p.entity, TRUE)
           s6 == Grade(p.summary, TRUE)
<1> SUFFICES /\ h[1] \in 0 .. 14 /\ h[2] \in 0 .. 12 /\ h[3] \in 0 .. 8
             /\ h[4] \in 0 .. 8 /\ h[5] \in 0 .. 4 /\ h[6] \in 0 .. 4
             /\ Weighted(c, 25) = 2 * (h[1] + h[2] + h[3] + h[4] + h[5] + h[6])
  OBVIOUS
<1>1. s1 \in Status /\ s2 \in Status /\ s3 \in Status /\ s4 \in Status /\ s5 \in Status /\ s6 \in Status
  BY AllGraded
<1>2. c = <<Worth(Check("evidence", 7, s1), stats),
            Check("evidence", 6, s2),
            Check("evidence", 4, s3),
            Check("evidence", 4, s4),
            Check("evidence", 2, s5),
            Check("evidence", 2, s6)>>
  BY DEF Evidence
<1>3. /\ h[1] = stats
      /\ h[2] = Halves(6, s2)
      /\ h[3] = Halves(4, s3)
      /\ h[4] = Halves(4, s4)
      /\ h[5] = Halves(2, s5)
      /\ h[6] = Halves(2, s6)
  BY DEF EvidenceHalves
<1> HIDE DEF c, h, stats, s1, s2, s3, s4, s5, s6
<1>4. Len(c) = 6
  BY <1>2
<1>5. /\ c[1] = Worth(Check("evidence", 7, s1), stats)
      /\ c[2] = Check("evidence", 6, s2)
      /\ c[3] = Check("evidence", 4, s3)
      /\ c[4] = Check("evidence", 4, s4)
      /\ c[5] = Check("evidence", 2, s5)
      /\ c[6] = Check("evidence", 2, s6)
  BY <1>2
<1>6. /\ c[1].status = s1 /\ c[1].max = 7 /\ c[1].halves = h[1]
      /\ c[2].status = s2 /\ c[2].max = 6 /\ c[2].halves = h[2]
      /\ c[3].status = s3 /\ c[3].max = 4 /\ c[3].halves = h[3]
      /\ c[4].status = s4 /\ c[4].max = 4 /\ c[4].halves = h[4]
      /\ c[5].status = s5 /\ c[5].max = 2 /\ c[5].halves = h[5]
      /\ c[6].status = s6 /\ c[6].max = 2 /\ c[6].halves = h[6]
  BY <1>3, <1>5 DEF Check, Unadvised, Worth
<1>7. 7 \in Nat /\ 6 \in Nat /\ 4 \in Nat /\ 2 \in Nat
  OBVIOUS
<1>8. /\ h[1] \in 0 .. 14
      /\ h[2] \in 0 .. 12
      /\ h[3] \in 0 .. 8
      /\ h[4] \in 0 .. 8
      /\ h[5] \in 0 .. 4
      /\ h[6] \in 0 .. 4
  <2>1. Halves(6, s2) \in 0 .. 2 * 6
    BY <1>1, <1>7, HalvesAre
  <2>2. Halves(4, s3) \in 0 .. 2 * 4
    BY <1>1, <1>7, HalvesAre
  <2>3. Halves(4, s4) \in 0 .. 2 * 4
    BY <1>1, <1>7, HalvesAre
  <2>4. Halves(2, s5) \in 0 .. 2 * 2
    BY <1>1, <1>7, HalvesAre
  <2>5. Halves(2, s6) \in 0 .. 2 * 2
    BY <1>1, <1>7, HalvesAre
  <2> QED BY <1>3, <2>1, <2>2, <2>3, <2>4, <2>5 DEF stats
<1>9. \A n \in 1 .. 6 : n = 1 \/ n = 2 \/ n = 3 \/ n = 4 \/ n = 5 \/ n = 6
  OBVIOUS
<1>10. "na" \notin Status
  BY AllGraded
<1>11. SumOf(c, "halves") = h[1] + h[2] + h[3] + h[4] + h[5] + h[6]
  <2>1. ASSUME NEW n \in 1 .. Len(c)
        PROVE  h[n] \in Int /\ h[n] = IF c[n].status = "na" THEN 0 ELSE c[n]["halves"]
    BY <1>1, <1>4, <1>6, <1>8, <1>9, <1>10
  <2>2. Len(c) \in 4 .. 6
    BY <1>4
  <2> QED BY <1>4, <2>1, <2>2, SumOfFew, Zenon
<1>12. SumOf(c, "max") = 25
  <2> DEFINE x == <<7, 6, 4, 4, 2, 2>>
  <2>1. x[1] = 7 /\ x[2] = 6 /\ x[3] = 4 /\ x[4] = 4 /\ x[5] = 2 /\ x[6] = 2
    OBVIOUS
  <2> HIDE DEF x
  <2>2. ASSUME NEW n \in 1 .. Len(c)
        PROVE  x[n] \in Int /\ x[n] = IF c[n].status = "na" THEN 0 ELSE c[n]["max"]
    BY <1>1, <1>4, <1>6, <1>9, <1>10, <2>1
  <2>3. Len(c) \in 4 .. 6
    BY <1>4
  <2>4. SumOf(c, "max") = x[1] + x[2] + x[3] + x[4] + x[5] + x[6]
    BY <1>4, <2>2, <2>3, SumOfFew, Zenon
  <2> QED BY <2>1, <2>4
<1>13. Weighted(c, 25) = (50 * (h[1] + h[2] + h[3] + h[4] + h[5] + h[6])) \div 25
  BY <1>8, <1>11, <1>12 DEF Weighted
<1> QED BY <1>8, <1>13

\* The share of provenance.
LEMMA ProvenanceIs ==
  ASSUME NEW p
  PROVE  LET h == ProvenanceHalves(p)
         IN  /\ h[1] \in 0 .. 12 /\ h[2] \in 0 .. 8 /\ h[3] \in 0 .. 8
             /\ h[4] \in 0 .. 8 /\ h[5] \in 0 .. 4
             /\ Weighted(Provenance(p), 20) = 2 * (h[1] + h[2] + h[3] + h[4] + h[5])
<1> DEFINE c == Provenance(p)
           h == ProvenanceHalves(p)
           s1 == Ranked(p, "dates")
           s2 == IF p.dates = "none" THEN "fail" ELSE Ranked(p, "age")
           s3 == Grade(p.author, TRUE)
           s4 == Ranked(p, "org")
           s5 == Grade(p.parses /\ p.matches, TRUE)
<1> SUFFICES /\ h[1] \in 0 .. 12 /\ h[2] \in 0 .. 8 /\ h[3] \in 0 .. 8
             /\ h[4] \in 0 .. 8 /\ h[5] \in 0 .. 4
             /\ Weighted(c, 20) = 2 * (h[1] + h[2] + h[3] + h[4] + h[5])
  OBVIOUS
<1>1. s1 \in Status /\ s2 \in Status /\ s3 \in Status /\ s4 \in Status /\ s5 \in Status
  <2>1. "fail" \in Status
    BY DEF Status
  <2> QED BY <2>1, AllGraded
<1>2. c = <<Check("provenance", 6, s1),
            Check("provenance", 4, s2),
            Check("provenance", 4, s3),
            Check("provenance", 4, s4),
            Check("provenance", 2, s5)>>
  BY DEF Provenance
<1>3. /\ h[1] = Halves(6, s1)
      /\ h[2] = Halves(4, s2)
      /\ h[3] = Halves(4, s3)
      /\ h[4] = Halves(4, s4)
      /\ h[5] = Halves(2, s5)
  <2>1. Halves(4, "fail") = 0
    BY DEF Halves
  <2> QED BY <2>1 DEF ProvenanceHalves
<1> HIDE DEF c, h, s1, s2, s3, s4, s5
<1>4. Len(c) = 5
  BY <1>2
<1>5. /\ c[1] = Check("provenance", 6, s1)
      /\ c[2] = Check("provenance", 4, s2)
      /\ c[3] = Check("provenance", 4, s3)
      /\ c[4] = Check("provenance", 4, s4)
      /\ c[5] = Check("provenance", 2, s5)
  BY <1>2
<1>6. /\ c[1].status = s1 /\ c[1].max = 6 /\ c[1].halves = h[1]
      /\ c[2].status = s2 /\ c[2].max = 4 /\ c[2].halves = h[2]
      /\ c[3].status = s3 /\ c[3].max = 4 /\ c[3].halves = h[3]
      /\ c[4].status = s4 /\ c[4].max = 4 /\ c[4].halves = h[4]
      /\ c[5].status = s5 /\ c[5].max = 2 /\ c[5].halves = h[5]
  BY <1>3, <1>5 DEF Check, Unadvised, Worth
<1>7. 6 \in Nat /\ 4 \in Nat /\ 2 \in Nat
  OBVIOUS
<1>8. /\ h[1] \in 0 .. 12
      /\ h[2] \in 0 .. 8
      /\ h[3] \in 0 .. 8
      /\ h[4] \in 0 .. 8
      /\ h[5] \in 0 .. 4
  <2>1. Halves(6, s1) \in 0 .. 2 * 6
    BY <1>1, <1>7, HalvesAre
  <2>2. Halves(4, s2) \in 0 .. 2 * 4
    BY <1>1, <1>7, HalvesAre
  <2>3. Halves(4, s3) \in 0 .. 2 * 4
    BY <1>1, <1>7, HalvesAre
  <2>4. Halves(4, s4) \in 0 .. 2 * 4
    BY <1>1, <1>7, HalvesAre
  <2>5. Halves(2, s5) \in 0 .. 2 * 2
    BY <1>1, <1>7, HalvesAre
  <2> QED BY <1>3, <2>1, <2>2, <2>3, <2>4, <2>5
<1>9. \A n \in 1 .. 5 : n = 1 \/ n = 2 \/ n = 3 \/ n = 4 \/ n = 5
  OBVIOUS
<1>10. "na" \notin Status
  BY AllGraded
<1>11. SumOf(c, "halves") = h[1] + h[2] + h[3] + h[4] + h[5]
  <2>1. ASSUME NEW n \in 1 .. Len(c)
        PROVE  h[n] \in Int /\ h[n] = IF c[n].status = "na" THEN 0 ELSE c[n]["halves"]
    BY <1>1, <1>4, <1>6, <1>8, <1>9, <1>10
  <2>2. Len(c) \in 4 .. 6
    BY <1>4
  <2> QED BY <1>4, <2>1, <2>2, SumOfFew, Zenon
<1>12. SumOf(c, "max") = 20
  <2> DEFINE x == <<6, 4, 4, 4, 2>>
  <2>1. x[1] = 6 /\ x[2] = 4 /\ x[3] = 4 /\ x[4] = 4 /\ x[5] = 2
    OBVIOUS
  <2> HIDE DEF x
  <2>2. ASSUME NEW n \in 1 .. Len(c)
        PROVE  x[n] \in Int /\ x[n] = IF c[n].status = "na" THEN 0 ELSE c[n]["max"]
    BY <1>1, <1>4, <1>6, <1>9, <1>10, <2>1
  <2>3. Len(c) \in 4 .. 6
    BY <1>4
  <2>4. SumOf(c, "max") = x[1] + x[2] + x[3] + x[4] + x[5]
    BY <1>4, <2>2, <2>3, SumOfFew, Zenon
  <2> QED BY <2>1, <2>4
<1>13. Weighted(c, 20) = (40 * (h[1] + h[2] + h[3] + h[4] + h[5])) \div 20
  BY <1>8, <1>11, <1>12 DEF Weighted
<1> QED BY <1>8, <1>13

\* The share of structure.
LEMMA StructureIs ==
  ASSUME NEW p
  PROVE  LET h == StructureHalves(p)
         IN  /\ h[1] \in 0 .. 6 /\ h[2] \in 0 .. 4 /\ h[3] \in 0 .. 4
             /\ h[4] \in 0 .. 2 /\ h[5] \in 0 .. 2 /\ h[6] \in 0 .. 2
             /\ Weighted(Structure(p), 10) = 2 * (h[1] + h[2] + h[3] + h[4] + h[5] + h[6])
<1> DEFINE c == Structure(p)
           h == StructureHalves(p)
           s1 == Ranked(p, "h1")
           s2 == Grade(p.headings > 1 /\ ~p.skips, TRUE)
           s3 == Ranked(p, "landmarks")
           s4 == Ranked(p, "alt")
           s5 == Grade(p.lang, TRUE)
           s6 == Grade(p.hreflang, TRUE)
<1> SUFFICES /\ h[1] \in 0 .. 6 /\ h[2] \in 0 .. 4 /\ h[3] \in 0 .. 4
             /\ h[4] \in 0 .. 2 /\ h[5] \in 0 .. 2 /\ h[6] \in 0 .. 2
             /\ Weighted(c, 10) = 2 * (h[1] + h[2] + h[3] + h[4] + h[5] + h[6])
  OBVIOUS
<1>1. s1 \in Status /\ s2 \in Status /\ s3 \in Status /\ s4 \in Status /\ s5 \in Status /\ s6 \in Status
  BY AllGraded
<1>2. c = <<Check("structure", 3, s1),
            Unadvised(Check("structure", 2, s2)),
            Check("structure", 2, s3),
            Unadvised(Check("structure", 1, s4)),
            Unadvised(Check("structure", 1, s5)),
            Unadvised(Check("structure", 1, s6))>>
  BY DEF Structure
<1>3. /\ h[1] = Halves(3, s1)
      /\ h[2] = Halves(2, s2)
      /\ h[3] = Halves(2, s3)
      /\ h[4] = Halves(1, s4)
      /\ h[5] = Halves(1, s5)
      /\ h[6] = Halves(1, s6)
  BY DEF StructureHalves
<1> HIDE DEF c, h, s1, s2, s3, s4, s5, s6
<1>4. Len(c) = 6
  BY <1>2
<1>5. /\ c[1] = Check("structure", 3, s1)
      /\ c[2] = Unadvised(Check("structure", 2, s2))
      /\ c[3] = Check("structure", 2, s3)
      /\ c[4] = Unadvised(Check("structure", 1, s4))
      /\ c[5] = Unadvised(Check("structure", 1, s5))
      /\ c[6] = Unadvised(Check("structure", 1, s6))
  BY <1>2
<1>6. /\ c[1].status = s1 /\ c[1].max = 3 /\ c[1].halves = h[1]
      /\ c[2].status = s2 /\ c[2].max = 2 /\ c[2].halves = h[2]
      /\ c[3].status = s3 /\ c[3].max = 2 /\ c[3].halves = h[3]
      /\ c[4].status = s4 /\ c[4].max = 1 /\ c[4].halves = h[4]
      /\ c[5].status = s5 /\ c[5].max = 1 /\ c[5].halves = h[5]
      /\ c[6].status = s6 /\ c[6].max = 1 /\ c[6].halves = h[6]
  BY <1>3, <1>5 DEF Check, Unadvised, Worth
<1>7. 3 \in Nat /\ 2 \in Nat /\ 1 \in Nat
  OBVIOUS
<1>8. /\ h[1] \in 0 .. 6
      /\ h[2] \in 0 .. 4
      /\ h[3] \in 0 .. 4
      /\ h[4] \in 0 .. 2
      /\ h[5] \in 0 .. 2
      /\ h[6] \in 0 .. 2
  <2>1. Halves(3, s1) \in 0 .. 2 * 3
    BY <1>1, <1>7, HalvesAre
  <2>2. Halves(2, s2) \in 0 .. 2 * 2
    BY <1>1, <1>7, HalvesAre
  <2>3. Halves(2, s3) \in 0 .. 2 * 2
    BY <1>1, <1>7, HalvesAre
  <2>4. Halves(1, s4) \in 0 .. 2 * 1
    BY <1>1, <1>7, HalvesAre
  <2>5. Halves(1, s5) \in 0 .. 2 * 1
    BY <1>1, <1>7, HalvesAre
  <2>6. Halves(1, s6) \in 0 .. 2 * 1
    BY <1>1, <1>7, HalvesAre
  <2> QED BY <1>3, <2>1, <2>2, <2>3, <2>4, <2>5, <2>6
<1>9. \A n \in 1 .. 6 : n = 1 \/ n = 2 \/ n = 3 \/ n = 4 \/ n = 5 \/ n = 6
  OBVIOUS
<1>10. "na" \notin Status
  BY AllGraded
<1>11. SumOf(c, "halves") = h[1] + h[2] + h[3] + h[4] + h[5] + h[6]
  <2>1. ASSUME NEW n \in 1 .. Len(c)
        PROVE  h[n] \in Int /\ h[n] = IF c[n].status = "na" THEN 0 ELSE c[n]["halves"]
    BY <1>1, <1>4, <1>6, <1>8, <1>9, <1>10
  <2>2. Len(c) \in 4 .. 6
    BY <1>4
  <2> QED BY <1>4, <2>1, <2>2, SumOfFew, Zenon
<1>12. SumOf(c, "max") = 10
  <2> DEFINE x == <<3, 2, 2, 1, 1, 1>>
  <2>1. x[1] = 3 /\ x[2] = 2 /\ x[3] = 2 /\ x[4] = 1 /\ x[5] = 1 /\ x[6] = 1
    OBVIOUS
  <2> HIDE DEF x
  <2>2. ASSUME NEW n \in 1 .. Len(c)
        PROVE  x[n] \in Int /\ x[n] = IF c[n].status = "na" THEN 0 ELSE c[n]["max"]
    BY <1>1, <1>4, <1>6, <1>9, <1>10, <2>1
  <2>3. Len(c) \in 4 .. 6
    BY <1>4
  <2>4. SumOf(c, "max") = x[1] + x[2] + x[3] + x[4] + x[5] + x[6]
    BY <1>4, <2>2, <2>3, SumOfFew, Zenon
  <2> QED BY <2>1, <2>4
<1>13. Weighted(c, 10) = (20 * (h[1] + h[2] + h[3] + h[4] + h[5] + h[6])) \div 10
  BY <1>8, <1>11, <1>12 DEF Weighted
<1> QED BY <1>8, <1>13

\* What the hygiene checks take away, in quarters: at most 15 points, so that the cap of the
\* penalties never bites.
LEMMA PenaltiesAre ==
  ASSUME NEW p
  PROVE  LET t == HygieneTaken(p)
         IN  /\ t[1] \in {0, 4, 10} /\ t[2] \in {0, 6, 12} /\ t[3] \in {0, 4} /\ t[4] \in {0, 4}
             /\ Penalties(p) = 2 * (t[1] + t[2] + t[3] + t[4])
<1> DEFINE c == Hygiene(p)
           t == HygieneTaken(p)
           s1 == Ranked(p, "repeats")
           s2 == Ranked(p, "hidden")
           s3 == Grade(p.words >= 150, FALSE)
           s4 == Grade(p.matches, FALSE)
           total == t[1] + t[2] + t[3] + t[4]
<1> SUFFICES /\ t[1] \in {0, 4, 10} /\ t[2] \in {0, 6, 12} /\ t[3] \in {0, 4} /\ t[4] \in {0, 4}
             /\ Penalties(p) = 2 * total
  OBVIOUS
<1>1. s1 \in Status /\ s2 \in Status /\ s3 \in Status /\ s4 \in Status
  BY AllGraded
<1>2. c = <<Penalty(5, s1, 2), Penalty(6, s2, 3), Penalty(2, s3, 0), Unadvised(Penalty(2, s4, 0))>>
  BY DEF Hygiene
<1>3. /\ t[1] = Taken(s1, 10, 4) /\ t[2] = Taken(s2, 12, 6)
      /\ t[3] = Taken(s3, 4, 0) /\ t[4] = Taken(s4, 4, 0)
  BY DEF HygieneTaken
<1> HIDE DEF c, t, s1, s2, s3, s4
<1>4. Len(c) = 4
  BY <1>2
<1>5. /\ c[1] = Penalty(5, s1, 2) /\ c[2] = Penalty(6, s2, 3)
      /\ c[3] = Penalty(2, s3, 0) /\ c[4] = Unadvised(Penalty(2, s4, 0))
  BY <1>2
<1>6. /\ t[1] \in {0, 4, 10} /\ t[2] \in {0, 6, 12} /\ t[3] \in {0, 4} /\ t[4] \in {0, 4}
  BY <1>3 DEF Taken
<1>7. c[1].status = s1 /\ c[1].halves = -t[1]
  BY <1>1, <1>3, <1>5 DEF Penalty, Worth, Check, Taken, Status
<1>8. c[2].status = s2 /\ c[2].halves = -t[2]
  BY <1>1, <1>3, <1>5 DEF Penalty, Worth, Check, Taken, Status
<1>9. c[3].status = s3 /\ c[3].halves = -t[3]
  BY <1>1, <1>3, <1>5 DEF Penalty, Worth, Check, Taken, Status
<1>10. c[4].status = s4 /\ c[4].halves = -t[4]
  BY <1>1, <1>3, <1>5 DEF Penalty, Unadvised, Worth, Check, Taken, Status
<1>11. SumOf(c, "halves") = -total
  <2> DEFINE x == <<-t[1], -t[2], -t[3], -t[4]>>
  <2>1. x[1] = -t[1] /\ x[2] = -t[2] /\ x[3] = -t[3] /\ x[4] = -t[4]
    OBVIOUS
  <2> HIDE DEF x
  <2>2. \A n \in 1 .. 4 : n = 1 \/ n = 2 \/ n = 3 \/ n = 4
    OBVIOUS
  <2>3. "na" \notin Status
    BY AllGraded
  <2>4. ASSUME NEW n \in 1 .. Len(c)
        PROVE  x[n] \in Int /\ x[n] = IF c[n].status = "na" THEN 0 ELSE c[n]["halves"]
    BY <1>1, <1>4, <1>6, <1>7, <1>8, <1>9, <1>10, <2>1, <2>2, <2>3
  <2>5. Len(c) \in 4 .. 6
    BY <1>4
  <2>6. SumOf(c, "halves") = x[1] + x[2] + x[3] + x[4]
    BY <1>4, <2>4, <2>5, SumOfFew
  <2> QED BY <1>6, <2>1, <2>6
<1>12. total \in 0 .. 30
  BY <1>6
<1> HIDE DEF total
<1>13. Penalties(p) = Min({2 * total, 60})
  BY <1>11, <1>12 DEF Penalties, MaxPenalty, c
<1>14. Min({2 * total, 60}) = 2 * total
  BY <1>12, MinOfTwo
<1> QED BY <1>6, <1>13, <1>14

\* A grade whose conditions hold of more is no lower.
LEMMA GradeGrows ==
  ASSUME NEW a \in BOOLEAN, NEW b \in BOOLEAN, NEW c \in BOOLEAN, NEW d \in BOOLEAN, a => b, c => d
  PROVE  Up(Grade(a, c), Grade(b, d))
  BY DEF Grade, Up

\* A check of a better page is worth no less, and takes no more.
LEMMA HalvesOfBetter ==
  ASSUME NEW p, Page(p), NEW q, Page(q), Better(p, q)
  PROVE  /\ p.blocked # Unknown => RetrievabilityHalves(p)[1] <= RetrievabilityHalves(q)[1]
         /\ \A n \in 2 .. 4 : RetrievabilityHalves(p)[n] <= RetrievabilityHalves(q)[n]
         /\ \A n \in 1 .. 6 : EvidenceHalves(p)[n] <= EvidenceHalves(q)[n]
         /\ \A n \in 1 .. 5 : ProvenanceHalves(p)[n] <= ProvenanceHalves(q)[n]
         /\ \A n \in 1 .. 6 : StructureHalves(p)[n] <= StructureHalves(q)[n]
         /\ \A n \in 1 .. 4 : HygieneTaken(q)[n] <= HygieneTaken(p)[n]
<1> DEFINE Grows(max, s, t) == Halves(max, s) <= Halves(max, t)
<1>1. ASSUME NEW f \in Fact
      PROVE  Up(Ranked(p, f), Ranked(q, f)) /\ Ranked(p, f) \in Status /\ Ranked(q, f) \in Status
  BY RankedGrows DEF Better
<1>2. ASSUME NEW f \in Fact, NEW max \in Nat PROVE Grows(max, Ranked(p, f), Ranked(q, f))
  BY <1>1, HalvesGrow
<1>3. ASSUME NEW a \in BOOLEAN, NEW b \in BOOLEAN, NEW c \in BOOLEAN, NEW d \in BOOLEAN,
             a => b, c => d, NEW max \in Nat
      PROVE  Grows(max, Grade(a, c), Grade(b, d))
  BY <1>3, GradeGrows, AllGraded, HalvesGrow
<1>4. ASSUME NEW a, NEW b, a \in BOOLEAN, b \in BOOLEAN, a => b, NEW max \in Nat
      PROVE  Grows(max, Grade(a, TRUE), Grade(b, TRUE))
  BY <1>3, <1>4
<1> HIDE DEF Grows
<1>5. p.blocked # Unknown => RetrievabilityHalves(p)[1] <= RetrievabilityHalves(q)[1]
  <2>1. Grows(10, Ranked(p, "blocked"), Ranked(q, "blocked"))
    BY <1>2 DEF Fact
  <2>2. p.blocked = Unknown <=> q.blocked = Unknown
    BY FactsGrow
  <2> QED BY <2>1, <2>2 DEF Grows, RetrievabilityHalves
<1>6. \A n \in 2 .. 4 : RetrievabilityHalves(p)[n] <= RetrievabilityHalves(q)[n]
  <2>1. Grows(8, Ranked(p, "index"), Ranked(q, "index"))
    BY <1>2 DEF Fact
  <2>2. Grows(6, Ranked(p, "canonical"), Ranked(q, "canonical"))
    BY <1>2 DEF Fact
  <2>3. Grows(6, Grade(p.words >= 150 /\ p.headings > 0, p.words >= 50),
                 Grade(q.words >= 150 /\ q.headings > 0, q.words >= 50))
    <3> DEFINE a == p.words >= 150 /\ p.headings > 0
               b == q.words >= 150 /\ q.headings > 0
               c == p.words >= 50
               d == q.words >= 50
    <3>1. (a => b) /\ (c => d)
      BY FactsGrow
    <3>2. a \in BOOLEAN /\ b \in BOOLEAN /\ c \in BOOLEAN /\ d \in BOOLEAN
      OBVIOUS
    <3> HIDE DEF a, b, c, d
    <3>3. Grows(6, Grade(a, c), Grade(b, d))
      BY <1>3, <3>1, <3>2
    <3> QED BY <3>3 DEF a, b, c, d
  <2>4. \A n \in 2 .. 4 : n = 2 \/ n = 3 \/ n = 4
    OBVIOUS
  <2> QED BY <2>1, <2>2, <2>3, <2>4 DEF Grows, RetrievabilityHalves
<1>7. \A n \in 1 .. 6 : EvidenceHalves(p)[n] <= EvidenceHalves(q)[n]
  <2>1. EvidenceHalves(p)[1] <= EvidenceHalves(q)[1]
    BY FactsGrow DEF EvidenceHalves
  <2>2. Grows(6, Ranked(p, "domains"), Ranked(q, "domains"))
    BY <1>2 DEF Fact
  <2>3. Grows(4, Grade(p.quotes > 0, TRUE), Grade(q.quotes > 0, TRUE))
    <3>1. p.quotes > 0 => q.quotes > 0
      BY FactsGrow
    <3>2. (p.quotes > 0) \in BOOLEAN /\ (q.quotes > 0) \in BOOLEAN
      OBVIOUS
    <3> QED BY <1>4, <3>1, <3>2
  <2>4. Grows(4, Grade(p.tables > 0, TRUE), Grade(q.tables > 0, TRUE))
    <3>1. p.tables > 0 => q.tables > 0
      BY FactsGrow
    <3>2. (p.tables > 0) \in BOOLEAN /\ (q.tables > 0) \in BOOLEAN
      OBVIOUS
    <3> QED BY <1>4, <3>1, <3>2
  <2>5. Grows(2, Grade(p.entity, TRUE), Grade(q.entity, TRUE))
    <3>1. p["entity"] \in BOOLEAN /\ q["entity"] \in BOOLEAN /\ (p["entity"] => q["entity"])
      BY FactsGrow
    <3> QED BY <1>4, <3>1
  <2>6. Grows(2, Grade(p.summary, TRUE), Grade(q.summary, TRUE))
    <3>1. p["summary"] \in BOOLEAN /\ q["summary"] \in BOOLEAN /\ (p["summary"] => q["summary"])
      BY FactsGrow
    <3> QED BY <1>4, <3>1
  <2>7. \A n \in 1 .. 6 : n = 1 \/ n = 2 \/ n = 3 \/ n = 4 \/ n = 5 \/ n = 6
    OBVIOUS
  <2>8. /\ EvidenceHalves(p)[2] <= EvidenceHalves(q)[2] /\ EvidenceHalves(p)[3] <= EvidenceHalves(q)[3]
        /\ EvidenceHalves(p)[4] <= EvidenceHalves(q)[4] /\ EvidenceHalves(p)[5] <= EvidenceHalves(q)[5]
        /\ EvidenceHalves(p)[6] <= EvidenceHalves(q)[6]
    BY <2>2, <2>3, <2>4, <2>5, <2>6 DEF Grows, EvidenceHalves
  <2> QED BY <2>1, <2>7, <2>8
<1>8. \A n \in 1 .. 5 : ProvenanceHalves(p)[n] <= ProvenanceHalves(q)[n]
  <2>1. Grows(6, Ranked(p, "dates"), Ranked(q, "dates"))
    BY <1>2 DEF Fact
  <2>2. ProvenanceHalves(p)[2] <= ProvenanceHalves(q)[2]
    <3>1. Grows(4, Ranked(p, "age"), Ranked(q, "age"))
      BY <1>2 DEF Fact
    <3>2. q.dates = "none" => p.dates = "none"
      BY FactsGrow
    <3>3. Halves(4, Ranked(p, "age")) \in 0 .. 2 * 4 /\ Halves(4, Ranked(q, "age")) \in 0 .. 2 * 4
      BY AllGraded, HalvesAre
    <3> QED BY <3>1, <3>2, <3>3 DEF Grows, ProvenanceHalves
  <2>3. Grows(4, Grade(p.author, TRUE), Grade(q.author, TRUE))
    <3>1. p["author"] \in BOOLEAN /\ q["author"] \in BOOLEAN /\ (p["author"] => q["author"])
      BY FactsGrow
    <3> QED BY <1>4, <3>1
  <2>4. Grows(4, Ranked(p, "org"), Ranked(q, "org"))
    BY <1>2 DEF Fact
  <2>5. Grows(2, Grade(p.parses /\ p.matches, TRUE), Grade(q.parses /\ q.matches, TRUE))
    <3>1. (p["parses"] => q["parses"]) /\ (p["matches"] => q["matches"])
      BY FactsGrow
    <3>2. (p.parses /\ p.matches) \in BOOLEAN /\ (q.parses /\ q.matches) \in BOOLEAN
      OBVIOUS
    <3>3. p.parses /\ p.matches => q.parses /\ q.matches
      BY <3>1
    <3> QED BY <1>4, <3>2, <3>3
  <2>6. \A n \in 1 .. 5 : n = 1 \/ n = 2 \/ n = 3 \/ n = 4 \/ n = 5
    OBVIOUS
  <2>7. /\ ProvenanceHalves(p)[1] <= ProvenanceHalves(q)[1] /\ ProvenanceHalves(p)[3] <= ProvenanceHalves(q)[3]
        /\ ProvenanceHalves(p)[4] <= ProvenanceHalves(q)[4] /\ ProvenanceHalves(p)[5] <= ProvenanceHalves(q)[5]
    BY <2>1, <2>3, <2>4, <2>5 DEF Grows, ProvenanceHalves
  <2> QED BY <2>2, <2>6, <2>7
<1>9. \A n \in 1 .. 6 : StructureHalves(p)[n] <= StructureHalves(q)[n]
  <2>1. Grows(3, Ranked(p, "h1"), Ranked(q, "h1"))
    BY <1>2 DEF Fact
  <2>2. Grows(2, Grade(p.headings > 1 /\ ~p.skips, TRUE), Grade(q.headings > 1 /\ ~q.skips, TRUE))
    <3>1. p.headings > 1 /\ ~p.skips => q.headings > 1 /\ ~q.skips
      BY FactsGrow
    <3>2. (p.headings > 1 /\ ~p.skips) \in BOOLEAN /\ (q.headings > 1 /\ ~q.skips) \in BOOLEAN
      OBVIOUS
    <3> QED BY <1>4, <3>1, <3>2
  <2>3. Grows(2, Ranked(p, "landmarks"), Ranked(q, "landmarks"))
    BY <1>2 DEF Fact
  <2>4. Grows(1, Ranked(p, "alt"), Ranked(q, "alt"))
    BY <1>2 DEF Fact
  <2>5. Grows(1, Grade(p.lang, TRUE), Grade(q.lang, TRUE))
    <3>1. p["lang"] \in BOOLEAN /\ q["lang"] \in BOOLEAN /\ (p["lang"] => q["lang"])
      BY FactsGrow
    <3> QED BY <1>4, <3>1
  <2>6. Grows(1, Grade(p.hreflang, TRUE), Grade(q.hreflang, TRUE))
    <3>1. p["hreflang"] \in BOOLEAN /\ q["hreflang"] \in BOOLEAN /\ (p["hreflang"] => q["hreflang"])
      BY FactsGrow
    <3> QED BY <1>4, <3>1
  <2>7. \A n \in 1 .. 6 : n = 1 \/ n = 2 \/ n = 3 \/ n = 4 \/ n = 5 \/ n = 6
    OBVIOUS
  <2>8. /\ StructureHalves(p)[1] <= StructureHalves(q)[1] /\ StructureHalves(p)[2] <= StructureHalves(q)[2]
        /\ StructureHalves(p)[3] <= StructureHalves(q)[3] /\ StructureHalves(p)[4] <= StructureHalves(q)[4]
        /\ StructureHalves(p)[5] <= StructureHalves(q)[5] /\ StructureHalves(p)[6] <= StructureHalves(q)[6]
    BY <2>1, <2>2, <2>3, <2>4, <2>5, <2>6 DEF Grows, StructureHalves
  <2> QED BY <2>7, <2>8
<1>10. \A n \in 1 .. 4 : HygieneTaken(q)[n] <= HygieneTaken(p)[n]
  <2>1. ASSUME NEW s \in Status, NEW t \in Status, Up(s, t),
               NEW onFail \in Nat, NEW onWarn \in Nat, onWarn <= onFail
        PROVE  Taken(t, onFail, onWarn) <= Taken(s, onFail, onWarn)
    BY <2>1 DEF Taken, Up, Status
  <2>2. Taken(Ranked(q, "repeats"), 10, 4) <= Taken(Ranked(p, "repeats"), 10, 4)
    <3>1. "repeats" \in Fact
      BY DEF Fact
    <3> QED BY <1>1, <2>1, <3>1
  <2>3. Taken(Ranked(q, "hidden"), 12, 6) <= Taken(Ranked(p, "hidden"), 12, 6)
    <3>1. "hidden" \in Fact
      BY DEF Fact
    <3> QED BY <1>1, <2>1, <3>1
  <2>4. Taken(Grade(q.words >= 150, FALSE), 4, 0) <= Taken(Grade(p.words >= 150, FALSE), 4, 0)
    BY FactsGrow DEF Taken, Grade
  <2>5. Taken(Grade(q.matches, FALSE), 4, 0) <= Taken(Grade(p.matches, FALSE), 4, 0)
    <3>1. p["matches"] => q["matches"]
      BY FactsGrow
    <3> QED BY <3>1 DEF Taken, Grade
  <2>6. \A n \in 1 .. 4 : n = 1 \/ n = 2 \/ n = 3 \/ n = 4
    OBVIOUS
  <2>7. /\ HygieneTaken(q)[1] <= HygieneTaken(p)[1] /\ HygieneTaken(q)[2] <= HygieneTaken(p)[2]
        /\ HygieneTaken(q)[3] <= HygieneTaken(p)[3] /\ HygieneTaken(q)[4] <= HygieneTaken(p)[4]
    BY <2>2, <2>3, <2>4, <2>5 DEF HygieneTaken
  <2> QED BY <2>6, <2>7
<1> QED BY <1>5, <1>6, <1>7, <1>8, <1>9, <1>10

\* Of the 85 points of the checks, in quarters, a page has between none and all.
LEMMA DeterministicIs ==
  ASSUME NEW p
  PROVE  Deterministic(p) \in 0 .. 340
<1> DEFINE r == RetrievabilityHalves(p)
           e == EvidenceHalves(p)
           o == ProvenanceHalves(p)
           s == StructureHalves(p)
           W == Weighted(Retrievability(p), 30)
           X == Weighted(Evidence(p), 25)
           Y == Weighted(Provenance(p), 20)
           Z == Weighted(Structure(p), 10)
<1>1. W \in 0 .. 120
  <2>1. /\ r[1] \in 0 .. 20 /\ r[2] \in 0 .. 16 /\ r[3] \in 0 .. 12 /\ r[4] \in 0 .. 12
        /\ W = 3 * (r[2] + r[3] + r[4]) \/ W = 2 * (r[1] + r[2] + r[3] + r[4])
    BY RetrievabilityIs
  <2> HIDE DEF r, W
  <2> QED BY <2>1
<1>2. X \in 0 .. 100
  <2>1. /\ e[1] \in 0 .. 14 /\ e[2] \in 0 .. 12 /\ e[3] \in 0 .. 8
        /\ e[4] \in 0 .. 8 /\ e[5] \in 0 .. 4 /\ e[6] \in 0 .. 4
        /\ X = 2 * (e[1] + e[2] + e[3] + e[4] + e[5] + e[6])
    BY EvidenceIs
  <2> HIDE DEF e, X
  <2> QED BY <2>1
<1>3. Y \in 0 .. 80
  <2>1. /\ o[1] \in 0 .. 12 /\ o[2] \in 0 .. 8 /\ o[3] \in 0 .. 8 /\ o[4] \in 0 .. 8 /\ o[5] \in 0 .. 4
        /\ Y = 2 * (o[1] + o[2] + o[3] + o[4] + o[5])
    BY ProvenanceIs
  <2> HIDE DEF o, Y
  <2> QED BY <2>1
<1>4. Z \in 0 .. 40
  <2>1. /\ s[1] \in 0 .. 6 /\ s[2] \in 0 .. 4 /\ s[3] \in 0 .. 4
        /\ s[4] \in 0 .. 2 /\ s[5] \in 0 .. 2 /\ s[6] \in 0 .. 2
        /\ Z = 2 * (s[1] + s[2] + s[3] + s[4] + s[5] + s[6])
    BY StructureIs
  <2> HIDE DEF s, Z
  <2> QED BY <2>1
<1>5. Deterministic(p) = W + X + Y + Z
  BY DEF Deterministic
<1> HIDE DEF W, X, Y, Z
<1> QED BY <1>1, <1>2, <1>3, <1>4, <1>5

\* Six halves of points that are no less add up to no less.
LEMMA SumsGrow ==
  ASSUME NEW a1 \in Int, NEW a2 \in Int, NEW a3 \in Int, NEW a4 \in Int, NEW a5 \in Int, NEW a6 \in Int,
         NEW b1 \in Int, NEW b2 \in Int, NEW b3 \in Int, NEW b4 \in Int, NEW b5 \in Int, NEW b6 \in Int,
         a1 <= b1, a2 <= b2, a3 <= b3, a4 <= b4, a5 <= b5, a6 <= b6
  PROVE  /\ 2 * (a1 + a2 + a3 + a4 + a5 + a6) <= 2 * (b1 + b2 + b3 + b4 + b5 + b6)
         /\ 2 * (a1 + a2 + a3 + a4 + a5) <= 2 * (b1 + b2 + b3 + b4 + b5)
  OBVIOUS

\* A better page has no fewer points and no higher penalties.
LEMMA DeterministicGrows ==
  ASSUME NEW p, Page(p), NEW q, Page(q), Better(p, q)
  PROVE  Deterministic(p) <= Deterministic(q) /\ Penalties(q) <= Penalties(p)
<1> DEFINE W(x) == Weighted(Retrievability(x), 30)
           X(x) == Weighted(Evidence(x), 25)
           Y(x) == Weighted(Provenance(x), 20)
           Z(x) == Weighted(Structure(x), 10)
<1>1. W(p) <= W(q) /\ W(p) \in Int /\ W(q) \in Int
  <2> DEFINE a == RetrievabilityHalves(p)
             b == RetrievabilityHalves(q)
             u == p.blocked = Unknown
             A == W(p)
             B == W(q)
  <2>1. /\ a[1] \in 0 .. 20 /\ a[2] \in 0 .. 16 /\ a[3] \in 0 .. 12 /\ a[4] \in 0 .. 12
        /\ u => A = 3 * (a[2] + a[3] + a[4])
        /\ ~u => A = 2 * (a[1] + a[2] + a[3] + a[4])
    BY RetrievabilityIs
  <2>2. u <=> q.blocked = Unknown
    BY FactsGrow
  <2>3. /\ b[1] \in 0 .. 20 /\ b[2] \in 0 .. 16 /\ b[3] \in 0 .. 12 /\ b[4] \in 0 .. 12
        /\ u => B = 3 * (b[2] + b[3] + b[4])
        /\ ~u => B = 2 * (b[1] + b[2] + b[3] + b[4])
    BY <2>2, RetrievabilityIs
  <2>4. (~u => a[1] <= b[1]) /\ \A n \in 2 .. 4 : a[n] <= b[n]
    BY HalvesOfBetter
  <2>5. a[2] <= b[2] /\ a[3] <= b[3] /\ a[4] <= b[4]
    BY <2>4
  <2> HIDE DEF a, b, u, A, B
  <2>6. /\ a[1] \in Int /\ a[2] \in Int /\ a[3] \in Int /\ a[4] \in Int
        /\ b[1] \in Int /\ b[2] \in Int /\ b[3] \in Int /\ b[4] \in Int
    BY <2>1, <2>3
  <2>7. /\ 3 * (a[2] + a[3] + a[4]) <= 3 * (b[2] + b[3] + b[4])
        /\ 3 * (a[2] + a[3] + a[4]) \in Int /\ 3 * (b[2] + b[3] + b[4]) \in Int
    BY <2>5, <2>6
  <2>8. /\ ~u => 2 * (a[1] + a[2] + a[3] + a[4]) <= 2 * (b[1] + b[2] + b[3] + b[4])
        /\ 2 * (a[1] + a[2] + a[3] + a[4]) \in Int /\ 2 * (b[1] + b[2] + b[3] + b[4]) \in Int
    <3>1. ~u => a[1] <= b[1]
      BY <2>4
    <3> QED BY <2>5, <2>6, <3>1
  <2>9. A <= B /\ A \in Int /\ B \in Int
    <3>1. CASE u
      BY <2>1, <2>3, <2>7, <3>1
    <3>2. CASE ~u
      BY <2>1, <2>3, <2>8, <3>2
    <3> QED BY <3>1, <3>2
  <2> QED BY <2>9 DEF A, B
<1>2. X(p) <= X(q) /\ X(p) \in Int /\ X(q) \in Int
  <2> DEFINE a == EvidenceHalves(p)
             b == EvidenceHalves(q)
             A == X(p)
             B == X(q)
  <2>1. /\ a[1] \in 0 .. 14 /\ a[2] \in 0 .. 12 /\ a[3] \in 0 .. 8
        /\ a[4] \in 0 .. 8 /\ a[5] \in 0 .. 4 /\ a[6] \in 0 .. 4
        /\ A = 2 * (a[1] + a[2] + a[3] + a[4] + a[5] + a[6])
    BY EvidenceIs
  <2>2. /\ b[1] \in 0 .. 14 /\ b[2] \in 0 .. 12 /\ b[3] \in 0 .. 8
        /\ b[4] \in 0 .. 8 /\ b[5] \in 0 .. 4 /\ b[6] \in 0 .. 4
        /\ B = 2 * (b[1] + b[2] + b[3] + b[4] + b[5] + b[6])
    BY EvidenceIs
  <2>3. \A n \in 1 .. 6 : a[n] <= b[n]
    BY HalvesOfBetter
  <2> HIDE DEF a, b, A, B
  <2>4. a[1] <= b[1] /\ a[2] <= b[2] /\ a[3] <= b[3] /\ a[4] <= b[4] /\ a[5] <= b[5] /\ a[6] <= b[6]
    BY <2>3
  <2>5. a[1] \in Int /\ a[2] \in Int /\ a[3] \in Int /\ a[4] \in Int /\ a[5] \in Int /\ a[6] \in Int
    BY <2>1
  <2>6. b[1] \in Int /\ b[2] \in Int /\ b[3] \in Int /\ b[4] \in Int /\ b[5] \in Int /\ b[6] \in Int
    BY <2>2
  <2>7. 2 * (a[1] + a[2] + a[3] + a[4] + a[5] + a[6]) <= 2 * (b[1] + b[2] + b[3] + b[4] + b[5] + b[6])
    BY <2>4, <2>5, <2>6, SumsGrow
  <2>8. 2 * (a[1] + a[2] + a[3] + a[4] + a[5] + a[6]) \in Int /\ 2 * (b[1] + b[2] + b[3] + b[4] + b[5] + b[6]) \in Int
    BY <2>5, <2>6
  <2>9. A <= B /\ A \in Int /\ B \in Int
    BY <2>1, <2>2, <2>7, <2>8
  <2> QED BY <2>9 DEF A, B
<1>3. Y(p) <= Y(q) /\ Y(p) \in Int /\ Y(q) \in Int
  <2> DEFINE a == ProvenanceHalves(p)
             b == ProvenanceHalves(q)
             A == Y(p)
             B == Y(q)
  <2>1. /\ a[1] \in 0 .. 12 /\ a[2] \in 0 .. 8 /\ a[3] \in 0 .. 8 /\ a[4] \in 0 .. 8 /\ a[5] \in 0 .. 4
        /\ A = 2 * (a[1] + a[2] + a[3] + a[4] + a[5])
    BY ProvenanceIs
  <2>2. /\ b[1] \in 0 .. 12 /\ b[2] \in 0 .. 8 /\ b[3] \in 0 .. 8 /\ b[4] \in 0 .. 8 /\ b[5] \in 0 .. 4
        /\ B = 2 * (b[1] + b[2] + b[3] + b[4] + b[5])
    BY ProvenanceIs
  <2>3. \A n \in 1 .. 5 : a[n] <= b[n]
    BY HalvesOfBetter
  <2> HIDE DEF a, b, A, B
  <2>4. a[1] <= b[1] /\ a[2] <= b[2] /\ a[3] <= b[3] /\ a[4] <= b[4] /\ a[5] <= b[5]
    BY <2>3
  <2>5. a[1] \in Int /\ a[2] \in Int /\ a[3] \in Int /\ a[4] \in Int /\ a[5] \in Int
    BY <2>1
  <2>6. b[1] \in Int /\ b[2] \in Int /\ b[3] \in Int /\ b[4] \in Int /\ b[5] \in Int
    BY <2>2
  <2>7. 2 * (a[1] + a[2] + a[3] + a[4] + a[5]) <= 2 * (b[1] + b[2] + b[3] + b[4] + b[5])
    BY <2>4, <2>5, <2>6, SumsGrow
  <2>8. 2 * (a[1] + a[2] + a[3] + a[4] + a[5]) \in Int /\ 2 * (b[1] + b[2] + b[3] + b[4] + b[5]) \in Int
    BY <2>5, <2>6
  <2>9. A <= B /\ A \in Int /\ B \in Int
    BY <2>1, <2>2, <2>7, <2>8
  <2> QED BY <2>9 DEF A, B
<1>4. Z(p) <= Z(q) /\ Z(p) \in Int /\ Z(q) \in Int
  <2> DEFINE a == StructureHalves(p)
             b == StructureHalves(q)
             A == Z(p)
             B == Z(q)
  <2>1. /\ a[1] \in 0 .. 6 /\ a[2] \in 0 .. 4 /\ a[3] \in 0 .. 4
        /\ a[4] \in 0 .. 2 /\ a[5] \in 0 .. 2 /\ a[6] \in 0 .. 2
        /\ A = 2 * (a[1] + a[2] + a[3] + a[4] + a[5] + a[6])
    BY StructureIs
  <2>2. /\ b[1] \in 0 .. 6 /\ b[2] \in 0 .. 4 /\ b[3] \in 0 .. 4
        /\ b[4] \in 0 .. 2 /\ b[5] \in 0 .. 2 /\ b[6] \in 0 .. 2
        /\ B = 2 * (b[1] + b[2] + b[3] + b[4] + b[5] + b[6])
    BY StructureIs
  <2>3. \A n \in 1 .. 6 : a[n] <= b[n]
    BY HalvesOfBetter
  <2> HIDE DEF a, b, A, B
  <2>4. a[1] <= b[1] /\ a[2] <= b[2] /\ a[3] <= b[3] /\ a[4] <= b[4] /\ a[5] <= b[5] /\ a[6] <= b[6]
    BY <2>3
  <2>5. a[1] \in Int /\ a[2] \in Int /\ a[3] \in Int /\ a[4] \in Int /\ a[5] \in Int /\ a[6] \in Int
    BY <2>1
  <2>6. b[1] \in Int /\ b[2] \in Int /\ b[3] \in Int /\ b[4] \in Int /\ b[5] \in Int /\ b[6] \in Int
    BY <2>2
  <2>7. 2 * (a[1] + a[2] + a[3] + a[4] + a[5] + a[6]) <= 2 * (b[1] + b[2] + b[3] + b[4] + b[5] + b[6])
    BY <2>4, <2>5, <2>6, SumsGrow
  <2>8. 2 * (a[1] + a[2] + a[3] + a[4] + a[5] + a[6]) \in Int /\ 2 * (b[1] + b[2] + b[3] + b[4] + b[5] + b[6]) \in Int
    BY <2>5, <2>6
  <2>9. A <= B /\ A \in Int /\ B \in Int
    BY <2>1, <2>2, <2>7, <2>8
  <2> QED BY <2>9 DEF A, B
<1>5. Penalties(q) <= Penalties(p)
  <2> DEFINE a == HygieneTaken(p)
             b == HygieneTaken(q)
             A == Penalties(p)
             B == Penalties(q)
  <2>1. /\ a[1] \in {0, 4, 10} /\ a[2] \in {0, 6, 12} /\ a[3] \in {0, 4} /\ a[4] \in {0, 4}
        /\ A = 2 * (a[1] + a[2] + a[3] + a[4])
    BY PenaltiesAre
  <2>2. /\ b[1] \in {0, 4, 10} /\ b[2] \in {0, 6, 12} /\ b[3] \in {0, 4} /\ b[4] \in {0, 4}
        /\ B = 2 * (b[1] + b[2] + b[3] + b[4])
    BY PenaltiesAre
  <2>3. \A n \in 1 .. 4 : b[n] <= a[n]
    BY HalvesOfBetter
  <2> HIDE DEF a, b, A, B
  <2>4. b[1] <= a[1] /\ b[2] <= a[2] /\ b[3] <= a[3] /\ b[4] <= a[4]
    BY <2>3
  <2>5. B <= A
    BY <2>1, <2>2, <2>4
  <2> QED BY <2>5 DEF A, B
<1>6. Deterministic(p) = W(p) + X(p) + Y(p) + Z(p) /\ Deterministic(q) = W(q) + X(q) + Y(q) + Z(q)
  BY DEF Deterministic
<1> HIDE DEF W, X, Y, Z
<1>7. Deterministic(p) <= Deterministic(q)
  BY <1>1, <1>2, <1>3, <1>4, <1>6
<1> QED BY <1>5, <1>7

\* The penalties are a whole number of points, and at most 15.
LEMMA PenaltiesWhole ==
  ASSUME NEW p
  PROVE  Penalties(p) \in 0 .. 60 /\ Penalties(p) \div 4 \in 0 .. 15
<1> DEFINE t == HygieneTaken(p)
           P == Penalties(p)
<1>1. /\ t[1] \in {0, 4, 10} /\ t[2] \in {0, 6, 12} /\ t[3] \in {0, 4} /\ t[4] \in {0, 4}
      /\ P = 2 * (t[1] + t[2] + t[3] + t[4])
  BY PenaltiesAre
<1> HIDE DEF t, P
<1>2. P \in 0 .. 60
  BY <1>1
<1>3. P \div 4 \in 0 .. 15
  BY <1>2
<1> QED BY <1>2, <1>3 DEF P

\* Both scores are between 0 and 100.
LEMMA ScoresBounded ==
  ASSUME NEW p, Page(p)
  PROVE  Score(p) \in 0 .. 100 /\ DeterministicScore(p) \in 0 .. 100
<1> DEFINE D == Deterministic(p)
           P == Penalties(p)
           Q == p.quality
<1>1. D \in 0 .. 340 /\ P \in 0 .. 60 /\ P \div 4 \in 0 .. 15
  BY DeterministicIs, PenaltiesWhole
<1>2. Q \in -1 .. 60 /\ (Q # Unjudged => Q \in 0 .. 60)
  <2>1. \A f \in Fact : NoWorse(p, p, f)
    BY DEF NoWorse
  <2>2. Better(p, p)
    BY <2>1 DEF Better
  <2> QED BY <2>2, FactsGrow DEF Unjudged
<1>3. DeterministicScore(p) = AtLeast0((200 * D + 340) \div 680 - P \div 4)
  BY DEF DeterministicScore
<1>4. /\ p.blocked = "all" => Score(p) = 0
      /\ p.blocked # "all" /\ Q = Unjudged => Score(p) = DeterministicScore(p)
      /\ p.blocked # "all" /\ Q # Unjudged => Score(p) = AtLeast0((D + Q - P + 2) \div 4)
  BY DEF Score
<1> HIDE DEF D, P, Q
<1>5. (200 * D + 340) \div 680 \in 0 .. 100
  BY <1>1
<1>6. DeterministicScore(p) \in 0 .. 100
  BY <1>1, <1>3, <1>5 DEF AtLeast0
<1>7. Q # Unjudged => AtLeast0((D + Q - P + 2) \div 4) \in 0 .. 100
  BY <1>1, <1>2 DEF AtLeast0
<1> QED BY <1>4, <1>6, <1>7

\* The scores of a better page are no lower.
LEMMA ScoresGrow ==
  ASSUME NEW p, Page(p), NEW q, Page(q), Better(p, q)
  PROVE  Score(p) <= Score(q) /\ DeterministicScore(p) <= DeterministicScore(q)
<1> DEFINE D == Deterministic(p)
           E == Deterministic(q)
           P == Penalties(p)
           R == Penalties(q)
           Q == p.quality
           S == q.quality
<1>1. D \in 0 .. 340 /\ E \in 0 .. 340 /\ P \in 0 .. 60 /\ R \in 0 .. 60
  BY DeterministicIs, PenaltiesWhole
<1>2. D <= E /\ R <= P
  BY DeterministicGrows
<1>3. Q \in -1 .. 60 /\ S \in -1 .. 60 /\ Q <= S /\ (Q = Unjudged <=> S = Unjudged)
  BY FactsGrow
<1>4. q.blocked = "all" => p.blocked = "all"
  BY FactsGrow
<1>5. /\ DeterministicScore(p) = AtLeast0((200 * D + 340) \div 680 - P \div 4)
      /\ DeterministicScore(q) = AtLeast0((200 * E + 340) \div 680 - R \div 4)
  BY DEF DeterministicScore
<1>6. /\ p.blocked = "all" => Score(p) = 0
      /\ p.blocked # "all" /\ Q = Unjudged => Score(p) = DeterministicScore(p)
      /\ p.blocked # "all" /\ Q # Unjudged => Score(p) = AtLeast0((D + Q - P + 2) \div 4)
  BY DEF Score
<1>7. /\ q.blocked = "all" => Score(q) = 0
      /\ q.blocked # "all" /\ S = Unjudged => Score(q) = DeterministicScore(q)
      /\ q.blocked # "all" /\ S # Unjudged => Score(q) = AtLeast0((E + S - R + 2) \div 4)
  BY DEF Score
<1>8. Score(q) \in 0 .. 100
  BY ScoresBounded
<1> HIDE DEF D, E, P, Q, R, S
<1>9. (200 * D + 340) \div 680 <= (200 * E + 340) \div 680 /\ R \div 4 <= P \div 4
  BY <1>1, <1>2
<1>10. DeterministicScore(p) <= DeterministicScore(q)
  <2>1. /\ (200 * D + 340) \div 680 \in Int /\ (200 * E + 340) \div 680 \in Int
        /\ R \div 4 \in Int /\ P \div 4 \in Int
    BY <1>1
  <2> QED BY <1>5, <1>9, <2>1 DEF AtLeast0
<1>11. Q # Unjudged => AtLeast0((D + Q - P + 2) \div 4) <= AtLeast0((E + S - R + 2) \div 4)
  <2> DEFINE x == D + Q - P + 2
             y == E + S - R + 2
  <2>1. x \in Int /\ y \in Int /\ x <= y
    BY <1>1, <1>2, <1>3
  <2> HIDE DEF x, y
  <2>2. x \div 4 <= y \div 4 /\ x \div 4 \in Int /\ y \div 4 \in Int
    BY <2>1
  <2> QED BY <2>2 DEF AtLeast0, x, y
<1>12. CASE p.blocked = "all"
  BY <1>6, <1>8, <1>10, <1>12
<1>13. CASE p.blocked # "all" /\ Q = Unjudged
  BY <1>3, <1>4, <1>6, <1>7, <1>10, <1>13
<1>14. CASE p.blocked # "all" /\ Q # Unjudged
  BY <1>3, <1>4, <1>6, <1>7, <1>10, <1>11, <1>14
<1> QED BY <1>12, <1>13, <1>14

\* What a sequence of checks holds.
Held(s) == {s[n] : n \in DOMAIN s}

\* Two sequences in one hold what both do.
LEMMA HeldByBoth ==
  ASSUME NEW S, NEW a \in Seq(S), NEW b \in Seq(S)
  PROVE  a \o b \in Seq(S) /\ Held(a \o b) = Held(a) \cup Held(b)
<1> DEFINE c == a \o b
           m == Len(a)
           n == Len(b)
<1>1. /\ c \in Seq(S) /\ Len(c) = m + n /\ DOMAIN c = 1 .. m + n
      /\ DOMAIN a = 1 .. m /\ DOMAIN b = 1 .. n /\ m \in Nat /\ n \in Nat
      /\ \A i \in 1 .. m + n : c[i] = IF i <= m THEN a[i] ELSE b[i - m]
  OBVIOUS
<1> HIDE DEF c, m, n
<1>2. ASSUME NEW x \in Held(c) PROVE x \in Held(a) \cup Held(b)
  <2>1. PICK i \in 1 .. m + n : x = c[i]
    BY <1>1, <1>2 DEF Held
  <2>2. CASE i <= m
    <3>1. i \in DOMAIN a /\ x = a[i]
      BY <1>1, <2>1, <2>2
    <3> QED BY <3>1 DEF Held
  <2>3. CASE ~(i <= m)
    <3>1. i - m \in DOMAIN b /\ x = b[i - m]
      BY <1>1, <2>1, <2>3
    <3> QED BY <3>1 DEF Held
  <2> QED BY <2>2, <2>3
<1>3. ASSUME NEW x \in Held(a) PROVE x \in Held(c)
  <2>1. PICK i \in 1 .. m : x = a[i]
    BY <1>1, <1>3 DEF Held
  <2>2. i \in DOMAIN c /\ x = c[i]
    BY <1>1, <2>1
  <2> QED BY <2>2 DEF Held
<1>4. ASSUME NEW x \in Held(b) PROVE x \in Held(c)
  <2>1. PICK i \in 1 .. n : x = b[i]
    BY <1>1, <1>4 DEF Held
  <2>2. m + i \in 1 .. m + n /\ ~(m + i <= m) /\ (m + i) - m = i
    BY <1>1
  <2>3. m + i \in DOMAIN c /\ x = c[m + i]
    BY <1>1, <2>1, <2>2
  <2> QED BY <2>3 DEF Held
<1>5. Held(c) = Held(a) \cup Held(b)
  BY <1>2, <1>3, <1>4
<1> QED BY <1>1, <1>5 DEF c

\* A sequence of four, five or six checks holds them.
LEMMA FewHeld ==
  /\ \A a, b, c, d : /\ Held(<<a, b, c, d>>) = {a, b, c, d}
                     /\ <<a, b, c, d>> \in Seq({a, b, c, d})
  /\ \A a, b, c, d, e : /\ Held(<<a, b, c, d, e>>) = {a, b, c, d, e}
                        /\ <<a, b, c, d, e>> \in Seq({a, b, c, d, e})
  /\ \A a, b, c, d, e, f : /\ Held(<<a, b, c, d, e, f>>) = {a, b, c, d, e, f}
                           /\ <<a, b, c, d, e, f>> \in Seq({a, b, c, d, e, f})
<1>1. ASSUME NEW a, NEW b, NEW c, NEW d
      PROVE  Held(<<a, b, c, d>>) = {a, b, c, d} /\ <<a, b, c, d>> \in Seq({a, b, c, d})
  <2> DEFINE s == <<a, b, c, d>>
  <2>1. DOMAIN s = 1 .. 4 /\ s[1] = a /\ s[2] = b /\ s[3] = c /\ s[4] = d
    OBVIOUS
  <2>2. s \in Seq({a, b, c, d})
    OBVIOUS
  <2> HIDE DEF s
  <2>3. \A n \in 1 .. 4 : n = 1 \/ n = 2 \/ n = 3 \/ n = 4
    OBVIOUS
  <2>4. 1 \in DOMAIN s /\ 2 \in DOMAIN s /\ 3 \in DOMAIN s /\ 4 \in DOMAIN s
    BY <2>1
  <2>5. \A x \in Held(s) : x \in {a, b, c, d}
    BY <2>1, <2>3 DEF Held
  <2>6. a \in Held(s) /\ b \in Held(s) /\ c \in Held(s) /\ d \in Held(s)
    BY <2>1, <2>4 DEF Held
  <2>7. Held(s) = {a, b, c, d}
    BY <2>5, <2>6
  <2> QED BY <2>2, <2>7 DEF s
<1>2. ASSUME NEW a, NEW b, NEW c, NEW d, NEW e
      PROVE  Held(<<a, b, c, d, e>>) = {a, b, c, d, e} /\ <<a, b, c, d, e>> \in Seq({a, b, c, d, e})
  <2> DEFINE s == <<a, b, c, d, e>>
  <2>1. DOMAIN s = 1 .. 5 /\ s[1] = a /\ s[2] = b /\ s[3] = c /\ s[4] = d /\ s[5] = e
    OBVIOUS
  <2>2. s \in Seq({a, b, c, d, e})
    OBVIOUS
  <2> HIDE DEF s
  <2>3. \A n \in 1 .. 5 : n = 1 \/ n = 2 \/ n = 3 \/ n = 4 \/ n = 5
    OBVIOUS
  <2>4. 1 \in DOMAIN s /\ 2 \in DOMAIN s /\ 3 \in DOMAIN s /\ 4 \in DOMAIN s /\ 5 \in DOMAIN s
    BY <2>1
  <2>5. \A x \in Held(s) : x \in {a, b, c, d, e}
    BY <2>1, <2>3 DEF Held
  <2>6. a \in Held(s) /\ b \in Held(s) /\ c \in Held(s) /\ d \in Held(s) /\ e \in Held(s)
    BY <2>1, <2>4 DEF Held
  <2>7. Held(s) = {a, b, c, d, e}
    BY <2>5, <2>6
  <2> QED BY <2>2, <2>7 DEF s
<1>3. ASSUME NEW a, NEW b, NEW c, NEW d, NEW e, NEW f
      PROVE  Held(<<a, b, c, d, e, f>>) = {a, b, c, d, e, f} /\ <<a, b, c, d, e, f>> \in Seq({a, b, c, d, e, f})
  <2> DEFINE s == <<a, b, c, d, e, f>>
  <2>1. DOMAIN s = 1 .. 6 /\ s[1] = a /\ s[2] = b /\ s[3] = c /\ s[4] = d /\ s[5] = e /\ s[6] = f
    OBVIOUS
  <2>2. s \in Seq({a, b, c, d, e, f})
    OBVIOUS
  <2> HIDE DEF s
  <2>3. \A n \in 1 .. 6 : n = 1 \/ n = 2 \/ n = 3 \/ n = 4 \/ n = 5 \/ n = 6
    OBVIOUS
  <2>4. 1 \in DOMAIN s /\ 2 \in DOMAIN s /\ 3 \in DOMAIN s /\ 4 \in DOMAIN s /\ 5 \in DOMAIN s /\ 6 \in DOMAIN s
    BY <2>1
  <2>5. \A x \in Held(s) : x \in {a, b, c, d, e, f}
    BY <2>1, <2>3 DEF Held
  <2>6. a \in Held(s) /\ b \in Held(s) /\ c \in Held(s) /\ d \in Held(s) /\ e \in Held(s) /\ f \in Held(s)
    BY <2>1, <2>4 DEF Held
  <2>7. Held(s) = {a, b, c, d, e, f}
    BY <2>5, <2>6
  <2> QED BY <2>2, <2>7 DEF s
<1> QED BY <1>1, <1>2, <1>3

\* The checks of a page are those of the five dimensions.
LEMMA ChecksHeld ==
  ASSUME NEW p
  PROVE  Held(Checks(p)) = Held(Retrievability(p)) \cup Held(Evidence(p)) \cup
                           Held(Provenance(p)) \cup Held(Structure(p)) \cup Held(Hygiene(p))
<1> DEFINE A == Retrievability(p)
           B == Evidence(p)
           C == Provenance(p)
           D == Structure(p)
           E == Hygiene(p)
           S == Held(A) \cup Held(B) \cup Held(C) \cup Held(D) \cup Held(E)
           R == Held(Checks(p))
<1>1. A \in Seq(Held(A))
  <2>1. PICK a, b, c, d : A = <<a, b, c, d>>
    BY Zenon DEF Retrievability
  <2> HIDE DEF A
  <2> QED BY <2>1, FewHeld
<1>2. B \in Seq(Held(B))
  <2>1. PICK a, b, c, d, e, f : B = <<a, b, c, d, e, f>>
    BY Zenon DEF Evidence
  <2> HIDE DEF B
  <2> QED BY <2>1, FewHeld
<1>3. C \in Seq(Held(C))
  <2>1. PICK a, b, c, d, e : C = <<a, b, c, d, e>>
    BY Zenon DEF Provenance
  <2> HIDE DEF C
  <2> QED BY <2>1, FewHeld
<1>4. D \in Seq(Held(D))
  <2>1. PICK a, b, c, d, e, f : D = <<a, b, c, d, e, f>>
    BY Zenon DEF Structure
  <2> HIDE DEF D
  <2> QED BY <2>1, FewHeld
<1>5. E \in Seq(Held(E))
  <2>1. PICK a, b, c, d : E = <<a, b, c, d>>
    BY Zenon DEF Hygiene
  <2> HIDE DEF E
  <2> QED BY <2>1, FewHeld
<1> DEFINE AB == A \o B
           ABC == AB \o C
           ABCD == ABC \o D
           ABCDE == ABCD \o E
<1>6. R = Held(ABCDE)
  BY DEF Checks
<1> SUFFICES R = S
  OBVIOUS
<1> HIDE DEF A, B, C, D, E, R
<1>7. A \in Seq(S) /\ B \in Seq(S) /\ C \in Seq(S) /\ D \in Seq(S) /\ E \in Seq(S)
  BY <1>1, <1>2, <1>3, <1>4, <1>5
<1> HIDE DEF S
<1>8. AB \in Seq(S) /\ Held(AB) = Held(A) \cup Held(B)
  BY <1>7, HeldByBoth
<1> HIDE DEF AB
<1>9. ABC \in Seq(S) /\ Held(ABC) = Held(AB) \cup Held(C)
  BY <1>7, <1>8, HeldByBoth
<1> HIDE DEF ABC
<1>10. ABCD \in Seq(S) /\ Held(ABCD) = Held(ABC) \cup Held(D)
  BY <1>7, <1>9, HeldByBoth
<1> HIDE DEF ABCD
<1>11. Held(ABCDE) = Held(ABCD) \cup Held(E)
  BY <1>7, <1>10, HeldByBoth
<1> HIDE DEF ABCDE
<1> QED BY <1>6, <1>8, <1>9, <1>10, <1>11 DEF S

\* A check that comes with a recommendation has points at stake.
AdviceHonest(c) == c.advised => AtStake(c) > 0

\* Outside hygiene a check has.
LEMMA PlainHonest ==
  ASSUME NEW d, d # "hygiene", NEW max \in Nat, max > 0, NEW s
  PROVE  AdviceHonest(Check(d, max, s)) /\ AdviceHonest(Unadvised(Check(d, max, s)))
<1>1. CASE s = "warn"
  BY <1>1 DEF AdviceHonest, AtStake, Check, Unadvised, Halves
<1>2. CASE s = "fail"
  BY <1>2 DEF AdviceHonest, AtStake, Check, Unadvised, Halves
<1>3. CASE s \notin {"warn", "fail"}
  BY <1>3 DEF AdviceHonest, Check, Unadvised
<1> QED BY <1>1, <1>2, <1>3

\* So has every one of a page.
LEMMA AdviceAtStake ==
  ASSUME NEW p, Page(p), NEW c \in Held(Checks(p))
  PROVE  AdviceHonest(c)
<1>0. p.words \in Nat /\ p.stats \in {"none", "bare", "attributed"}
  <2>1. Better(p, p)
    BY DEF Better, NoWorse
  <2> QED BY <2>1, FactsGrow
<1>1. ASSUME c \in Held(Retrievability(p)) PROVE AdviceHonest(c)
  <2> DEFINE s1 == IF p.blocked = Unknown THEN "na" ELSE Ranked(p, "blocked")
             s2 == Ranked(p, "index")
             s3 == Ranked(p, "canonical")
             s4 == Grade(p.words >= 150 /\ p.headings > 0, p.words >= 50)
             e1 == Check("retrievability", 10, s1)
             e2 == Check("retrievability", 8, s2)
             e3 == Check("retrievability", 6, s3)
             e4 == Advised(Check("retrievability", 6, s4), p.words < 150)
  <2>0. Retrievability(p) = <<e1, e2, e3, e4>>
    BY DEF Retrievability
  <2> HIDE DEF s1, s2, s3, s4
  <2>1. ASSUME NEW max \in Nat, max > 0, NEW s
        PROVE  AdviceHonest(Check("retrievability", max, s)) /\ AdviceHonest(Unadvised(Check("retrievability", max, s)))
    BY <2>1, PlainHonest
  <2>2. AdviceHonest(e1)
    BY <2>1
  <2>3. AdviceHonest(e2)
    BY <2>1
  <2>4. AdviceHonest(e3)
    BY <2>1
  <2>5. AdviceHonest(e4)
    <3>1. p.words < 150 => s4 \in {"warn", "fail"}
      BY <1>0 DEF Grade, s4
    <3>2. /\ e4.advised = (p.words < 150) /\ e4.dimension = "retrievability"
          /\ e4.max = 6 /\ e4.halves = Halves(6, s4)
      BY DEF Advised, Check
    <3>3. s4 \in {"warn", "fail"} => Halves(6, s4) \in 0 .. 6
      BY DEF Halves
    <3> HIDE DEF e4
    <3>4. e4.advised => s4 \in {"warn", "fail"}
      BY <3>1, <3>2
    <3>5. AtStake(e4) = 12 - Halves(6, s4)
      BY <3>2 DEF AtStake
    <3> QED BY <3>3, <3>4, <3>5 DEF AdviceHonest
  <2> HIDE DEF e1, e2, e3, e4
  <2>6. c \in {e1, e2, e3, e4}
    BY <1>1, <2>0, FewHeld
  <2> QED BY <2>2, <2>3, <2>4, <2>5, <2>6
<1>2. ASSUME c \in Held(Evidence(p)) PROVE AdviceHonest(c)
  <2> DEFINE stats == CASE p.stats = "none" -> 4 [] p.stats = "bare" -> 7 [] OTHER -> 14
             s1 == Grade(Best(p, "stats"), TRUE)
             s2 == Ranked(p, "domains")
             s3 == Grade(p.quotes > 0, TRUE)
             s4 == Grade(p.tables > 0, TRUE)
             s5 == Grade(p.entity, TRUE)
             s6 == Grade(p.summary, TRUE)
             e1 == Worth(Check("evidence", 7, s1), stats)
             e2 == Check("evidence", 6, s2)
             e3 == Check("evidence", 4, s3)
             e4 == Check("evidence", 4, s4)
             e5 == Check("evidence", 2, s5)
             e6 == Check("evidence", 2, s6)
  <2>0. Evidence(p) = <<e1, e2, e3, e4, e5, e6>>
    BY DEF Evidence
  <2> HIDE DEF s1, s2, s3, s4, s5, s6, stats
  <2>1. ASSUME NEW max \in Nat, max > 0, NEW s
        PROVE  AdviceHonest(Check("evidence", max, s)) /\ AdviceHonest(Unadvised(Check("evidence", max, s)))
    BY <2>1, PlainHonest
  <2>2. AdviceHonest(e1)
    <3>1. s1 \in {"warn", "fail"} => p.stats # "attributed"
      <4>1. Values["stats"] = <<"none", "bare", "attributed">>
        BY DEF Values
      <4>2. p["stats"] = "attributed" => Best(p, "stats")
        BY <4>1 DEF Best
      <4> QED BY <4>2 DEF Grade, s1
    <3>2. p.stats # "attributed" => stats \in 0 .. 7
      BY <1>0 DEF stats
    <3>3. /\ e1.advised = (s1 \in {"warn", "fail"}) /\ e1.dimension = "evidence"
          /\ e1.max = 7 /\ e1.halves = stats
      BY DEF Worth, Check
    <3> HIDE DEF e1
    <3>4. e1.advised => stats \in 0 .. 7
      BY <3>1, <3>2, <3>3
    <3>5. AtStake(e1) = 14 - stats
      BY <3>3 DEF AtStake
    <3> QED BY <3>4, <3>5 DEF AdviceHonest
  <2>3. AdviceHonest(e2)
    BY <2>1
  <2>4. AdviceHonest(e3)
    BY <2>1
  <2>5. AdviceHonest(e4)
    BY <2>1
  <2>6. AdviceHonest(e5)
    BY <2>1
  <2>7. AdviceHonest(e6)
    BY <2>1
  <2> HIDE DEF e1, e2, e3, e4, e5, e6
  <2>8. c \in {e1, e2, e3, e4, e5, e6}
    BY <1>2, <2>0, FewHeld
  <2> QED BY <2>2, <2>3, <2>4, <2>5, <2>6, <2>7, <2>8
<1>3. ASSUME c \in Held(Provenance(p)) PROVE AdviceHonest(c)
  <2> DEFINE s1 == Ranked(p, "dates")
             s2 == IF p.dates = "none" THEN "fail" ELSE Ranked(p, "age")
             s3 == Grade(p.author, TRUE)
             s4 == Ranked(p, "org")
             s5 == Grade(p.parses /\ p.matches, TRUE)
             e1 == Check("provenance", 6, s1)
             e2 == Check("provenance", 4, s2)
             e3 == Check("provenance", 4, s3)
             e4 == Check("provenance", 4, s4)
             e5 == Check("provenance", 2, s5)
  <2>0. Provenance(p) = <<e1, e2, e3, e4, e5>>
    BY DEF Provenance
  <2> HIDE DEF s1, s2, s3, s4, s5
  <2>1. ASSUME NEW max \in Nat, max > 0, NEW s
        PROVE  AdviceHonest(Check("provenance", max, s)) /\ AdviceHonest(Unadvised(Check("provenance", max, s)))
    BY <2>1, PlainHonest
  <2>2. AdviceHonest(e1)
    BY <2>1
  <2>3. AdviceHonest(e2)
    BY <2>1
  <2>4. AdviceHonest(e3)
    BY <2>1
  <2>5. AdviceHonest(e4)
    BY <2>1
  <2>6. AdviceHonest(e5)
    BY <2>1
  <2> HIDE DEF e1, e2, e3, e4, e5
  <2>7. c \in {e1, e2, e3, e4, e5}
    BY <1>3, <2>0, FewHeld
  <2> QED BY <2>2, <2>3, <2>4, <2>5, <2>6, <2>7
<1>4. ASSUME c \in Held(Structure(p)) PROVE AdviceHonest(c)
  <2> DEFINE s1 == Ranked(p, "h1")
             s2 == Grade(p.headings > 1 /\ ~p.skips, TRUE)
             s3 == Ranked(p, "landmarks")
             s4 == Ranked(p, "alt")
             s5 == Grade(p.lang, TRUE)
             s6 == Grade(p.hreflang, TRUE)
             e1 == Check("structure", 3, s1)
             e2 == Unadvised(Check("structure", 2, s2))
             e3 == Check("structure", 2, s3)
             e4 == Unadvised(Check("structure", 1, s4))
             e5 == Unadvised(Check("structure", 1, s5))
             e6 == Unadvised(Check("structure", 1, s6))
  <2>0. Structure(p) = <<e1, e2, e3, e4, e5, e6>>
    BY DEF Structure
  <2> HIDE DEF s1, s2, s3, s4, s5, s6
  <2>1. ASSUME NEW max \in Nat, max > 0, NEW s
        PROVE  AdviceHonest(Check("structure", max, s)) /\ AdviceHonest(Unadvised(Check("structure", max, s)))
    BY <2>1, PlainHonest
  <2>2. AdviceHonest(e1)
    BY <2>1
  <2>3. AdviceHonest(e2)
    BY <2>1
  <2>4. AdviceHonest(e3)
    BY <2>1
  <2>5. AdviceHonest(e4)
    BY <2>1
  <2>6. AdviceHonest(e5)
    BY <2>1
  <2>7. AdviceHonest(e6)
    BY <2>1
  <2> HIDE DEF e1, e2, e3, e4, e5, e6
  <2>8. c \in {e1, e2, e3, e4, e5, e6}
    BY <1>4, <2>0, FewHeld
  <2> QED BY <2>2, <2>3, <2>4, <2>5, <2>6, <2>7, <2>8
<1>5. ASSUME c \in Held(Hygiene(p)) PROVE AdviceHonest(c)
  <2> DEFINE s1 == Ranked(p, "repeats")
             s2 == Ranked(p, "hidden")
             s3 == Grade(p.words >= 150, FALSE)
             s4 == Grade(p.matches, FALSE)
             e1 == Penalty(5, s1, 2)
             e2 == Penalty(6, s2, 3)
             e3 == Penalty(2, s3, 0)
             e4 == Unadvised(Penalty(2, s4, 0))
  <2>0. Hygiene(p) = <<e1, e2, e3, e4>>
    BY DEF Hygiene
  <2> HIDE DEF s1, s2, s3, s4
  <2>1. ASSUME NEW s, NEW max \in Nat, max > 0, NEW onWarn \in Nat, s = "warn" => onWarn > 0
        PROVE  AdviceHonest(Penalty(max, s, onWarn))
    <3>1. /\ Penalty(max, s, onWarn).dimension = "hygiene"
          /\ Penalty(max, s, onWarn).advised = (s \in {"warn", "fail"})
          /\ s = "warn" => Penalty(max, s, onWarn).halves = -2 * onWarn
          /\ s = "fail" => Penalty(max, s, onWarn).halves = -2 * max
      BY DEF Penalty, Worth, Check
    <3>2. CASE s = "warn"
      BY <2>1, <3>1, <3>2 DEF AdviceHonest, AtStake
    <3>3. CASE s = "fail"
      BY <2>1, <3>1, <3>3 DEF AdviceHonest, AtStake
    <3>4. CASE s \notin {"warn", "fail"}
      BY <3>1, <3>4 DEF AdviceHonest
    <3> QED BY <3>2, <3>3, <3>4
  <2>2. AdviceHonest(e1)
    BY <2>1
  <2>3. AdviceHonest(e2)
    BY <2>1
  <2>4. AdviceHonest(e3)
    <3>1. s3 # "warn"
      BY DEF Grade, s3
    <3> QED BY <2>1, <3>1
  <2>5. AdviceHonest(e4)
    <3>1. e4.advised = FALSE
      BY DEF Unadvised, Penalty, Worth, Check
    <3> HIDE DEF e4
    <3> QED BY <3>1 DEF AdviceHonest
  <2> HIDE DEF e1, e2, e3, e4
  <2>6. c \in {e1, e2, e3, e4}
    BY <1>5, <2>0, FewHeld
  <2> QED BY <2>2, <2>3, <2>4, <2>5, <2>6
<1> QED BY <1>1, <1>2, <1>3, <1>4, <1>5, ChecksHeld

\* A check without a recommendation has passed.
LEMMA PassedIs ==
  ASSUME NEW d, NEW max \in Nat, NEW s \in Status, ~Check(d, max, s).advised
  PROVE  s = "pass" /\ Halves(max, s) = 2 * max
  BY DEF Check, Status, Halves

\* Such a page lacks less than five points.
LEMMA NothingAdvised ==
  ASSUME NEW p, Page(p), Possible(p), \A c \in Held(Checks(p)) : ~c.advised
  PROVE  DeterministicScore(p) > 95
<1> DEFINE r == RetrievabilityHalves(p)
           e == EvidenceHalves(p)
           o == ProvenanceHalves(p)
           st == StructureHalves(p)
           t == HygieneTaken(p)
<1>0. /\ p.words \in Nat /\ p.headings \in Nat /\ p.stats \in {"none", "bare", "attributed"}
      /\ p["matches"] \in BOOLEAN /\ p["parses"] \in BOOLEAN
  <2>1. Better(p, p)
    BY DEF Better, NoWorse
  <2> QED BY <2>1, FactsGrow
<1>1. p.headings > 0 /\ st[1] = 6 /\ st[2] >= 2 /\ st[3] = 4 /\ st[5] >= 1 /\ st[6] >= 1
  <2> DEFINE s1 == Ranked(p, "h1")
             s2 == Grade(p.headings > 1 /\ ~p.skips, TRUE)
             s3 == Ranked(p, "landmarks")
             s4 == Ranked(p, "alt")
             s5 == Grade(p.lang, TRUE)
             s6 == Grade(p.hreflang, TRUE)
             e1 == Check("structure", 3, s1)
             e2 == Unadvised(Check("structure", 2, s2))
             e3 == Check("structure", 2, s3)
             e4 == Unadvised(Check("structure", 1, s4))
             e5 == Unadvised(Check("structure", 1, s5))
             e6 == Unadvised(Check("structure", 1, s6))
  <2>1. Structure(p) = <<e1, e2, e3, e4, e5, e6>>
    BY DEF Structure
  <2>2. /\ st[1] = Halves(3, s1)
        /\ st[2] = Halves(2, s2)
        /\ st[3] = Halves(2, s3)
        /\ st[4] = Halves(1, s4)
        /\ st[5] = Halves(1, s5)
        /\ st[6] = Halves(1, s6)
    BY DEF StructureHalves
  <2>3. s1 \in Status /\ s2 \in Status /\ s3 \in Status /\ s4 \in Status /\ s5 \in Status /\ s6 \in Status
    BY AllGraded
  <2> HIDE DEF st, s1, s2, s3, s4, s5, s6
  <2> DEFINE Here == {e1, e2, e3, e4, e5, e6}
  <2> HIDE DEF e1, e2, e3, e4, e5, e6
  <2>4. Held(Structure(p)) = Here
    BY <2>1, FewHeld
  <2>5. \A c \in Here : ~c.advised
    BY <2>4, ChecksHeld
  <2>6. ~e1.advised /\ ~e2.advised /\ ~e3.advised /\ ~e4.advised /\ ~e5.advised /\ ~e6.advised
    BY <2>5
  <2>7. s1 = "pass" /\ st[1] = 6
    BY <2>2, <2>3, <2>6, PassedIs DEF e1
  <2>8. st[2] >= 2
    BY <2>2 DEF s2, Grade, Halves
  <2>9. s3 = "pass" /\ st[3] = 4
    BY <2>2, <2>3, <2>6, PassedIs DEF e3
  <2>10. st[5] >= 1
    BY <2>2 DEF s5, Grade, Halves
  <2>11. st[6] >= 1
    BY <2>2 DEF s6, Grade, Halves
  <2>12. p.headings > 0
    <3>1. Best(p, "h1")
      BY <2>7 DEF s1, Ranked, Grade
    <3>2. Values["h1"] = <<"none", "several", "one">>
      BY DEF Values
    <3>3. p["h1"] = "one"
      BY <3>1, <3>2 DEF Best
    <3> QED BY <3>3 DEF Possible
  <2> QED BY <2>7, <2>8, <2>9, <2>10, <2>11, <2>12
<1>2. /\ p.words >= 150
      /\ p.blocked # Unknown => r[1] = 20
      /\ r[2] = 16 /\ r[3] = 12 /\ r[4] = 12
  <2> DEFINE s1 == IF p.blocked = Unknown THEN "na" ELSE Ranked(p, "blocked")
             s2 == Ranked(p, "index")
             s3 == Ranked(p, "canonical")
             s4 == Grade(p.words >= 150 /\ p.headings > 0, p.words >= 50)
             e1 == Check("retrievability", 10, s1)
             e2 == Check("retrievability", 8, s2)
             e3 == Check("retrievability", 6, s3)
             e4 == Advised(Check("retrievability", 6, s4), p.words < 150)
  <2>1. Retrievability(p) = <<e1, e2, e3, e4>>
    BY DEF Retrievability
  <2>2. /\ p.blocked # Unknown => r[1] = Halves(10, s1)
        /\ r[2] = Halves(8, s2)
        /\ r[3] = Halves(6, s3)
        /\ r[4] = Halves(6, s4)
    BY DEF RetrievabilityHalves
  <2>3. (p.blocked # Unknown => s1 \in Status) /\ s2 \in Status /\ s3 \in Status /\ s4 \in Status
    BY AllGraded
  <2> HIDE DEF r, s1, s2, s3, s4
  <2> DEFINE Here == {e1, e2, e3, e4}
  <2> HIDE DEF e1, e2, e3, e4
  <2>4. Held(Retrievability(p)) = Here
    BY <2>1, FewHeld
  <2>5. \A c \in Here : ~c.advised
    BY <2>4, ChecksHeld
  <2>6. ~e1.advised /\ ~e2.advised /\ ~e3.advised /\ ~e4.advised
    BY <2>5
  <2>7. p.blocked # Unknown => r[1] = 20
    <3>1. p.blocked # Unknown => s1 = "pass"
      BY <2>3, <2>6 DEF e1, Check, Status
    <3> QED BY <2>2, <3>1 DEF Halves
  <2>8. r[2] = 16
    BY <2>2, <2>3, <2>6, PassedIs DEF e2
  <2>9. r[3] = 12
    BY <2>2, <2>3, <2>6, PassedIs DEF e3
  <2>10. p.words >= 150
    <3>1. e4.advised = (p.words < 150)
      BY DEF e4, Advised, Check
    <3>2. ~(p.words < 150)
      BY <2>6, <3>1, Zenon
    <3> QED BY <1>0, <3>2
  <2>11. r[4] = 12
    <3>1. s4 = "pass"
      BY <1>0, <1>1, <2>10 DEF s4, Grade
    <3> QED BY <2>2, <3>1 DEF Halves
  <2> QED BY <2>7, <2>8, <2>9, <2>10, <2>11
<1>3. e[1] = 14 /\ e[2] = 12 /\ e[3] = 8 /\ e[4] = 8 /\ e[5] = 4 /\ e[6] = 4
  <2> DEFINE stats == CASE p.stats = "none" -> 4 [] p.stats = "bare" -> 7 [] OTHER -> 14
             s1 == Grade(Best(p, "stats"), TRUE)
             s2 == Ranked(p, "domains")
             s3 == Grade(p.quotes > 0, TRUE)
             s4 == Grade(p.tables > 0, TRUE)
             s5 == Grade(p.entity, TRUE)
             s6 == Grade(p.summary, TRUE)
             e1 == Worth(Check("evidence", 7, s1), stats)
             e2 == Check("evidence", 6, s2)
             e3 == Check("evidence", 4, s3)
             e4 == Check("evidence", 4, s4)
             e5 == Check("evidence", 2, s5)
             e6 == Check("evidence", 2, s6)
  <2>1. Evidence(p) = <<e1, e2, e3, e4, e5, e6>>
    BY DEF Evidence
  <2>2. /\ e[1] = stats
        /\ e[2] = Halves(6, s2)
        /\ e[3] = Halves(4, s3)
        /\ e[4] = Halves(4, s4)
        /\ e[5] = Halves(2, s5)
        /\ e[6] = Halves(2, s6)
    BY DEF EvidenceHalves
  <2>3. s1 \in Status /\ s2 \in Status /\ s3 \in Status /\ s4 \in Status /\ s5 \in Status /\ s6 \in Status
    BY AllGraded
  <2> HIDE DEF e, s1, s2, s3, s4, s5, s6, stats
  <2> DEFINE Here == {e1, e2, e3, e4, e5, e6}
  <2> HIDE DEF e1, e2, e3, e4, e5, e6
  <2>4. Held(Evidence(p)) = Here
    BY <2>1, FewHeld
  <2>5. \A c \in Here : ~c.advised
    BY <2>4, ChecksHeld
  <2>6. ~e1.advised /\ ~e2.advised /\ ~e3.advised /\ ~e4.advised /\ ~e5.advised /\ ~e6.advised
    BY <2>5
  <2>7. e[1] = 14
    <3>1. s1 = "pass"
      BY <2>3, <2>6 DEF e1, Worth, Check, Status
    <3>2. Values["stats"] = <<"none", "bare", "attributed">>
      BY DEF Values
    <3>3. Best(p, "stats")
      BY <3>1 DEF s1, Grade
    <3>4. p["stats"] = "attributed"
      BY <3>2, <3>3 DEF Best
    <3> QED BY <2>2, <3>4 DEF stats
  <2>8. e[2] = 12
    BY <2>2, <2>3, <2>6, PassedIs DEF e2
  <2>9. e[3] = 8
    BY <2>2, <2>3, <2>6, PassedIs DEF e3
  <2>10. e[4] = 8
    BY <2>2, <2>3, <2>6, PassedIs DEF e4
  <2>11. e[5] = 4
    BY <2>2, <2>3, <2>6, PassedIs DEF e5
  <2>12. e[6] = 4
    BY <2>2, <2>3, <2>6, PassedIs DEF e6
  <2> QED BY <2>7, <2>8, <2>9, <2>10, <2>11, <2>12
<1>4. p.matches /\ o[1] = 12 /\ o[2] = 8 /\ o[3] = 8 /\ o[4] = 8 /\ o[5] = 4
  <2> DEFINE s1 == Ranked(p, "dates")
             s2 == IF p.dates = "none" THEN "fail" ELSE Ranked(p, "age")
             s3 == Grade(p.author, TRUE)
             s4 == Ranked(p, "org")
             s5 == Grade(p.parses /\ p.matches, TRUE)
             e1 == Check("provenance", 6, s1)
             e2 == Check("provenance", 4, s2)
             e3 == Check("provenance", 4, s3)
             e4 == Check("provenance", 4, s4)
             e5 == Check("provenance", 2, s5)
  <2>1. Provenance(p) = <<e1, e2, e3, e4, e5>>
    BY DEF Provenance
  <2>2. /\ o[1] = Halves(6, s1)
        /\ p.dates # "none" => o[2] = Halves(4, s2)
        /\ o[3] = Halves(4, s3)
        /\ o[4] = Halves(4, s4)
        /\ o[5] = Halves(2, s5)
    BY DEF ProvenanceHalves
  <2>3. s1 \in Status /\ s2 \in Status /\ s3 \in Status /\ s4 \in Status /\ s5 \in Status
    <3>1. "fail" \in Status
      BY DEF Status
    <3> QED BY <3>1, AllGraded
  <2> HIDE DEF o, s1, s2, s3, s4, s5
  <2> DEFINE Here == {e1, e2, e3, e4, e5}
  <2> HIDE DEF e1, e2, e3, e4, e5
  <2>4. Held(Provenance(p)) = Here
    BY <2>1, FewHeld
  <2>5. \A c \in Here : ~c.advised
    BY <2>4, ChecksHeld
  <2>6. ~e1.advised /\ ~e2.advised /\ ~e3.advised /\ ~e4.advised /\ ~e5.advised
    BY <2>5
  <2>7. o[1] = 12
    BY <2>2, <2>3, <2>6, PassedIs DEF e1
  <2>8. o[2] = 8
    <3>1. s2 = "pass" /\ Halves(4, s2) = 8
      BY <2>3, <2>6, PassedIs DEF e2
    <3>2. p.dates # "none"
      BY <3>1 DEF s2
    <3> QED BY <2>2, <3>1, <3>2
  <2>9. o[3] = 8
    BY <2>2, <2>3, <2>6, PassedIs DEF e3
  <2>10. o[4] = 8
    BY <2>2, <2>3, <2>6, PassedIs DEF e4
  <2>11. s5 = "pass" /\ o[5] = 4
    BY <2>2, <2>3, <2>6, PassedIs DEF e5
  <2>12. p.matches
    BY <2>11 DEF s5, Grade
  <2> QED BY <2>7, <2>8, <2>9, <2>10, <2>11, <2>12
<1>5. t[1] = 0 /\ t[2] = 0 /\ t[3] = 0 /\ t[4] = 0
  <2> DEFINE s1 == Ranked(p, "repeats")
             s2 == Ranked(p, "hidden")
             s3 == Grade(p.words >= 150, FALSE)
             s4 == Grade(p.matches, FALSE)
             e1 == Penalty(5, s1, 2)
             e2 == Penalty(6, s2, 3)
             e3 == Penalty(2, s3, 0)
             e4 == Unadvised(Penalty(2, s4, 0))
  <2>1. Hygiene(p) = <<e1, e2, e3, e4>>
    BY DEF Hygiene
  <2>2. /\ t[1] = Taken(s1, 10, 4)
        /\ t[2] = Taken(s2, 12, 6)
        /\ t[3] = Taken(s3, 4, 0)
        /\ t[4] = Taken(s4, 4, 0)
    BY DEF HygieneTaken
  <2>3. s1 \in Status /\ s2 \in Status /\ s3 \in Status /\ s4 \in Status
    BY AllGraded
  <2> HIDE DEF t, s1, s2, s3, s4
  <2> DEFINE Here == {e1, e2, e3, e4}
  <2> HIDE DEF e1, e2, e3, e4
  <2>4. Held(Hygiene(p)) = Here
    BY <2>1, FewHeld
  <2>5. \A c \in Here : ~c.advised
    BY <2>4, ChecksHeld
  <2>6. ~e1.advised /\ ~e2.advised /\ ~e3.advised /\ ~e4.advised
    BY <2>5
  <2>7. t[1] = 0
    BY <2>2, <2>3, <2>6 DEF e1, Penalty, Worth, Check, Status, Taken
  <2>8. t[2] = 0
    BY <2>2, <2>3, <2>6 DEF e2, Penalty, Worth, Check, Status, Taken
  <2>9. t[3] = 0
    BY <2>2, <2>3, <2>6 DEF e3, Penalty, Worth, Check, Status, Taken
  <2>10. t[4] = 0
    BY <1>4, <2>2 DEF s4, Grade, Taken
  <2> QED BY <2>7, <2>8, <2>9, <2>10
<1>6. Weighted(Retrievability(p), 30) = 120
  <2>1. /\ p.blocked = Unknown => Weighted(Retrievability(p), 30) = 3 * (r[2] + r[3] + r[4])
        /\ p.blocked # Unknown => Weighted(Retrievability(p), 30) = 2 * (r[1] + r[2] + r[3] + r[4])
    BY RetrievabilityIs
  <2> HIDE DEF r
  <2>2. CASE p.blocked = Unknown
    BY <1>2, <2>1, <2>2
  <2>3. CASE p.blocked # Unknown
    BY <1>2, <2>1, <2>3
  <2> QED BY <2>2, <2>3
<1>7. Weighted(Evidence(p), 25) = 100
  <2>1. Weighted(Evidence(p), 25) = 2 * (e[1] + e[2] + e[3] + e[4] + e[5] + e[6])
    BY EvidenceIs
  <2> HIDE DEF e
  <2> QED BY <1>3, <2>1
<1>8. Weighted(Provenance(p), 20) = 80
  <2>1. Weighted(Provenance(p), 20) = 2 * (o[1] + o[2] + o[3] + o[4] + o[5])
    BY ProvenanceIs
  <2> HIDE DEF o
  <2> QED BY <1>4, <2>1
<1>9. Weighted(Structure(p), 10) \in 28 .. 40
  <2>1. /\ Weighted(Structure(p), 10) = 2 * (st[1] + st[2] + st[3] + st[4] + st[5] + st[6])
        /\ st[1] \in 0 .. 6 /\ st[2] \in 0 .. 4 /\ st[3] \in 0 .. 4
        /\ st[4] \in 0 .. 2 /\ st[5] \in 0 .. 2 /\ st[6] \in 0 .. 2
    BY StructureIs
  <2> HIDE DEF st
  <2> QED BY <1>1, <2>1
<1>10. Penalties(p) = 0
  <2>1. Penalties(p) = 2 * (t[1] + t[2] + t[3] + t[4])
    BY PenaltiesAre
  <2> HIDE DEF t
  <2> QED BY <1>5, <2>1
<1>11. Deterministic(p) \in 328 .. 340
  BY <1>6, <1>7, <1>8, <1>9 DEF Deterministic
<1> DEFINE D == Deterministic(p)
<1>12. DeterministicScore(p) = AtLeast0((200 * D + 340) \div 680 - 0 \div 4)
  BY <1>10 DEF DeterministicScore
<1> HIDE DEF D
<1>13. (200 * D + 340) \div 680 \in 96 .. 100
  BY <1>11 DEF D
<1> QED BY <1>12, <1>13 DEF AtLeast0

\* The readiness score of a page is honest: it is within its bounds, no improvement lowers it,
\* a page without recommendations lacks less than five points, and each recommendation has
\* points at stake (analyzer.ts 302-340); of every page a run may meet or not.
THEOREM PagesScoredHonestly ==
  ASSUME NEW p, Page(p), DOMAIN p = Fact, Possible(p)
  PROVE  ScoreHonest(p)
<1>1. Score(p) \in 0 .. 100 /\ DeterministicScore(p) \in 0 .. 100
  BY ScoresBounded
<1>2. ASSUME NEW q \in Improvements(p)
      PROVE  Score(q) >= Score(p) /\ DeterministicScore(q) >= DeterministicScore(p)
  <2>1. Page(q) /\ Better(p, q)
    BY ImprovedBetter
  <2>2. Score(p) <= Score(q) /\ DeterministicScore(p) <= DeterministicScore(q)
    BY <2>1, ScoresGrow
  <2>3. Score(q) \in 0 .. 100 /\ DeterministicScore(q) \in 0 .. 100
    BY <2>1, ScoresBounded
  <2> QED BY <1>1, <2>2, <2>3
<1>3. ASSUME Recommendations(p) = {} PROVE DeterministicScore(p) > 95
  <2>1. \A c \in Held(Checks(p)) : ~c.advised
    BY <1>3 DEF Held, Recommendations
  <2> QED BY <2>1, NothingAdvised
<1>4. ASSUME NEW i \in Recommendations(p) PROVE AtStake(Checks(p)[i]) > 0
  <2>1. Checks(p)[i] \in Held(Checks(p)) /\ Checks(p)[i].advised
    BY <1>4 DEF Held, Recommendations
  <2> QED BY <2>1, AdviceAtStake DEF AdviceHonest
<1> QED BY <1>1, <1>2, <1>3, <1>4 DEF ScoreHonest

-----------------------------------------------------------------------------
(* The decisions of the tasks *)

\* A fact set to one of its values leaves a page a page.
LEMMA SetFact ==
  ASSUME NEW p, Page(p), DOMAIN p = Fact, NEW f \in Fact, NEW v \in FactValues(f)
  PROVE  Page([p EXCEPT ![f] = v]) /\ DOMAIN [p EXCEPT ![f] = v] = Fact
<1> DEFINE q == [p EXCEPT ![f] = v]
<1>1. DOMAIN q = Fact /\ q[f] = v /\ \A g \in Fact : g # f => q[g] = p[g]
  OBVIOUS
<1>2. \/ \E n \in DOMAIN Values[f] : v = Values[f][n]
      \/ f = "blocked" /\ v = Unknown
      \/ f = "quality" /\ v = Unjudged
  BY DEF FactValues, Range
<1> HIDE DEF q
<1>3. ASSUME NEW g \in Fact
      PROVE  \/ \E n \in DOMAIN Values[g] : q[g] = Values[g][n]
             \/ g = "blocked" /\ q.blocked = Unknown
             \/ g = "quality" /\ q.quality = Unjudged
  <2>1. CASE g = f
    BY <1>1, <1>2, <2>1
  <2>2. CASE g # f
    <3>1. \/ \E n \in DOMAIN Values[g] : p[g] = Values[g][n]
          \/ g = "blocked" /\ p.blocked = Unknown
          \/ g = "quality" /\ p.quality = Unjudged
      BY DEF Page
    <3> QED BY <1>1, <2>2, <3>1
  <2> QED BY <2>1, <2>2
<1>4. Page(q)
  BY <1>3 DEF Page
<1> QED BY <1>1, <1>4 DEF q

\* The pages of the tasks are pages.
LEMMA TaskPages ==
  ASSUME NEW t \in ReadinessTasks
  PROVE  Page(t.page) /\ DOMAIN t.page = Fact /\ Possible(t.page)
<1> DEFINE IsPage(p) == Page(p) /\ DOMAIN p = Fact
<1>0. ASSUME NEW f, NEW a, NEW b, Values[f] = <<a, b>>
      PROVE  a \in FactValues(f) /\ b \in FactValues(f)
  <2>1. 1 \in DOMAIN <<a, b>> /\ 2 \in DOMAIN <<a, b>> /\ <<a, b>>[1] = a /\ <<a, b>>[2] = b
    OBVIOUS
  <2>2. a \in Range(Values[f]) /\ b \in Range(Values[f])
    BY <1>0, <2>1 DEF Range
  <2> QED BY <2>2 DEF FactValues
<1>1. IsPage(Good)
  <2>1. \A f \in Fact : Good[f] = Values[f][Len(Values[f])] /\ Len(Values[f]) \in DOMAIN Values[f]
    BY ValuesGraded DEF Good, Graded
  <2>2. DOMAIN Good = Fact
    BY ValuesGraded DEF Good
  <2> QED BY <2>1, <2>2 DEF Page
<1>2. ASSUME NEW p, IsPage(p), NEW f \in Fact, NEW v \in FactValues(f)
      PROVE  IsPage([p EXCEPT ![f] = v])
  BY <1>2, SetFact
<1>3. IsPage(Bad)
  <2> DEFINE worst == [f \in DOMAIN Values |-> Values[f][1]]
  <2>1. \A f \in Fact : worst[f] = Values[f][1] /\ 1 \in DOMAIN Values[f]
    BY ValuesGraded DEF Graded
  <2>2. DOMAIN worst = Fact
    BY ValuesGraded
  <2>3. Bad = [worst EXCEPT !["skips"] = FALSE]
    BY DEF Bad
  <2> HIDE DEF worst
  <2>4. IsPage(worst)
    BY <2>1, <2>2 DEF Page
  <2>5. "skips" \in Fact /\ FALSE \in FactValues("skips")
    <3>1. Values["skips"] = <<TRUE, FALSE>>
      BY DEF Values
    <3> QED BY <1>0, <3>1 DEF Fact
  <2> QED BY <1>2, <2>3, <2>4, <2>5
<1>4. IsPage(Silent)
  <2>1. "skips" \in Fact /\ TRUE \in FactValues("skips")
    <3>1. Values["skips"] = <<TRUE, FALSE>>
      BY DEF Values
    <3> QED BY <1>0, <3>1 DEF Fact
  <2>2. "alt" \in Fact /\ "none" \in FactValues("alt")
    <3>1. Values["alt"] = <<"none", "some", "all">>
      BY DEF Values
    <3> QED BY <3>1 DEF Fact, FactValues, Range
  <2>3. "lang" \in Fact /\ FALSE \in FactValues("lang")
    <3>1. Values["lang"] = <<FALSE, TRUE>>
      BY DEF Values
    <3> QED BY <1>0, <3>1 DEF Fact
  <2>4. "hreflang" \in Fact /\ FALSE \in FactValues("hreflang")
    <3>1. Values["hreflang"] = <<FALSE, TRUE>>
      BY DEF Values
    <3> QED BY <1>0, <3>1 DEF Fact
  <2> DEFINE a == [Good EXCEPT !["skips"] = TRUE]
             b == [a EXCEPT !["alt"] = "none"]
             c == [b EXCEPT !["lang"] = FALSE]
             d == [c EXCEPT !["hreflang"] = FALSE]
  <2>5. Silent = d
    BY DEF Silent
  <2> HIDE DEF IsPage
  <2>6. IsPage(a)
    BY <1>1, <1>2, <2>1
  <2> HIDE DEF a
  <2>7. IsPage(b)
    BY <1>2, <2>2, <2>6
  <2> HIDE DEF b
  <2>8. IsPage(c)
    BY <1>2, <2>3, <2>7
  <2> HIDE DEF c
  <2>9. IsPage(d)
    BY <1>2, <2>4, <2>8
  <2> QED BY <2>5, <2>9
<1>5. PICK q : t.page = q /\ Possible(q)
               /\ \E f, g \in DOMAIN Values, base \in {Good, Bad, Silent} :
                    \E v \in FactValues(f), w \in FactValues(g) :
                      q = [[base EXCEPT ![f] = v] EXCEPT ![g] = w]
  BY DEF ReadinessTasks
<1>6. PICK f \in Fact, g \in Fact, base \in {Good, Bad, Silent} :
        \E v \in FactValues(f), w \in FactValues(g) : q = [[base EXCEPT ![f] = v] EXCEPT ![g] = w]
  BY <1>5, ValuesGraded
<1>7. PICK v \in FactValues(f), w \in FactValues(g) : q = [[base EXCEPT ![f] = v] EXCEPT ![g] = w]
  BY <1>6
<1> HIDE DEF IsPage
<1>8. IsPage(base)
  BY <1>1, <1>3, <1>4
<1>9. IsPage([base EXCEPT ![f] = v])
  BY <1>2, <1>8
<1>10. IsPage(q)
  BY <1>2, <1>7, <1>9
<1> QED BY <1>5, <1>10 DEF IsPage

\* The policies and the facts of the tasks are policies and facts.
LEMMA TaskPolicies ==
  Policies \subseteq PolicyOf({"health"}, {"web"}) /\ Facts \subseteq FactsOf({"health"}, {"web"})
<1>1. Policies \subseteq PolicyOf({"health"}, {"web"})
  <2> DEFINE A == {0, 60}
             B == {FALSE}
             C == {0, 50}
             D == {0, 100}
             E == {{}, {"health"}}
             F == {TRUE}
             I == Int
             L == BOOLEAN
             K == SUBSET {"web"}
             M == SUBSET {"health"}
  <2>1. A \subseteq I /\ B \subseteq L /\ C \subseteq I /\ D \subseteq I /\ E \subseteq M /\ F \subseteq L
    OBVIOUS
  <2>2. Policies = [blockUnsupported : L, blockCoverageBelow : A, prohibitedKinds : K,
                    always : B, approveAi : L, readinessBelow : C, readinessUnknown : L,
                    approveCoverageBelow : D, sensitiveTopics : E, disclosure : F, marking : L]
    BY DEF Policies
  <2>3. PolicyOf({"health"}, {"web"}) =
          [blockUnsupported : L, blockCoverageBelow : I, prohibitedKinds : K,
           always : L, approveAi : L, readinessBelow : I, readinessUnknown : L,
           approveCoverageBelow : I, sensitiveTopics : M, disclosure : L, marking : L]
    BY DEF PolicyOf
  <2> HIDE DEF A, B, C, D, E, F, I, L, K, M
  <2> QED BY <2>1, <2>2, <2>3
<1>2. Facts \subseteq FactsOf({"health"}, {"web"})
  BY DEF Facts, FactsOf, NoScore
<1> QED BY <1>1, <1>2

\* In particular for the policies, the facts, the rules and the pages of the tasks: every
\* decision is monotone (policy.ts, analyzer.ts).
THEOREM DecisionsAreMonotone == Spec => []DecisionsMonotone
<1> DEFINE Right == /\ task.of = "gate" => task.policy \in Policies
                    /\ task.of = "readiness" => Page(task.page) /\ DOMAIN task.page = Fact /\ Possible(task.page)
<1>1. Init => Right
  <2>1. ASSUME Init, task.of = "gate" PROVE task.policy \in Policies
    <3>1. task \in GateTasks
      BY <2>1 DEF Init, RobotsTasks, ChunkTasks, HtmlTasks, GroundingTasks, GateTasks, ReadinessTasks,
             ReportTasks, RenderTasks, AccessTasks
    <3> QED BY <3>1 DEF GateTasks
  <2>2. ASSUME Init, task.of = "readiness"
        PROVE  Page(task.page) /\ DOMAIN task.page = Fact /\ Possible(task.page)
    <3>1. task \in ReadinessTasks
      BY <2>2 DEF Init, RobotsTasks, ChunkTasks, HtmlTasks, GroundingTasks, GateTasks, ReadinessTasks,
             ReportTasks, RenderTasks, AccessTasks
    <3> QED BY <3>1, TaskPages
  <2> QED BY <2>1, <2>2
<1>2. Right /\ [Next]_<<task, answer>> => Right'
  BY DEF Next, Run
<1>3. Right => DecisionsMonotone
  <2> SUFFICES ASSUME Right PROVE DecisionsMonotone
    OBVIOUS
  <2>1. ASSUME Answered("gate") PROVE WorseNeverEasier(task.policy, Facts)
    <3>1. task.policy \in PolicyOf({"health"}, {"web"})
      BY <2>1, TaskPolicies DEF Answered
    <3>2. Facts \in SUBSET FactsOf({"health"}, {"web"})
      BY TaskPolicies
    <3> QED BY <3>1, <3>2, GateMonotone
  <2>2. \A m \in Models, cs \in SUBSET Classes : NeverWidens(task.rules, m, cs)
    BY AccessNeverWidens
  <2>3. ASSUME Answered("readiness") PROVE ScoreHonest(task.page)
    BY <2>3, PagesScoredHonestly DEF Answered
  <2> QED BY <2>1, <2>2, <2>3 DEF DecisionsMonotone
<1> QED BY <1>1, <1>2, <1>3, PTL DEF Spec

-----------------------------------------------------------------------------
(* Sums *)

\* The element that a sum takes first.
Some(S) == CHOOSE x \in S : TRUE

\* total has the sum of w over every subset of S, as SumFunctionOnSet builds it up.
Adds(total, w, S) ==
  total = [T \in SUBSET S |-> IF T = {} THEN 0 ELSE w[Some(T)] + total[T \ {Some(T)}]]

\* A finite set that is not empty has a first element, and is larger than what it leaves.
LEMMA SomeLeaves ==
  ASSUME NEW S, IsFiniteSet(S), NEW T \in SUBSET S, T # {}
  PROVE  /\ Some(T) \in T /\ T \ {Some(T)} \in SUBSET S
         /\ Cardinality(T) \in Nat \ {0} /\ Cardinality(T \ {Some(T)}) = Cardinality(T) - 1
<1>1. Some(T) \in T
  BY DEF Some
<1>2. IsFiniteSet(T) /\ Cardinality(T) \in Nat
  BY FS_Subset, FS_CardinalityType
<1> QED BY <1>1, <1>2, FS_RemoveElement, FS_EmptySet

\* There are such totals.
LEMMA TotalsExist ==
  ASSUME NEW S, IsFiniteSet(S), NEW w \in [S -> Nat]
  PROVE  \E total : Adds(total, w, S)
<1> DEFINE Turn(g, T) == IF T = {} THEN 0 ELSE w[Some(T)] + g[T \ {Some(T)}]
           Right(g, n) == \A T \in SUBSET S : Cardinality(T) <= n => g[T] = Turn(g, T)
           P == {n \in Nat : \E g \in [SUBSET S -> Nat] : Right(g, n)}
<1>1. 0 \in P
  <2> DEFINE g == [T \in SUBSET S |-> 0]
  <2>1. ASSUME NEW T \in SUBSET S, Cardinality(T) <= 0 PROVE T = {}
    <3>1. T # {} => Cardinality(T) \in Nat \ {0}
      BY SomeLeaves
    <3> QED BY <2>1, <3>1
  <2>2. Right(g, 0)
    BY <2>1
  <2> QED BY <2>2
<1>2. ASSUME NEW n \in Nat, n \in P PROVE n + 1 \in P
  <2>1. PICK g \in [SUBSET S -> Nat] : Right(g, n)
    BY <1>2
  <2> DEFINE h == [T \in SUBSET S |-> IF Cardinality(T) = n + 1 THEN Turn(g, T) ELSE g[T]]
  <2>2. h \in [SUBSET S -> Nat]
    <3>1. ASSUME NEW T \in SUBSET S PROVE Turn(g, T) \in Nat
      <4>1. T # {} => Some(T) \in S /\ T \ {Some(T)} \in SUBSET S
        BY SomeLeaves
      <4>2. T # {} => w[Some(T)] \in Nat /\ g[T \ {Some(T)}] \in Nat
        BY <4>1
      <4> QED BY <4>2
    <3> QED BY <3>1
  <2>3. ASSUME NEW T \in SUBSET S, Cardinality(T) <= n + 1 PROVE h[T] = Turn(h, T)
    <3>1. CASE T = {}
      <4>1. Cardinality(T) = 0 /\ Cardinality(T) <= n
        BY <3>1, FS_EmptySet
      <4> QED BY <2>1, <3>1, <4>1
    <3>2. CASE T # {}
      <4>1. PICK U \in SUBSET S : U = T \ {Some(T)}
        BY <3>2, SomeLeaves
      <4>2. /\ Cardinality(T) \in Nat \ {0} /\ Cardinality(U) = Cardinality(T) - 1
        BY <3>2, <4>1, SomeLeaves
      <4>3. h[U] = g[U]
        BY <2>3, <4>2
      <4>4. Turn(h, T) = Turn(g, T)
        BY <3>2, <4>1, <4>3
      <4>5. CASE Cardinality(T) = n + 1
        BY <4>4, <4>5
      <4>6. CASE Cardinality(T) # n + 1
        <5>1. Cardinality(T) <= n
          BY <2>3, <4>2, <4>6
        <5>2. h[T] = g[T] /\ g[T] = Turn(g, T)
          BY <2>1, <4>6, <5>1
        <5> QED BY <4>4, <5>2
      <4> QED BY <4>5, <4>6
    <3> QED BY <3>1, <3>2
  <2> HIDE DEF h
  <2>4. Right(h, n + 1)
    BY <2>3
  <2> HIDE DEF Right
  <2> QED BY <2>2, <2>4
<1> HIDE DEF P
<1>3. Cardinality(S) \in P
  BY <1>1, <1>2, EveryNumber, FS_CardinalityType
<1>4. PICK g \in [SUBSET S -> Nat] : Right(g, Cardinality(S))
  BY <1>3 DEF P
<1>5. ASSUME NEW T \in SUBSET S PROVE g[T] = Turn(g, T)
  <2>1. Cardinality(T) <= Cardinality(S)
    BY FS_Subset
  <2> QED BY <1>4, <2>1
<1>6. g = [T \in SUBSET S |-> Turn(g, T)]
  BY <1>5
<1> QED BY <1>6 DEF Adds

\* The sum is that of any such totals.
LEMMA SumIsTotal ==
  ASSUME NEW S, IsFiniteSet(S), NEW w \in [S -> Nat]
  PROVE  \E total : Adds(total, w, S) /\ SumFunctionOnSet(w, S) = total[S]
<1> DEFINE t == CHOOSE total : Adds(total, w, S)
<1>1. SumFunctionOnSet(w, S) = t[S]
  BY DEF SumFunctionOnSet, FoldFunctionOnSet, MapThenFoldSet, Adds, Some
<1>2. Adds(t, w, S)
  BY TotalsExist
<1> QED BY <1>1, <1>2

\* A sum is a number, and at most as many times a bound on its terms as it has terms.
LEMMA SumAtMost ==
  ASSUME NEW S, IsFiniteSet(S), NEW w \in [S -> Nat], NEW b \in Nat, \A x \in S : w[x] <= b
  PROVE  /\ SumFunctionOnSet(w, S) \in Nat
         /\ SumFunctionOnSet(w, S) <= Cardinality(S) * b
<1>1. PICK total : Adds(total, w, S) /\ SumFunctionOnSet(w, S) = total[S]
  BY SumIsTotal
<1> DEFINE Bounded(T) == total[T] \in Nat /\ total[T] <= Cardinality(T) * b
           P == {n \in Nat : \A T \in SUBSET S : Cardinality(T) = n => Bounded(T)}
<1>2. 0 \in P
  <2>1. ASSUME NEW T \in SUBSET S, Cardinality(T) = 0 PROVE Bounded(T)
    <3>1. T # {} => Cardinality(T) \in Nat \ {0}
      BY SomeLeaves
    <3>2. T = {}
      BY <2>1, <3>1
    <3>3. total[T] = 0
      BY <1>1, <3>2 DEF Adds
    <3>4. 0 * b = 0
      OBVIOUS
    <3> QED BY <2>1, <3>3, <3>4
  <2> QED BY <2>1
<1>3. ASSUME NEW n \in Nat, n \in P PROVE n + 1 \in P
  <2>1. ASSUME NEW T \in SUBSET S, Cardinality(T) = n + 1 PROVE Bounded(T)
    <3>1. T # {}
      BY <2>1, FS_EmptySet
    <3> DEFINE x == Some(T)
               U == T \ {x}
    <3>2. x \in S /\ U \in SUBSET S /\ Cardinality(U) = n
      BY <2>1, <3>1, SomeLeaves
    <3>3. total[U] \in Nat /\ total[U] <= n * b
      BY <1>3, <3>2
    <3>4. total[T] = w[x] + total[U]
      BY <1>1, <3>1 DEF Adds
    <3>5. w[x] \in Nat /\ w[x] <= b
      BY <3>2
    <3>6. (n + 1) * b = n * b + b /\ n * b \in Nat
      OBVIOUS
    <3> HIDE DEF x, U
    <3> QED BY <2>1, <3>3, <3>4, <3>5, <3>6
  <2> QED BY <2>1
<1> HIDE DEF P
<1>4. Cardinality(S) \in P
  BY <1>2, <1>3, EveryNumber, FS_CardinalityType
<1> QED BY <1>1, <1>4 DEF P

\* A sum changes by what one of its terms changes by.
LEMMA SumChanges ==
  ASSUME NEW S, IsFiniteSet(S), NEW w \in [S -> Nat], NEW u \in [S -> Nat],
         NEW c \in S, \A x \in S \ {c} : u[x] = w[x]
  PROVE  /\ SumFunctionOnSet(w, S) \in Nat
         /\ SumFunctionOnSet(u, S) = SumFunctionOnSet(w, S) + (u[c] - w[c])
<1>1. u \in [S -> Nat] /\ \A x \in S \ {c} : u[x] = w[x]
  OBVIOUS
<1>2. PICK old : Adds(old, w, S) /\ SumFunctionOnSet(w, S) = old[S]
  BY SumIsTotal
<1>3. PICK new : Adds(new, u, S) /\ SumFunctionOnSet(u, S) = new[S]
  BY <1>1, SumIsTotal
<1> DEFINE Differs(T) == /\ old[T] \in Nat
                         /\ c \in T => new[T] = old[T] + (u[c] - w[c])
                         /\ c \notin T => new[T] = old[T]
           P == {n \in Nat : \A T \in SUBSET S : Cardinality(T) = n => Differs(T)}
<1>4. 0 \in P
  <2>1. ASSUME NEW T \in SUBSET S, Cardinality(T) = 0 PROVE Differs(T)
    <3>1. T # {} => Cardinality(T) \in Nat \ {0}
      BY SomeLeaves
    <3>2. T = {}
      BY <2>1, <3>1
    <3> QED BY <1>2, <1>3, <3>2 DEF Adds
  <2> QED BY <2>1
<1>5. ASSUME NEW n \in Nat, n \in P PROVE n + 1 \in P
  <2>1. ASSUME NEW T \in SUBSET S, Cardinality(T) = n + 1 PROVE Differs(T)
    <3>1. T # {}
      BY <2>1, FS_EmptySet
    <3> DEFINE x == Some(T)
               U == T \ {x}
    <3>2. x \in T /\ x \in S /\ U \in SUBSET S /\ Cardinality(U) = n
      BY <2>1, <3>1, SomeLeaves
    <3>3. Differs(U)
      BY <1>5, <3>2
    <3>4. old[T] = w[x] + old[U] /\ new[T] = u[x] + new[U]
      BY <1>2, <1>3, <3>1 DEF Adds
    <3>5. w[x] \in Nat /\ u[x] \in Nat /\ w[c] \in Nat /\ u[c] \in Nat /\ (x # c => u[x] = w[x])
      BY <1>1, <3>2
    <3>6. (c \in U <=> c \in T /\ x # c)
      OBVIOUS
    <3> HIDE DEF x, U
    <3> QED BY <3>2, <3>3, <3>4, <3>5, <3>6
  <2> QED BY <2>1
<1> HIDE DEF P
<1>6. Cardinality(S) \in P
  BY <1>4, <1>5, EveryNumber, FS_CardinalityType
<1> QED BY <1>2, <1>3, <1>6 DEF P

\* The elements of J with a key in T, and those whose key is x, which T leaves out.
LEMMA KeysJoin ==
  ASSUME NEW J, IsFiniteSet(J), NEW key, NEW T, NEW x \in T
  PROVE  /\ Cardinality({j \in J : key[j] \in T \ {x}}) \in Nat
         /\ Cardinality({j \in J : key[j] = x}) \in Nat
         /\ Cardinality({j \in J : key[j] \in T})
              = Cardinality({j \in J : key[j] \in T \ {x}}) + Cardinality({j \in J : key[j] = x})
<1> DEFINE A == {j \in J : key[j] \in T \ {x}}
           B == {j \in J : key[j] = x}
<1>1. IsFiniteSet(A) /\ IsFiniteSet(B)
  BY FS_Subset
<1>2. A \cup B = {j \in J : key[j] \in T} /\ A \cap B = {}
  OBVIOUS
<1> HIDE DEF A, B
<1>3. /\ Cardinality(A) \in Nat /\ Cardinality(B) \in Nat
      /\ Cardinality(A \cup B) = Cardinality(A) + Cardinality(B) - Cardinality(A \cap B)
  BY <1>1, FS_CardinalityType, FS_Union
<1>4. Cardinality(A \cap B) = 0
  BY <1>2, FS_EmptySet
<1>5. Cardinality(A \cup B) = Cardinality(A) + Cardinality(B)
  BY <1>3, <1>4
<1>6. Cardinality({j \in J : key[j] \in T}) = Cardinality(A) + Cardinality(B)
  BY <1>2, <1>5
<1> QED BY <1>3, <1>6 DEF A, B

\* A sum whose terms are at most, or at least, the numbers of elements of J with each key,
\* compares so with the number of elements of J.
LEMMA SumCounts ==
  ASSUME NEW S, IsFiniteSet(S), NEW w \in [S -> Nat], NEW J, IsFiniteSet(J), NEW key
  PROVE  /\ SumFunctionOnSet(w, S) \in Nat
         /\ (\A s \in S : w[s] <= Cardinality({j \in J : key[j] = s}))
              => SumFunctionOnSet(w, S) <= Cardinality(J)
         /\ (\A j \in J : key[j] \in S) /\ (\A s \in S : Cardinality({j \in J : key[j] = s}) <= w[s])
              => Cardinality(J) <= SumFunctionOnSet(w, S)
<1>1. PICK total : Adds(total, w, S) /\ SumFunctionOnSet(w, S) = total[S]
  BY SumIsTotal
<1> DEFINE With(s)  == Cardinality({j \in J : key[j] = s})
           Among(T) == Cardinality({j \in J : key[j] \in T})
           Few  == \A s \in S : w[s] <= With(s)
           Many == \A s \in S : With(s) <= w[s]
           Counted(T) == /\ total[T] \in Nat /\ Among(T) \in Nat
                         /\ Few => total[T] <= Among(T)
                         /\ Many => Among(T) <= total[T]
           P == {n \in Nat : \A T \in SUBSET S : Cardinality(T) = n => Counted(T)}
<1>2. 0 \in P
  <2>1. ASSUME NEW T \in SUBSET S, Cardinality(T) = 0 PROVE Counted(T)
    <3>1. T # {} => Cardinality(T) \in Nat \ {0}
      BY SomeLeaves
    <3>2. T = {}
      BY <2>1, <3>1
    <3>3. {j \in J : key[j] \in T} = {}
      BY <3>2
    <3>4. total[T] = 0 /\ Among(T) = 0
      BY <1>1, <3>2, <3>3, FS_EmptySet DEF Adds
    <3> HIDE DEF Among, Few, Many
    <3> QED BY <3>4
  <2> HIDE DEF Counted
  <2> QED BY <2>1
<1>3. ASSUME NEW n \in Nat, n \in P PROVE n + 1 \in P
  <2>1. ASSUME NEW T \in SUBSET S, Cardinality(T) = n + 1 PROVE Counted(T)
    <3>1. T # {}
      <4>1. Cardinality(T) # 0
        BY <2>1
      <4> QED BY <4>1, FS_EmptySet
    <3> DEFINE x == Some(T)
               U == T \ {x}
    <3>2. x \in T /\ x \in S /\ U \in SUBSET S /\ Cardinality(U) = n
      BY <2>1, <3>1, SomeLeaves
    <3>3. Counted(U)
      BY <1>3, <3>2
    <3>4. total[T] = w[x] + total[U]
      BY <1>1, <3>1 DEF Adds
    <3>5. w[x] \in Nat
      BY <3>2
    <3>6. With(x) \in Nat /\ Among(T) = Among(U) + With(x)
      <4>1. \A y \in T : With(y) \in Nat /\ Among(T) = Among(T \ {y}) + With(y)
        BY KeysJoin
      <4> HIDE DEF With, Among
      <4> QED BY <3>2, <4>1
    <3>7. (Few => w[x] <= With(x)) /\ (Many => With(x) <= w[x])
      BY <3>2
    <3> HIDE DEF x, U, With, Among, Few, Many
    <3> QED BY <3>3, <3>4, <3>5, <3>6, <3>7
  <2> HIDE DEF Counted
  <2> QED BY <2>1
<1> HIDE DEF P
<1>4. Cardinality(S) \in P
  BY <1>2, <1>3, EveryNumber, FS_CardinalityType
<1>5. Counted(S)
  BY <1>4 DEF P
<1>6. Among(S) <= Cardinality(J)
  BY <1>5, FS_Subset
<1>7. (\A j \in J : key[j] \in S) => {j \in J : key[j] \in S} = J
  OBVIOUS
<1>8. Few => total[S] <= Cardinality(J)
  <2>1. Cardinality(J) \in Nat
    BY FS_CardinalityType
  <2> HIDE DEF Few, Many, Among
  <2> QED BY <1>5, <1>6, <2>1
<1>9. (\A j \in J : key[j] \in S) /\ Many => Cardinality(J) <= total[S]
  <2>1. (\A j \in J : key[j] \in S) => Among(S) = Cardinality(J)
    BY <1>7
  <2> HIDE DEF Few, Many, Among
  <2> QED BY <1>5, <2>1
<1>10. total[S] \in Nat
  BY <1>5
<1> QED BY <1>1, <1>8, <1>9, <1>10

\* The elements of J, each with its key in S, are as many as those with each key together.
LEMMA SumOfCounts ==
  ASSUME NEW S, IsFiniteSet(S), NEW J, IsFiniteSet(J), NEW key, \A j \in J : key[j] \in S
  PROVE  SumFunctionOnSet([s \in S |-> Cardinality({j \in J : key[j] = s})], S) = Cardinality(J)
<1> DEFINE w == [s \in S |-> Cardinality({j \in J : key[j] = s})]
<1>1. ASSUME NEW s \in S PROVE Cardinality({j \in J : key[j] = s}) \in Nat
  BY FS_Subset, FS_CardinalityType
<1>2. w \in [S -> Nat] /\ \A s \in S : w[s] = Cardinality({j \in J : key[j] = s})
  BY <1>1
<1> HIDE DEF w
<1>3. \A s \in S : w[s] <= Cardinality({j \in J : key[j] = s}) /\ Cardinality({j \in J : key[j] = s}) <= w[s]
  BY <1>1, <1>2
<1>4. /\ SumFunctionOnSet(w, S) \in Nat
      /\ SumFunctionOnSet(w, S) <= Cardinality(J) /\ Cardinality(J) <= SumFunctionOnSet(w, S)
  BY <1>2, <1>3, SumCounts
<1>5. Cardinality(J) \in Nat
  BY FS_CardinalityType
<1>6. SumFunctionOnSet(w, S) = Cardinality(J)
  BY <1>4, <1>5
<1> QED BY <1>6 DEF w

\* A sum whose terms are at most those of two others together is at most these together.
LEMMA SumOfTwo ==
  ASSUME NEW S, IsFiniteSet(S), NEW u \in [S -> Nat], NEW v \in [S -> Nat], NEW w \in [S -> Nat],
         \A x \in S : w[x] <= u[x] + v[x]
  PROVE  SumFunctionOnSet(w, S) <= SumFunctionOnSet(u, S) + SumFunctionOnSet(v, S)
<1>1. PICK a : Adds(a, u, S) /\ SumFunctionOnSet(u, S) = a[S]
  BY SumIsTotal
<1>2. PICK b : Adds(b, v, S) /\ SumFunctionOnSet(v, S) = b[S]
  BY SumIsTotal
<1>3. PICK c : Adds(c, w, S) /\ SumFunctionOnSet(w, S) = c[S]
  BY SumIsTotal
<1> DEFINE Less(T) == a[T] \in Nat /\ b[T] \in Nat /\ c[T] \in Nat /\ c[T] <= a[T] + b[T]
           P == {n \in Nat : \A T \in SUBSET S : Cardinality(T) = n => Less(T)}
<1>4. 0 \in P
  <2>1. ASSUME NEW T \in SUBSET S, Cardinality(T) = 0 PROVE Less(T)
    <3>1. T # {} => Cardinality(T) \in Nat \ {0}
      BY SomeLeaves
    <3>2. T = {}
      BY <2>1, <3>1
    <3> QED BY <1>1, <1>2, <1>3, <3>2 DEF Adds
  <2> QED BY <2>1
<1>5. ASSUME NEW n \in Nat, n \in P PROVE n + 1 \in P
  <2>1. ASSUME NEW T \in SUBSET S, Cardinality(T) = n + 1 PROVE Less(T)
    <3>1. T # {}
      BY <2>1, FS_EmptySet
    <3> DEFINE x == Some(T)
               U == T \ {x}
    <3>2. x \in S /\ U \in SUBSET S /\ Cardinality(U) = n
      BY <2>1, <3>1, SomeLeaves
    <3>3. Less(U)
      BY <1>5, <3>2
    <3>4. a[T] = u[x] + a[U] /\ b[T] = v[x] + b[U] /\ c[T] = w[x] + c[U]
      BY <1>1, <1>2, <1>3, <3>1 DEF Adds
    <3>5. u[x] \in Nat /\ v[x] \in Nat /\ w[x] \in Nat /\ w[x] <= u[x] + v[x]
      BY <3>2
    <3> HIDE DEF x, U
    <3> QED BY <3>3, <3>4, <3>5
  <2> QED BY <2>1
<1> HIDE DEF P
<1>6. Cardinality(S) \in P
  BY <1>4, <1>5, EveryNumber, FS_CardinalityType
<1> QED BY <1>1, <1>2, <1>3, <1>6 DEF P

\* A set that f maps into another one, no two elements to the same, is not larger.
LEMMA NoLarger ==
  ASSUME NEW A, NEW B, IsFiniteSet(B), NEW f \in [A -> B],
         \A x, y \in A : f[x] = f[y] => x = y
  PROVE  IsFiniteSet(A) /\ Cardinality(A) \in Nat /\ Cardinality(A) <= Cardinality(B)
<1>1. f \in Injection(A, B)
  BY DEF Injection, IsInjective
<1> QED BY <1>1, FS_Injection, FS_CardinalityType

-----------------------------------------------------------------------------
(* The report of the observatory *)

\* An answer to a query of the set, as run stores it.
AnswersTo(querySet, W, L, M, V) ==
  [words : Seq(W), links : SUBSET L, tool : SUBSET L, query : DOMAIN querySet.intent,
   provider : M, model : Seq(M), version : V]

\* A place in a text is a number.
LEMMA PlaceIsNumber ==
  ASSUME NEW W, NEW words \in Seq(W), NEW names
  PROVE  DetectMentions(words, names) \in Nat
<1> DEFINE Starts(name) == {i \in DOMAIN words : IsPrefix(name, SubSeq(words, i, Len(words)))}
           places == UNION {Starts(name) : name \in names}
<1>1. places \in SUBSET Nat
  OBVIOUS
<1>2. places # {} => Min(places) \in places
  <2>1. places # {} => \E n \in places : \A m \in places : n <= m
    BY <1>1, LeastNumber
  <2> HIDE DEF places
  <2> QED BY <2>1 DEF Min
<1>3. DetectMentions(words, names) = IF places = {} THEN 0 ELSE Min(places)
  BY DEF DetectMentions
<1> HIDE DEF places
<1>4. places # {} => Min(places) \in Nat
  BY <1>1, <1>2
<1>5. CASE places = {}
  BY <1>3, <1>5
<1>6. CASE places # {}
  BY <1>3, <1>4, <1>6
<1> QED BY <1>5, <1>6

\* What is observed of an answer: it has a place exactly when the brand is mentioned, at
\* most one behind all the competitors that are.
LEMMA Observed ==
  ASSUME NEW querySet, IsFiniteSet(DOMAIN querySet.competitors), NEW W, NEW L, NEW M, NEW V,
         NEW a \in AnswersTo(querySet, W, L, M, V), NEW r, r = Observe(querySet, a)
  PROVE  /\ r.mentioned \in BOOLEAN /\ r.position \in Nat
         /\ r.mentioned <=> r.position # NoPosition
         /\ r.competitors \subseteq DOMAIN querySet.competitors /\ IsFiniteSet(r.competitors)
         /\ Cardinality(r.competitors) \in Nat /\ r.position <= 1 + Cardinality(r.competitors)
         /\ r.cited => a.tool # {}
         /\ r.query = a.query /\ r.provider = a.provider /\ r.model = a.model /\ r.version = a.version
<1> DEFINE brand == DetectMentions(a.words, querySet.brand)
           index == [c \in DOMAIN querySet.competitors |-> DetectMentions(a.words, querySet.competitors[c])]
           above == {c \in DOMAIN index : index[c] # 0 /\ index[c] < brand}
           named == {c \in DOMAIN index : index[c] # 0}
<1>1. brand \in Nat
  BY PlaceIsNumber DEF AnswersTo
<1>2. above \subseteq named /\ named \subseteq DOMAIN querySet.competitors
  OBVIOUS
<1>3. /\ r.mentioned = (brand # 0) /\ r.competitors = named
      /\ r.position = IF brand = 0 THEN NoPosition ELSE 1 + Cardinality(above)
      /\ r.cited = Cited(DetectCitations(a.links, a.tool, querySet.domains))
      /\ r.query = a.query /\ r.provider = a.provider /\ r.model = a.model /\ r.version = a.version
  BY DEF Observe
<1>4. r.cited => a.tool # {}
  BY <1>3 DEF Cited, DetectCitations
<1> HIDE DEF above, named, brand
<1>5. /\ IsFiniteSet(named) /\ Cardinality(above) \in Nat /\ Cardinality(named) \in Nat
      /\ Cardinality(above) <= Cardinality(named)
  BY <1>2, FS_Subset, FS_CardinalityType
<1>6. r.mentioned \in BOOLEAN /\ r.position \in Nat /\ (r.mentioned <=> r.position # NoPosition)
  <2>1. CASE brand = 0
    <3>1. (brand # 0) = FALSE /\ r.position = NoPosition
      BY <1>3, <2>1
    <3>2. r.mentioned = FALSE
      BY <1>3, <3>1
    <3>3. r.position \in Nat
      BY <3>1 DEF NoPosition
    <3> QED BY <3>1, <3>2, <3>3
  <2>2. CASE brand # 0
    <3>1. (brand # 0) = TRUE /\ r.position = 1 + Cardinality(above)
      BY <1>3, <2>2
    <3>2. r.mentioned = TRUE
      BY <1>3, <3>1
    <3>3. r.position \in Nat /\ r.position # NoPosition
      BY <1>5, <3>1 DEF NoPosition
    <3> QED BY <3>2, <3>3
  <2> QED BY <2>1, <2>2
<1>7. r.position <= 1 + Cardinality(named)
  BY <1>3, <1>5 DEF NoPosition
<1> QED BY <1>2, <1>3, <1>4, <1>5, <1>6, <1>7

\* The rows by key, one key for each, are all the rows: in number and in what they count.
LEMMA TablesAddUp ==
  ASSUME NEW rows, IsFiniteSet(DOMAIN rows), NEW keys, DOMAIN keys = DOMAIN rows,
         NEW K, IsFiniteSet(K), Range(keys) \subseteq K, NEW field \in {"n", "mentions", "cited"}
  PROVE  SumFunction([key \in K |-> Aggregate(rows, Group(keys, key))[field]])
           = Aggregate(rows, DOMAIN rows)[field]
<1> DEFINE J == IF field = "n" THEN DOMAIN rows
                ELSE IF field = "mentions" THEN {i \in DOMAIN rows : rows[i].mentioned}
                ELSE {i \in DOMAIN rows : rows[i].cited}
<1>1. J \subseteq DOMAIN rows /\ IsFiniteSet(J)
  BY FS_Subset
<1>2. Aggregate(rows, DOMAIN rows)[field] = Cardinality(J)
  BY DEF Aggregate
<1>3. ASSUME NEW key \in K
      PROVE  Aggregate(rows, Group(keys, key))[field] = Cardinality({j \in J : keys[j] = key})
  <2> DEFINE G == Group(keys, key)
             I == {j \in J : keys[j] = key}
  <2>1. CASE field = "n"
    <3>1. G = I
      BY <2>1 DEF Group
    <3> QED BY <2>1, <3>1 DEF Aggregate
  <2>2. CASE field = "mentions"
    <3>1. {i \in G : rows[i].mentioned} = I
      BY <2>2 DEF Group
    <3> QED BY <2>2, <3>1 DEF Aggregate
  <2>3. CASE field = "cited"
    <3>1. {i \in G : rows[i].cited} = I
      BY <2>3 DEF Group
    <3> QED BY <2>3, <3>1 DEF Aggregate
  <2>4. field = "n" \/ field = "mentions" \/ field = "cited"
    OBVIOUS
  <2> HIDE DEF J, G, I
  <2> QED BY <2>1, <2>2, <2>3, <2>4
<1>4. \A j \in J : keys[j] \in K
  BY <1>1 DEF Range
<1> HIDE DEF J
<1> DEFINE w == [key \in K |-> Aggregate(rows, Group(keys, key))[field]]
           u == [key \in K |-> Cardinality({j \in J : keys[j] = key})]
<1>5. w = u
  BY <1>3
<1>6. SumFunctionOnSet(u, K) = Cardinality(J)
  BY <1>1, <1>4, SumOfCounts
<1>7. DOMAIN w = K
  OBVIOUS
<1> HIDE DEF w, u
<1>8. SumFunction(w) = Cardinality(J)
  BY <1>5, <1>6, <1>7 DEF SumFunction
<1> QED BY <1>2, <1>8 DEF w

\* The facts about a row that its series relies on.
Placed(querySet, r) ==
  /\ r.mentioned \in BOOLEAN /\ r.position \in Nat
  /\ r.mentioned <=> r.position # NoPosition
  /\ r.competitors \subseteq DOMAIN querySet.competitors
  /\ Cardinality(r.competitors) \in Nat /\ r.position <= 1 + Cardinality(r.competitors)

\* A set is as large as the sum of ones over it.
LEMMA OnesAddUp ==
  ASSUME NEW S, IsFiniteSet(S), NEW w \in [S -> Nat]
  PROVE  /\ (\A s \in S : w[s] >= 1) => Cardinality(S) <= SumFunctionOnSet(w, S)
         /\ (\A s \in S : w[s] <= 1) => SumFunctionOnSet(w, S) <= Cardinality(S)
<1> DEFINE key == [s \in S |-> s]
<1>1. \A s \in S : Cardinality({j \in S : key[j] = s}) = 1
  <2> TAKE s \in S
  <2>1. {j \in S : key[j] = s} = {s}
    OBVIOUS
  <2> QED BY <2>1, FS_Singleton
<1>2. \A j \in S : key[j] \in S
  OBVIOUS
<1> HIDE DEF key
<1>3. /\ (\A s \in S : w[s] <= Cardinality({j \in S : key[j] = s})) => SumFunctionOnSet(w, S) <= Cardinality(S)
      /\ (\A s \in S : Cardinality({j \in S : key[j] = s}) <= w[s]) => Cardinality(S) <= SumFunctionOnSet(w, S)
  BY <1>2, SumCounts
<1> QED BY <1>1, <1>3

\* The competitors of the rows in P, row by row, are no more than the rows of G that name
\* each competitor: both count the pairs of a row and a competitor it names.
LEMMA NamesAddUp ==
  ASSUME NEW C, IsFiniteSet(C), NEW G, IsFiniteSet(G), NEW P \in SUBSET G, NEW named \in [G -> SUBSET C]
  PROVE  SumFunctionOnSet([i \in P |-> Cardinality(named[i])], P)
           <= SumFunctionOnSet([c \in C |-> Cardinality({i \in G : c \in named[i]})], C)
<1> DEFINE R == {r \in P \X C : r[2] \in named[r[1]]}
           first == [r \in R |-> r[1]]
           second == [r \in R |-> r[2]]
           v == [i \in P |-> Cardinality(named[i])]
           k == [c \in C |-> Cardinality({i \in G : c \in named[i]})]
<1>1. IsFiniteSet(P) /\ IsFiniteSet(R) /\ Cardinality(R) \in Nat
  <2>1. IsFiniteSet(P) /\ IsFiniteSet(P \X C)
    BY FS_Subset, FS_Product
  <2> QED BY <2>1, FS_Subset, FS_CardinalityType
<1>2. v \in [P -> Nat] /\ k \in [C -> Nat]
  <2>1. \A i \in P : Cardinality(named[i]) \in Nat
    BY FS_Subset, FS_CardinalityType
  <2>2. \A c \in C : Cardinality({i \in G : c \in named[i]}) \in Nat
    BY FS_Subset, FS_CardinalityType
  <2> QED BY <2>1, <2>2
<1>3. ASSUME NEW i \in P PROVE v[i] <= Cardinality({r \in R : first[r] = i})
  <2> DEFINE B == {r \in R : first[r] = i}
             f == [c \in named[i] |-> <<i, c>>]
  <2>1. IsFiniteSet(B)
    BY <1>1, FS_Subset
  <2>2. f \in [named[i] -> B] /\ \A x, y \in named[i] : f[x] = f[y] => x = y
    OBVIOUS
  <2>3. v[i] = Cardinality(named[i])
    OBVIOUS
  <2> HIDE DEF B, f, v
  <2>4. Cardinality(named[i]) <= Cardinality(B)
    BY <2>1, <2>2, NoLarger
  <2> QED BY <2>3, <2>4 DEF B
<1>4. ASSUME NEW c \in C PROVE Cardinality({r \in R : second[r] = c}) <= k[c]
  <2> DEFINE A == {r \in R : second[r] = c}
             B == {i \in G : c \in named[i]}
             f == [r \in A |-> r[1]]
  <2>1. IsFiniteSet(B)
    BY FS_Subset
  <2>2. f \in [A -> B]
    OBVIOUS
  <2>3. \A x, y \in A : f[x] = f[y] => x = y
    OBVIOUS
  <2>4. k[c] = Cardinality(B)
    OBVIOUS
  <2> HIDE DEF A, B, f, k
  <2>5. Cardinality(A) <= Cardinality(B)
    BY <2>1, <2>2, <2>3, NoLarger
  <2> QED BY <2>4, <2>5 DEF A
<1>5. \A r \in R : second[r] \in C
  OBVIOUS
<1> HIDE DEF R, first, second, v, k
<1>6. SumFunctionOnSet(v, P) \in Nat /\ SumFunctionOnSet(v, P) <= Cardinality(R)
  BY <1>1, <1>2, <1>3, SumCounts
<1>7. SumFunctionOnSet(k, C) \in Nat /\ Cardinality(R) <= SumFunctionOnSet(k, C)
  BY <1>1, <1>2, <1>4, <1>5, SumCounts
<1>8. SumFunctionOnSet(v, P) <= SumFunctionOnSet(k, C)
  BY <1>1, <1>6, <1>7
<1> QED BY <1>8 DEF v, k

\* In a series every mention has a place, the first at best and the last at worst.
LEMMA PlacesAddUp ==
  ASSUME NEW querySet, IsFiniteSet(DOMAIN querySet.competitors), NEW rows, NEW G, IsFiniteSet(G),
         \A i \in G : Placed(querySet, rows[i]), NEW s, s = Series(querySet, rows, G)
  PROVE  /\ s.positions = s.rates.mentions
         /\ s.positions <= s.places
         /\ s.places <= s.positions + SumFunction(s.competitors)
<1> DEFINE C == DOMAIN querySet.competitors
           P == {i \in G : rows[i].position # NoPosition}
           w == [i \in P |-> rows[i].position]
           u == [i \in P |-> 1]
           named == [i \in G |-> rows[i].competitors]
           v == [i \in P |-> Cardinality(named[i])]
           k == [c \in C |-> Cardinality({i \in G : c \in named[i]})]
<1>1. IsFiniteSet(P) /\ Cardinality(P) \in Nat
  BY FS_Subset, FS_CardinalityType
<1>2. s.positions = Cardinality(P) /\ s.places = SumFunctionOnSet(w, P)
  BY DEF Series
<1>3. s.rates.mentions = Cardinality(P)
  <2>1. P = {i \in G : rows[i].mentioned}
    BY DEF Placed
  <2> QED BY <2>1 DEF Series, Aggregate
<1>4. SumFunction(s.competitors) = SumFunctionOnSet(k, C)
  <2>1. s.competitors = [c \in C |-> Cardinality({i \in G : c \in rows[i].competitors})]
    BY DEF Series
  <2>2. \A c \in C : {i \in G : c \in rows[i].competitors} = {i \in G : c \in named[i]}
    OBVIOUS
  <2>3. s.competitors = k /\ DOMAIN s.competitors = C
    BY <2>1, <2>2
  <2> QED BY <2>3 DEF SumFunction
<1>5. w \in [P -> Nat] /\ u \in [P -> Nat] /\ v \in [P -> Nat] /\ named \in [G -> SUBSET C]
  BY DEF Placed
<1>6. ASSUME NEW i \in P PROVE w[i] >= 1 /\ u[i] = 1 /\ w[i] <= u[i] + v[i]
  BY DEF Placed, NoPosition
<1>7. SumFunctionOnSet(v, P) <= SumFunctionOnSet(k, C)
  <2>1. P \in SUBSET G
    OBVIOUS
  <2> HIDE DEF C, P, named
  <2> QED BY <1>5, <2>1, NamesAddUp DEF C
<1>8. k \in [C -> Nat]
  <2>1. \A c \in C : Cardinality({i \in G : c \in named[i]}) \in Nat
    BY FS_Subset, FS_CardinalityType
  <2> QED BY <2>1
<1>9. IsFiniteSet(C)
  OBVIOUS
<1> HIDE DEF C, P, w, u, v, k, named
<1>10. Cardinality(P) <= SumFunctionOnSet(w, P)
  BY <1>1, <1>5, <1>6, OnesAddUp
<1>11. SumFunctionOnSet(w, P) <= SumFunctionOnSet(u, P) + SumFunctionOnSet(v, P)
  BY <1>1, <1>5, <1>6, SumOfTwo
<1>12. SumFunctionOnSet(u, P) <= Cardinality(P)
  BY <1>1, <1>5, <1>6, OnesAddUp
<1>13. /\ SumFunctionOnSet(w, P) \in Nat /\ SumFunctionOnSet(u, P) \in Nat
       /\ SumFunctionOnSet(v, P) \in Nat
  BY <1>1, <1>5, SumCounts
<1>14. SumFunctionOnSet(k, C) \in Nat
  BY <1>8, <1>9, SumCounts
<1> QED BY <1>1, <1>2, <1>3, <1>4, <1>7, <1>10, <1>11, <1>12, <1>13, <1>14

\* The values of a function with a finite domain are finitely many.
LEMMA FiniteRange ==
  ASSUME NEW f, IsFiniteSet(DOMAIN f)
  PROVE  IsFiniteSet(Range(f))
<1>1. [x \in DOMAIN f |-> f[x]] \in Surjection(DOMAIN f, Range(f))
  BY DEF Surjection, Range
<1> QED BY <1>1, FS_Surjection

\* Two versions of a model that answered are a break of its series, named as the model is.
LEMMA BreaksShow ==
  ASSUME NEW rows, IsFiniteSet(DOMAIN rows), NEW M, NEW i \in DOMAIN rows, NEW j \in DOMAIN rows,
         rows[i].provider \in M, rows[i].model \in Seq(M), Len(rows[i].model) = 1,
         rows[i].provider = rows[j].provider, rows[i].model = rows[j].model,
         NoVersion \notin {rows[i].version, rows[j].version}, rows[i].version # rows[j].version
  PROVE  \E k \in Breaks(rows) :
           /\ k.provider = rows[i].provider /\ k.model = rows[i].model[1]
           /\ {rows[i].version, rows[j].version} \subseteq k.versions
<1> DEFINE key == <<rows[i].provider>> \o rows[i].model
           G == Group(ModelKeys(rows), key)
           In == Versions(rows, G)
           both == {rows[i].version, rows[j].version}
<1>1. ModelKeys(rows)[i] = key /\ i \in G /\ j \in G /\ G \subseteq DOMAIN rows
  BY DEF ModelKeys, Group
<1>2. both \subseteq In
  BY <1>1 DEF Versions
<1>3. IsFiniteSet(In) /\ Cardinality(In) \in Nat
  <2> DEFINE versions == [g \in G |-> rows[g].version]
  <2>1. IsFiniteSet(DOMAIN versions)
    BY <1>1, FS_Subset
  <2>2. In \subseteq Range(versions)
    BY DEF Versions, Range
  <2> HIDE DEF versions, In
  <2> QED BY <2>1, <2>2, FiniteRange, FS_Subset, FS_CardinalityType
<1>4. Cardinality(both) = 2
  <2>1. both = {rows[i].version} \cup {rows[j].version} /\ rows[j].version \notin {rows[i].version}
    OBVIOUS
  <2>2. IsFiniteSet({rows[i].version}) /\ Cardinality({rows[i].version}) = 1
    BY FS_Singleton
  <2>3. Cardinality({rows[i].version} \cup {rows[j].version}) = Cardinality({rows[i].version}) + 1
    BY <2>1, <2>2, FS_AddElement
  <2> QED BY <2>1, <2>2, <2>3
<1>5. Cardinality(In) > 1
  <2>1. Cardinality(both) <= Cardinality(In)
    BY <1>2, <1>3, FS_Subset
  <2> HIDE DEF both, In
  <2> QED BY <1>3, <1>4, <2>1
<1>6. key \in Range(ModelKeys(rows))
  <2>1. i \in DOMAIN ModelKeys(rows)
    BY DEF ModelKeys
  <2> HIDE DEF key
  <2> QED BY <1>1, <2>1 DEF Range
<1>7. key[1] = rows[i].provider /\ key[2] = rows[i].model[1]
  OBVIOUS
<1> DEFINE k == [provider |-> key[1], model |-> key[2], versions |-> In]
<1>8. k \in Breaks(rows)
  BY <1>5, <1>6 DEF Breaks
<1>9. /\ k.provider = rows[i].provider /\ k.model = rows[i].model[1]
      /\ {rows[i].version, rows[j].version} \subseteq k.versions
  BY <1>2, <1>7
<1> QED BY <1>8, <1>9

\* Whatever a query set asks and whatever models answer, the report counts each observation
\* once in each of its tables; a citation is one that the tool returned; a brand has a place
\* exactly when it is mentioned, at most the last among the competitors that are; and a
\* series breaks exactly when two versions answered (observatory/runner.ts report).
THEOREM ReportsAddUp ==
  ASSUME NEW querySet, IsFiniteSet(DOMAIN querySet.competitors), IsFiniteSet(DOMAIN querySet.intent),
         NEW W, NEW L, NEW M, NEW V, NEW answers \in Seq(AnswersTo(querySet, W, L, M, V))
  PROVE  AddsUp(querySet, answers)
<1> DEFINE rows == [i \in DOMAIN answers |-> Observe(querySet, answers[i])]
           report == MakeReport(querySet, rows)
           Total(table, field) == SumFunction([key \in DOMAIN table |-> table[key][field]])
           rates == [key \in DOMAIN report.queries |-> report.queries[key].rates]
<1>1. IsFiniteSet(DOMAIN answers) /\ DOMAIN rows = DOMAIN answers
  <2>1. DOMAIN answers = 1 .. Len(answers) /\ Len(answers) \in Nat
    OBVIOUS
  <2> QED BY <2>1, FS_Interval
<1>2. ASSUME NEW i \in DOMAIN answers
      PROVE  /\ answers[i] \in AnswersTo(querySet, W, L, M, V)
             /\ Placed(querySet, rows[i])
             /\ rows[i].cited => answers[i].tool # {}
             /\ rows[i].query = answers[i].query /\ rows[i].provider = answers[i].provider
             /\ rows[i].model = answers[i].model /\ rows[i].version = answers[i].version
  <2>1. answers[i] \in AnswersTo(querySet, W, L, M, V) /\ rows[i] = Observe(querySet, answers[i])
    OBVIOUS
  <2> HIDE DEF rows, report, Total, rates
  <2> DEFINE r == rows[i]
             a == answers[i]
  <2>2. a \in AnswersTo(querySet, W, L, M, V) /\ r = Observe(querySet, a)
    BY <2>1
  <2> HIDE DEF r, a
  <2>3. /\ r.mentioned \in BOOLEAN /\ r.position \in Nat
        /\ r.mentioned <=> r.position # NoPosition
        /\ r.competitors \subseteq DOMAIN querySet.competitors /\ IsFiniteSet(r.competitors)
        /\ Cardinality(r.competitors) \in Nat /\ r.position <= 1 + Cardinality(r.competitors)
        /\ r.cited => a.tool # {}
        /\ r.query = a.query /\ r.provider = a.provider /\ r.model = a.model /\ r.version = a.version
    BY <2>2, Observed, SMTT(30)
  <2>4. Placed(querySet, r)
    BY <2>3 DEF Placed
  <2> QED BY <2>2, <2>3, <2>4 DEF r, a
<1> HIDE DEF rows
<1> DEFINE models == ModelKeys(rows)
           series == SeriesKeys(rows)
           intents == Intents(querySet, rows)
<1>3. /\ report.overall = Aggregate(rows, DOMAIN rows)
      /\ report.perModel = [key \in Range(models) |-> Aggregate(rows, Group(models, key))]
      /\ report.perIntent = [key \in Range(querySet.intent) |-> Aggregate(rows, Group(intents, key))]
      /\ report.queries = [key \in Range(series) |-> Series(querySet, rows, Group(series, key))]
      /\ report.breaks = Breaks(rows)
  BY DEF MakeReport
<1>4. /\ DOMAIN models = DOMAIN rows /\ DOMAIN series = DOMAIN rows /\ DOMAIN intents = DOMAIN rows
      /\ IsFiniteSet(Range(models)) /\ IsFiniteSet(Range(series)) /\ IsFiniteSet(Range(querySet.intent))
      /\ Range(intents) \subseteq Range(querySet.intent)
  <2>1. DOMAIN models = DOMAIN rows /\ DOMAIN series = DOMAIN rows /\ DOMAIN intents = DOMAIN rows
    BY DEF ModelKeys, SeriesKeys, Intents
  <2>2. ASSUME NEW i \in DOMAIN intents PROVE intents[i] \in Range(querySet.intent)
    <3>1. rows[i].query \in DOMAIN querySet.intent /\ intents[i] = querySet.intent[rows[i].query]
      BY <1>1, <1>2, <2>1 DEF Intents, AnswersTo
    <3> QED BY <3>1 DEF Range
  <2> HIDE DEF models, series, intents
  <2>3. Range(intents) \subseteq Range(querySet.intent)
    BY <2>2 DEF Range
  <2> QED BY <1>1, <2>1, <2>3, FiniteRange
<1>5. rates = [key \in Range(series) |-> Aggregate(rows, Group(series, key))]
  BY <1>3 DEF Series
<1> HIDE DEF report, models, series, intents, rates
<1>6. ASSUME NEW field \in {"n", "mentions", "cited"}
      PROVE  /\ Total(report.perModel, field) = report.overall[field]
             /\ Total(report.perIntent, field) = report.overall[field]
             /\ Total(rates, field) = report.overall[field]
  <2>1. ASSUME NEW keys, DOMAIN keys = DOMAIN rows, NEW K, IsFiniteSet(K), Range(keys) \subseteq K,
               NEW table, table = [key \in K |-> Aggregate(rows, Group(keys, key))]
        PROVE  Total(table, field) = report.overall[field]
    <3>1. [key \in DOMAIN table |-> table[key][field]]
            = [key \in K |-> Aggregate(rows, Group(keys, key))[field]]
      BY <2>1
    <3>2. SumFunction([key \in K |-> Aggregate(rows, Group(keys, key))[field]])
            = Aggregate(rows, DOMAIN rows)[field]
      <4>1. IsFiniteSet(DOMAIN rows)
        BY <1>1
      <4> QED BY <2>1, <4>1, TablesAddUp, Zenon
    <3> QED BY <1>3, <3>1, <3>2
  <2> HIDE DEF Total
  <2>2. Total(report.perModel, field) = report.overall[field]
    BY <1>3, <1>4, <2>1
  <2>3. Total(report.perIntent, field) = report.overall[field]
    BY <1>3, <1>4, <2>1
  <2>4. Total(rates, field) = report.overall[field]
    BY <1>4, <1>5, <2>1
  <2> QED BY <2>2, <2>3, <2>4
<1>7. report.overall.cited <= Cardinality({i \in DOMAIN answers : answers[i].tool # {}})
  <2>1. report.overall.cited = Cardinality({i \in DOMAIN rows : rows[i].cited})
    BY <1>3 DEF Aggregate
  <2>2. {i \in DOMAIN rows : rows[i].cited} \subseteq {i \in DOMAIN answers : answers[i].tool # {}}
    BY <1>1, <1>2
  <2>3. IsFiniteSet({i \in DOMAIN answers : answers[i].tool # {}})
    BY <1>1, FS_Subset
  <2> QED BY <2>1, <2>2, <2>3, FS_Subset
<1>8. ASSUME NEW key \in DOMAIN report.queries
      PROVE  LET s == report.queries[key]
             IN  /\ s.positions = s.rates.mentions
                 /\ s.positions <= s.places
                 /\ s.places <= s.positions + SumFunction(s.competitors)
  <2> DEFINE G == Group(series, key)
             s == report.queries[key]
  <2>1. G \subseteq DOMAIN answers
    BY <1>1, <1>4 DEF Group
  <2>2. IsFiniteSet(G) /\ \A i \in G : Placed(querySet, rows[i])
    BY <1>1, <1>2, <2>1, FS_Subset
  <2>3. s = Series(querySet, rows, G)
    BY <1>3
  <2> HIDE DEF G, s
  <2>4. /\ s.positions = s.rates.mentions
        /\ s.positions <= s.places
        /\ s.places <= s.positions + SumFunction(s.competitors)
    BY <2>2, <2>3, PlacesAddUp
  <2> QED BY <2>4 DEF s
<1>9. ASSUME NEW i \in DOMAIN answers, NEW j \in DOMAIN answers,
             answers[i].provider = answers[j].provider, answers[i].model = answers[j].model,
             Len(answers[i].model) = 1, NoVersion \notin {answers[i].version, answers[j].version},
             answers[i].version # answers[j].version
      PROVE  \E k \in report.breaks :
               /\ k.provider = answers[i].provider /\ k.model = answers[i].model[1]
               /\ {answers[i].version, answers[j].version} \subseteq k.versions
  <2>1. /\ rows[i].provider = answers[i].provider /\ rows[i].model = answers[i].model
        /\ rows[i].version = answers[i].version
        /\ rows[j].provider = answers[j].provider /\ rows[j].model = answers[j].model
        /\ rows[j].version = answers[j].version
        /\ answers[i].provider \in M /\ answers[i].model \in Seq(M)
    BY <1>2 DEF AnswersTo
  <2>2. \E k \in Breaks(rows) :
          /\ k.provider = rows[i].provider /\ k.model = rows[i].model[1]
          /\ {rows[i].version, rows[j].version} \subseteq k.versions
    BY <1>1, <1>9, <2>1, BreaksShow
  <2> QED BY <1>3, <2>1, <2>2
<1>10. \A k \in report.breaks : Cardinality(k.versions) > 1
  BY <1>3 DEF Breaks
<1>11. ASSUME NEW field \in {"n", "mentions", "cited"}
       PROVE  /\ Total(report.perModel, field) = report.overall[field]
              /\ Total(report.perIntent, field) = report.overall[field]
              /\ Total([key \in DOMAIN report.queries |-> report.queries[key].rates], field)
                   = report.overall[field]
  BY <1>6 DEF rates
<1> QED BY <1>7, <1>8, <1>9, <1>10, <1>11, Zenon DEF AddsUp, rows, report

\* The answers of the tasks are answers to their query set.
LEMMA TaskAnswers ==
  ASSUME NEW t \in ReportTasks
  PROVE  t.answers \in Seq(AnswersTo(QuerySet, {"nova", "bank", "supernova", "other"}, {"ours"},
                                     {"p", "m", "meta"}, {NoVersion, "v1", "v2"}))
<1> DEFINE W == {"nova", "bank", "supernova", "other"}
           M == {"p", "m", "meta"}
           A == AnswersTo(QuerySet, W, {"ours"}, M, {NoVersion, "v1", "v2"})
<1>1. /\ {"q1"} \subseteq DOMAIN QuerySet.intent /\ {"q1", "q2"} \subseteq DOMAIN QuerySet.intent
      /\ <<"m">> \in Seq(M) /\ <<"meta", "m">> \in Seq(M) /\ "p" \in M
  BY DEF QuerySet
<1>2. SeqOf(W, 4) \subseteq Seq(W)
  <2> HIDE DEF W
  <2>1. ASSUME NEW words \in SeqOf(W, 4) PROVE words \in Seq(W)
    <3>1. PICK n \in 0 .. 4 : words \in [1 .. n -> W]
      BY <2>1 DEF SeqOf
    <3> QED BY <3>1
  <2> QED BY <2>1
<1>3. {<<>>, <<"bank", "nova">>, <<"nova", "bank">>} \subseteq Seq(W)
  OBVIOUS
<1> HIDE DEF W, M
<1>4. ASSUME NEW words \in SUBSET Seq(W), NEW queries \in SUBSET DOMAIN QuerySet.intent,
             NEW models \in SUBSET Seq(M)
      PROVE  Answers(words, queries, models) \subseteq A
  BY <1>1 DEF Answers, AnswersTo
<1>5. Answers(SeqOf({"nova", "bank", "supernova", "other"}, 4), {"q1"}, {<<"m">>}) \subseteq A
  BY <1>1, <1>2, <1>4 DEF W
<1>6. Answers({<<>>, <<"bank", "nova">>, <<"nova", "bank">>}, {"q1", "q2"}, {<<"m">>, <<"meta", "m">>}) \subseteq A
  BY <1>1, <1>3, <1>4
<1> HIDE DEF A
<1>7. \/ \E a \in A : t.answers = <<a>>
      \/ \E a, b \in A : t.answers = <<a, b>>
  <2> DEFINE B == Answers(SeqOf({"nova", "bank", "supernova", "other"}, 4), {"q1"}, {<<"m">>})
             C == Answers({<<>>, <<"bank", "nova">>, <<"nova", "bank">>}, {"q1", "q2"},
                          {<<"m">>, <<"meta", "m">>})
  <2>1. \/ t \in {[of |-> "report", answers |-> <<a>>] : a \in B}
        \/ t \in {[of |-> "report", answers |-> <<a, b>>] : a, b \in C}
    BY DEF ReportTasks
  <2> HIDE DEF B, C
  <2>2. (\E a \in B : t.answers = <<a>>) \/ (\E a, b \in C : t.answers = <<a, b>>)
    BY <2>1
  <2>3. B \subseteq A /\ C \subseteq A
    BY <1>5, <1>6 DEF B, C
  <2> QED BY <2>2, <2>3
<1>8. t.answers \in Seq(A)
  <2>1. ASSUME NEW a \in A, NEW b \in A PROVE <<a>> \in Seq(A) /\ <<a, b>> \in Seq(A)
    OBVIOUS
  <2> QED BY <1>7, <2>1
<1> QED BY <1>8 DEF A, W, M

\* In particular the reports of the tasks add up (observatory/runner.ts report).
THEOREM TaskReportsAddUp == Spec => []ReportAddsUp
<1> DEFINE Right == task.of = "report" => task \in ReportTasks
<1>1. Init => Right
  BY DEF Init, RobotsTasks, ChunkTasks, HtmlTasks, GroundingTasks, GateTasks, ReadinessTasks,
         ReportTasks, RenderTasks, AccessTasks
<1>2. Right /\ [Next]_<<task, answer>> => Right'
  BY DEF Next, Run
<1>3. Right => ReportAddsUp
  <2> SUFFICES ASSUME Right, Answered("report") PROVE AddsUp(QuerySet, task.answers)
    BY DEF ReportAddsUp
  <2>1. task.answers \in Seq(AnswersTo(QuerySet, {"nova", "bank", "supernova", "other"}, {"ours"},
                                       {"p", "m", "meta"}, {NoVersion, "v1", "v2"}))
    BY TaskAnswers DEF Answered
  <2>2. IsFiniteSet({"bank", "novabank"}) /\ IsFiniteSet({"q1", "q2"})
    <3>1. ASSUME NEW x, NEW y PROVE IsFiniteSet({x, y})
      <4>1. {x, y} = {x} \cup {y} /\ IsFiniteSet({x})
        BY FS_Singleton
      <4> QED BY <4>1, FS_AddElement
    <3> QED BY <3>1
  <2>3. DOMAIN QuerySet.competitors = {"bank", "novabank"} /\ DOMAIN QuerySet.intent = {"q1", "q2"}
    BY DEF QuerySet
  <2> QED BY <2>1, <2>2, <2>3, ReportsAddUp
<1> QED BY <1>1, <1>2, <1>3, PTL DEF Spec

-----------------------------------------------------------------------------
(* Rendering: the blocks of a page *)

\* A line of a draft whose footnotes have these ids.
LineWith(I) == [kind : Shown \cup {"blank"}] \cup [kind : {"footnote"}, id : I]

Kinds == Shown \cup {"blank", "footnote"}
Listed == {"ul", "ol"}
Slots == {"text", "list", "quote"}
Slot(kind) == IF kind \in Listed THEN "list" ELSE kind

\* The lines from lo to hi, and the block of a kind that shows them.
Numbers(lo, hi) == [k \in 1 .. hi - lo + 1 |-> lo + k - 1]
BlockOf(kind, lo, hi) ==
  [tag   |-> kind,
   items |-> IF kind \in Listed THEN [k \in 1 .. hi - lo + 1 |-> <<lo + k - 1>>] ELSE <<Numbers(lo, hi)>>]
Block == {BlockOf(kind, lo, hi) : kind \in Shown, lo \in Nat, hi \in Nat}

\* The lines from lo to hi make a block: they are of one kind, and the line before is not.
RunOf(lines, lo, hi) ==
  /\ lo \in 1 .. hi /\ hi \in 1 .. Len(lines)
  /\ lines[lo].kind \in Shown /\ \A k \in lo .. hi : lines[k].kind = lines[lo].kind
  /\ lines[lo].kind = "heading" => lo = hi
  /\ lo > 1 /\ lines[lo].kind \in Running => lines[lo - 1].kind # lines[lo].kind

\* The blocks show the lines up to n, each a run of them.
Stretch == [lo : Nat, hi : Nat]
Laid(lines, blocks, runs, n) ==
  /\ runs \in Seq(Stretch)
  /\ blocks = [b \in DOMAIN runs |-> BlockOf(lines[runs[b].lo].kind, runs[b].lo, runs[b].hi)]
  /\ \A b \in DOMAIN runs : RunOf(lines, runs[b].lo, runs[b].hi) /\ runs[b].hi <= n
  /\ \A b, c \in DOMAIN runs : b < c => runs[b].hi < runs[c].lo
  /\ \A i \in 1 .. n : lines[i].kind \in Shown =>
       \E b \in DOMAIN runs : runs[b].lo <= i /\ i <= runs[b].hi

\* The lines from m to n are open, and no other.
Opened(lines, s, m, n) ==
  /\ s.open = [b \in Slots |-> IF m <= n /\ b = Slot(lines[m].kind) THEN Numbers(m, n) ELSE <<>>]
  /\ m <= n => /\ RunOf(lines, m, n) /\ lines[m].kind \in Running
               /\ lines[m].kind \in Listed => s.list = lines[m].kind

\* The footnotes up to line n.
Noted(lines, I, footnotes, n) ==
  /\ footnotes \in Seq([id : I, line : Nat])
  /\ {footnotes[f].line : f \in DOMAIN footnotes} = {i \in 1 .. n : lines[i].kind = "footnote"}
  /\ \A f \in DOMAIN footnotes : footnotes[f].id = lines[footnotes[f].line].id
  /\ \A f, g \in DOMAIN footnotes : f < g => footnotes[f].line < footnotes[g].line

\* What is known of the state of the loop, whatever is open.
Stage(I) == [blocks : Seq(Block), footnotes : Seq([id : I, line : Nat]), list : Listed,
             open : [Slots -> Seq(Nat)]]

\* What stands in a sequence.
LEMMA ItemOf ==
  ASSUME NEW S, NEW s \in Seq(S)
  PROVE  \A i \in DOMAIN s : s[i] \in S
OBVIOUS

\* The next lines make one more block.
LEMMA BlocksGrow ==
  ASSUME NEW I, NEW lines \in Seq(LineWith(I)), NEW blocks, NEW runs, NEW m \in Nat, NEW n \in Nat,
         Laid(lines, blocks, runs, m - 1), RunOf(lines, m, n)
  PROVE  /\ Laid(lines, Append(blocks, BlockOf(lines[m].kind, m, n)), Append(runs, [lo |-> m, hi |-> n]), n)
         /\ blocks \in Seq(Block) /\ BlockOf(lines[m].kind, m, n) \in Block
<1> DEFINE run == [lo |-> m, hi |-> n]
           more == Append(runs, run)
           B(r) == BlockOf(lines[r.lo].kind, r.lo, r.hi)
<1>1. runs \in Seq(Stretch) /\ run \in Stretch /\ more \in Seq(Stretch) /\ run.lo = m /\ run.hi = n
  BY DEF Laid, Stretch
<1>2. /\ Len(runs) \in Nat /\ DOMAIN runs = 1 .. Len(runs)
      /\ DOMAIN more = 1 .. Len(runs) + 1 /\ more[Len(runs) + 1] = run
      /\ \A b \in DOMAIN runs : more[b] = runs[b] /\ b \in DOMAIN more
  BY <1>1
<1>3. 1 <= m /\ m <= n /\ n \in 1 .. Len(lines) /\ Len(lines) \in Nat
  BY DEF RunOf
<1>4. \A b \in DOMAIN runs : /\ RunOf(lines, runs[b].lo, runs[b].hi) /\ runs[b].hi <= m - 1
                             /\ runs[b].lo \in Nat /\ runs[b].hi \in Nat
  <2>1. \A b \in DOMAIN runs : runs[b] \in Stretch
    BY <1>1, ItemOf
  <2> QED BY <2>1 DEF Laid, Stretch
<1>5. \A b \in DOMAIN runs : B(runs[b]) \in Block
  <2> TAKE b \in DOMAIN runs
  <2>1. lines[runs[b].lo].kind \in Shown
    BY <1>4 DEF RunOf
  <2> QED BY <1>4, <2>1 DEF Block
<1>6. blocks = [b \in DOMAIN runs |-> B(runs[b])]
  BY DEF Laid
<1>7. B(run) = BlockOf(lines[m].kind, m, n) /\ B(run) \in Block
  <2>1. lines[m].kind \in Shown
    BY DEF RunOf
  <2> QED BY <1>1, <2>1 DEF Block
<1> HIDE DEF run, more, B
<1>8. blocks \in Seq(Block) /\ Len(blocks) = Len(runs)
  <2>1. blocks \in [1 .. Len(runs) -> Block]
    BY <1>2, <1>5, <1>6
  <2> QED BY <1>2, <2>1
<1>9. Append(blocks, B(run)) = [b \in DOMAIN more |-> B(more[b])]
  BY <1>2, <1>6, <1>7, <1>8
<1>10. \A b \in DOMAIN more : RunOf(lines, more[b].lo, more[b].hi) /\ more[b].hi <= n
  <2> TAKE b \in DOMAIN more
  <2>1. CASE b = Len(runs) + 1
    BY <1>1, <1>2, <1>3, <2>1
  <2>2. CASE b # Len(runs) + 1
    <3>1. b \in DOMAIN runs /\ more[b] = runs[b]
      BY <1>2, <2>2
    <3> QED BY <1>3, <1>4, <3>1
  <2> QED BY <2>1, <2>2
<1>11. \A b, c \in DOMAIN more : b < c => more[b].hi < more[c].lo
  <2> SUFFICES ASSUME NEW b \in DOMAIN more, NEW c \in DOMAIN more, b < c PROVE more[b].hi < more[c].lo
    OBVIOUS
  <2>1. b \in DOMAIN runs /\ more[b] = runs[b]
    BY <1>2
  <2>2. CASE c = Len(runs) + 1
    BY <1>1, <1>2, <1>3, <1>4, <2>1, <2>2
  <2>3. CASE c # Len(runs) + 1
    <3>1. c \in DOMAIN runs /\ more[c] = runs[c]
      BY <1>2, <2>3
    <3> QED BY <2>1, <3>1 DEF Laid
  <2> QED BY <2>2, <2>3
<1>12. \A i \in 1 .. n : lines[i].kind \in Shown =>
         \E b \in DOMAIN more : more[b].lo <= i /\ i <= more[b].hi
  <2> SUFFICES ASSUME NEW i \in 1 .. n, lines[i].kind \in Shown
               PROVE  \E b \in DOMAIN more : more[b].lo <= i /\ i <= more[b].hi
    OBVIOUS
  <2>1. CASE i >= m
    <3>1. Len(runs) + 1 \in DOMAIN more /\ more[Len(runs) + 1].lo <= i /\ i <= more[Len(runs) + 1].hi
      BY <1>1, <1>2, <1>3, <2>1
    <3> QED BY <3>1
  <2>2. CASE ~ (i >= m)
    <3>1. i \in 1 .. m - 1
      BY <1>3, <2>2
    <3>2. PICK b \in DOMAIN runs : runs[b].lo <= i /\ i <= runs[b].hi
      BY <3>1 DEF Laid
    <3> QED BY <1>2, <3>2
  <2> QED BY <2>1, <2>2
<1>13. Laid(lines, Append(blocks, B(run)), more, n)
  BY <1>1, <1>9, <1>10, <1>11, <1>12 DEF Laid, B
<1> QED BY <1>7, <1>8, <1>13 DEF more, run

\* A line that no block shows changes nothing.
LEMMA BlocksStay ==
  ASSUME NEW lines, NEW blocks, NEW runs, NEW n \in Nat, Laid(lines, blocks, runs, n),
         lines[n + 1].kind \notin Shown
  PROVE  Laid(lines, blocks, runs, n + 1)
<1>1. runs \in Seq(Stretch)
  BY DEF Laid
<1>2. \A b \in DOMAIN runs : RunOf(lines, runs[b].lo, runs[b].hi) /\ runs[b].hi <= n + 1
  <2>1. \A b \in DOMAIN runs : runs[b].hi \in Nat
    <3>1. \A b \in DOMAIN runs : runs[b] \in Stretch
      BY <1>1, ItemOf
    <3> QED BY <3>1 DEF Stretch
  <2> QED BY <2>1 DEF Laid
<1>3. \A i \in 1 .. n + 1 : lines[i].kind \in Shown => i \in 1 .. n
  OBVIOUS
<1> QED BY <1>1, <1>2, <1>3 DEF Laid

\* One more line at the end of those that are open.
LEMMA NumbersGrow ==
  ASSUME NEW m \in Nat, NEW n \in Nat, m <= n + 1
  PROVE  /\ Numbers(m, n) \in Seq(Nat)
         /\ Append(Numbers(m, n), n + 1) = Numbers(m, n + 1)
         /\ Numbers(m, n) # <<>> <=> m <= n
<1> DEFINE s == Numbers(m, n)
           t == Numbers(m, n + 1)
           k == n - m + 1
<1>1. k \in Nat /\ (n + 1) - m + 1 = k + 1
  OBVIOUS
<1>2. s \in [1 .. k -> Nat] /\ t \in [1 .. k + 1 -> Nat] /\ t[k + 1] = n + 1
      /\ \A i \in 1 .. k : t[i] = s[i]
  BY DEF Numbers
<1> HIDE DEF s, t
<1>3. s \in Seq(Nat) /\ Len(s) = k /\ t \in Seq(Nat) /\ Len(t) = k + 1
  <2> HIDE DEF k
  <2> QED BY <1>1, <1>2
<1>4. Append(s, n + 1) = t
  <2> HIDE DEF k
  <2> QED BY <1>1, <1>2, <1>3
<1>5. s # <<>> <=> m <= n
  BY <1>3
<1> QED BY <1>3, <1>4, <1>5 DEF s, t

\* All is written that was open in s, and nothing else has changed in t.
Closed(lines, I, s, t, n) ==
  /\ t \in Stage(I) /\ t.footnotes = s.footnotes /\ t.list = s.list
  /\ t.open = [b \in Slots |-> <<>>] /\ \E runs : Laid(lines, t.blocks, runs, n)

\* What is known of the loop after line n.
ReadSo(lines, I, s, n) ==
  /\ s \in Stage(I) /\ Noted(lines, I, s.footnotes, n)
  /\ \E m \in 1 .. n + 1 : /\ Opened(lines, s, m, n) /\ \E runs : Laid(lines, s.blocks, runs, m - 1)
                           /\ m = n + 1 /\ n > 0 => lines[n].kind \notin Running

\* A flush writes what is open of its own sort, and nothing else.
LEMMA FlushOne ==
  ASSUME NEW I, NEW lines \in Seq(LineWith(I)), NEW n \in 0 .. Len(lines), NEW m \in 1 .. n + 1,
         NEW s \in Stage(I), Opened(lines, s, m, n), NEW runs, Laid(lines, s.blocks, runs, m - 1),
         NEW b \in Slots
  PROVE  /\ m <= n /\ b = Slot(lines[m].kind) => Closed(lines, I, s, Flush(s, b), n)
         /\ ~ (m <= n /\ b = Slot(lines[m].kind)) => Flush(s, b) = s
<1>1. s.open[b] = IF m <= n /\ b = Slot(lines[m].kind) THEN Numbers(m, n) ELSE <<>>
  BY DEF Opened
<1>2. m \in Nat /\ n \in Nat /\ m - 1 \in Nat
  OBVIOUS
<1>3. ASSUME ~ (m <= n /\ b = Slot(lines[m].kind)) PROVE Flush(s, b) = s
  BY <1>1, <1>3 DEF Flush
<1>4. ASSUME m <= n, b = Slot(lines[m].kind) PROVE Closed(lines, I, s, Flush(s, b), n)
  <2> DEFINE block == BlockOf(lines[m].kind, m, n)
             t == Flush(s, b)
  <2>1. s.open[b] = Numbers(m, n) /\ s.open[b] # <<>> /\ RunOf(lines, m, n) /\ lines[m].kind \in Running
        /\ (lines[m].kind \in Listed => s.list = lines[m].kind)
    <3>1. Numbers(m, n) # <<>>
      <4>1. m <= n + 1 /\ m <= n
        BY <1>2, <1>4
      <4> QED BY <1>2, <4>1, NumbersGrow, Zenon
    <3> QED BY <1>1, <1>4, <3>1 DEF Opened
  <2>2. Written(s, b) = block
    <3>1. CASE lines[m].kind \in Listed
      <4>1. b = "list" /\ s.list = lines[m].kind
        BY <1>4, <2>1, <3>1 DEF Slot
      <4>2. DOMAIN Numbers(m, n) = 1 .. n - m + 1
            /\ \A k \in 1 .. n - m + 1 : Numbers(m, n)[k] = m + k - 1
        BY DEF Numbers
      <4>3. [k \in DOMAIN Numbers(m, n) |-> <<Numbers(m, n)[k]>>] = [k \in 1 .. n - m + 1 |-> <<m + k - 1>>]
        BY <4>2
      <4> QED BY <2>1, <3>1, <4>1, <4>3 DEF Written, BlockOf
    <3>2. CASE lines[m].kind \notin Listed
      <4>1. b = lines[m].kind /\ b # "list"
        BY <1>4, <2>1, <3>2 DEF Slot, Running, Listed
      <4> QED BY <2>1, <3>2, <4>1 DEF Written, BlockOf
    <3> QED BY <3>1, <3>2
  <2>3. /\ Laid(lines, Append(s.blocks, block), Append(runs, [lo |-> m, hi |-> n]), n)
        /\ s.blocks \in Seq(Block) /\ block \in Block
    BY <1>2, <2>1, BlocksGrow
  <2>4. t = [s EXCEPT !.blocks = Append(@, block), !.open[b] = <<>>]
    BY <2>1, <2>2 DEF Flush
  <2> HIDE DEF block
  <2>5. t.blocks = Append(s.blocks, block) /\ t.footnotes = s.footnotes /\ t.list = s.list
        /\ t.open = [s.open EXCEPT ![b] = <<>>]
    BY <2>4 DEF Stage
  <2>6. t.open = [c \in Slots |-> <<>>]
    <3>1. s.open = [c \in Slots |-> IF c = b THEN Numbers(m, n) ELSE <<>>]
      BY <1>4 DEF Opened
    <3> QED BY <2>5, <3>1
  <2>7. t \in Stage(I)
    <3>1. Append(s.blocks, block) \in Seq(Block) /\ [c \in Slots |-> <<>>] \in [Slots -> Seq(Nat)]
      BY <2>3
    <3>2. t = [blocks |-> t.blocks, footnotes |-> t.footnotes, list |-> t.list, open |-> t.open]
      BY <2>4 DEF Stage
    <3> HIDE DEF t
    <3> QED BY <2>5, <2>6, <3>1, <3>2 DEF Stage
  <2> HIDE DEF t
  <2>8. Closed(lines, I, s, t, n)
    BY <2>3, <2>5, <2>6, <2>7 DEF Closed
  <2> QED BY <2>8 DEF t
<1> QED BY <1>3, <1>4

\* When nothing is open, a flush changes nothing.
LEMMA FlushClosed ==
  ASSUME NEW I, NEW lines, NEW n, NEW s, NEW t, Closed(lines, I, s, t, n), NEW b \in Slots
  PROVE  Flush(t, b) = t
<1>1. t.open[b] = <<>>
  BY DEF Closed
<1> QED BY <1>1 DEF Flush

\* Two flushes write what is open, unless it is of the third sort.
LEMMA FlushTwo ==
  ASSUME NEW I, NEW lines \in Seq(LineWith(I)), NEW n \in 0 .. Len(lines), NEW m \in 1 .. n + 1,
         NEW s \in Stage(I), Opened(lines, s, m, n), NEW runs, Laid(lines, s.blocks, runs, m - 1),
         NEW a \in Slots, NEW b \in Slots, NEW c \in Slots, Slots = {a, b, c},
         a # b, a # c, b # c
  PROVE  IF m <= n /\ c = Slot(lines[m].kind) THEN Flush(Flush(s, a), b) = s
         ELSE Closed(lines, I, s, Flush(Flush(s, a), b), n)
<1> DEFINE of == Slot(lines[m].kind)
<1>1. m <= n => of \in Slots
  <2>1. m <= n => lines[m].kind \in Running
    BY DEF Opened
  <2> QED BY <2>1 DEF Slot, Slots, Running, Listed
<1>3. a # b /\ a # c /\ b # c
  OBVIOUS
<1>4. CASE m = n + 1
  <2>1. Flush(s, a) = s /\ Flush(s, b) = s
    BY <1>4, FlushOne
  <2>2. s.open = [d \in Slots |-> <<>>]
    BY <1>4 DEF Opened
  <2>3. Laid(lines, s.blocks, runs, n)
    BY <1>4
  <2> QED BY <1>4, <2>1, <2>2, <2>3 DEF Closed
<1>5. CASE m <= n /\ of = a
  <2>1. Closed(lines, I, s, Flush(s, a), n)
    BY <1>5, FlushOne
  <2>2. Flush(Flush(s, a), b) = Flush(s, a)
    BY <2>1, FlushClosed
  <2> QED BY <1>3, <1>5, <2>1, <2>2
<1>6. CASE m <= n /\ of = b
  <2>1. Flush(s, a) = s
    BY <1>3, <1>6, FlushOne
  <2>2. Closed(lines, I, s, Flush(s, b), n)
    BY <1>6, FlushOne
  <2> QED BY <1>3, <1>6, <2>1, <2>2
<1>7. CASE m <= n /\ of = c
  <2>1. Flush(s, a) = s /\ Flush(s, b) = s
    BY <1>3, <1>7, FlushOne
  <2> QED BY <1>7, <2>1
<1> HIDE DEF of
<1>8. m = n + 1 \/ m <= n
  OBVIOUS
<1> QED BY <1>1, <1>4, <1>5, <1>6, <1>7, <1>8

\* Three flushes write all that is open.
LEMMA FlushesAll ==
  ASSUME NEW I, NEW lines \in Seq(LineWith(I)), NEW n \in 0 .. Len(lines), NEW s, ReadSo(lines, I, s, n)
  PROVE  Closed(lines, I, s, FlushAll(s), n)
<1>1. PICK m \in 1 .. n + 1 : Opened(lines, s, m, n) /\ \E runs : Laid(lines, s.blocks, runs, m - 1)
  BY DEF ReadSo
<1>2. PICK runs : Laid(lines, s.blocks, runs, m - 1)
  BY <1>1
<1>3. s \in Stage(I)
  BY DEF ReadSo
<1> DEFINE u == Flush(Flush(s, "text"), "list")
<1>4. "text" \in Slots /\ "list" \in Slots /\ "quote" \in Slots /\ Slots = {"text", "list", "quote"}
  BY DEF Slots
<1>5. IF m <= n /\ "quote" = Slot(lines[m].kind) THEN u = s ELSE Closed(lines, I, s, u, n)
  BY <1>1, <1>2, <1>3, <1>4, FlushTwo
<1>6. FlushAll(s) = Flush(u, "quote")
  BY DEF FlushAll
<1> HIDE DEF u
<1>7. CASE m <= n /\ "quote" = Slot(lines[m].kind)
  <2>1. Closed(lines, I, s, Flush(s, "quote"), n)
    BY <1>1, <1>2, <1>3, <1>4, <1>7, FlushOne
  <2> QED BY <1>5, <1>6, <1>7, <2>1
<1>8. CASE ~ (m <= n /\ "quote" = Slot(lines[m].kind))
  <2>1. Closed(lines, I, s, u, n)
    BY <1>5, <1>8
  <2>2. Flush(u, "quote") = u
    BY <1>4, <2>1, FlushClosed
  <2> QED BY <1>6, <2>1, <2>2
<1> QED BY <1>7, <1>8

\* The kinds that a line may be of.
LEMMA KindsKnown ==
  ASSUME NEW I, NEW lines \in Seq(LineWith(I)), NEW i \in DOMAIN lines
  PROVE  lines[i].kind \in Kinds /\ (lines[i].kind = "footnote" => lines[i].id \in I)
<1>1. lines[i] \in LineWith(I)
  BY ItemOf
<1> QED BY <1>1 DEF LineWith, Kinds, Shown, Running

\* One more line: the definition of a footnote is noted, another line is not.
LEMMA NotesGrow ==
  ASSUME NEW I, NEW lines \in Seq(LineWith(I)), NEW n \in Nat, n + 1 \in DOMAIN lines, NEW notes,
         Noted(lines, I, notes, n)
  PROVE  IF lines[n + 1].kind = "footnote"
           THEN Noted(lines, I, Append(notes, [id |-> lines[n + 1].id, line |-> n + 1]), n + 1)
           ELSE Noted(lines, I, notes, n + 1)
<1>1. CASE lines[n + 1].kind # "footnote"
  <2>1. {i \in 1 .. n + 1 : lines[i].kind = "footnote"} = {i \in 1 .. n : lines[i].kind = "footnote"}
    BY <1>1
  <2> QED BY <1>1, <2>1 DEF Noted
<1>2. CASE lines[n + 1].kind = "footnote"
  <2> DEFINE note == [id |-> lines[n + 1].id, line |-> n + 1]
             N == [id : I, line : Nat]
             more == Append(notes, note)
  <2>1. note \in N /\ notes \in Seq(N) /\ note.line = n + 1 /\ note.id = lines[n + 1].id
    BY <1>2, KindsKnown DEF Noted
  <2> HIDE DEF note, N
  <2>2. /\ Len(notes) \in Nat /\ DOMAIN notes = 1 .. Len(notes) /\ more \in Seq(N)
        /\ DOMAIN more = 1 .. Len(notes) + 1 /\ more[Len(notes) + 1] = note
        /\ \A f \in DOMAIN notes : more[f] = notes[f] /\ f \in DOMAIN more
    BY <2>1
  <2>3. \A f \in DOMAIN notes : notes[f].line \in 1 .. n
    BY DEF Noted
  <2>4. {more[f].line : f \in DOMAIN more} = {i \in 1 .. n + 1 : lines[i].kind = "footnote"}
    <3>1. {more[f].line : f \in DOMAIN more} = {notes[f].line : f \in DOMAIN notes} \cup {n + 1}
      <4>1. \A f \in DOMAIN more : f \in DOMAIN notes \/ f = Len(notes) + 1
        BY <2>2
      <4>2. Len(notes) + 1 \in DOMAIN more
        BY <2>2
      <4> HIDE DEF more
      <4> QED BY <2>1, <2>2, <4>1, <4>2
    <3>2. {i \in 1 .. n + 1 : lines[i].kind = "footnote"}
            = {i \in 1 .. n : lines[i].kind = "footnote"} \cup {n + 1}
      BY <1>2
    <3> QED BY <3>1, <3>2 DEF Noted
  <2>5. \A f \in DOMAIN more : more[f].id = lines[more[f].line].id
    <3> TAKE f \in DOMAIN more
    <3>1. CASE f = Len(notes) + 1
      BY <2>1, <2>2, <3>1
    <3>2. CASE f # Len(notes) + 1
      <4>1. f \in DOMAIN notes /\ more[f] = notes[f]
        BY <2>2, <3>2
      <4> QED BY <4>1 DEF Noted
    <3> QED BY <3>1, <3>2
  <2>6. \A f, g \in DOMAIN more : f < g => more[f].line < more[g].line
    <3> SUFFICES ASSUME NEW f \in DOMAIN more, NEW g \in DOMAIN more, f < g
                 PROVE  more[f].line < more[g].line
      OBVIOUS
    <3>1. f \in DOMAIN notes /\ more[f] = notes[f]
      BY <2>2
    <3>2. CASE g = Len(notes) + 1
      BY <2>1, <2>2, <2>3, <3>1, <3>2
    <3>3. CASE g # Len(notes) + 1
      <4>1. g \in DOMAIN notes /\ more[g] = notes[g]
        BY <2>2, <3>3
      <4> QED BY <3>1, <4>1 DEF Noted
    <3> QED BY <3>2, <3>3
  <2> HIDE DEF more
  <2>7. Noted(lines, I, more, n + 1)
    BY <2>2, <2>4, <2>5, <2>6 DEF Noted, N
  <2> QED BY <1>2, <2>7 DEF more, note
<1> QED BY <1>1, <1>2

\* A line is added to what is open if it is of the same kind, and else to nothing open.
LEMMA LineAdded ==
  ASSUME NEW I, NEW lines \in Seq(LineWith(I)), NEW n \in Nat, n + 1 \in DOMAIN lines,
         NEW kind \in Running, lines[n + 1].kind = kind, NEW u \in Stage(I), Noted(lines, I, u.footnotes, n),
         kind \in Listed => u.list = kind,
         \/ \E m \in 1 .. n : /\ Opened(lines, u, m, n) /\ lines[m].kind = kind
                              /\ \E runs : Laid(lines, u.blocks, runs, m - 1)
         \/ /\ u.open = [b \in Slots |-> <<>>] /\ \E runs : Laid(lines, u.blocks, runs, n)
            /\ n > 0 => lines[n].kind # kind
  PROVE  ReadSo(lines, I, Add(u, Slot(kind), n + 1), n + 1)
<1> DEFINE b == Slot(kind)
           t == Add(u, b, n + 1)
<1>1. b \in Slots /\ kind # "footnote" /\ kind # "heading" /\ kind \in Shown
  BY DEF Slot, Slots, Running, Listed, Shown
<1> HIDE DEF b
<1> SUFFICES ReadSo(lines, I, t, n + 1)
  BY DEF b
<1>2. /\ t = [u EXCEPT !.open = t.open]
      /\ t.open = [u.open EXCEPT ![b] = Append(@, n + 1)]
  BY DEF Add, Stage
<1> HIDE DEF t
<1>3. t.blocks = u.blocks /\ t.footnotes = u.footnotes /\ t.list = u.list
  BY <1>2 DEF Stage
<1>4. Noted(lines, I, t.footnotes, n + 1)
  BY <1>1, <1>3, NotesGrow
<1>5. t \in Stage(I)
  <2>1. u.open \in [Slots -> Seq(Nat)] /\ Append(u.open[b], n + 1) \in Seq(Nat)
    BY <1>1 DEF Stage
  <2>2. t.open \in [Slots -> Seq(Nat)]
    BY <1>1, <1>2, <2>1
  <2> DEFINE o == t.open
  <2>3. t = [u EXCEPT !.open = o] /\ o \in [Slots -> Seq(Nat)]
    BY <1>2, <2>2
  <2> HIDE DEF o
  <2> QED BY <2>3 DEF Stage
<1>6. n + 1 \in 1 .. Len(lines) /\ Len(lines) \in Nat
  OBVIOUS
<1>7. ASSUME NEW m \in 1 .. n + 1, NEW runs, Laid(lines, u.blocks, runs, m - 1), RunOf(lines, m, n + 1),
             lines[m].kind = kind, t.open = [c \in Slots |-> IF c = b THEN Numbers(m, n + 1) ELSE <<>>]
      PROVE  ReadSo(lines, I, t, n + 1)
  <2>1. m <= n + 1 /\ m # (n + 1) + 1 /\ m \in 1 .. (n + 1) + 1
    OBVIOUS
  <2>2. Opened(lines, t, m, n + 1)
    <3>1. t.open = [c \in Slots |-> IF m <= n + 1 /\ c = Slot(lines[m].kind) THEN Numbers(m, n + 1) ELSE <<>>]
      BY <1>7, <2>1 DEF b
    <3> QED BY <1>3, <1>7, <3>1 DEF Opened
  <2>3. Laid(lines, t.blocks, runs, m - 1)
    BY <1>3, <1>7
  <2> QED BY <1>4, <1>5, <2>1, <2>2, <2>3 DEF ReadSo
<1>8. CASE \E m \in 1 .. n : /\ Opened(lines, u, m, n) /\ lines[m].kind = kind
                             /\ \E runs : Laid(lines, u.blocks, runs, m - 1)
  <2>1. PICK m \in 1 .. n : /\ Opened(lines, u, m, n) /\ lines[m].kind = kind
                            /\ \E runs : Laid(lines, u.blocks, runs, m - 1)
    BY <1>8
  <2>2. PICK runs : Laid(lines, u.blocks, runs, m - 1)
    BY <2>1
  <2>3. m \in Nat /\ m <= n /\ m <= n + 1 /\ m \in 1 .. n + 1
    OBVIOUS
  <2>4. u.open = [c \in Slots |-> IF c = b THEN Numbers(m, n) ELSE <<>>] /\ RunOf(lines, m, n)
    BY <2>1, <2>3 DEF Opened, b
  <2>5. RunOf(lines, m, n + 1)
    <3>1. \A k \in m .. n + 1 : lines[k].kind = lines[m].kind
      <4>1. \A k \in m .. n + 1 : k = n + 1 \/ k \in m .. n
        OBVIOUS
      <4> QED BY <2>1, <2>4, <4>1 DEF RunOf
    <3>2. lines[m].kind # "heading"
      BY <1>1, <2>1
    <3> QED BY <1>6, <2>3, <2>4, <3>1, <3>2 DEF RunOf
  <2>6. Append(Numbers(m, n), n + 1) = Numbers(m, n + 1)
    BY <2>3, NumbersGrow, Zenon
  <2>7. t.open = [c \in Slots |-> IF c = b THEN Numbers(m, n + 1) ELSE <<>>]
    BY <1>1, <1>2, <2>4, <2>6
  <2> QED BY <1>7, <2>1, <2>2, <2>3, <2>5, <2>7
<1>9. CASE /\ u.open = [c \in Slots |-> <<>>] /\ \E runs : Laid(lines, u.blocks, runs, n)
           /\ n > 0 => lines[n].kind # kind
  <2>1. PICK runs : Laid(lines, u.blocks, runs, (n + 1) - 1)
    <3>1. (n + 1) - 1 = n
      OBVIOUS
    <3> QED BY <1>9, <3>1
  <2>2. RunOf(lines, n + 1, n + 1)
    <3>1. \A k \in n + 1 .. n + 1 : k = n + 1
      OBVIOUS
    <3>2. n + 1 > 1 => n > 0 /\ (n + 1) - 1 = n
      OBVIOUS
    <3> QED BY <1>1, <1>6, <1>9, <3>1, <3>2 DEF RunOf
  <2>3. Append(<<>>, n + 1) = Numbers(n + 1, n + 1)
    BY DEF Numbers
  <2>4. t.open = [c \in Slots |-> IF c = b THEN Numbers(n + 1, n + 1) ELSE <<>>]
    BY <1>1, <1>2, <1>9, <2>3
  <2>5. n + 1 \in 1 .. n + 1
    OBVIOUS
  <2> QED BY <1>7, <2>1, <2>2, <2>4, <2>5
<1> QED BY <1>8, <1>9

\* A line that stands in no list, paragraph or quotation writes all that is open.
LEMMA LineApart ==
  ASSUME NEW I, NEW lines \in Seq(LineWith(I)), NEW n \in Nat, n + 1 \in DOMAIN lines,
         lines[n + 1].kind \notin Running, NEW t \in Stage(I), t.open = [b \in Slots |-> <<>>],
         Noted(lines, I, t.footnotes, n + 1), NEW runs, Laid(lines, t.blocks, runs, n + 1)
  PROVE  ReadSo(lines, I, t, n + 1)
<1>1. n + 2 \in 1 .. (n + 1) + 1 /\ ~ (n + 2 <= n + 1) /\ (n + 2) - 1 = n + 1
  OBVIOUS
<1>2. Opened(lines, t, n + 2, n + 1)
  BY <1>1 DEF Opened
<1>3. Laid(lines, t.blocks, runs, (n + 2) - 1)
  BY <1>1
<1> QED BY <1>1, <1>2, <1>3 DEF ReadSo

\* One more line is read: it is laid with the lines like it before, or apart.
LEMMA LineLaid ==
  ASSUME NEW I, NEW lines \in Seq(LineWith(I)), NEW n \in Nat, n + 1 \in DOMAIN lines, NEW s,
         ReadSo(lines, I, s, n)
  PROVE  ReadSo(lines, I, ReadLine(s, n + 1, lines[n + 1]), n + 1)
<1> DEFINE line == lines[n + 1]
           kind == line.kind
           t == ReadLine(s, n + 1, line)
<1> SUFFICES ReadSo(lines, I, t, n + 1)
  OBVIOUS
<1>1. n \in 0 .. Len(lines) /\ n + 1 \in 1 .. Len(lines) /\ Len(lines) \in Nat
  OBVIOUS
<1>2. kind \in Kinds /\ (kind = "footnote" => line.id \in I)
  BY KindsKnown
<1>3. Noted(lines, I, s.footnotes, n) /\ s \in Stage(I)
  BY DEF ReadSo
<1> DEFINE u == FlushAll(s)
<1>4. Closed(lines, I, s, u, n)
  BY <1>1, FlushesAll
<1>5. PICK runs : Laid(lines, u.blocks, runs, n)
  BY <1>4 DEF Closed
<1>6. /\ u \in Stage(I) /\ u.footnotes = s.footnotes /\ u.open = [b \in Slots |-> <<>>]
  BY <1>4 DEF Closed
<1> HIDE DEF u, line
<1>7. CASE kind = "blank"
  <2>1. t = u
    BY <1>7 DEF ReadLine, u
  <2>2. Laid(lines, u.blocks, runs, n + 1)
    BY <1>5, <1>7, BlocksStay DEF line, Shown, Running
  <2>3. Noted(lines, I, u.footnotes, n + 1)
    BY <1>3, <1>6, <1>7, NotesGrow DEF line
  <2>4. kind \notin Running
    BY <1>7 DEF Running
  <2> QED BY <1>6, <2>1, <2>2, <2>3, <2>4, LineApart DEF line
<1>8. CASE kind = "footnote"
  <2> DEFINE note == [id |-> line.id, line |-> n + 1]
             N == [id : I, line : Nat]
             notes == Append(u.footnotes, note)
             v == [u EXCEPT !.footnotes = notes]
  <2>1. t = v
    BY <1>8 DEF ReadLine, u
  <2>2. notes \in Seq(N)
    <3>1. note \in N /\ u.footnotes \in Seq(N)
      BY <1>2, <1>6, <1>8 DEF Stage
    <3> HIDE DEF note, N
    <3> QED BY <3>1
  <2>3. Noted(lines, I, notes, n + 1)
    BY <1>3, <1>6, <1>8, NotesGrow DEF line
  <2> HIDE DEF notes
  <2>4. v \in Stage(I) /\ v.blocks = u.blocks /\ v.footnotes = notes /\ v.open = u.open
    BY <1>6, <2>2 DEF Stage
  <2>5. Laid(lines, u.blocks, runs, n + 1)
    BY <1>5, <1>8, BlocksStay DEF line, Shown, Running
  <2>6. kind \notin Running
    BY <1>8 DEF Running
  <2> HIDE DEF v
  <2> QED BY <1>6, <2>1, <2>3, <2>4, <2>5, <2>6, LineApart DEF line
<1>9. CASE kind = "heading"
  <2> DEFINE block == [tag |-> "heading", items |-> <<<<n + 1>>>>]
             blocks == Append(u.blocks, block)
             v == [u EXCEPT !.blocks = blocks]
             more == Append(runs, [lo |-> n + 1, hi |-> n + 1])
  <2>1. t = v
    BY <1>9 DEF ReadLine, u
  <2>2. RunOf(lines, n + 1, n + 1)
    <3>1. \A k \in n + 1 .. n + 1 : k = n + 1
      OBVIOUS
    <3>2. n + 1 \in 1 .. n + 1
      OBVIOUS
    <3> QED BY <1>1, <1>9, <3>1, <3>2 DEF RunOf, Shown, Running, line
  <2>3. BlockOf(kind, n + 1, n + 1) = block
    <3>1. Numbers(n + 1, n + 1) = <<n + 1>>
      BY DEF Numbers
    <3> QED BY <1>9, <3>1 DEF BlockOf, Listed
  <2>4. Laid(lines, blocks, more, n + 1) /\ u.blocks \in Seq(Block) /\ block \in Block
    <3>1. n + 1 \in Nat /\ (n + 1) - 1 = n
      OBVIOUS
    <3>2. Laid(lines, u.blocks, runs, (n + 1) - 1)
      BY <1>5, <3>1
    <3>3. /\ Laid(lines, Append(u.blocks, BlockOf(lines[n + 1].kind, n + 1, n + 1)), more, n + 1)
          /\ u.blocks \in Seq(Block) /\ BlockOf(lines[n + 1].kind, n + 1, n + 1) \in Block
      BY <2>2, <3>1, <3>2, BlocksGrow, Zenon
    <3>4. BlockOf(lines[n + 1].kind, n + 1, n + 1) = block
      BY <2>3 DEF line
    <3> HIDE DEF block
    <3> QED BY <3>3, <3>4
  <2> HIDE DEF block
  <2>5. blocks \in Seq(Block)
    BY <2>4
  <2> HIDE DEF blocks
  <2>6. v \in Stage(I) /\ v.blocks = blocks /\ v.footnotes = u.footnotes /\ v.open = u.open
    BY <1>6, <2>5 DEF Stage
  <2>7. Noted(lines, I, u.footnotes, n + 1)
    BY <1>3, <1>6, <1>9, NotesGrow DEF line
  <2>8. kind \notin Running
    BY <1>9 DEF Running
  <2> HIDE DEF v
  <2> QED BY <1>6, <2>1, <2>4, <2>6, <2>7, <2>8, LineApart DEF line
<1>10. CASE kind \in Running
  <2>1. PICK m \in 1 .. n + 1 : /\ Opened(lines, s, m, n) /\ \E r : Laid(lines, s.blocks, r, m - 1)
                                /\ m = n + 1 /\ n > 0 => lines[n].kind \notin Running
    BY DEF ReadSo
  <2>2. PICK before : Laid(lines, s.blocks, before, m - 1)
    BY <2>1
  <2> DEFINE Same == m <= n /\ lines[m].kind = kind
  <2>3. m <= n => lines[m].kind \in Running /\ lines[n].kind = lines[m].kind
                  /\ (lines[m].kind \in Listed => s.list = lines[m].kind)
    <3>1. m <= n => n \in m .. n
      OBVIOUS
    <3> QED BY <2>1, <3>1 DEF Opened, RunOf
  <2>4. ASSUME ~ Same PROVE n > 0 => lines[n].kind # kind
    <3>1. m = n + 1 \/ m <= n
      OBVIOUS
    <3> QED BY <1>10, <2>1, <2>3, <2>4, <3>1
  <2>5. ASSUME NEW v \in Stage(I), v.footnotes = s.footnotes, kind \in Listed => v.list = kind,
               IF Same THEN v.open = s.open /\ v.blocks = s.blocks
               ELSE v.open = [b \in Slots |-> <<>>] /\ \E r : Laid(lines, v.blocks, r, n)
        PROVE  ReadSo(lines, I, Add(v, Slot(kind), n + 1), n + 1)
    <3>1. Noted(lines, I, v.footnotes, n)
      BY <1>3, <2>5
    <3>2. CASE Same
      <4>1. m \in 1 .. n
        BY <3>2
      <4>2. Opened(lines, v, m, n)
        BY <2>1, <2>5, <3>2 DEF Opened
      <4>3. Laid(lines, v.blocks, before, m - 1)
        BY <2>2, <2>5, <3>2
      <4> QED BY <1>10, <2>5, <3>1, <3>2, <4>1, <4>2, <4>3, LineAdded DEF line
    <3>3. CASE ~ Same
      <4>1. n > 0 => lines[n].kind # kind
        BY <2>4, <3>3
      <4> QED BY <1>10, <2>5, <3>1, <3>3, <4>1, LineAdded DEF line
    <3> QED BY <3>2, <3>3
  <2>6. Slots = {"text", "list", "quote"}
    BY DEF Slots
  <2>0. Opened(lines, s, m, n)
    BY <2>1
  <2>7. ASSUME NEW a \in Slots, NEW b \in Slots, NEW c \in Slots, Slots = {a, b, c}, a # b, a # c, b # c
        PROVE  IF m <= n /\ c = Slot(lines[m].kind) THEN Flush(Flush(s, a), b) = s
               ELSE Closed(lines, I, s, Flush(Flush(s, a), b), n)
    BY <1>1, <1>3, <2>0, <2>2, <2>7, FlushTwo, Zenon
  <2>10. ASSUME NEW b \in Slots
         PROVE  m <= n /\ b = Slot(lines[m].kind) => Closed(lines, I, s, Flush(s, b), n)
    BY <1>1, <1>3, <2>0, <2>2, FlushOne
  <2>8. CASE kind \in {"text", "quote"}
    <3> DEFINE other == IF kind = "text" THEN "quote" ELSE "text"
               v == IF kind = "text" THEN Flush(Flush(s, "list"), "quote")
                                     ELSE Flush(Flush(s, "text"), "list")
    <3>1. t = Add(v, kind, n + 1) /\ kind = Slot(kind) /\ kind \notin Listed
      BY <2>8 DEF ReadLine, Slot, Listed
    <3>2. IF m <= n /\ kind = Slot(lines[m].kind) THEN v = s ELSE Closed(lines, I, s, v, n)
      <4>1. CASE kind = "text"
        <5>1. {"list", "quote", "text"} = Slots /\ {"list", "quote", "text"} \subseteq Slots
          BY <2>6
        <5>2. v = Flush(Flush(s, "list"), "quote")
          BY <4>1
        <5> QED BY <2>7, <4>1, <5>1, <5>2
      <4>2. CASE kind = "quote"
        <5>1. {"text", "list", "quote"} = Slots /\ {"list", "quote", "text"} \subseteq Slots
          BY <2>6
        <5>2. v = Flush(Flush(s, "text"), "list")
          BY <4>2
        <5> QED BY <2>7, <4>2, <5>1, <5>2
      <4> QED BY <2>8, <4>1, <4>2
    <3>3. m <= n => (kind = Slot(lines[m].kind) <=> lines[m].kind = kind)
      BY <2>3, <2>8 DEF Slot, Listed
    <3> HIDE DEF v
    <3>4. /\ v \in Stage(I) /\ v.footnotes = s.footnotes
          /\ IF Same THEN v.open = s.open /\ v.blocks = s.blocks
             ELSE v.open = [b \in Slots |-> <<>>] /\ \E r : Laid(lines, v.blocks, r, n)
      BY <1>3, <3>2, <3>3 DEF Closed
    <3> HIDE DEF Same
    <3> QED BY <2>5, <3>1, <3>4
  <2>9. CASE kind \in Listed
    <3> DEFINE f == Flush(Flush(s, "text"), "quote")
               v == IF f.list = kind THEN f ELSE [Flush(f, "list") EXCEPT !.list = kind]
    <3>1. t = Add(v, "list", n + 1) /\ Slot(kind) = "list"
      BY <2>9 DEF ReadLine, Item, Slot, Listed
    <3>2. IF m <= n /\ "list" = Slot(lines[m].kind) THEN f = s ELSE Closed(lines, I, s, f, n)
      <4>1. {"text", "quote", "list"} = Slots /\ {"list", "quote", "text"} \subseteq Slots
        BY <2>6
      <4> QED BY <2>7, <4>1
    <3>3. m <= n => ("list" = Slot(lines[m].kind) <=> lines[m].kind \in Listed)
      BY <2>3 DEF Slot, Running, Listed
    <3> HIDE DEF f
    <3>4. CASE m <= n /\ lines[m].kind \in Listed
      <4>1. f = s /\ s.list = lines[m].kind
        BY <2>3, <3>2, <3>3, <3>4
      <4>2. CASE lines[m].kind = kind
        <5>1. v = s /\ Same
          BY <3>4, <4>1, <4>2
        <5> HIDE DEF v, Same
        <5> QED BY <1>3, <2>5, <3>1, <4>1, <4>2, <5>1
      <4>3. CASE lines[m].kind # kind
        <5> DEFINE c == Flush(s, "list")
        <5>1. v = [c EXCEPT !.list = kind] /\ ~ Same
          BY <4>1, <4>3
        <5>2. Closed(lines, I, s, c, n)
          <6>1. "list" \in Slots /\ "list" = Slot(lines[m].kind) /\ m <= n
            BY <2>6, <3>3, <3>4
          <6> QED BY <2>10, <6>1
        <5> HIDE DEF c, v, Same
        <5>3. /\ v \in Stage(I) /\ v.footnotes = s.footnotes /\ v.list = kind
              /\ v.open = [b \in Slots |-> <<>>] /\ v.blocks = c.blocks
          BY <2>9, <5>1, <5>2 DEF Closed, Stage
        <5>4. \E r : Laid(lines, v.blocks, r, n)
          BY <5>2, <5>3 DEF Closed
        <5> QED BY <2>5, <3>1, <5>1, <5>3, <5>4
      <4> QED BY <4>2, <4>3
    <3>5. CASE ~ (m <= n /\ lines[m].kind \in Listed)
      <4>1. Closed(lines, I, s, f, n) /\ ~ Same
        BY <2>9, <3>2, <3>3, <3>5
      <4>2. Flush(f, "list") = f
        BY <2>6, <4>1, FlushClosed
      <4>3. f \in Stage(I) /\ f.footnotes = s.footnotes /\ f.open = [b \in Slots |-> <<>>]
            /\ \E r : Laid(lines, f.blocks, r, n)
        BY <4>1 DEF Closed
      <4>4. v = f \/ v = [f EXCEPT !.list = kind]
        BY <4>2
      <4>5. v.list = kind
        BY <4>2, <4>3 DEF Stage
      <4> HIDE DEF v, Same
      <4>6. /\ v \in Stage(I) /\ v.footnotes = s.footnotes /\ v.blocks = f.blocks
            /\ v.open = [b \in Slots |-> <<>>]
        BY <2>9, <4>3, <4>4 DEF Stage
      <4> QED BY <2>5, <3>1, <4>1, <4>3, <4>5, <4>6
    <3> QED BY <3>4, <3>5
  <2> QED BY <1>10, <2>8, <2>9 DEF Running, Listed
<1>11. kind = "blank" \/ kind = "footnote" \/ kind = "heading" \/ kind \in Running
  BY <1>2 DEF Kinds, Shown, Running
<1> QED BY <1>7, <1>8, <1>9, <1>10, <1>11

\* The page of a draft shows all of its lines in runs, but for its footnotes.
LEMMA PageLaid ==
  ASSUME NEW I, NEW draft, draft.lines \in Seq(LineWith(I))
  PROVE  LET page == MarkdownToHtml(draft)
         IN  /\ page.text = draft.text
             /\ \E runs : Laid(draft.lines, page.blocks, runs, Len(draft.lines))
             /\ Noted(draft.lines, I, page.footnotes, Len(draft.lines))
<1> DEFINE lines == draft.lines
           Turn(g, n) == IF n = 0 THEN Nothing ELSE ReadLine(g[n - 1], n, lines[n])
           Turns(g, N) == g = [n \in 0 .. N |-> Turn(g, n)]
           P == {N \in Nat : \E g : Turns(g, N)}
<1>1. 0 \in P
  <2> DEFINE g == [n \in 0 .. 0 |-> Nothing]
  <2>1. Turns(g, 0)
    OBVIOUS
  <2> HIDE DEF Turns
  <2> QED BY <2>1
<1>2. ASSUME NEW N \in Nat, N \in P PROVE N + 1 \in P
  <2>1. PICK g : Turns(g, N)
    BY <1>2
  <2> DEFINE next == ReadLine(g[N], N + 1, lines[N + 1])
             h == [n \in 0 .. N + 1 |-> IF n = N + 1 THEN next ELSE g[n]]
  <2>2. \A n \in 0 .. N : g[n] = Turn(g, n)
    BY <2>1
  <2>3. \A n \in 0 .. N + 1 : h[n] = Turn(h, n)
    <3> TAKE n \in 0 .. N + 1
    <3>1. CASE n = N + 1
      BY <3>1
    <3>2. CASE n # N + 1
      <4>1. n \in 0 .. N /\ (n # 0 => n - 1 \in 0 .. N + 1 /\ n - 1 # N + 1)
        BY <3>2
      <4>2. h[n] = Turn(g, n) /\ (n # 0 => h[n - 1] = g[n - 1])
        BY <2>2, <4>1
      <4> QED BY <4>2
    <3> QED BY <3>1, <3>2
  <2>4. Turns(h, N + 1)
    BY <2>3
  <2> HIDE DEF Turns
  <2> QED BY <2>4
<1>3. Len(lines) \in Nat /\ DOMAIN lines = 1 .. Len(lines)
  OBVIOUS
<1> HIDE DEF P
<1>4. Len(lines) \in P
  BY <1>1, <1>2, <1>3, EveryNumber
<1>5. \E g : Turns(g, Len(lines))
  BY <1>4 DEF P
<1> DEFINE read == CHOOSE g : Turns(g, Len(lines))
           all == FlushAll(read[Len(lines)])
<1>6. Turns(read, Len(lines))
  BY <1>5
<1>7. MarkdownToHtml(draft) = [text |-> draft.text, blocks |-> all.blocks, footnotes |-> all.footnotes]
  BY DEF MarkdownToHtml
<1>8. \A n \in 0 .. Len(lines) : read[n] = Turn(read, n)
  BY <1>6
<1> HIDE DEF read
<1> DEFINE Q == {n \in Nat : n <= Len(lines) => ReadSo(lines, I, read[n], n)}
<1>9. 0 \in Q
  <2>1. read[0] = Nothing
    BY <1>3, <1>8
  <2>2. /\ Nothing.blocks = <<>> /\ Nothing.footnotes = <<>>
        /\ Nothing.open = [b \in Slots |-> <<>>] /\ Nothing \in Stage(I)
    BY DEF Nothing, Stage, Slots, Listed
  <2>3. Noted(lines, I, <<>>, 0)
    BY DEF Noted
  <2>4. Laid(lines, <<>>, <<>>, 0)
    BY DEF Laid
  <2>5. Opened(lines, Nothing, 1, 0)
    BY <2>2 DEF Opened
  <2>6. 1 \in 1 .. 0 + 1 /\ 1 - 1 = 0 /\ ~ (0 > 0)
    OBVIOUS
  <2>7. Laid(lines, Nothing.blocks, <<>>, 1 - 1)
    BY <2>2, <2>4, <2>6
  <2>8. ReadSo(lines, I, Nothing, 0)
    BY <2>2, <2>3, <2>5, <2>6, <2>7 DEF ReadSo
  <2> QED BY <2>1, <2>8
<1>10. ASSUME NEW n \in Nat, n \in Q PROVE n + 1 \in Q
  <2> SUFFICES ASSUME n + 1 <= Len(lines) PROVE ReadSo(lines, I, read[n + 1], n + 1)
    OBVIOUS
  <2>1. n <= Len(lines) /\ n + 1 \in 0 .. Len(lines) /\ n + 1 # 0 /\ (n + 1) - 1 = n
        /\ n + 1 \in DOMAIN lines
    BY <1>3
  <2>2. read[n + 1] = ReadLine(read[n], n + 1, lines[n + 1])
    BY <1>8, <2>1
  <2>3. ReadSo(lines, I, read[n], n)
    BY <1>10, <2>1
  <2> QED BY <2>1, <2>2, <2>3, LineLaid
<1> HIDE DEF Q
<1>11. Len(lines) \in Q
  BY <1>3, <1>9, <1>10, EveryNumber
<1>12. ReadSo(lines, I, read[Len(lines)], Len(lines))
  BY <1>3, <1>11 DEF Q
<1>13. Closed(lines, I, read[Len(lines)], all, Len(lines))
  <2>1. Len(lines) \in 0 .. Len(lines)
    BY <1>3
  <2> QED BY <1>12, <2>1, FlushesAll
<1> HIDE DEF all
<1>14. /\ \E runs : Laid(lines, all.blocks, runs, Len(lines))
       /\ Noted(lines, I, all.footnotes, Len(lines))
  BY <1>12, <1>13 DEF Closed, ReadSo
<1> QED BY <1>7, <1>14

\* The item of a block from line lo on that has line i.
Spot(kind, lo, i) == IF kind \in Listed THEN i - lo + 1 ELSE 1

\* The items of a block show the lines from lo to hi, each at its spot.
ShowsAll(items, kind, lo, hi) ==
  /\ items # <<>> /\ <<>> \notin Range(items)
  /\ \A i \in Nat, k \in DOMAIN items :
       i \in Range(items[k]) <=> lo <= i /\ i <= hi /\ k = Spot(kind, lo, i)
  /\ \A i \in lo .. hi : Spot(kind, lo, i) \in DOMAIN items
  /\ kind \notin Listed => \A i \in lo .. hi : i - lo + 1 \in DOMAIN items[1] /\ items[1][i - lo + 1] = i

\* So do the items of the block of a run.
LEMMA BlockHas ==
  ASSUME NEW kind, NEW lo \in Nat, NEW hi \in Nat, lo <= hi
  PROVE  ShowsAll(BlockOf(kind, lo, hi).items, kind, lo, hi)
<1> DEFINE items == BlockOf(kind, lo, hi).items
<1> SUFFICES ShowsAll(items, kind, lo, hi)
  OBVIOUS
<1> DEFINE k == hi - lo + 1
           N == Numbers(lo, hi)
<1>1. k \in Nat /\ 1 \in 1 .. k
  OBVIOUS
<1>2. CASE kind \in Listed
  <2>1. items = [n \in 1 .. k |-> <<lo + n - 1>>]
    BY <1>2 DEF BlockOf
  <2> HIDE DEF items
  <2>2. DOMAIN items = 1 .. k /\ \A n \in 1 .. k : items[n] = <<lo + n - 1>>
    BY <2>1
  <2>3. \A n \in 1 .. k : Range(items[n]) = {lo + n - 1} /\ items[n] # <<>>
    <3> TAKE n \in 1 .. k
    <3>1. items[n] = <<lo + n - 1>> /\ DOMAIN <<lo + n - 1>> = {1}
      BY <2>2
    <3> QED BY <3>1 DEF Range
  <2>4. items # <<>>
    BY <1>1, <2>2
  <2>5. <<>> \notin Range(items)
    BY <2>2, <2>3 DEF Range
  <2>6. ASSUME NEW i \in Nat, NEW n \in DOMAIN items
        PROVE  i \in Range(items[n]) <=> lo <= i /\ i <= hi /\ n = i - lo + 1
    <3>1. n \in 1 .. k /\ (i \in Range(items[n]) <=> i = lo + n - 1)
      BY <2>2, <2>3
    <3> QED BY <3>1
  <2>7. \A i \in lo .. hi : i - lo + 1 \in DOMAIN items
    BY <2>2
  <2> QED BY <1>2, <2>4, <2>5, <2>6, <2>7 DEF Spot, ShowsAll
<1>3. CASE kind \notin Listed
  <2>1. items = <<N>>
    BY <1>3 DEF BlockOf
  <2> HIDE DEF items
  <2>2. DOMAIN items = {1} /\ items[1] = N
    BY <2>1
  <2>3. DOMAIN N = 1 .. k /\ \A n \in 1 .. k : N[n] = lo + n - 1
    BY DEF Numbers
  <2> HIDE DEF N
  <2>4. N # <<>>
    BY <1>1, <2>3
  <2>5. items # <<>> /\ <<>> \notin Range(items)
    BY <2>2, <2>4 DEF Range
  <2>6. ASSUME NEW i \in Nat PROVE i \in Range(N) <=> lo <= i /\ i <= hi
    <3>1. i \in Range(N) <=> \E n \in 1 .. k : i = lo + n - 1
      BY <2>3 DEF Range
    <3>2. lo <= i /\ i <= hi => i - lo + 1 \in 1 .. k /\ i = lo + (i - lo + 1) - 1
      OBVIOUS
    <3> QED BY <3>1, <3>2
  <2>7. \A i \in lo .. hi : i - lo + 1 \in DOMAIN N /\ N[i - lo + 1] = i
    BY <2>3
  <2> QED BY <1>3, <2>2, <2>5, <2>6, <2>7 DEF Spot, ShowsAll
<1> QED BY <1>2, <1>3

\* The blocks of runs show what a page is to show.
LEMMA RunsShowLines ==
  ASSUME NEW I, NEW lines \in Seq(LineWith(I)), NEW page, NEW runs,
         Laid(lines, page.blocks, runs, Len(lines)), Noted(lines, I, page.footnotes, Len(lines))
  PROVE  LinesShown(page, lines)
<1> DEFINE R == DOMAIN runs
           K(b) == lines[runs[b].lo].kind
           In(b, i) == runs[b].lo <= i /\ i <= runs[b].hi
           At(b, i) == Spot(K(b), runs[b].lo, i)
           items(b) == page.blocks[b].items
           Alike(i, j) == lines[i].kind \in Running /\ \A k \in i .. j : lines[k].kind = lines[i].kind
<1>1. DOMAIN lines = 1 .. Len(lines) /\ Len(lines) \in Nat
  OBVIOUS
<1>2. /\ DOMAIN page.blocks = R /\ R = 1 .. Len(runs) /\ Len(runs) \in Nat
      /\ \A b \in R : /\ page.blocks[b].tag = K(b) /\ items(b) = BlockOf(K(b), runs[b].lo, runs[b].hi).items
                      /\ runs[b].lo \in Nat /\ runs[b].hi \in Nat /\ runs[b].lo <= runs[b].hi
                      /\ 1 <= runs[b].lo /\ runs[b].hi <= Len(lines) /\ K(b) \in Shown
                      /\ RunOf(lines, runs[b].lo, runs[b].hi)
  <2>1. runs \in Seq(Stretch) /\ page.blocks = [b \in R |-> BlockOf(K(b), runs[b].lo, runs[b].hi)]
    BY DEF Laid
  <2>2. ASSUME NEW b \in R
        PROVE  /\ page.blocks[b].tag = K(b) /\ items(b) = BlockOf(K(b), runs[b].lo, runs[b].hi).items
               /\ runs[b].lo \in Nat /\ runs[b].hi \in Nat /\ runs[b].lo <= runs[b].hi
               /\ 1 <= runs[b].lo /\ runs[b].hi <= Len(lines) /\ K(b) \in Shown
               /\ RunOf(lines, runs[b].lo, runs[b].hi)
    <3>1. runs[b] \in Stretch
      BY <2>1, ItemOf
    <3>2. RunOf(lines, runs[b].lo, runs[b].hi)
      BY DEF Laid
    <3>3. page.blocks[b] = BlockOf(K(b), runs[b].lo, runs[b].hi)
      BY <2>1
    <3>4. page.blocks[b].tag = K(b)
      BY <3>3 DEF BlockOf
    <3> QED BY <1>1, <3>1, <3>2, <3>3, <3>4 DEF Stretch, RunOf
  <2> QED BY <2>1, <2>2
<1>3. \A b, c \in R : b < c => runs[b].hi < runs[c].lo
  BY DEF Laid
<1>4. \A i \in DOMAIN lines : lines[i].kind \in Shown => \E b \in R : In(b, i)
  BY <1>1 DEF Laid
<1>5. \A b \in R, i \in DOMAIN lines : In(b, i) => lines[i].kind = K(b)
  <2> SUFFICES ASSUME NEW b \in R, NEW i \in DOMAIN lines, In(b, i) PROVE lines[i].kind = K(b)
    OBVIOUS
  <2>1. i \in runs[b].lo .. runs[b].hi
    BY <1>1, <1>2
  <2> QED BY <1>2, <2>1 DEF RunOf
<1>6. \A b, c \in R, i, j \in DOMAIN lines : In(b, i) /\ In(c, j) /\ i <= j => b <= c /\ (i = j => b = c)
  <2> SUFFICES ASSUME NEW b \in R, NEW c \in R, NEW i \in DOMAIN lines, NEW j \in DOMAIN lines,
                      In(b, i), In(c, j), i <= j
               PROVE  b <= c /\ (i = j => b = c)
    OBVIOUS
  <2>1. b \in Nat /\ c \in Nat /\ i \in Nat /\ j \in Nat
    BY <1>1, <1>2
  <2>2. ~ (c < b)
    BY <1>2, <1>3, <2>1
  <2>3. i = j => ~ (b < c)
    BY <1>2, <1>3, <2>1
  <2> QED BY <2>1, <2>2, <2>3
<1>7. \A b \in R : ShowsAll(items(b), K(b), runs[b].lo, runs[b].hi)
  <2> TAKE b \in R
  <2> DEFINE lo == runs[b].lo
             hi == runs[b].hi
             kind == K(b)
  <2>1. lo \in Nat /\ hi \in Nat /\ lo <= hi /\ items(b) = BlockOf(kind, lo, hi).items
    BY <1>2
  <2> HIDE DEF lo, hi, kind
  <2>2. ShowsAll(BlockOf(kind, lo, hi).items, kind, lo, hi)
    BY <2>1, BlockHas
  <2> QED BY <2>1, <2>2 DEF lo, hi, kind
<1>8. \A b \in R, i \in DOMAIN lines :
        /\ \A k \in DOMAIN items(b) : i \in Range(items(b)[k]) <=> In(b, i) /\ k = At(b, i)
        /\ In(b, i) => At(b, i) \in DOMAIN items(b)
        /\ In(b, i) /\ K(b) \notin Listed =>
             i - runs[b].lo + 1 \in DOMAIN items(b)[1] /\ items(b)[1][i - runs[b].lo + 1] = i
  <2> TAKE b \in R, i \in DOMAIN lines
  <2>1. i \in Nat
    BY <1>1
  <2>3. i \in runs[b].lo .. runs[b].hi <=> In(b, i)
    BY <1>2, <2>1
  <2>4. ShowsAll(items(b), K(b), runs[b].lo, runs[b].hi)
    BY <1>7
  <2> HIDE DEF items, K
  <2> QED BY <2>1, <2>3, <2>4 DEF ShowsAll
<1>9. \A i \in DOMAIN lines : Places(page, i) = {<<b, At(b, i)>> : b \in {c \in R : In(c, i)}}
  <2> TAKE i \in DOMAIN lines
  <2> HIDE DEF At, In, items, R
  <2>1. Places(page, i) = {p \in UNION {{b} \X DOMAIN items(b) : b \in R} : i \in Range(items(p[1])[p[2]])}
    BY <1>2 DEF Places, items
  <2>2. ASSUME NEW p, p \in Places(page, i) PROVE \E b \in R : In(b, i) /\ p = <<b, At(b, i)>>
    <3>1. PICK b \in R : p \in {b} \X DOMAIN items(b)
      BY <2>1, <2>2
    <3>2. PICK k \in DOMAIN items(b) : p = <<b, k>>
      BY <3>1
    <3>3. i \in Range(items(b)[k])
      BY <2>1, <2>2, <3>2
    <3> QED BY <1>8, <3>2, <3>3
  <2>3. ASSUME NEW b \in R, In(b, i) PROVE <<b, At(b, i)>> \in Places(page, i)
    <3> DEFINE k == At(b, i)
    <3>1. k \in DOMAIN items(b) /\ i \in Range(items(b)[k])
      BY <1>8, <2>3
    <3> HIDE DEF k
    <3>2. <<b, k>> \in UNION {{c} \X DOMAIN items(c) : c \in R} /\ <<b, k>>[1] = b /\ <<b, k>>[2] = k
      BY <3>1
    <3>3. <<b, k>> \in Places(page, i)
      BY <2>1, <3>1, <3>2
    <3> QED BY <3>3 DEF k
  <2> QED BY <2>2, <2>3
<1> HIDE DEF R, K, In, At, items
<1>10. ASSUME NEW i \in DOMAIN lines
       PROVE  IF lines[i].kind \in Shown
                THEN \E b \in DOMAIN page.blocks : \E k \in DOMAIN page.blocks[b].items :
                       Places(page, i) = {<<b, k>>} /\ page.blocks[b].tag = lines[i].kind
                ELSE Places(page, i) = {}
  <2>1. CASE lines[i].kind \in Shown
    <3>1. PICK b \in R : In(b, i)
      BY <1>4, <2>1
    <3>2. i \in Nat /\ i <= i
      BY <1>1
    <3>3. \A c \in R : In(c, i) => c = b
      BY <1>6, <3>1, <3>2
    <3>4. {c \in R : In(c, i)} = {b}
      BY <3>1, <3>3
    <3>5. Places(page, i) = {<<b, At(b, i)>>}
      BY <1>9, <3>4
    <3>6. At(b, i) \in DOMAIN page.blocks[b].items /\ b \in DOMAIN page.blocks /\ page.blocks[b].tag = lines[i].kind
      BY <1>2, <1>5, <1>8, <3>1 DEF items
    <3> QED BY <2>1, <3>5, <3>6
  <2>2. CASE lines[i].kind \notin Shown
    <3>1. \A b \in R : ~ In(b, i)
      BY <1>2, <1>5, <2>2
    <3> QED BY <1>9, <2>2, <3>1
  <2> QED BY <2>1, <2>2
<1>11. ASSUME NEW i \in DOMAIN lines, NEW j \in DOMAIN lines, i < j,
              NEW p \in Places(page, i), NEW q \in Places(page, j)
       PROVE  /\ p[1] < q[1] \/ (p[1] = q[1] /\ p[2] <= q[2])
              /\ p[1] = q[1] <=> Alike(i, j)
              /\ p = q <=> (Alike(i, j) /\ lines[i].kind \notin Listed)
              /\ p = q => \E m, n \in DOMAIN page.blocks[p[1]].items[p[2]] :
                            m < n /\ page.blocks[p[1]].items[p[2]][m] = i /\ page.blocks[p[1]].items[p[2]][n] = j
  <2>1. PICK b \in R : In(b, i) /\ p = <<b, At(b, i)>>
    BY <1>9
  <2>2. PICK c \in R : In(c, j) /\ q = <<c, At(c, j)>>
    BY <1>9
  <2>3. p[1] = b /\ p[2] = At(b, i) /\ q[1] = c /\ q[2] = At(c, j)
    BY <2>1, <2>2
  <2>4. i \in Nat /\ j \in Nat /\ b \in Nat /\ c \in Nat /\ i <= j /\ i < j
    BY <1>1, <1>2, <1>11 DEF R
  <2>5. b <= c
    BY <1>6, <2>1, <2>2, <2>4
  <2>6. ASSUME b = c PROVE Alike(i, j) /\ At(b, i) <= At(c, j)
    <3>1. lines[i].kind = K(b) /\ \A k \in i .. j : k \in DOMAIN lines /\ In(b, k)
      BY <1>1, <1>2, <1>5, <2>1, <2>2, <2>4, <2>6 DEF In
    <3>2. \A k \in i .. j : lines[k].kind = lines[i].kind
      BY <1>5, <3>1
    <3>3. K(b) # "heading"
      <4>1. K(b) = "heading" => runs[b].lo = runs[b].hi
        BY <1>2 DEF RunOf, K
      <4> QED BY <1>2, <2>1, <2>2, <2>4, <2>6, <4>1 DEF In
    <3>4. K(b) \in Running
      BY <1>2, <3>3 DEF Shown
    <3>5. At(b, i) <= At(c, j)
      <4>1. runs[b].lo \in Nat
        BY <1>2
      <4> QED BY <2>4, <2>6, <4>1 DEF At, Spot
    <3> QED BY <3>1, <3>2, <3>4, <3>5
  <2>7. ASSUME Alike(i, j), b # c PROVE FALSE
    <3> DEFINE e == runs[b].hi + 1
    <3>1. b < c /\ runs[b].hi < runs[c].lo /\ runs[c].lo <= j
      BY <1>3, <2>2, <2>4, <2>5, <2>7 DEF In
    <3>2. e \in i + 1 .. j /\ e \in DOMAIN lines /\ e \in i .. j /\ e \in Nat
      BY <1>1, <1>2, <2>1, <2>4, <3>1 DEF In
    <3>3. lines[e].kind = lines[i].kind /\ lines[i].kind \in Running /\ lines[i].kind = K(b)
      BY <1>5, <2>1, <2>7, <3>2
    <3>4. PICK d \in R : In(d, e)
      BY <1>4, <3>2, <3>3 DEF Shown
    <3> HIDE DEF e
    <3>5. d # b
      BY <1>2, <3>4 DEF In, e
    <3>6. d \in Nat /\ b <= d
      <4>1. i <= e
        BY <2>4, <3>2
      <4>2. b <= d
        BY <1>6, <2>1, <3>2, <3>4, <4>1
      <4> QED BY <1>2, <4>2 DEF R
    <3>7. runs[b].hi < runs[d].lo
      BY <1>3, <2>4, <3>5, <3>6
    <3>8. runs[d].lo = e /\ e - 1 = runs[b].hi /\ e > 1
      BY <1>2, <3>4, <3>7 DEF In, e
    <3>9. K(d) = lines[e].kind /\ K(d) \in Running
      BY <1>5, <3>2, <3>3, <3>4
    <3>10. lines[e - 1].kind # lines[e].kind
      BY <1>2, <3>8, <3>9 DEF RunOf, K
    <3>11. In(b, e - 1) /\ e - 1 \in DOMAIN lines
      BY <1>1, <1>2, <3>8 DEF In
    <3> QED BY <1>5, <3>3, <3>10, <3>11
  <2>8. b = c <=> Alike(i, j)
    BY <2>6, <2>7
  <2>9. ASSUME b = c PROVE At(b, i) = At(c, j) <=> lines[i].kind \notin Listed
    <3>1. lines[i].kind = K(b)
      BY <1>5, <2>1
    <3>2. runs[b].lo \in Nat
      BY <1>2
    <3> QED BY <2>4, <2>9, <3>1, <3>2 DEF At, Spot
  <2>10. p = q <=> b = c /\ At(b, i) = At(c, j)
    BY <2>1, <2>2
  <2>11. ASSUME p = q
         PROVE  \E m, n \in DOMAIN page.blocks[p[1]].items[p[2]] :
                  m < n /\ page.blocks[p[1]].items[p[2]][m] = i /\ page.blocks[p[1]].items[p[2]][n] = j
    <3> DEFINE m == i - runs[b].lo + 1
               n == j - runs[b].lo + 1
    <3>1. b = c /\ lines[i].kind \notin Listed /\ lines[i].kind = K(b)
      BY <1>5, <2>1, <2>9, <2>10, <2>11
    <3>2. p[2] = 1 /\ p[1] = b
      BY <2>1, <2>3, <3>1 DEF At, Spot
    <3>3. m \in DOMAIN items(b)[1] /\ n \in DOMAIN items(b)[1] /\ items(b)[1][m] = i /\ items(b)[1][n] = j
      BY <1>8, <2>1, <2>2, <3>1
    <3>4. m < n
      <4>1. runs[b].lo \in Nat
        BY <1>2
      <4> QED BY <2>4, <4>1
    <3> HIDE DEF m, n
    <3> QED BY <3>2, <3>3, <3>4 DEF items
  <2> HIDE DEF Alike
  <2>12. p[1] < q[1] \/ (p[1] = q[1] /\ p[2] <= q[2])
    BY <2>3, <2>4, <2>5, <2>6
  <2>13. p[1] = q[1] <=> Alike(i, j)
    BY <2>3, <2>8
  <2>14. p = q <=> (Alike(i, j) /\ lines[i].kind \notin Listed)
    BY <2>8, <2>9, <2>10
  <2> QED BY <2>11, <2>12, <2>13, <2>14
<1>12. \A b \in DOMAIN page.blocks : page.blocks[b].items # <<>> /\ <<>> \notin Range(page.blocks[b].items)
  BY <1>2, <1>7 DEF items, ShowsAll
<1>13. /\ {page.footnotes[f].line : f \in DOMAIN page.footnotes} = {i \in DOMAIN lines : lines[i].kind = "footnote"}
       /\ \A f \in DOMAIN page.footnotes : page.footnotes[f].id = lines[page.footnotes[f].line].id
       /\ \A f, g \in DOMAIN page.footnotes : f < g => page.footnotes[f].line < page.footnotes[g].line
  BY <1>1 DEF Noted
<1> QED BY <1>10, <1>11, <1>12, <1>13, Zenon DEF LinesShown, Listed
-----------------------------------------------------------------------------
(* Rendering: the footnotes of a page *)

\* What stands on a line of a draft of n lines: words, and markers of these ids.
AtomOn(I, W, n) == [line : 1 .. n, word : W] \cup [line : 1 .. n, marker : I]

\* The ids of the markers up to p, each once, in the order of first, where each is first met.
UsedSo(text, I, used, first, p) ==
  /\ used \in Seq(I) /\ first \in [DOMAIN used -> 1 .. p]
  /\ \A n \in DOMAIN used : IsMarker(text[first[n]]) /\ text[first[n]].marker = used[n]
  /\ \A m, n \in DOMAIN used : m < n => first[m] < first[n] /\ used[m] # used[n]
  /\ \A q \in 1 .. p : IsMarker(text[q]) =>
       \E n \in DOMAIN used : used[n] = text[q].marker /\ first[n] <= q

\* What stands in a text is a word or a marker.
LEMMA AtomIs ==
  ASSUME NEW I, NEW W, NEW n \in Nat, NEW a \in AtomOn(I, W, n)
  PROVE  /\ a.line \in 1 .. n
         /\ IsMarker(a) => a.marker \in I
<1>1. CASE a \in [line : 1 .. n, word : W]
  <2>1. DOMAIN a = {"line", "word"} /\ a.line \in 1 .. n
    BY <1>1
  <2> QED BY <2>1 DEF IsMarker
<1>2. CASE a \in [line : 1 .. n, marker : I]
  BY <1>2
<1> QED BY <1>1, <1>2 DEF AtomOn

\* One more place of a text: a marker of a new id is the first of it.
LEMMA UsedGrow ==
  ASSUME NEW I, NEW W, NEW N \in Nat, NEW text \in Seq(AtomOn(I, W, N)), NEW p \in Nat, p + 1 \in DOMAIN text,
         NEW used, NEW first, UsedSo(text, I, used, first, p)
  PROVE  LET more == IF IsMarker(text[p + 1]) /\ text[p + 1].marker \notin Range(used)
                       THEN Append(used, text[p + 1].marker) ELSE used
         IN  \E f : UsedSo(text, I, more, f, p + 1)
<1> DEFINE a == text[p + 1]
<1>1. a \in AtomOn(I, W, N)
  BY ItemOf
<1>2. IsMarker(a) => a.marker \in I
  BY <1>1, AtomIs
<1> HIDE DEF a
<1>3. used \in Seq(I) /\ first \in [DOMAIN used -> 1 .. p] /\ Len(used) \in Nat /\ DOMAIN used = 1 .. Len(used)
  BY DEF UsedSo
<1>4. \A q \in 1 .. p + 1 : q = p + 1 \/ q \in 1 .. p
  OBVIOUS
<1>5. CASE IsMarker(a) /\ a.marker \notin Range(used)
  <2> DEFINE id == a.marker
             more == Append(used, id)
             f == [n \in DOMAIN more |-> IF n = Len(used) + 1 THEN p + 1 ELSE first[n]]
  <2>1. id \in I /\ \A n \in DOMAIN used : used[n] # id
    BY <1>2, <1>5 DEF Range
  <2> HIDE DEF id
  <2>2. /\ more \in Seq(I) /\ DOMAIN more = 1 .. Len(used) + 1 /\ more[Len(used) + 1] = id
        /\ \A n \in DOMAIN used : n \in DOMAIN more /\ more[n] = used[n] /\ n # Len(used) + 1
    BY <1>3, <2>1
  <2>3. \A n \in DOMAIN more : n = Len(used) + 1 \/ n \in DOMAIN used
    BY <1>3, <2>2
  <2> HIDE DEF more
  <2>4. f[Len(used) + 1] = p + 1 /\ \A n \in DOMAIN used : f[n] = first[n] /\ first[n] \in 1 .. p
    BY <1>3, <2>2
  <2>5. f \in [DOMAIN more -> 1 .. p + 1]
    BY <1>3, <2>2, <2>3, <2>4
  <2> HIDE DEF f
  <2>6. \A n \in DOMAIN more : IsMarker(text[f[n]]) /\ text[f[n]].marker = more[n]
    <3> TAKE n \in DOMAIN more
    <3>1. CASE n = Len(used) + 1
      BY <1>5, <2>2, <2>4, <3>1 DEF a, id
    <3>2. CASE n \in DOMAIN used
      BY <2>2, <2>4, <3>2 DEF UsedSo
    <3> QED BY <2>3, <3>1, <3>2
  <2>7. \A m, n \in DOMAIN more : m < n => f[m] < f[n] /\ more[m] # more[n]
    <3> SUFFICES ASSUME NEW m \in DOMAIN more, NEW n \in DOMAIN more, m < n
                 PROVE  f[m] < f[n] /\ more[m] # more[n]
      OBVIOUS
    <3>1. m \in DOMAIN used
      BY <1>3, <2>2, <2>3
    <3>2. CASE n = Len(used) + 1
      BY <2>1, <2>2, <2>4, <3>1, <3>2
    <3>3. CASE n \in DOMAIN used
      BY <2>2, <2>4, <3>1, <3>3 DEF UsedSo
    <3> QED BY <2>3, <3>2, <3>3
  <2>8. \A q \in 1 .. p + 1 : IsMarker(text[q]) =>
          \E n \in DOMAIN more : more[n] = text[q].marker /\ f[n] <= q
    <3> SUFFICES ASSUME NEW q \in 1 .. p + 1, IsMarker(text[q])
                 PROVE  \E n \in DOMAIN more : more[n] = text[q].marker /\ f[n] <= q
      OBVIOUS
    <3>1. CASE q = p + 1
      <4>1. Len(used) + 1 \in DOMAIN more /\ p + 1 <= q /\ more[Len(used) + 1] = text[q].marker
        BY <1>3, <2>2, <3>1 DEF a, id
      <4> QED BY <2>4, <4>1
    <3>2. CASE q \in 1 .. p
      <4>1. PICK n \in DOMAIN used : used[n] = text[q].marker /\ first[n] <= q
        BY <3>2 DEF UsedSo
      <4> QED BY <2>2, <2>4, <4>1
    <3> QED BY <1>4, <3>1, <3>2
  <2>9. UsedSo(text, I, more, f, p + 1)
    BY <2>2, <2>5, <2>6, <2>7, <2>8 DEF UsedSo
  <2> QED BY <1>5, <2>9 DEF more, id, a
<1>6. CASE ~ (IsMarker(a) /\ a.marker \notin Range(used))
  <2>1. first \in [DOMAIN used -> 1 .. p + 1] /\ \A n \in DOMAIN used : first[n] \in 1 .. p
    BY <1>3
  <2>2. \A q \in 1 .. p + 1 : IsMarker(text[q]) =>
          \E n \in DOMAIN used : used[n] = text[q].marker /\ first[n] <= q
    <3> SUFFICES ASSUME NEW q \in 1 .. p + 1, IsMarker(text[q])
                 PROVE  \E n \in DOMAIN used : used[n] = text[q].marker /\ first[n] <= q
      OBVIOUS
    <3>1. CASE q = p + 1
      <4>1. PICK n \in DOMAIN used : used[n] = text[q].marker
        BY <1>6, <3>1 DEF a, Range
      <4>2. first[n] <= q
        BY <2>1, <3>1
      <4> QED BY <4>1, <4>2
    <3>2. CASE q \in 1 .. p
      BY <3>2 DEF UsedSo
    <3> QED BY <1>4, <3>1, <3>2
  <2>3. UsedSo(text, I, used, first, p + 1)
    BY <2>1, <2>2 DEF UsedSo
  <2> QED BY <1>6, <2>3 DEF a
<1> QED BY <1>5, <1>6
\* The ids that a text uses are those of its markers, each once, as they are first met.
LEMMA UsedIs ==
  ASSUME NEW I, NEW W, NEW N \in Nat, NEW text \in Seq(AtomOn(I, W, N))
  PROVE  \E first : UsedSo(text, I, Used(text), first, Len(text))
<1> DEFINE Turn(g, p) == IF p = 0 THEN <<>>
                         ELSE IF IsMarker(text[p]) /\ text[p].marker \notin Range(g[p - 1])
                                THEN Append(g[p - 1], text[p].marker)
                                ELSE g[p - 1]
           Turns(g, n) == g = [p \in 0 .. n |-> Turn(g, p)]
           P == {n \in Nat : \E g : Turns(g, n)}
<1>1. 0 \in P
  <2> DEFINE g == [p \in 0 .. 0 |-> <<>>]
  <2>1. Turns(g, 0)
    OBVIOUS
  <2> HIDE DEF Turns
  <2> QED BY <2>1
<1>2. ASSUME NEW n \in Nat, n \in P PROVE n + 1 \in P
  <2>1. PICK g : Turns(g, n)
    BY <1>2
  <2> DEFINE h == [p \in 0 .. n + 1 |-> IF p = n + 1 THEN Turn(g, n + 1) ELSE g[p]]
  <2>2. \A p \in 0 .. n : g[p] = Turn(g, p)
    BY <2>1
  <2>3. \A p \in 0 .. n + 1 : h[p] = Turn(h, p)
    <3> TAKE p \in 0 .. n + 1
    <3> HIDE DEF Turns
    <3>1. p # 0 => p - 1 \in 0 .. n + 1 /\ p - 1 # n + 1
      OBVIOUS
    <3>2. p # 0 => h[p - 1] = g[p - 1]
      BY <3>1
    <3>3. Turn(h, p) = Turn(g, p)
      <4> HIDE DEF h
      <4> QED BY <3>2
    <3> HIDE DEF Turn
    <3>4. CASE p = n + 1
      BY <3>3, <3>4
    <3>5. CASE p # n + 1
      <4>1. p \in 0 .. n
        BY <3>5
      <4> QED BY <2>2, <3>3, <3>5, <4>1
    <3> QED BY <3>4, <3>5
  <2>4. Turns(h, n + 1)
    <3> HIDE DEF Turn
    <3> QED BY <2>3
  <2> HIDE DEF Turns
  <2> QED BY <2>4
<1>3. Len(text) \in Nat /\ DOMAIN text = 1 .. Len(text)
  OBVIOUS
<1> HIDE DEF P
<1>4. Len(text) \in P
  BY <1>1, <1>2, <1>3, EveryNumber
<1>5. \E g : Turns(g, Len(text))
  BY <1>4 DEF P
<1> DEFINE used == CHOOSE g : Turns(g, Len(text))
<1>6. Turns(used, Len(text))
  BY <1>5, Zenon
<1>7. Used(text) = used[Len(text)]
  BY DEF Used
<1>8. \A p \in 0 .. Len(text) : used[p] = Turn(used, p)
  BY <1>6, Zenon
<1> HIDE DEF used
<1> DEFINE Q == {p \in Nat : p <= Len(text) => \E first : UsedSo(text, I, used[p], first, p)}
<1>9. 0 \in Q
  <2>1. used[0] = <<>>
    BY <1>3, <1>8
  <2>2. UsedSo(text, I, <<>>, [n \in DOMAIN <<>> |-> 1], 0)
    BY DEF UsedSo
  <2> QED BY <2>1, <2>2
<1>10. ASSUME NEW p \in Nat, p \in Q PROVE p + 1 \in Q
  <2> SUFFICES ASSUME p + 1 <= Len(text) PROVE \E first : UsedSo(text, I, used[p + 1], first, p + 1)
    OBVIOUS
  <2>1. p <= Len(text) /\ p + 1 \in 0 .. Len(text) /\ p + 1 # 0 /\ (p + 1) - 1 = p /\ p + 1 \in DOMAIN text
    BY <1>3
  <2>2. used[p + 1] = Turn(used, p + 1)
    BY <1>8, <2>1
  <2>3. PICK first : UsedSo(text, I, used[p], first, p)
    BY <1>10, <2>1
  <2>4. \E f : UsedSo(text, I, Turn(used, p + 1), f, p + 1)
    BY <2>1, <2>3, UsedGrow
  <2> QED BY <2>2, <2>4
<1> HIDE DEF Q
<1>11. Len(text) \in Q
  BY <1>3, <1>9, <1>10, EveryNumber
<1> QED BY <1>3, <1>7, <1>11 DEF Q

\* Where two sequences are in the one they join into.
LEMMA Joined ==
  ASSUME NEW S, NEW s \in Seq(S), NEW t \in Seq(S)
  PROVE  /\ s \o t \in Seq(S) /\ Len(s \o t) = Len(s) + Len(t) /\ DOMAIN (s \o t) = 1 .. Len(s) + Len(t)
         /\ \A i \in 1 .. Len(s) : (s \o t)[i] = s[i]
         /\ \A i \in 1 .. Len(t) : (s \o t)[Len(s) + i] = t[i]
OBVIOUS

\* The number of an id among those used.
NumberOf(used, id) == CHOOSE n \in DOMAIN used : used[n] = id

\* What is known of a draft whose markers are footnoted: none of them is left, and its
\* footnotes stand at the end.
Sourced(I, lines, text, evidence, all) ==
  LET used == Used(text)
      N    == Len(used)
      last == Len(lines)
      K    == Len(text)
  IN  /\ all.lines \in Seq(LineWith(I \cup Nat))
      /\ \A i \in 1 .. last : i \in DOMAIN all.lines /\ all.lines[i] = lines[i]
      /\ N = 0 => all.lines = lines /\ DOMAIN all.text = 1 .. K
      /\ N # 0 =>
           /\ Len(all.lines) = last + 3 + N
           /\ \A i \in 1 .. 3 : all.lines[last + i].kind # "footnote"
           /\ \A n \in 1 .. N : all.lines[last + 3 + n] = Definition(n)
           /\ DOMAIN all.text = 1 .. K + 1 + N
           /\ all.text[K + 1] = Word(last + 2, "Sources")
           /\ \A n \in 1 .. N : all.text[K + 1 + n] = Word(last + 3 + n, Source(used[n], evidence))
      /\ \A p \in 1 .. K :
           all.text[p] = IF IsMarker(text[p]) THEN Reference(text[p].line, NumberOf(used, text[p].marker))
                                              ELSE text[p]

\* So it is with every draft.
LEMMA SourcesAdded ==
  ASSUME NEW I, NEW W, NEW lines \in Seq(LineWith(I)), NEW text \in Seq(AtomOn(I, W, Len(lines))), NEW evidence
  PROVE  LET full == RenderWithSources([lines |-> lines, text |-> text], evidence)
         IN  StripMarkers(full).lines = full.lines /\ Sourced(I, lines, text, evidence, StripMarkers(full))
<1> DEFINE draft == [lines |-> lines, text |-> text]
           used == Used(text)
           all == StripMarkers(RenderWithSources(draft, evidence))
           N == Len(used)
           last == Len(lines)
           K == Len(text)
<1>0. /\ draft = [lines |-> lines, text |-> text] /\ used = Used(text)
      /\ all = StripMarkers(RenderWithSources(draft, evidence))
      /\ N = Len(used) /\ last = Len(lines) /\ K = Len(text)
  OBVIOUS
<1> SUFFICES
        /\ all.lines = RenderWithSources(draft, evidence).lines /\ all.lines \in Seq(LineWith(I \cup Nat))
        /\ \A i \in 1 .. last : i \in DOMAIN all.lines /\ all.lines[i] = lines[i]
        /\ N = 0 => all.lines = lines /\ DOMAIN all.text = 1 .. K
        /\ N # 0 =>
             /\ Len(all.lines) = last + 3 + N
             /\ \A i \in 1 .. 3 : all.lines[last + i].kind # "footnote"
             /\ \A n \in 1 .. N : all.lines[last + 3 + n] = Definition(n)
             /\ DOMAIN all.text = 1 .. K + 1 + N
             /\ all.text[K + 1] = Word(last + 2, "Sources")
             /\ \A n \in 1 .. N : all.text[K + 1 + n] = Word(last + 3 + n, Source(used[n], evidence))
        /\ \A p \in 1 .. K :
             all.text[p] = IF IsMarker(text[p]) THEN Reference(text[p].line, NumberOf(used, text[p].marker))
                                                ELSE text[p]
  BY DEF Sourced
<1> HIDE DEF draft, used, all, N, last, K
<1> USE <1>0
<1> DEFINE foot == Footnoted(text, used)
           heading == <<Line("blank"), Line("heading"), Line("blank")>>
           notes == [n \in DOMAIN used |-> Definition(n)]
           sources == [n \in DOMAIN used |-> Word(last + 3 + n, Source(used[n], evidence))]
           full == RenderWithSources(draft, evidence)
           A == AtomOn(I, W, last)
<1>1. used \in Seq(I)
  BY UsedIs DEF UsedSo
<1>2. /\ N \in Nat /\ DOMAIN used = 1 .. N /\ last \in Nat /\ DOMAIN lines = 1 .. last
      /\ K \in Nat /\ DOMAIN text = 1 .. K /\ (used = <<>> <=> N = 0)
  BY <1>1
<1>3. \A p \in 1 .. K : text[p] \in A
  BY <1>2, ItemOf
<1>4. /\ foot \in Seq({foot[p] : p \in 1 .. K}) /\ Len(foot) = K /\ DOMAIN foot = 1 .. K
      /\ \A p \in 1 .. K : foot[p] = IF IsMarker(text[p])
                                         THEN Reference(text[p].line, NumberOf(used, text[p].marker)) ELSE text[p]
  <2>1. /\ DOMAIN foot = 1 .. K
        /\ \A p \in 1 .. K : foot[p] = IF IsMarker(text[p])
                                           THEN Reference(text[p].line, NumberOf(used, text[p].marker)) ELSE text[p]
    BY <1>2 DEF Footnoted, NumberOf
  <2>2. foot = [p \in 1 .. K |-> foot[p]]
    BY <1>2 DEF Footnoted
  <2> HIDE DEF foot
  <2>3. foot \in Seq({foot[p] : p \in 1 .. K})
    BY <1>2, <2>1, <2>2
  <2> QED BY <1>2, <2>1, <2>3
<1>5. \A p \in 1 .. K : ~ IsMarker(foot[p])
  <2> TAKE p \in 1 .. K
  <2>1. ~ IsMarker(Reference(text[p].line, NumberOf(used, text[p].marker)))
    BY DEF IsMarker, Reference
  <2> QED BY <1>4, <2>1
<1> HIDE DEF foot
<1>6. draft.lines = lines /\ draft.text = text
  OBVIOUS
<1>7. CASE N = 0
  <2>1. full = [draft EXCEPT !.text = foot]
    BY <1>2, <1>6, <1>7 DEF RenderWithSources, foot
  <2>2. full.lines = lines /\ full.text = foot /\ full = [lines |-> lines, text |-> foot]
    BY <2>1
  <2>3. all.lines = lines /\ all.text = [p \in {q \in DOMAIN foot : ~ IsMarker(foot[q])} |-> foot[p]]
    BY <2>2 DEF StripMarkers
  <2>4. DOMAIN all.text = 1 .. K /\ \A p \in 1 .. K : all.text[p] = foot[p]
    BY <1>4, <1>5, <2>3
  <2>5. lines \in Seq(LineWith(I \cup Nat))
    <3>1. LineWith(I) \subseteq LineWith(I \cup Nat)
      BY DEF LineWith
    <3>2. \A i \in 1 .. last : lines[i] \in LineWith(I \cup Nat)
      BY <1>2, <3>1, ItemOf
    <3> DEFINE S == LineWith(I \cup Nat)
    <3>3. \A i \in 1 .. last : lines[i] \in S
      BY <3>2
    <3> HIDE DEF S
    <3>4. lines \in Seq(S)
      BY <1>2, <3>3
    <3> QED BY <3>4 DEF S
  <2> QED BY <1>2, <1>4, <1>7, <2>2, <2>3, <2>4, <2>5
<1>8. CASE N # 0
  <2> DEFINE L == lines \o heading \o notes
             T == foot \o <<Word(last + 2, "Sources")>> \o sources
  <2>1. full = [lines |-> L, text |-> T]
    BY <1>2, <1>6, <1>8 DEF RenderWithSources, foot
  <2>2. L \in Seq(LineWith(I \cup Nat)) /\ DOMAIN L = 1 .. last + 3 + N /\ Len(L) = last + 3 + N
        /\ (\A i \in 1 .. last : L[i] = lines[i]) /\ (\A i \in 1 .. 3 : L[last + i].kind # "footnote")
        /\ \A n \in 1 .. N : L[last + 3 + n] = Definition(n)
    <3> DEFINE S == LineWith(I \cup Nat)
    <3>1. \A i \in 1 .. last : lines[i] \in S
      <4>1. LineWith(I) \subseteq S
        BY DEF LineWith
      <4> QED BY <1>2, <4>1, ItemOf
    <3>2. Line("blank") \in S /\ Line("heading") \in S
      BY DEF Line, LineWith, Shown
    <3>3. \A n \in 1 .. N : Definition(n) \in S
      BY <1>2 DEF Definition, LineWith
    <3>4. Line("blank").kind # "footnote" /\ Line("heading").kind # "footnote"
      BY DEF Line
    <3> HIDE DEF S
    <3>5. lines \in Seq(S) /\ Len(lines) = last
      BY <1>2, <3>1
    <3>6. heading \in Seq(S) /\ Len(heading) = 3 /\ heading[1] = Line("blank") /\ heading[2] = Line("heading")
          /\ heading[3] = Line("blank")
      BY <3>2
    <3>7. notes \in Seq(S) /\ Len(notes) = N /\ \A n \in 1 .. N : notes[n] = Definition(n)
      BY <1>2, <3>3
    <3> HIDE DEF heading, notes
    <3>8. lines \o heading \in Seq(S) /\ Len(lines \o heading) = last + 3
          /\ (\A i \in 1 .. last : (lines \o heading)[i] = lines[i])
          /\ \A i \in 1 .. 3 : (lines \o heading)[last + i] = heading[i]
      <4>1. lines \in Seq(S) /\ heading \in Seq(S)
        BY <1>2, <3>5, <3>6
      <4>2. /\ lines \o heading \in Seq(S) /\ Len(lines \o heading) = Len(lines) + Len(heading)
            /\ \A i \in 1 .. Len(lines) : (lines \o heading)[i] = lines[i]
            /\ \A i \in 1 .. Len(heading) : (lines \o heading)[Len(lines) + i] = heading[i]
        BY <4>1, Joined
      <4> QED BY <1>2, <3>5, <3>6, <4>2
    <3> DEFINE body == lines \o heading
    <3> HIDE DEF body
    <3>9. L \in Seq(S) /\ Len(L) = last + 3 + N
          /\ (\A i \in 1 .. last + 3 : L[i] = body[i])
          /\ \A n \in 1 .. N : L[last + 3 + n] = notes[n]
      <4>1. body \in Seq(S) /\ notes \in Seq(S)
        BY <1>2, <3>7, <3>8 DEF body
      <4>2. /\ body \o notes \in Seq(S) /\ Len(body \o notes) = Len(body) + Len(notes)
            /\ \A i \in 1 .. Len(body) : (body \o notes)[i] = body[i]
            /\ \A i \in 1 .. Len(notes) : (body \o notes)[Len(body) + i] = notes[i]
        BY <4>1, Joined
      <4> QED BY <1>2, <3>7, <3>8, <4>2 DEF body
    <3>10. \A i \in 1 .. last : L[i] = lines[i]
      BY <1>2, <3>8, <3>9 DEF body
    <3>11. \A i \in 1 .. 3 : L[last + i].kind # "footnote"
      <4> TAKE i \in 1 .. 3
      <4>1. last + i \in 1 .. last + 3
        BY <1>2
      <4>2. L[last + i] = heading[i]
        BY <3>8, <3>9, <4>1 DEF body
      <4>3. i = 1 \/ i = 2 \/ i = 3
        OBVIOUS
      <4> QED BY <3>4, <3>6, <4>2, <4>3
    <3> HIDE DEF L
    <3>12. DOMAIN L = 1 .. last + 3 + N
      BY <3>9
    <3> QED BY <3>7, <3>9, <3>10, <3>11, <3>12 DEF S
  <2>3. DOMAIN T = 1 .. K + 1 + N /\ (\A p \in 1 .. K : T[p] = foot[p])
        /\ T[K + 1] = Word(last + 2, "Sources")
        /\ \A n \in 1 .. N : T[K + 1 + n] = Word(last + 3 + n, Source(used[n], evidence))
    <3> DEFINE V == {foot[p] : p \in 1 .. K}
               w == Word(last + 2, "Sources")
               X == {sources[n] : n \in 1 .. N}
               S == V \cup {w} \cup X
    <3>1. foot \in Seq(S)
      <4>1. \A p \in 1 .. K : foot[p] \in S
        OBVIOUS
      <4> HIDE DEF S
      <4> QED BY <1>2, <1>4, <4>1
    <3>2. sources \in Seq(S) /\ Len(sources) = N
          /\ \A n \in 1 .. N : sources[n] = Word(last + 3 + n, Source(used[n], evidence))
      <4>1. sources = [n \in 1 .. N |-> Word(last + 3 + n, Source(used[n], evidence))]
        BY <1>2
      <4>2. \A n \in 1 .. N : sources[n] \in S
        BY <1>2
      <4> HIDE DEF S
      <4> QED BY <1>2, <4>1, <4>2
    <3>3. w \in S
      OBVIOUS
    <3> HIDE DEF S, w, sources
    <3>4. foot \o <<w>> \in Seq(S) /\ Len(foot \o <<w>>) = K + 1
          /\ (\A p \in 1 .. K : (foot \o <<w>>)[p] = foot[p]) /\ (foot \o <<w>>)[K + 1] = w
      <4>1. foot \in Seq(S) /\ <<w>> \in Seq(S)
        BY <1>2, <1>4, <3>1, <3>3
      <4>2. /\ foot \o <<w>> \in Seq(S) /\ Len(foot \o <<w>>) = Len(foot) + Len(<<w>>)
            /\ \A i \in 1 .. Len(foot) : (foot \o <<w>>)[i] = foot[i]
            /\ \A i \in 1 .. Len(<<w>>) : (foot \o <<w>>)[Len(foot) + i] = <<w>>[i]
        BY <4>1, Joined
      <4> QED BY <1>2, <1>4, <3>1, <3>3, <4>2
    <3> DEFINE body == foot \o <<w>>
    <3> HIDE DEF body
    <3>5. body \o sources \in Seq(S) /\ Len(body \o sources) = K + 1 + N
          /\ (\A p \in 1 .. K + 1 : (body \o sources)[p] = body[p])
          /\ \A n \in 1 .. N : (body \o sources)[K + 1 + n] = sources[n]
      <4>1. body \in Seq(S) /\ sources \in Seq(S)
        BY <1>2, <3>2, <3>4 DEF body
      <4>2. /\ body \o sources \in Seq(S) /\ Len(body \o sources) = Len(body) + Len(sources)
            /\ \A i \in 1 .. Len(body) : (body \o sources)[i] = body[i]
            /\ \A i \in 1 .. Len(sources) : (body \o sources)[Len(body) + i] = sources[i]
        BY <4>1, Joined
      <4> QED BY <1>2, <3>2, <3>4, <4>2 DEF body
    <3>6. DOMAIN (body \o sources) = 1 .. K + 1 + N
      BY <3>5
    <3>7. K + 1 \in 1 .. K + 1 /\ \A p \in 1 .. K : p \in 1 .. K + 1
      BY <1>2
    <3>8. T = body \o sources
      BY DEF body, w
    <3> HIDE DEF T
    <3> QED BY <3>2, <3>4, <3>5, <3>6, <3>7, <3>8 DEF body, w
  <2> HIDE DEF L, T
  <2>4. all.lines = L /\ all.text = [p \in {q \in DOMAIN T : ~ IsMarker(T[q])} |-> T[p]] /\ full.lines = L
    BY <2>1 DEF StripMarkers
  <2>5. \A p \in DOMAIN T : ~ IsMarker(T[p])
    <3> TAKE p \in DOMAIN T
    <3>1. \A i, x : ~ IsMarker(Word(i, x))
      BY DEF IsMarker, Word
    <3>2. p \in 1 .. K \/ p = K + 1 \/ \E n \in 1 .. N : p = K + 1 + n
      <4>1. p \in 1 .. K + 1 + N
        BY <2>3
      <4>2. CASE p > K + 1
        <5>1. p - (K + 1) \in 1 .. N /\ p = K + 1 + (p - (K + 1))
          BY <1>2, <4>1, <4>2
        <5> QED BY <5>1
      <4>3. CASE ~ (p > K + 1)
        BY <1>2, <4>1, <4>3
      <4> QED BY <4>2, <4>3
    <3> QED BY <1>5, <2>3, <3>1, <3>2
  <2>6. DOMAIN all.text = DOMAIN T /\ \A p \in DOMAIN T : all.text[p] = T[p]
    BY <2>4, <2>5
  <2>7. K + 1 \in DOMAIN T /\ (\A p \in 1 .. K : p \in DOMAIN T) /\ \A n \in 1 .. N : K + 1 + n \in DOMAIN T
    BY <1>2, <2>3
  <2>8. \A i \in 1 .. last : i \in DOMAIN L
    BY <1>2, <2>2
  <2> HIDE DEF full
  <2>9. \A p \in 1 .. K : all.text[p] = IF IsMarker(text[p]) THEN Reference(text[p].line, NumberOf(used, text[p].marker))
                                          ELSE text[p]
    BY <1>4, <2>3, <2>6, <2>7
  <2>10. /\ all.text[K + 1] = Word(last + 2, "Sources")
         /\ \A n \in 1 .. N : all.text[K + 1 + n] = Word(last + 3 + n, Source(used[n], evidence))
    BY <2>3, <2>6, <2>7
  <2>11. /\ all.lines = full.lines /\ all.lines \in Seq(LineWith(I \cup Nat))
         /\ Len(all.lines) = last + 3 + N
         /\ \A i \in 1 .. last : i \in DOMAIN all.lines /\ all.lines[i] = lines[i]
         /\ \A i \in 1 .. 3 : all.lines[last + i].kind # "footnote"
         /\ \A n \in 1 .. N : all.lines[last + 3 + n] = Definition(n)
    BY <2>2, <2>4, <2>8
  <2>12. DOMAIN all.text = 1 .. K + 1 + N
    BY <2>3, <2>6
  <2> QED BY <1>8, <2>9, <2>10, <2>11, <2>12 DEF full
<1> QED BY <1>7, <1>8
\* The page of a draft is that of its lines and its sources.
LEMMA DraftLaid ==
  ASSUME NEW I, NEW W, NEW lines \in Seq(LineWith(I)), NEW text \in Seq(AtomOn(I, W, Len(lines))), NEW evidence
  PROVE  LET draft == [lines |-> lines, text |-> text]
             all   == StripMarkers(RenderWithSources(draft, evidence))
             page  == Render(draft, evidence)
         IN  /\ page.text = all.text /\ Noted(all.lines, I \cup Nat, page.footnotes, Len(all.lines))
             /\ LinesShown(page, RenderWithSources(draft, evidence).lines)
<1> DEFINE draft == [lines |-> lines, text |-> text]
           all == StripMarkers(RenderWithSources(draft, evidence))
           J == I \cup Nat
           page == MarkdownToHtml(all)
<1>1. all.lines = RenderWithSources(draft, evidence).lines /\ all.lines \in Seq(LineWith(J))
  BY SourcesAdded DEF Sourced
<1>2. Render(draft, evidence) = page
  BY DEF Render
<1> HIDE DEF all, J
<1>3. /\ page.text = all.text /\ \E runs : Laid(all.lines, page.blocks, runs, Len(all.lines))
      /\ Noted(all.lines, J, page.footnotes, Len(all.lines))
  BY <1>1, PageLaid
<1> HIDE DEF page
<1>4. LinesShown(page, all.lines)
  BY <1>1, <1>3, RunsShowLines
<1> QED BY <1>1, <1>2, <1>3, <1>4 DEF all, J

\* A footnote for every id used, the number of it its id, on the lines behind the draft.
NotesAre(notes, used, last) ==
  /\ DOMAIN notes = DOMAIN used /\ Len(notes) = Len(used)
  /\ \E g : /\ g \in Bijection(DOMAIN notes, DOMAIN used)
            /\ \A f \in DOMAIN notes : notes[f].id = g[f] /\ notes[f].line = last + 3 + g[f]

\* In a draft without footnotes of its own, the footnotes of the page are those of its sources.
LEMMA SourcesNoted ==
  ASSUME NEW I, NEW W, NEW lines \in Seq(LineWith(I)), NEW text \in Seq(AtomOn(I, W, Len(lines))),
         NEW evidence, \A i \in DOMAIN lines : lines[i].kind # "footnote"
  PROVE  NotesAre(Render([lines |-> lines, text |-> text], evidence).footnotes, Used(text), Len(lines))
<1> DEFINE notes == Render([lines |-> lines, text |-> text], evidence).footnotes
           used == Used(text)
<1> DEFINE draft == [lines |-> lines, text |-> text]
           all == StripMarkers(RenderWithSources(draft, evidence))
           J == I \cup Nat
           N == Len(used)
           last == Len(lines)
<1>1. used \in Seq(I)
  BY UsedIs DEF UsedSo
<1> HIDE DEF used
<1>2. /\ N \in Nat /\ DOMAIN used = 1 .. N /\ last \in Nat /\ DOMAIN lines = 1 .. last
  BY <1>1
<1>3. /\ notes \in Seq([id : J, line : Nat])
      /\ {notes[f].line : f \in DOMAIN notes} = {i \in 1 .. Len(all.lines) : all.lines[i].kind = "footnote"}
      /\ \A f \in DOMAIN notes : notes[f].id = all.lines[notes[f].line].id
      /\ \A f, g \in DOMAIN notes : f < g => notes[f].line < notes[g].line
  <2>1. Noted(all.lines, J, notes, Len(all.lines))
    BY DraftLaid
  <2> HIDE DEF all, J, notes
  <2> QED BY <2>1 DEF Noted
<1>4. /\ all.lines \in Seq(LineWith(J))
      /\ \A i \in 1 .. last : all.lines[i] = lines[i]
      /\ N = 0 => all.lines = lines
      /\ N # 0 =>
           /\ Len(all.lines) = last + 3 + N
           /\ \A i \in 1 .. 3 : all.lines[last + i].kind # "footnote"
           /\ \A n \in 1 .. N : all.lines[last + 3 + n] = Definition(n)
  <2>1. Sourced(I, lines, text, evidence, all)
    BY SourcesAdded
  <2> HIDE DEF all
  <2> QED BY <2>1 DEF Sourced, used
<1> HIDE DEF all, J, N, last, notes
<1>5. {i \in 1 .. Len(all.lines) : all.lines[i].kind = "footnote"} = {last + 3 + n : n \in 1 .. N}
  <2>1. \A i \in 1 .. last : all.lines[i].kind # "footnote"
    BY <1>2, <1>4
  <2>2. CASE N = 0
    <3>1. all.lines = lines /\ Len(all.lines) = last /\ 1 .. N = {}
      BY <1>4, <2>2 DEF last
    <3> QED BY <2>1, <3>1
  <2>3. CASE N # 0
    <3>1. Len(all.lines) = last + 3 + N
      BY <1>2, <1>4, <2>3
    <3>2. \A n \in 1 .. N : all.lines[last + 3 + n].kind = "footnote" /\ last + 3 + n \in 1 .. last + 3 + N
      <4> TAKE n \in 1 .. N
      <4>1. all.lines[last + 3 + n] = Definition(n)
        BY <1>4, <2>3
      <4>2. last + 3 + n \in 1 .. last + 3 + N
        BY <1>2
      <4> QED BY <4>1, <4>2 DEF Definition
    <3>3. ASSUME NEW i \in 1 .. last + 3 + N, all.lines[i].kind = "footnote"
          PROVE  \E n \in 1 .. N : i = last + 3 + n
      <4>1. ~ (i \in 1 .. last)
        BY <2>1, <3>3
      <4>2. ~ (i - last \in 1 .. 3)
        <5>1. i - last \in 1 .. 3 => i = last + (i - last)
          BY <1>2
        <5> QED BY <1>4, <2>3, <3>3, <5>1
      <4>3. i - (last + 3) \in 1 .. N /\ i = last + 3 + (i - (last + 3))
        BY <1>2, <4>1, <4>2
      <4> QED BY <4>3
    <3> QED BY <3>1, <3>2, <3>3
  <2> QED BY <2>2, <2>3
<1>6. /\ Len(notes) \in Nat /\ DOMAIN notes = 1 .. Len(notes)
      /\ \A f \in DOMAIN notes : \E n \in 1 .. N : notes[f].line = last + 3 + n
      /\ \A n \in 1 .. N : \E f \in DOMAIN notes : notes[f].line = last + 3 + n
  <2>1. {notes[f].line : f \in DOMAIN notes} = {last + 3 + n : n \in 1 .. N}
    BY <1>3, <1>5
  <2>2. \A f \in DOMAIN notes : notes[f].line \in {last + 3 + n : n \in 1 .. N}
    BY <2>1
  <2>3. \A n \in 1 .. N : last + 3 + n \in {notes[f].line : f \in DOMAIN notes}
    BY <2>1
  <2>4. Len(notes) \in Nat /\ DOMAIN notes = 1 .. Len(notes)
    BY <1>3
  <2> QED BY <2>2, <2>3, <2>4
<1> DEFINE g == [f \in DOMAIN notes |-> notes[f].line - (last + 3)]
<1>7. \A f \in DOMAIN notes : g[f] \in 1 .. N /\ notes[f].line = last + 3 + g[f]
  <2> TAKE f \in DOMAIN notes
  <2>1. PICK n \in 1 .. N : notes[f].line = last + 3 + n
    BY <1>6
  <2>2. n \in Nat /\ (last + 3 + n) - (last + 3) = n
    BY <1>2
  <2> QED BY <2>1, <2>2
<1>8. \A n \in 1 .. N : \E f \in DOMAIN notes : g[f] = n
  <2> TAKE n \in 1 .. N
  <2>1. PICK f \in DOMAIN notes : notes[f].line = last + 3 + n
    BY <1>6
  <2>2. n \in Nat /\ (last + 3 + n) - (last + 3) = n
    BY <1>2
  <2> QED BY <2>1, <2>2
<1>9. \A f, h \in DOMAIN notes : g[f] = g[h] => f = h
  <2> SUFFICES ASSUME NEW f \in DOMAIN notes, NEW h \in DOMAIN notes, g[f] = g[h] PROVE f = h
    OBVIOUS
  <2>1. notes[f].line = notes[h].line /\ notes[f].line \in Nat
    <3> HIDE DEF g
    <3> QED BY <1>2, <1>7
  <2>2. ~ (f < h) /\ ~ (h < f) /\ f \in Nat /\ h \in Nat
    <3> HIDE DEF g
    <3>1. f \in Nat /\ h \in Nat
      <4>1. DOMAIN notes = 1 .. Len(notes) /\ Len(notes) \in Nat
        BY <1>6, Zenon
      <4> QED BY <4>1
    <3>2. ~ (f < h)
      <4>1. f < h => notes[f].line < notes[h].line
        BY <1>3
      <4> QED BY <2>1, <4>1
    <3>3. ~ (h < f)
      <4>1. h < f => notes[h].line < notes[f].line
        BY <1>3
      <4> QED BY <2>1, <4>1
    <3> QED BY <3>1, <3>2, <3>3
  <2> QED BY <2>2
<1>10. \A f \in DOMAIN notes : notes[f].id = g[f]
  <2> TAKE f \in DOMAIN notes
  <2> HIDE DEF g
  <2>1. g[f] \in 1 .. N /\ notes[f].line = last + 3 + g[f]
    BY <1>7
  <2>2. N # 0
    BY <1>2, <2>1
  <2>3. all.lines[notes[f].line] = Definition(g[f])
    BY <1>4, <2>1, <2>2
  <2> QED BY <1>3, <2>3 DEF Definition
<1>11. DOMAIN g = DOMAIN notes
  OBVIOUS
<1>12. g \in [DOMAIN notes -> 1 .. N]
  BY <1>7
<1> HIDE DEF g
<1>13. g \in Bijection(DOMAIN notes, 1 .. N)
  <2>1. g \in Injection(DOMAIN notes, 1 .. N)
    BY <1>9, <1>12, Zenon DEF Injection, IsInjective
  <2>2. g \in Surjection(DOMAIN notes, 1 .. N)
    BY <1>8, <1>12, Zenon DEF Surjection
  <2> QED BY <2>1, <2>2 DEF Bijection
<1>14. Len(notes) = N
  <2>1. IsFiniteSet(1 .. N) /\ Cardinality(1 .. N) = N /\ Cardinality(DOMAIN notes) = Len(notes)
        /\ IsFiniteSet(DOMAIN notes)
    <3>1. \A n \in Nat : IsFiniteSet(1 .. n) /\ Cardinality(1 .. n) = n
      BY FS_Interval
    <3> QED BY <1>2, <1>6, <3>1
  <2>2. Cardinality(DOMAIN notes) = Cardinality(1 .. N)
    <3>1. ExistsBijection(DOMAIN notes, 1 .. N)
      BY <1>13 DEF ExistsBijection
    <3> QED BY <2>1, <3>1, FS_Bijection
  <2> QED BY <2>1, <2>2
<1> QED
  <2>1. NotesAre(notes, used, last)
    BY <1>2, <1>6, <1>7, <1>10, <1>13, <1>14 DEF NotesAre, N
  <2> QED BY <2>1 DEF last, notes, used
\* An id that a text marks has a number: it is used, and first met no later than here.
LEMMA Numbered ==
  ASSUME NEW I, NEW text, NEW used, NEW first, UsedSo(text, I, used, first, Len(text)), Len(text) \in Nat,
         NEW p \in 1 .. Len(text), IsMarker(text[p]), NEW n, n = NumberOf(used, text[p].marker)
  PROVE  n \in DOMAIN used /\ used[n] = text[p].marker /\ first[n] <= p
<1>1. PICK m \in DOMAIN used : used[m] = text[p].marker /\ first[m] <= p
  BY DEF UsedSo
<1>2. n \in DOMAIN used /\ used[n] = text[p].marker
  BY <1>1 DEF NumberOf
<1>3. DOMAIN used = 1 .. Len(used) /\ Len(used) \in Nat
  BY DEF UsedSo
<1>4. ~ (m < n) /\ ~ (n < m)
  BY <1>1, <1>2 DEF UsedSo
<1>5. m = n
  BY <1>2, <1>3, <1>4
<1> QED BY <1>1, <1>2, <1>5

\* The number of a marker is at most one more than there are numbers before it.
NextAt(text, used, markers, p) ==
  NumberOf(used, text[p].marker)
    <= 1 + Cardinality({NumberOf(used, text[q].marker) : q \in {m \in markers : m < p}})

\* The numbers met before a place are all those below its own.
LEMMA NumbersInOrder ==
  ASSUME NEW I, NEW text, NEW used, NEW first, UsedSo(text, I, used, first, Len(text)), Len(text) \in Nat,
         NEW markers, markers = {p \in 1 .. Len(text) : IsMarker(text[p])}, NEW p \in markers
  PROVE  NextAt(text, used, markers, p)
<1> DEFINE Num(q) == NumberOf(used, text[q].marker)
           S == {Num(q) : q \in {m \in markers : m < p}}
           n == Num(p)
<1>1. DOMAIN used = 1 .. Len(used) /\ Len(used) \in Nat /\ first \in [1 .. Len(used) -> 1 .. Len(text)]
  BY DEF UsedSo
<1>2. \A q \in markers : Num(q) \in 1 .. Len(used) /\ used[Num(q)] = text[q].marker /\ first[Num(q)] <= q
  BY <1>1, Numbered
<1>3. \A k \in 1 .. Len(used) : first[k] \in markers /\ text[first[k]].marker = used[k]
  BY <1>1 DEF UsedSo
<1>4. \A k, m \in 1 .. Len(used) : used[k] = used[m] => k = m
  <2> SUFFICES ASSUME NEW k \in 1 .. Len(used), NEW m \in 1 .. Len(used), used[k] = used[m] PROVE k = m
    OBVIOUS
  <2>1. ~ (k < m) /\ ~ (m < k)
    BY <1>1 DEF UsedSo
  <2> QED BY <2>1
<1> HIDE DEF Num
<1>5. n \in 1 .. Len(used) /\ n \in Nat /\ n - 1 \in Nat /\ first[n] <= p /\ p \in Nat
  BY <1>2
<1>6. ASSUME NEW k \in 1 .. n - 1 PROVE k \in S
  <2>1. k \in 1 .. Len(used) /\ k < n
    BY <1>1, <1>5
  <2>2. first[k] < first[n] /\ first[k] \in markers /\ first[k] \in Nat /\ first[n] \in Nat
    BY <1>1, <1>5, <2>1 DEF UsedSo
  <2>3. first[k] < p
    BY <1>5, <2>2
  <2>4. Num(first[k]) = k
    <3>1. Num(first[k]) \in 1 .. Len(used) /\ used[Num(first[k])] = text[first[k]].marker
      BY <1>2, <2>2
    <3>2. text[first[k]].marker = used[k]
      BY <1>3, <2>1
    <3> QED BY <1>4, <2>1, <3>1, <3>2
  <2> QED BY <2>2, <2>3, <2>4
<1>7. S \subseteq 1 .. Len(used)
  BY <1>2
<1> HIDE DEF S, n
<1>8. IsFiniteSet(S)
  <2>1. IsFiniteSet(1 .. Len(used))
    BY <1>1, FS_Interval
  <2> QED BY <1>7, <2>1, FS_Subset
<1>9. Cardinality(1 .. n - 1) <= Cardinality(S)
  BY <1>6, <1>8, FS_Subset
<1>10. Cardinality(1 .. n - 1) = n - 1
  BY <1>5, FS_Interval
<1>11. Cardinality(S) \in Nat
  BY <1>8, FS_CardinalityType
<1>12. n <= 1 + Cardinality(S)
  BY <1>5, <1>9, <1>10, <1>11
<1> QED BY <1>12 DEF n, S, Num, NextAt

\* The page of any draft shows all of its lines and, if it has no footnotes of its own, all
\* of its words and a source for every marker (grounding.ts renderWithSources, markdown.ts).
THEOREM DraftsRendered ==
  ASSUME NEW I, NEW W, NEW lines \in Seq(LineWith(I)), NEW text \in Seq(AtomOn(I, W, Len(lines))), NEW evidence
  PROVE  /\ NothingUnrendered([lines |-> lines, text |-> text], evidence)
         /\ SourcesShown([lines |-> lines, text |-> text], evidence)
<1> DEFINE draft == [lines |-> lines, text |-> text]
           page == Render(draft, evidence)
           all == StripMarkers(RenderWithSources(draft, evidence))
           notes == page.footnotes
           used == Used(text)
           N == Len(used)
           last == Len(lines)
           K == Len(text)
           markers == {p \in DOMAIN text : IsMarker(text[p])}
           On(i) == {page.text[p] : p \in {q \in DOMAIN page.text : page.text[q].line = i}}
           Num(p) == NumberOf(used, text[p].marker)
<1>1. page.text = all.text /\ LinesShown(page, RenderWithSources(draft, evidence).lines)
  BY DraftLaid
<1>2. NothingUnrendered(draft, evidence)
  BY <1>1 DEF NothingUnrendered
<1>3. PICK first : UsedSo(text, I, used, first, K)
  BY UsedIs
<1>4. /\ N \in Nat /\ DOMAIN used = 1 .. N /\ last \in Nat /\ K \in Nat /\ DOMAIN text = 1 .. K
  BY <1>3 DEF UsedSo
<1>5. draft.lines = lines /\ draft.text = text
  OBVIOUS
<1>6. Sourced(I, lines, text, evidence, all)
  BY SourcesAdded
<1> SUFFICES ASSUME \A i \in DOMAIN lines : lines[i].kind # "footnote"
             PROVE  /\ \A p \in DOMAIN text \ markers : p \in DOMAIN page.text /\ page.text[p] = text[p]
                    /\ \A p \in markers :
                         /\ p \in DOMAIN page.text
                         /\ page.text[p] = Reference(text[p].line, page.text[p].reference)
                         /\ \E f \in DOMAIN notes :
                              /\ {g \in DOMAIN notes : notes[g].id = page.text[p].reference} = {f}
                              /\ On(notes[f].line) = {Word(notes[f].line, Source(text[p].marker, evidence))}
                         /\ page.text[p].reference
                              <= 1 + Cardinality({page.text[q].reference : q \in {m \in markers : m < p}})
                    /\ Len(notes) = Cardinality({text[p].marker : p \in markers})
  <2> HIDE DEF page
  <2> QED BY <1>2, <1>5 DEF SourcesShown, page
<1>0. NotesAre(notes, used, last)
  BY SourcesNoted
<1>7. Len(notes) = N /\ DOMAIN notes = DOMAIN used
  <2> HIDE DEF notes
  <2> QED BY <1>0 DEF NotesAre
<1>8. PICK g : /\ g \in Bijection(DOMAIN notes, DOMAIN used)
               /\ \A f \in DOMAIN notes : notes[f].id = g[f] /\ notes[f].line = last + 3 + g[f]
  <2> HIDE DEF notes
  <2> QED BY <1>0 DEF NotesAre
<1> HIDE DEF page, all, used
<1>9. \A p \in markers : p \in 1 .. K /\ Num(p) \in 1 .. N /\ used[Num(p)] = text[p].marker
  BY <1>3, <1>4, Numbered
<1> HIDE DEF Num, draft, last, K, N
<1>10. /\ \A p \in 1 .. K : /\ p \in DOMAIN page.text
                             /\ page.text[p] = IF p \in markers THEN Reference(text[p].line, Num(p)) ELSE text[p]
       /\ N # 0 =>
            /\ DOMAIN page.text = 1 .. K + 1 + N
            /\ page.text[K + 1] = Word(last + 2, "Sources")
            /\ \A n \in 1 .. N : page.text[K + 1 + n] = Word(last + 3 + n, Source(used[n], evidence))
  <2>1. /\ N = 0 => DOMAIN all.text = 1 .. K
        /\ N # 0 => DOMAIN all.text = 1 .. K + 1 + N
    BY <1>6 DEF Sourced, N, K, used
  <2>2. \A p \in 1 .. K : all.text[p] = IF IsMarker(text[p]) THEN Reference(text[p].line, Num(p)) ELSE text[p]
    BY <1>6 DEF Sourced, K, Num, used
  <2>3. \A p \in 1 .. K : IsMarker(text[p]) <=> p \in markers
    BY <1>4
  <2>4. N # 0 => /\ all.text[K + 1] = Word(last + 2, "Sources")
                 /\ \A n \in 1 .. N : all.text[K + 1 + n] = Word(last + 3 + n, Source(used[n], evidence))
    BY <1>6 DEF Sourced, K, N, last, used
  <2> HIDE DEF markers
  <2>5. \A p \in 1 .. K : p \in DOMAIN all.text
    BY <1>4, <2>1
  <2> QED BY <1>1, <2>1, <2>2, <2>3, <2>4, <2>5
<1>11. \A p \in 1 .. K : text[p].line \in 1 .. last
  <2> TAKE p \in 1 .. K
  <2>1. text[p] \in AtomOn(I, W, last)
    BY <1>4, ItemOf DEF last
  <2> QED BY <1>4, <2>1, AtomIs
<1>12. \A p \in markers : page.text[p].reference = Num(p) /\ page.text[p] = Reference(text[p].line, Num(p))
  BY <1>9, <1>10 DEF Reference
<1>13. ASSUME NEW p \in DOMAIN text \ markers PROVE p \in DOMAIN page.text /\ page.text[p] = text[p]
  BY <1>4, <1>10
<1>14. ASSUME NEW n \in 1 .. N
       PROVE  On(last + 3 + n) = {Word(last + 3 + n, Source(used[n], evidence))}
  <2> DEFINE w == Word(last + 3 + n, Source(used[n], evidence))
  <2>1. N # 0 /\ DOMAIN page.text = 1 .. K + 1 + N
    BY <1>4, <1>10
  <2>2. K + 1 + n \in DOMAIN page.text /\ page.text[K + 1 + n] = w /\ w.line = last + 3 + n
    BY <1>4, <1>10, <2>1 DEF Word
  <2>3. ASSUME NEW q \in DOMAIN page.text, page.text[q].line = last + 3 + n PROVE q = K + 1 + n
    <3>1. q \in Nat /\ 1 <= q /\ q <= K + 1 + N
      BY <1>4, <2>1
    <3>2. CASE q <= K
      <4>1. q \in 1 .. K /\ text[q].line \in 1 .. last
        BY <1>4, <1>11, <3>1, <3>2
      <4>2. page.text[q] = Reference(text[q].line, Num(q)) \/ page.text[q] = text[q]
        BY <1>10, <4>1, Zenon
      <4>3. page.text[q].line = text[q].line
        BY <4>2 DEF Reference
      <4> QED BY <1>4, <2>3, <4>1, <4>3
    <3>3. CASE q = K + 1
      <4>1. page.text[q].line = last + 2
        BY <1>10, <2>1, <3>3 DEF Word
      <4> QED BY <1>4, <2>3, <4>1
    <3>4. CASE q > K + 1
      <4> DEFINE m == q - (K + 1)
      <4>1. m \in 1 .. N /\ q = K + 1 + m
        BY <1>4, <3>1, <3>4
      <4> HIDE DEF m
      <4>2. page.text[q].line = last + 3 + m
        <5>1. page.text[K + 1 + m] = Word(last + 3 + m, Source(used[m], evidence))
          BY <1>10, <2>1, <4>1
        <5> QED BY <4>1, <5>1 DEF Word
      <4>3. m = n
        BY <1>4, <2>3, <4>1, <4>2
      <4> QED BY <4>1, <4>3
    <3> QED BY <1>4, <3>1, <3>2, <3>3, <3>4
  <2> HIDE DEF w
  <2> QED BY <2>2, <2>3 DEF w
<1>15. ASSUME NEW p \in markers
       PROVE  \E f \in DOMAIN notes :
                /\ {h \in DOMAIN notes : notes[h].id = page.text[p].reference} = {f}
                /\ On(notes[f].line) = {Word(notes[f].line, Source(text[p].marker, evidence))}
  <2>1. Num(p) \in 1 .. N /\ used[Num(p)] = text[p].marker
    BY <1>9
  <2>2. PICK f \in DOMAIN notes : g[f] = Num(p)
    BY <1>4, <1>8, <2>1, Zenon DEF Bijection, Surjection
  <2>3. \A h \in DOMAIN notes : g[h] = Num(p) => h = f
    <3>1. g \in [DOMAIN notes -> DOMAIN used] /\ IsInjective(g)
      BY <1>8, Zenon DEF Bijection, Injection
    <3> QED BY <2>2, <3>1 DEF IsInjective
  <2>4. {h \in DOMAIN notes : notes[h].id = Num(p)} = {f}
    BY <1>8, <2>2, <2>3
  <2>5. On(last + 3 + Num(p)) = {Word(last + 3 + Num(p), Source(text[p].marker, evidence))}
    BY <1>14, <2>1
  <2>6. notes[f].line = last + 3 + Num(p)
    BY <1>8, <2>2
  <2> HIDE DEF On, notes, markers
  <2> QED BY <1>12, <2>4, <2>5, <2>6
<1>16. ASSUME NEW p \in markers
       PROVE  page.text[p].reference <= 1 + Cardinality({page.text[q].reference : q \in {m \in markers : m < p}})
  <2>1. Num(p) <= 1 + Cardinality({Num(q) : q \in {m \in markers : m < p}})
    <3>1. markers = {q \in 1 .. K : IsMarker(text[q])}
      BY <1>4
    <3> HIDE DEF markers
    <3>2. UsedSo(text, I, used, first, Len(text)) /\ Len(text) \in Nat /\ markers = {q \in 1 .. Len(text) : IsMarker(text[q])}
      BY <1>3, <1>4, <3>1 DEF K
    <3>3. NextAt(text, used, markers, p)
      BY <3>2, NumbersInOrder
    <3> QED BY <3>3 DEF Num, NextAt
  <2>2. {Num(q) : q \in {m \in markers : m < p}} = {page.text[q].reference : q \in {m \in markers : m < p}}
    BY <1>12
  <2> QED BY <1>12, <2>1, <2>2
<1>17. Len(notes) = Cardinality({text[p].marker : p \in markers})
  <2> DEFINE S == {text[p].marker : p \in markers}
  <2>1. \A n \in 1 .. N : used[n] \in S
    <3> TAKE n \in 1 .. N
    <3>1. first[n] \in DOMAIN text /\ IsMarker(text[first[n]]) /\ text[first[n]].marker = used[n]
      BY <1>3, <1>4 DEF UsedSo
    <3> QED BY <3>1
  <2>2. \A id \in S : \E n \in 1 .. N : used[n] = id
    BY <1>9
  <2>3. \A m, n \in 1 .. N : used[m] = used[n] => m = n
    <3> SUFFICES ASSUME NEW m \in 1 .. N, NEW n \in 1 .. N, used[m] = used[n] PROVE m = n
      OBVIOUS
    <3>1. ~ (m < n) /\ ~ (n < m)
      BY <1>3, <1>4 DEF UsedSo
    <3> QED BY <1>4, <3>1
  <2> HIDE DEF S
  <2>4. used \in [1 .. N -> S] /\ DOMAIN used = 1 .. N
    <3>1. used \in Seq(I)
      BY <1>3 DEF UsedSo
    <3>2. used = [n \in 1 .. N |-> used[n]]
      BY <1>4, <3>1
    <3> QED BY <1>4, <2>1, <3>2
  <2>5. used \in Injection(1 .. N, S)
    BY <2>3, <2>4, Zenon DEF Injection, IsInjective
  <2>6. used \in Surjection(1 .. N, S)
    BY <2>2, <2>4, Zenon DEF Surjection
  <2>7. ExistsBijection(1 .. N, S)
    BY <2>5, <2>6 DEF Bijection, ExistsBijection
  <2>8. IsFiniteSet(1 .. N) /\ Cardinality(1 .. N) = N
    BY <1>4, FS_Interval
  <2>9. Cardinality(S) = N
    BY <2>7, <2>8, FS_Bijection
  <2> QED BY <1>7, <2>9 DEF S
<1> HIDE DEF markers, On, notes
<1> QED BY <1>10, <1>9, <1>12, <1>13, <1>15, <1>16, <1>17

-----------------------------------------------------------------------------
(* The texts and drafts of the tasks *)

\* The sentences of a text, of any lengths, are in order.
LEMMA RangesInText ==
  ASSUME NEW ls \in Seq(Nat \ {0})
  PROVE  InText(Ranges(ls)) /\ DOMAIN Ranges(ls) = DOMAIN ls
<1> DEFINE Turn(g, n) == IF n = 0 THEN 0 ELSE g[n - 1] + ls[n] + 1
           Turns(g, N) == g = [n \in 0 .. N |-> Turn(g, n)]
           P == {N \in Nat : \E g : Turns(g, N)}
<1>1. 0 \in P
  <2> DEFINE g == [n \in 0 .. 0 |-> 0]
  <2>1. Turns(g, 0)
    OBVIOUS
  <2> HIDE DEF Turns
  <2> QED BY <2>1
<1>2. ASSUME NEW N \in Nat, N \in P PROVE N + 1 \in P
  <2>1. PICK g : Turns(g, N)
    BY <1>2
  <2> DEFINE h == [n \in 0 .. N + 1 |-> IF n = N + 1 THEN g[N] + ls[N + 1] + 1 ELSE g[n]]
  <2>2. \A n \in 0 .. N : g[n] = Turn(g, n)
    BY <2>1
  <2>3. \A n \in 0 .. N + 1 : h[n] = Turn(h, n)
    <3> TAKE n \in 0 .. N + 1
    <3>1. CASE n = N + 1
      BY <3>1
    <3>2. CASE n # N + 1
      <4>1. n \in 0 .. N /\ (n # 0 => n - 1 \in 0 .. N + 1 /\ n - 1 # N + 1)
        BY <3>2
      <4>2. h[n] = Turn(g, n) /\ (n # 0 => h[n - 1] = g[n - 1])
        BY <2>2, <4>1
      <4> QED BY <4>2
    <3> QED BY <3>1, <3>2
  <2>4. Turns(h, N + 1)
    BY <2>3
  <2> HIDE DEF Turns
  <2> QED BY <2>4
<1> DEFINE L == Len(ls)
<1>3. L \in Nat /\ DOMAIN ls = 1 .. L
  OBVIOUS
<1> HIDE DEF P
<1>4. L \in P
  BY <1>1, <1>2, <1>3, EveryNumber
<1>5. \E g : Turns(g, L)
  BY <1>4 DEF P
<1> DEFINE next == CHOOSE g : Turns(g, L)
<1>6. Turns(next, L)
  BY <1>5
<1>7. Ranges(ls) = [n \in DOMAIN ls |-> [start |-> next[n - 1], end |-> next[n - 1] + ls[n]]]
  BY DEF Ranges
<1>8. \A n \in 0 .. L : next[n] = Turn(next, n)
  BY <1>6
<1>9. \A n \in 1 .. L : ls[n] \in Nat \ {0}
  BY <1>3
<1> HIDE DEF next, L
<1> DEFINE Q == {n \in Nat : n <= L => /\ next[n] \in Nat
                                       /\ \A m \in 1 .. n : /\ next[m - 1] \in Nat
                                                             /\ next[m - 1] + ls[m] < next[n]}
<1>10. 0 \in Q
  <2>1. next[0] = 0
    BY <1>3, <1>8
  <2> QED BY <2>1
<1>11. ASSUME NEW n \in Nat, n \in Q PROVE n + 1 \in Q
  <2> SUFFICES ASSUME n + 1 <= L
               PROVE  /\ next[n + 1] \in Nat
                      /\ \A m \in 1 .. n + 1 : next[m - 1] \in Nat /\ next[m - 1] + ls[m] < next[n + 1]
    OBVIOUS
  <2>1. n <= L /\ n + 1 \in 0 .. L /\ n + 1 \in 1 .. L /\ n + 1 # 0 /\ (n + 1) - 1 = n
    BY <1>3
  <2>2. next[n + 1] = next[n] + ls[n + 1] + 1
    BY <1>8, <2>1
  <2>3. /\ next[n] \in Nat
        /\ \A m \in 1 .. n : next[m - 1] \in Nat /\ next[m - 1] + ls[m] < next[n]
    BY <1>11, <2>1
  <2>4. ls[n + 1] \in Nat
    BY <1>9, <2>1
  <2>5. ASSUME NEW m \in 1 .. n + 1 PROVE next[m - 1] \in Nat /\ next[m - 1] + ls[m] < next[n + 1]
    <3>1. CASE m = n + 1
      BY <2>1, <2>2, <2>3, <2>4, <3>1
    <3>2. CASE m # n + 1
      <4>1. m \in 1 .. n /\ m \in 1 .. L
        BY <1>3, <2>1, <3>2
      <4>2. next[m - 1] \in Nat /\ next[m - 1] + ls[m] < next[n] /\ ls[m] \in Nat
        BY <1>9, <2>3, <4>1
      <4> QED BY <2>2, <2>3, <2>4, <4>2
    <3> QED BY <3>1, <3>2
  <2>6. next[n + 1] \in Nat
    BY <2>2, <2>3, <2>4
  <2> QED BY <2>5, <2>6
<1> HIDE DEF Q
<1>12. \A n \in Nat : n \in Q
  BY <1>10, <1>11, EveryNumber
<1>13. \A n \in 0 .. L : /\ next[n] \in Nat
                          /\ \A m \in 1 .. n : next[m - 1] \in Nat /\ next[m - 1] + ls[m] < next[n]
  BY <1>3, <1>12 DEF Q
<1> DEFINE units == Ranges(ls)
<1>14. /\ DOMAIN units = 1 .. L
       /\ \A n \in 1 .. L : /\ units[n] \in Span /\ units[n].start = next[n - 1]
                             /\ units[n].end = next[n - 1] + ls[n]
  <2> SUFFICES ASSUME NEW n \in 1 .. L
               PROVE  /\ units[n] \in Span /\ units[n].start = next[n - 1]
                      /\ units[n].end = next[n - 1] + ls[n]
    BY <1>3, <1>7
  <2>1. units[n] = [start |-> next[n - 1], end |-> next[n - 1] + ls[n]]
    BY <1>3, <1>7
  <2>2. n \in 0 .. L /\ n \in 1 .. n
    BY <1>3
  <2>3. next[n - 1] \in Nat /\ ls[n] \in Nat
    BY <1>9, <1>13, <2>2
  <2> QED BY <2>1, <2>3 DEF Span
<1>15. units = [n \in 1 .. L |-> units[n]]
  BY <1>3, <1>7
<1> HIDE DEF units
<1>16. units \in Seq(Span)
  BY <1>3, <1>14, <1>15
<1>17. \A n \in DOMAIN units : units[n].start < units[n].end
  <2> TAKE n \in DOMAIN units
  <2>1. n \in 0 .. L /\ n \in 1 .. n /\ n \in 1 .. L
    BY <1>3, <1>14
  <2>2. next[n - 1] \in Nat /\ ls[n] \in Nat \ {0}
    BY <1>9, <1>13, <2>1
  <2> QED BY <1>14, <2>1, <2>2
<1>18. \A m, n \in DOMAIN units : m < n => units[m].end <= units[n].start
  <2> SUFFICES ASSUME NEW m \in DOMAIN units, NEW n \in DOMAIN units, m < n PROVE units[m].end <= units[n].start
    OBVIOUS
  <2>1. n - 1 \in 0 .. L /\ m \in 1 .. n - 1 /\ m \in 1 .. L /\ n \in 1 .. L
    BY <1>3, <1>14
  <2>2. next[m - 1] + ls[m] < next[n - 1] /\ next[m - 1] \in Nat /\ ls[m] \in Nat /\ next[n - 1] \in Nat
    BY <1>9, <1>13, <2>1
  <2>3. units[m].end = next[m - 1] + ls[m] /\ units[n].start = next[n - 1]
    BY <1>14, <2>1
  <2> QED BY <2>2, <2>3
<1> QED BY <1>3, <1>14, <1>16, <1>17, <1>18 DEF InText, units
\* The sentences of a task, and its headings, are in order.
LEMMA TaskUnits ==
  ASSUME NEW t \in ChunkTasks
  PROVE  InText(Units(t)) /\ HeadingsInOrder(Headings(t.levels, Units(t)))
<1> DEFINE D == {1, 2, 3, 7}
           G == 1 .. 3
<1>1. D \subseteq Nat \ {0}
  OBVIOUS
<1>2. ASSUME NEW n \in Nat, NEW ls \in [1 .. n -> D] PROVE ls \in Seq(Nat \ {0}) /\ DOMAIN ls = 1 .. n
  <2> DEFINE E == Nat \ {0}
  <2>1. ls \in [1 .. n -> E]
    BY <1>1
  <2> HIDE DEF E
  <2>2. ls \in Seq(E) /\ DOMAIN ls = 1 .. n
    BY <2>1
  <2> QED BY <2>2 DEF E
<1>3. SeqOf(D, 6) \subseteq Seq(Nat \ {0})
  <2> SUFFICES ASSUME NEW ls \in SeqOf(D, 6) PROVE ls \in Seq(Nat \ {0})
    OBVIOUS
  <2> HIDE DEF D
  <2>1. PICK n \in 0 .. 6 : ls \in [1 .. n -> D]
    BY DEF SeqOf
  <2> QED BY <1>2, <2>1
<1>4. \/ t.lengths \in Seq(Nat \ {0}) /\ t.levels = <<>>
      \/ t.lengths \in [1 .. 4 -> D] /\ t.levels \in [1 .. 4 -> G]
  <2>1. \/ t \in {[of |-> "chunks", lengths |-> ls, levels |-> <<>>] : ls \in SeqOf(D, 6) \ {<<>>}}
        \/ t \in {[of |-> "chunks", lengths |-> ls, levels |-> levels] :
                    ls \in [1 .. 4 -> D], levels \in [1 .. 4 -> G]}
    BY DEF ChunkTasks
  <2> HIDE DEF D, G
  <2> QED BY <1>3, <2>1
<1> HIDE DEF D
<1>5. t.lengths \in Seq(Nat \ {0})
  BY <1>2, <1>4
<1> DEFINE units == Units(t)
           headings == Headings(t.levels, units)
<1>6. InText(units) /\ DOMAIN units = DOMAIN t.lengths
  BY <1>5, RangesInText DEF Units
<1> HIDE DEF units
<1>7. CASE t.levels = <<>>
  <2>1. headings = <<>>
    BY <1>7 DEF Headings
  <2> QED BY <1>6, <2>1 DEF HeadingsInOrder, units
<1>8. CASE t.lengths \in [1 .. 4 -> D] /\ t.levels \in [1 .. 4 -> G]
  <2>1. DOMAIN units = 1 .. 4
    BY <1>2, <1>6, <1>8
  <2>2. \A n \in 1 .. 4 : units[n] \in Span /\ units[n].start \in Nat /\ units[n].end \in Nat
    <3>1. units \in Seq(Span)
      BY <1>6 DEF InText
    <3>2. \A n \in 1 .. 4 : units[n] \in Span
      BY <2>1, <3>1, ItemOf
    <3> QED BY <3>2 DEF Span
  <2>3. headings = [n \in 1 .. 4 |-> [offset |-> units[n].start, level |-> t.levels[n]]]
    BY <1>8 DEF Headings
  <2>4. /\ DOMAIN headings = 1 .. 4
        /\ \A n \in 1 .. 4 : headings[n] \in HeadingOf /\ headings[n].offset = units[n].start
    BY <1>8, <2>2, <2>3 DEF HeadingOf
  <2>5. headings = [n \in 1 .. 4 |-> headings[n]]
    BY <2>3
  <2> HIDE DEF headings
  <2>6. headings \in Seq(HeadingOf)
    BY <2>4, <2>5
  <2>7. \A m, n \in 1 .. 4 : m < n => headings[m].offset < headings[n].offset
    <3> SUFFICES ASSUME NEW m \in 1 .. 4, NEW n \in 1 .. 4, m < n PROVE headings[m].offset < headings[n].offset
      OBVIOUS
    <3>1. units[m].start < units[m].end /\ units[m].end <= units[n].start
      BY <1>6, <2>1 DEF InText
    <3>2. units[m].start < units[n].start
      BY <2>2, <3>1
    <3> QED BY <2>4, <3>2
  <2> QED BY <1>6, <2>4, <2>6, <2>7 DEF HeadingsInOrder, headings, units
<1> QED BY <1>4, <1>7, <1>8

\* Sequences in a row are one sequence.
LEMMA Flattened ==
  ASSUME NEW S, NEW n \in Nat, NEW f \in [1 .. n -> Seq(S)]
  PROVE  FlattenSeq(f) \in Seq(S)
<1>1. f \in Seq(Seq(S)) /\ Len(f) = n
  OBVIOUS
<1>2. CASE n = 0
  <2>1. FlattenSeq(f) = f /\ f = <<>>
    BY <1>1, <1>2 DEF FlattenSeq
  <2> QED BY <2>1
<1>3. CASE n # 0
  <2> DEFINE Turn(g, i) == IF i = 1 THEN f[i] ELSE g[i - 1] \o f[i]
             Turns(g, N) == g = [i \in 1 .. N |-> Turn(g, i)]
             P == {N \in Nat : \E g : Turns(g, N)}
  <2>1. 0 \in P
    <3> DEFINE g == [i \in 1 .. 0 |-> f[i]]
    <3>1. Turns(g, 0)
      OBVIOUS
    <3> HIDE DEF Turns
    <3> QED BY <3>1
  <2>2. ASSUME NEW N \in Nat, N \in P PROVE N + 1 \in P
    <3>1. PICK g : Turns(g, N)
      BY <2>2
    <3> DEFINE h == [i \in 1 .. N + 1 |-> IF i = N + 1 THEN Turn(g, i) ELSE g[i]]
    <3>2. \A i \in 1 .. N : g[i] = Turn(g, i)
      BY <3>1
    <3>3. \A i \in 1 .. N + 1 : h[i] = Turn(h, i)
      <4> TAKE i \in 1 .. N + 1
      <4>1. i # 1 => i - 1 \in 1 .. N + 1 /\ i - 1 # N + 1
        OBVIOUS
      <4>2. i # 1 => h[i - 1] = g[i - 1]
        BY <4>1
      <4>3. h[i] = Turn(g, i)
        <5>1. CASE i = N + 1
          BY <5>1
        <5>2. CASE i # N + 1
          <6>1. i \in 1 .. N
            BY <5>2
          <6> HIDE DEF Turn
          <6> QED BY <3>2, <5>2, <6>1
        <5> QED BY <5>1, <5>2
      <4> HIDE DEF h
      <4> QED BY <4>2, <4>3
    <3>4. Turns(h, N + 1)
      BY <3>3
    <3> HIDE DEF Turns
    <3> QED BY <3>4
  <2> HIDE DEF P
  <2>3. n \in P
    BY <2>1, <2>2, EveryNumber
  <2>4. \E g : Turns(g, n)
    BY <2>3, Zenon DEF P
  <2> DEFINE flatten == CHOOSE g : Turns(g, n)
  <2>5. Turns(flatten, n)
    BY <2>4, Zenon
  <2>6. FlattenSeq(f) = flatten[n]
    BY <1>1, <1>3 DEF FlattenSeq
  <2>7. \A i \in 1 .. n : flatten[i] = Turn(flatten, i)
    BY <2>5, Zenon
  <2> HIDE DEF flatten
  <2> DEFINE Q == {i \in Nat : i \in 1 .. n => flatten[i] \in Seq(S)}
  <2>8. 0 \in Q
    OBVIOUS
  <2>9. ASSUME NEW i \in Nat, i \in Q PROVE i + 1 \in Q
    <3> SUFFICES ASSUME i + 1 \in 1 .. n PROVE flatten[i + 1] \in Seq(S)
      OBVIOUS
    <3>1. f[i + 1] \in Seq(S) /\ (i + 1) - 1 = i
      OBVIOUS
    <3>2. CASE i = 0
      BY <2>7, <3>1, <3>2
    <3>3. CASE i # 0
      <4>1. flatten[i] \in Seq(S) /\ i + 1 # 1
        BY <2>9, <3>3
      <4>2. flatten[i + 1] = flatten[i] \o f[i + 1]
        BY <2>7, <3>1, <4>1
      <4> QED BY <3>1, <4>1, <4>2
    <3> QED BY <3>2, <3>3
  <2> HIDE DEF Q
  <2>10. n \in Q
    BY <2>8, <2>9, EveryNumber
  <2>11. n \in 1 .. n
    BY <1>3
  <2> QED BY <2>6, <2>10, <2>11 DEF Q
<1> QED BY <1>2, <1>3

\* The drafts of the tasks are drafts.
LEMMA TaskDrafts ==
  ASSUME NEW t \in RenderTasks
  PROVE  \E lines \in Seq(LineWith({1, "E1", "E2", "E9"})) :
           \E text \in Seq(AtomOn({1, "E1", "E2", "E9"}, {"word"}, Len(lines))) :
             t.draft = [lines |-> lines, text |-> text]
<1> DEFINE I == {1, "E1", "E2", "E9"}
           Is(draft) == \E lines \in Seq(LineWith(I)) : \E text \in Seq(AtomOn(I, {"word"}, Len(lines))) :
                          draft = [lines |-> lines, text |-> text]
           Ids == {<<>>, <<"E2">>, <<"E1">>, <<"E9", "E1">>, <<"E1", "E1">>}
<1>1. Ids \subseteq Seq(I) /\ {<<>>} \subseteq Seq(I) /\ 1 \in I
  OBVIOUS
<1>2. \E n \in Nat : \E kinds \in SUBSET LineKinds : \E markers \in SUBSET Seq(I) :
        t.draft \in Drafts(n, kinds, markers)
  <2> DEFINE four == Drafts(4, LineKinds, {<<>>})
             five == Drafts(5, {"text", "ul", "ol", "quote"}, {<<>>})
             three == Drafts(3, {"text", "ul", "footnote"}, Ids)
  <2>1. t \in {[of |-> "render", draft |-> d] : d \in four \cup five \cup three}
    BY DEF RenderTasks
  <2>2. t.draft \in four \/ t.draft \in five \/ t.draft \in three
    <3> HIDE DEF four, five, three
    <3> QED BY <2>1
  <2>3. {"text", "ul", "ol", "quote"} \in SUBSET LineKinds /\ {"text", "ul", "footnote"} \in SUBSET LineKinds
        /\ LineKinds \in SUBSET LineKinds
    BY DEF LineKinds
  <2> HIDE DEF Ids, I
  <2> QED BY <1>1, <2>2, <2>3
<1> HIDE DEF I
<1>3. ASSUME NEW n \in Nat, NEW kinds \in SUBSET LineKinds, NEW markers \in SUBSET Seq(I),
             NEW draft \in Drafts(n, kinds, markers)
      PROVE  Is(draft)
  <2>1. PICK ks \in [1 .. n -> kinds], ms \in [1 .. n -> markers] : draft = Draft(n, ks, ms)
    BY DEF Drafts
  <2> DEFINE lines == [i \in 1 .. n |-> IF ks[i] = "footnote" THEN Definition(1) ELSE Line(ks[i])]
             parts == [i \in 1 .. n |-> DraftLine(i, ms[i])]
             A == AtomOn(I, {"word"}, n)
  <2>2. \A i \in 1 .. n : lines[i] \in LineWith(I)
    <3> TAKE i \in 1 .. n
    <3>1. ks[i] \in LineKinds
      OBVIOUS
    <3>2. ks[i] # "footnote" => ks[i] \in Shown \cup {"blank"}
      BY <3>1 DEF LineKinds, Shown, Running
    <3> QED BY <1>1, <3>2 DEF Definition, Line, LineWith
  <2>3. lines \in Seq(LineWith(I)) /\ Len(lines) = n
    <3> DEFINE L == LineWith(I)
    <3>1. \A i \in 1 .. n : lines[i] \in L
      BY <2>2
    <3>2. lines = [i \in 1 .. n |-> lines[i]]
      OBVIOUS
    <3> HIDE DEF lines, L
    <3>3. lines \in Seq(L) /\ Len(lines) = n
      BY <3>1, <3>2
    <3> QED BY <3>3 DEF L
  <2>4. \A i \in 1 .. n : parts[i] \in Seq(A)
    <3> TAKE i \in 1 .. n
    <3> DEFINE word == <<Word(i, "word")>>
               marks == [m \in DOMAIN ms[i] |-> Marker(i, ms[i][m])]
    <3>1. word \in Seq(A)
      <4>1. Word(i, "word") \in A
        BY DEF Word, AtomOn
      <4> HIDE DEF A
      <4> QED BY <4>1
    <3>2. ms[i] \in Seq(I)
      OBVIOUS
    <3>3. marks \in Seq(A)
      <4>1. \A m \in DOMAIN ms[i] : Marker(i, ms[i][m]) \in A
        <5> TAKE m \in DOMAIN ms[i]
        <5>1. ms[i][m] \in I
          BY <3>2, ItemOf
        <5> QED BY <5>1 DEF Marker, AtomOn
      <4>2. marks = [m \in DOMAIN ms[i] |-> marks[m]]
        OBVIOUS
      <4>3. DOMAIN ms[i] = 1 .. Len(ms[i]) /\ Len(ms[i]) \in Nat
        BY <3>2
      <4>4. \A m \in DOMAIN ms[i] : marks[m] \in A
        BY <4>1
      <4> HIDE DEF A, marks
      <4> QED BY <4>2, <4>3, <4>4
    <3>4. parts[i] = word \o marks
      BY DEF DraftLine
    <3> HIDE DEF word, marks, A, parts
    <3> QED BY <3>1, <3>3, <3>4
  <2>5. parts \in [1 .. n -> Seq(A)]
    BY <2>4
  <2> HIDE DEF parts, lines
  <2>6. FlattenSeq(parts) \in Seq(A)
    BY <2>5, Flattened
  <2> DEFINE text == FlattenSeq(parts)
  <2>7. draft = [lines |-> lines, text |-> text]
    BY <2>1 DEF lines, parts, Draft
  <2> HIDE DEF text
  <2> QED BY <2>3, <2>6, <2>7 DEF text
<1>4. Is(t.draft)
  BY <1>2, <1>3
<1> QED BY <1>4 DEF I

\* In particular nothing is lost from the texts and drafts of the tasks (chunker.ts,
\* grounding.ts renderWithSources, markdown.ts).
THEOREM TasksLoseNothing == Spec => []NothingLost
<1> DEFINE Right == /\ task.of = "chunks" => task \in ChunkTasks
                    /\ task.of = "render" => task \in RenderTasks
<1>1. Init => Right
  BY DEF Init, RobotsTasks, ChunkTasks, HtmlTasks, GroundingTasks, GateTasks, ReadinessTasks,
         ReportTasks, RenderTasks, AccessTasks
<1>2. Right /\ [Next]_<<task, answer>> => Right'
  BY DEF Next, Run
<1>3. Right => NothingLost
  <2> SUFFICES ASSUME Right PROVE NothingLost
    OBVIOUS
  <2>1. ASSUME Answered("chunks") PROVE Complete(Units(task), Headings(task.levels, Units(task)))
    <3>1. task \in ChunkTasks
      BY <2>1 DEF Answered
    <3> QED BY <3>1, TaskUnits, ChunksComplete
  <2>2. ASSUME Answered("render")
        PROVE  NothingUnrendered(task.draft, Passages) /\ SourcesShown(task.draft, Passages)
    <3>1. task \in RenderTasks
      BY <2>2 DEF Answered
    <3>2. PICK lines \in Seq(LineWith({1, "E1", "E2", "E9"})) :
            \E text \in Seq(AtomOn({1, "E1", "E2", "E9"}, {"word"}, Len(lines))) :
              task.draft = [lines |-> lines, text |-> text]
      BY <3>1, TaskDrafts
    <3>3. PICK text \in Seq(AtomOn({1, "E1", "E2", "E9"}, {"word"}, Len(lines))) :
            task.draft = [lines |-> lines, text |-> text]
      BY <3>2
    <3> QED BY <3>3, DraftsRendered
  <2> QED BY <2>1, <2>2 DEF NothingLost
<1> QED BY <1>1, <1>2, <1>3, PTL DEF Spec
=============================================================================
