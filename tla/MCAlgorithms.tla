---------------------------- MODULE MCAlgorithms ----------------------------
(***************************************************************************)
(* The pure functions of the system on every input of small sets: a task   *)
(* is an input of one of them, and one step computes its answer.           *)
(***************************************************************************)
EXTENDS Policy, Grounding, Robots, Chunker, Html, Readiness, Report, Rendering, TLC

CONSTANTS gpt, gptbot, root, dir

ASSUME TokenAssumption == {gpt, gptbot, Star, root, dir, Empty} \subseteq DOMAIN Length

VARIABLES task, answer

\* The agent gptbot-x is fitted by both tokens, and bot by none.
MCLength == (gpt :> 3) @@ (gptbot :> 6) @@ (Star :> 1) @@ (root :> 1) @@ (dir :> 4) @@ (Empty :> 0)
MCFits   == [a \in Agent |-> IF a = "GPTBot" THEN {gpt, gptbot} ELSE {}]
MCCovers == (root :> Path) @@ (dir :> {"/dir/a"})

-----------------------------------------------------------------------------
(* Inputs *)

Record(f, vs) == {[field |-> f, value |-> v] : v \in vs}
Records == Record("user-agent", {gpt, gptbot, Star}) \cup Record("allow", {dir})
             \cup Record("disallow", {dir, root, Empty}) \cup Record("sitemap", {root})
RobotsTasks == {[of |-> "robots", lines |-> ls] : ls \in SeqOf(Records, 5)}

\* Sentences of these lengths, one character apart.
Ranges(lengths) ==
  LET next[n \in 0 .. Len(lengths)] == IF n = 0 THEN 0 ELSE next[n - 1] + lengths[n] + 1
  IN  [n \in DOMAIN lengths |-> [start |-> next[n - 1], end |-> next[n - 1] + lengths[n]]]
Units(t) == Ranges(t.lengths)
Headings(levels, units) ==
  [n \in DOMAIN levels |-> [offset |-> units[n].start, level |-> levels[n]]]
ChunkTasks ==
  {[of |-> "chunks", lengths |-> ls, levels |-> <<>>] : ls \in SeqOf({1, 2, 3, 7}, 6) \ {<<>>}} \cup
  {[of |-> "chunks", lengths |-> ls, levels |-> levels] :
     ls \in [1 .. 4 -> {1, 2, 3, 7}], levels \in [1 .. 4 -> 1 .. 3]}

Sentences ==
  [markers : SUBSET {"E1", "E2", "E9"}, specifics : SUBSET {"14"}, negations : SUBSET {"not"},
   overlap : [{"E1", "E2"} -> {20, 35, 50}], material : BOOLEAN]
Items == [specifics : SUBSET {"14"}, negations : SUBSET {"not"}]
GroundingTasks ==
  {[of |-> "draft", draft |-> d, evidence |-> e] :
     d \in {<<s>> : s \in Sentences} \cup
           {<<s, t>> : s \in Sentences,
                       t \in {x \in Sentences : x.material /\ x.markers = {"E1"} /\ x.specifics # {}
                                                 /\ x.negations = {} /\ x.overlap["E2"] = 20}},
     e \in [{"E1", "E2"} -> Items]}

Pair(name, hidden, role) ==
  [before |-> Tag("open", name, hidden, role, FALSE), after |-> Tag("close", name, FALSE, "", FALSE)]
Pairs == {Pair("div", FALSE, ""), Pair("div", TRUE, ""), Pair("span", TRUE, ""), Pair("script", FALSE, ""),
          Pair("nav", FALSE, "navigation"), Pair("main", FALSE, ""), Pair("h2", FALSE, ""),
          Pair("a", FALSE, ""), Pair("title", FALSE, ""),
          [before |-> Opener("comment"), after |-> Closer("comment")]}
Others == {<<Opener("doctype"), Closer("doctype")>>, <<Tag("open", "br", TRUE, "", TRUE)>>}

\* The pages of n nodes.
Pages(n, leaves) ==
  LET Forests[m \in 0 .. n] ==
        IF m = 0 THEN {<<>>}
        ELSE UNION {{first \o rest :
                       first \in IF k = 1 THEN leaves
                                ELSE {<<p.before>> \o page \o <<p.after>> : p \in Pairs, page \in Forests[k - 1]},
                       rest \in Forests[m - k]} : k \in 1 .. m}
  IN  Forests[n]
HtmlTasks == {[of |-> "html", page |-> page] : page \in Pages(4, Others \cup {<<Text>>}) \cup Pages(5, {<<Text>>})}

Policies ==
  [blockUnsupported : BOOLEAN, blockCoverageBelow : {0, 60}, prohibitedKinds : SUBSET {"web"},
   always : {FALSE}, approveAi : BOOLEAN, readinessBelow : {0, 50}, readinessUnknown : BOOLEAN,
   approveCoverageBelow : {0, 100}, sensitiveTopics : {{}, {"health"}}, disclosure : {TRUE},
   marking : BOOLEAN]
Facts ==
  [aiAssisted : BOOLEAN, readiness : {NoScore, 40, 50}, coverage : {50, 60},
   unsupported : {0, 1}, topics : SUBSET {"health"}, kinds : SUBSET {"web"}]
GateTasks == {[of |-> "gate", policy |-> p] : p \in Policies}

Requirements == {<<>>, [approval |-> {"approved"}], [retention |-> {0}],
                 [approval |-> {"approved"}, retention |-> {0}]}
Classes == {"public", "personal"}
Rules == [classes : SUBSET Classes \ {{}}, effect : {"allow", "deny"}, require : Requirements]
Models == [allowed : SUBSET Classes, approval : {"draft", "approved"}, retention : {0, 30}]
AccessTasks == {[of |-> "access", rules |-> rs] : rs \in {{}} \cup {{r, s} : r, s \in Rules}}

\* Pages that differ in two facts from the best one, the worst one, or the best one that
\* lacks all that is not recommended.
Good   == [f \in DOMAIN Values |-> Values[f][Len(Values[f])]]
Bad    == [[f \in DOMAIN Values |-> Values[f][1]] EXCEPT !.skips = FALSE]    \* no headings to skip
Silent == [Good EXCEPT !.skips = TRUE, !.alt = "none", !.lang = FALSE, !.hreflang = FALSE]
FactValues(f) ==
  Range(Values[f]) \cup (CASE f = "blocked" -> {Unknown} [] f = "quality" -> {Unjudged} [] OTHER -> {})
ReadinessTasks ==
  {[of |-> "readiness", page |-> p] :
     p \in {q \in UNION {{[[page EXCEPT ![f] = v] EXCEPT ![g] = w] : v \in FactValues(f), w \in FactValues(g)} :
                         f, g \in DOMAIN Values, page \in {Good, Bad, Silent}} : Possible(q)}}

QuerySet == [brand |-> {<<"nova">>, <<"supernova">>}, domains |-> {"ours"},
             competitors |-> [bank |-> {<<"bank">>}, novabank |-> {<<"nova", "bank">>}],
             intent |-> [q1 |-> "local", q2 |-> "research"]]
Answers(words, queries, models) ==
  [words : words, links : SUBSET {"ours"}, tool : SUBSET {"ours"}, query : queries,
   provider : {"p"}, model : models, version : {NoVersion, "v1", "v2"}]
ReportTasks ==
  {[of |-> "report", answers |-> <<a>>] :
     a \in Answers(SeqOf({"nova", "bank", "supernova", "other"}, 4), {"q1"}, {<<"m">>})} \cup
  {[of |-> "report", answers |-> <<a, b>>] :
     a, b \in Answers({<<>>, <<"bank", "nova">>, <<"nova", "bank">>}, {"q1", "q2"}, {<<"m">>, <<"meta", "m">>})}

\* Drafts of one kind of line or another, and of lines that cite evidence or what is none.
LineKinds == {"blank", "text", "heading", "ul", "ol", "quote", "footnote"}
DraftLine(i, markers) == <<Word(i, "word")>> \o [m \in DOMAIN markers |-> Marker(i, markers[m])]
Draft(n, ks, ms) ==
  [lines |-> [i \in 1 .. n |-> IF ks[i] = "footnote" THEN Definition(1) ELSE Line(ks[i])],
   text  |-> FlattenSeq([i \in 1 .. n |-> DraftLine(i, ms[i])])]
Drafts(n, kinds, markers) == {Draft(n, ks, ms) : ks \in [1 .. n -> kinds], ms \in [1 .. n -> markers]}
RenderTasks ==
  {[of |-> "render", draft |-> d] :
     d \in Drafts(4, LineKinds, {<<>>}) \cup Drafts(5, {"text", "ul", "ol", "quote"}, {<<>>}) \cup
           Drafts(3, {"text", "ul", "footnote"}, {<<>>, <<"E2">>, <<"E1">>, <<"E9", "E1">>, <<"E1", "E1">>})}
Passages == [E1 |-> "first passage", E2 |-> "second passage", E3 |-> "third passage"]

-----------------------------------------------------------------------------
Init ==
  /\ \/ task \in RobotsTasks
     \/ task \in ChunkTasks
     \/ task \in HtmlTasks
     \/ task \in GroundingTasks
     \/ task \in GateTasks
     \/ task \in ReadinessTasks
     \/ task \in ReportTasks
     \/ task \in RenderTasks
     \/ task \in AccessTasks
  /\ answer = <<>>

Run(of, result) == task.of = of /\ answer = <<>> /\ answer' = <<result>> /\ UNCHANGED task

Next ==
  \/ Run("robots", [p \in Path |-> EvaluateAiAccess(task.lines, p)])
  \/ Run("chunks", ChunkText(Units(task), Headings(task.levels, Units(task))))
  \/ Run("html", ExtractHtml(task.page))
  \/ Run("draft", VerifyDraft(task.draft, task.evidence))
  \/ Run("gate", {EvaluatePublication(task.policy, f) : f \in Facts})
  \/ Run("readiness", Score(task.page))
  \/ Run("report", MakeReport(QuerySet, [i \in DOMAIN task.answers |-> Observe(QuerySet, task.answers[i])]))
  \/ Run("render", Render(task.draft, Passages))
  \/ Run("access", {[model |-> m, effect |-> EvaluateModelAccess(task.rules, m, {"personal"})] : m \in Models})

Spec == Init /\ [][Next]_<<task, answer>>

-----------------------------------------------------------------------------
(* Properties: each states, of every input of its function, what the module of the   *)
(* function defines.                                                                  *)

Answered(of) == task.of = of /\ answer # <<>>

\* robots.txt means what its lines say, for every agent and path (robots.ts).
RobotsAsDeclared == Answered("robots") => AsDeclared(task.lines)

\* The chunks of a text leave none of it out, but for the end of sentences longer than
\* the target, and know their headings; a page has all of its draft, and a source for every
\* marker (chunker.ts, markdown.ts, grounding.ts renderWithSources).
NothingLost ==
  /\ Answered("chunks") => Complete(Units(task), Headings(task.levels, Units(task)))
  /\ Answered("render") => NothingUnrendered(task.draft, Passages) /\ SourcesShown(task.draft, Passages)

\* What is extracted from a page is what it shows, and all of it (html.ts).
EvidenceIsVisible == Answered("html") /\ Plain(task.page) => ShowsOnly(task.page)

\* A report finds what is fabricated, more evidence never hurts, and the gate denies a
\* draft with a fabricated claim (grounding.ts, policy.ts evaluatePublication).
FabricationDenied ==
  Answered("draft") =>
    /\ ReportSound(task.draft, task.evidence)
    /\ LET report == VerifyDraft(task.draft, task.evidence)
           policy == [blockUnsupported |-> TRUE, blockCoverageBelow |-> 0, prohibitedKinds |-> {}]
           facts  == [unsupported |-> report.unsupported, coverage |-> report.coverage, kinds |-> {}]
       IN  (\E i \in DOMAIN task.draft : Fabricated(task.draft[i], task.evidence)) =>
             Blockers(policy, facts) # {}

\* A report of the observatory counts every answer once, and cites only what a tool cited
\* (observatory/runner.ts).
ReportAddsUp == Answered("report") => AddsUp(QuerySet, task.answers)

\* Worse facts never make publication easier, no improvement of a page lowers the readiness
\* score the gate reads, and the policy never widens what the registry allows (policy.ts,
\* analyzer.ts).
DecisionsMonotone ==
  /\ Answered("gate") => WorseNeverEasier(task.policy, Facts)
  /\ Answered("access") =>
       \A m \in Models, cs \in SUBSET Classes : NeverWidens(task.rules, m, cs)
  /\ Answered("readiness") => ScoreHonest(task.page)
=============================================================================
