----------------------------- MODULE Readiness ------------------------------
(***************************************************************************)
(* The readiness score of packages/core/src/geo/analyzer.ts.  A page is    *)
(* known by the facts its checks read, each with its values from worst to  *)
(* best; how a fact is found in the HTML is left out, and so are the       *)
(* informational checks, which carry no points.  Points are counted in     *)
(* halves and dimension scores in quarters, so that all of it is exact.    *)
(***************************************************************************)
EXTENDS Integers, Sequences, FiniteSetsExt

\* The search agents robots.txt blocks; Unknown when robots.txt was not given;
\* the quality Unjudged when no judge is configured.
Unknown   == "unknown"
Unjudged  == -1

Values == [
  blocked   |-> <<"all", "some", "none">>,
  index     |-> <<"noindex", "limited", "open">>,
  canonical |-> <<"other host", "missing", "absolute">>,
  words     |-> <<20, 50, 150>>,
  headings  |-> <<0, 1, 2>>,
  stats     |-> <<"none", "bare", "attributed">>,
  domains   |-> <<0, 1, 2>>,
  quotes    |-> <<0, 1>>,
  tables    |-> <<0, 1>>,
  entity    |-> <<FALSE, TRUE>>,
  summary   |-> <<FALSE, TRUE>>,
  dates     |-> <<"none", "one", "both">>,    \* both in the wrong order count as one
  age       |-> <<"older", "two years", "a year">>,
  author    |-> <<FALSE, TRUE>>,
  org       |-> <<"none", "weak", "strong">>,
  parses    |-> <<FALSE, TRUE>>,
  matches   |-> <<FALSE, TRUE>>,              \* headline and organisation are on the page
  h1        |-> <<"none", "several", "one">>,
  skips     |-> <<TRUE, FALSE>>,
  landmarks |-> <<"none", "main", "main and nav">>,
  alt       |-> <<"none", "some", "all">>,
  lang      |-> <<FALSE, TRUE>>,
  hreflang  |-> <<FALSE, TRUE>>,
  repeats   |-> <<"over 4%", "over 3%", "less">>,
  hidden    |-> <<"injection", "css", "none">>,
  quality   |-> <<0, 24, 42, 60>>]            \* quarters of its 15 points

\* Facts that no page has together.
Possible(p) ==
  /\ p.h1 # "none" => p.headings > 0
  /\ p.h1 = "several" => p.headings > 1
  /\ p.dates = "none" => p.age = "older"
  /\ p.skips => p.headings > 0
  /\ p.h1 = "none" /\ p.headings > 0 => p.skips

-----------------------------------------------------------------------------
(* The checks: of each its dimension, its most points, its status, its points in *)
(* halves, and whether it comes with a recommendation.                           *)

Best(p, f)  == p[f] = Values[f][Len(Values[f])]
Worst(p, f) == p[f] = Values[f][1]
Grade(pass, warn) == IF pass THEN "pass" ELSE IF warn THEN "warn" ELSE "fail"

\* pass is worth every point and warn half of them.
Halves(max, status) == CASE status = "pass" -> 2 * max [] status = "warn" -> max [] OTHER -> 0

Check(dimension, max, status) ==
  [dimension |-> dimension, max |-> max, status |-> status, halves |-> Halves(max, status),
   advised |-> status \in {"warn", "fail"}]
Unadvised(c)     == [c EXCEPT !.advised = FALSE]
Advised(c, when) == [c EXCEPT !.advised = when]
Worth(c, halves) == [c EXCEPT !.halves = halves]
Penalty(max, status, onWarn) ==
  Worth(Check("hygiene", max, status),
        CASE status = "fail" -> -2 * max [] status = "warn" -> -2 * onWarn [] OTHER -> 0)

\* Three grades, by the place of the fact's value.
Ranked(p, f) == Grade(Best(p, f), ~Worst(p, f))

\* R1 to R4.
Retrievability(p) == <<
  Check("retrievability", 10, IF p.blocked = Unknown THEN "na" ELSE Ranked(p, "blocked")),
  Check("retrievability", 8, Ranked(p, "index")),
  Check("retrievability", 6, Ranked(p, "canonical")),
  Advised(Check("retrievability", 6, Grade(p.words >= 150 /\ p.headings > 0, p.words >= 50)), p.words < 150)>>

\* E1 to E6.
Evidence(p) == <<
  Worth(Check("evidence", 7, Grade(Best(p, "stats"), TRUE)),
         CASE p.stats = "none" -> 4 [] p.stats = "bare" -> 7 [] OTHER -> 14),
  Check("evidence", 6, Ranked(p, "domains")),
  Check("evidence", 4, Grade(p.quotes > 0, TRUE)),
  Check("evidence", 4, Grade(p.tables > 0, TRUE)),
  Check("evidence", 2, Grade(p.entity, TRUE)),
  Check("evidence", 2, Grade(p.summary, TRUE))>>

\* P1 to P5.
Provenance(p) == <<
  Check("provenance", 6, Ranked(p, "dates")),
  Check("provenance", 4, IF p.dates = "none" THEN "fail" ELSE Ranked(p, "age")),
  Check("provenance", 4, Grade(p.author, TRUE)),
  Check("provenance", 4, Ranked(p, "org")),
  Check("provenance", 2, Grade(p.parses /\ p.matches, TRUE))>>

\* S1 to S6.
Structure(p) == <<
  Check("structure", 3, Ranked(p, "h1")),
  Unadvised(Check("structure", 2, Grade(p.headings > 1 /\ ~p.skips, TRUE))),
  Check("structure", 2, Ranked(p, "landmarks")),
  Unadvised(Check("structure", 1, Ranked(p, "alt"))),
  Unadvised(Check("structure", 1, Grade(p.lang, TRUE))),
  Unadvised(Check("structure", 1, Grade(p.hreflang, TRUE)))>>

\* H1 to H4.
Hygiene(p) == <<
  Penalty(5, Ranked(p, "repeats"), 2),
  Penalty(6, Ranked(p, "hidden"), 3),
  Penalty(2, Grade(p.words >= 150, FALSE), 0),
  Unadvised(Penalty(2, Grade(p.matches, FALSE), 0))>>

-----------------------------------------------------------------------------
(* Scoring, in quarters of a point *)

\* The points or the most points, halves or max, of the checks that apply.
SumOf(checks, field) ==
  LET sum[n \in 0 .. Len(checks)] ==
        IF n = 0 THEN 0
        ELSE sum[n - 1] + IF checks[n].status = "na" THEN 0 ELSE checks[n][field]
  IN  sum[Len(checks)]

\* A dimension's share of its weight; it divides evenly.
Weighted(checks, weight) == (2 * weight * SumOf(checks, "halves")) \div SumOf(checks, "max")

Deterministic(p) ==
  Weighted(Retrievability(p), 30) + Weighted(Evidence(p), 25) +
  Weighted(Provenance(p), 20) + Weighted(Structure(p), 10)

MaxPenalty == 15
Penalties(p) == Min({-2 * SumOf(Hygiene(p), "halves"), 4 * MaxPenalty})

AtLeast0(n) == IF n < 0 THEN 0 ELSE n

\* Of 85 points, rescaled to 100 and rounded.
DeterministicScore(p) == AtLeast0((200 * Deterministic(p) + 340) \div 680 - Penalties(p) \div 4)

Score(p) ==
  CASE p.blocked = "all"      -> 0
    [] p.blocked # "all" /\ p.quality = Unjudged -> DeterministicScore(p)
    [] OTHER -> AtLeast0((Deterministic(p) + p.quality - Penalties(p) + 2) \div 4)

\* recommendations: the advised checks, those with most points at stake first; a sort of
\* equal ones keeps the order of the checks, which is left out.
Checks(p) == Retrievability(p) \o Evidence(p) \o Provenance(p) \o Structure(p) \o Hygiene(p)
Recommendations(p) == {i \in DOMAIN Checks(p) : Checks(p)[i].advised}
AtStake(c) == IF c.dimension = "hygiene" THEN -c.halves ELSE 2 * c.max - c.halves

-----------------------------------------------------------------------------
(* Properties *)

\* The page with one fact one step better.
Improved(p, f) == [p EXCEPT ![f] = Values[f][1 + CHOOSE n \in DOMAIN Values[f] : Values[f][n] = @]]
Known(p, f) == (f = "blocked" => p.blocked # Unknown) /\ (f = "quality" => p.quality # Unjudged)
Improvements(p) ==
  {q \in {Improved(p, f) : f \in {g \in DOMAIN Values : Known(p, g) /\ ~Best(p, g)}} : Possible(q)}

\* The score of a page is within 0 and 100 and no improvement of the page lowers it; a page
\* that no recommendation is made for lacks less than five points; and every
\* recommendation has points at stake (analyzer.ts 302-340).
ScoreHonest(p) ==
  /\ Score(p) \in 0 .. 100 /\ DeterministicScore(p) \in 0 .. 100
  /\ \A q \in Improvements(p) : Score(q) >= Score(p) /\ DeterministicScore(q) >= DeterministicScore(p)
  /\ Recommendations(p) = {} => DeterministicScore(p) > 95
  /\ \A i \in Recommendations(p) : AtStake(Checks(p)[i]) > 0
=============================================================================
