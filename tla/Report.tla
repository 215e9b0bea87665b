------------------------------- MODULE Report -------------------------------
(***************************************************************************)
(* What packages/core/src/observatory/runner.ts makes of an answer, and of *)
(* the stored observations of a query set: detectMentions, detectCitations *)
(* and report().                                                           *)
(*                                                                         *)
(* An answer is the sequence of its words with the addresses in its text   *)
(* and those the provider's tool cited; a name is a sequence of words.  A  *)
(* rate is a pair of counts: its interval (stats.ts) is left out.          *)
(***************************************************************************)
EXTENDS Integers, Sequences, SequencesExt, FiniteSets, FiniteSetsExt

\* What a provider did not say, and the position of a brand that is not mentioned.
NoVersion  == "no version"
NoPosition == 0

-----------------------------------------------------------------------------
(* An observation *)

\* Where one of the names first stands in the text, 0 if none does.
DetectMentions(words, names) ==
  LET Places(name) == {i \in DOMAIN words : IsPrefix(name, SubSeq(words, i, Len(words)))}
      places == UNION {Places(name) : name \in names}
  IN  IF places = {} THEN 0 ELSE Min(places)

\* The addresses of these domains that the tool cited, and those only the text has.
DetectCitations(links, tool, domains) ==
  [toolCited |-> tool \cap domains, textLinked |-> (links \ tool) \cap domains]

CitedAnywhere(citations) == citations.toolCited # {} \/ citations.textLinked # {}   \* mutant
Cited(citations) == citations.toolCited # {}

\* The position is the brand's place among those mentioned; at the same word the brand
\* comes first.
Observe(querySet, answer) ==
  LET brand == DetectMentions(answer.words, querySet.brand)
      index == [c \in DOMAIN querySet.competitors |-> DetectMentions(answer.words, querySet.competitors[c])]
      above == {c \in DOMAIN index : index[c] # 0 /\ index[c] < brand}
  IN  [query |-> answer.query, provider |-> answer.provider, model |-> answer.model,
       version |-> answer.version, mentioned |-> brand # 0,
       cited |-> Cited(DetectCitations(answer.links, answer.tool, querySet.domains)),
       competitors |-> {c \in DOMAIN index : index[c] # 0},
       position |-> IF brand = 0 THEN NoPosition ELSE 1 + Cardinality(above)]

-----------------------------------------------------------------------------
(* report, of rows in a sequence; a group of rows is the set of their places *)

Aggregate(rows, group) ==
  [n        |-> Cardinality(group),
   mentions |-> Cardinality({i \in group : rows[i].mentioned}),
   cited    |-> Cardinality({i \in group : rows[i].cited})]

\* The key of each row: `provider/model` for a model, and with the query for a series.  A
\* model name may hold the separator; it is a sequence of parts.
ModelKeys(rows)  == [i \in DOMAIN rows |-> <<rows[i].provider>> \o rows[i].model]
SeriesKeys(rows) ==
  [i \in DOMAIN rows |-> [query |-> rows[i].query, provider |-> rows[i].provider, model |-> rows[i].model]]
Intents(querySet, rows) == [i \in DOMAIN rows |-> querySet.intent[rows[i].query]]
Group(keys, key) == {i \in DOMAIN keys : keys[i] = key}

Series(querySet, rows, group) ==
  LET placed == {i \in group : rows[i].position # NoPosition}
  IN  [rates |-> Aggregate(rows, group),
       competitors |-> [c \in DOMAIN querySet.competitors |->
                          Cardinality({i \in group : c \in rows[i].competitors})],
       positions |-> Cardinality(placed),
       places    |-> SumFunctionOnSet([i \in placed |-> rows[i].position], placed)]

Versions(rows, group) == {rows[i].version : i \in group} \ {NoVersion}

\* The provider and the model of a break are the first two parts of the key.
Breaks(rows) ==
  LET In(key) == Versions(rows, Group(ModelKeys(rows), key))
  IN  {[provider |-> key[1], model |-> key[2], versions |-> In(key)] :
         key \in {k \in Range(ModelKeys(rows)) : Cardinality(In(k)) > 1}}

MakeReport(querySet, rows) ==
  LET Table(keys, rowKeys) == [key \in keys |-> Aggregate(rows, Group(rowKeys, key))]
  IN  [overall   |-> Aggregate(rows, DOMAIN rows),
       perModel  |-> Table(Range(ModelKeys(rows)), ModelKeys(rows)),
       perIntent |-> Table(Range(querySet.intent), Intents(querySet, rows)),
       queries   |-> [key \in Range(SeriesKeys(rows)) |->
                        Series(querySet, rows, Group(SeriesKeys(rows), key))],
       breaks    |-> Breaks(rows)]

-----------------------------------------------------------------------------
(* Properties *)

\* A report counts every observation once in each of its tables; an answer counts as
\* citing the brand only when the tool cited it, and it has a place among the competitors
\* exactly when it is mentioned, at most the last one; and a series of a model breaks
\* exactly when two versions of it answered (runner.ts 124-139, 216-229, 240-291).
AddsUp(querySet, answers) ==
  LET rows   == [i \in DOMAIN answers |-> Observe(querySet, answers[i])]
      report == MakeReport(querySet, rows)
      Total(table, field) == SumFunction([key \in DOMAIN table |-> table[key][field]])
  IN  /\ \A field \in {"n", "mentions", "cited"} :
           /\ Total(report.perModel, field) = report.overall[field]
           /\ Total(report.perIntent, field) = report.overall[field]
           /\ Total([key \in DOMAIN report.queries |-> report.queries[key].rates], field) = report.overall[field]
      /\ report.overall.cited <= Cardinality({i \in DOMAIN answers : answers[i].tool # {}})
      /\ \A key \in DOMAIN report.queries :
           LET s == report.queries[key]
           IN  /\ s.positions = s.rates.mentions
               /\ s.positions <= s.places
               /\ s.places <= s.positions + SumFunction(s.competitors)
      /\ \A i, j \in DOMAIN answers :
           LET a == answers[i]  b == answers[j]
           IN  /\ a.provider = b.provider /\ a.model = b.model /\ Len(a.model) = 1
               /\ NoVersion \notin {a.version, b.version} /\ a.version # b.version
               => \E k \in report.breaks : k.provider = a.provider /\ k.model = a.model[1]
                                            /\ {a.version, b.version} \subseteq k.versions
      /\ \A k \in report.breaks : Cardinality(k.versions) > 1
=============================================================================
