------------------------------- MODULE Robots -------------------------------
(***************************************************************************)
(* The reading of robots.txt in packages/core/src/geo/robots.ts: parsing   *)
(* into groups, choice of the group for an agent, and the rule that wins.  *)
(*                                                                         *)
(* User-agent tokens and path patterns are known by what the code asks of  *)
(* them: their length, which agents a token fits, which paths a pattern    *)
(* matches.  A line is a field and a value; comments, blank lines and      *)
(* lines without a colon are dropped before.                               *)
(***************************************************************************)
EXTENDS Integers, Sequences, SequencesExt

CONSTANTS
  Agent, Path,
  Star,      \* the token *
  Empty,     \* the empty pattern
  Length,    \* of each token and pattern
  Fits,      \* for each agent, the tokens that are part of its name, or start with it
  Covers     \* for each pattern, the paths its expression matches

ASSUME RobotsAssumption ==
  /\ \A x \in DOMAIN Length : Length[x] \in Nat
  /\ \A a \in Agent : Star \notin Fits[a]
  /\ \A p \in DOMAIN Covers : Covers[p] \subseteq Path

-----------------------------------------------------------------------------
(* parseRobots *)

NewGroup(token) == [agents |-> {token}, rules |-> <<>>]

\* A user-agent line opens a group unless it follows another one.
NewGroupPerAgent(doc, token) ==                                             \* mutant
  Append(doc.groups, NewGroup(token))

AddAgent(doc, token) ==
  IF doc.groups # <<>> /\ doc.lastWasAgent
    THEN [doc.groups EXCEPT ![Len(doc.groups)].agents = @ \cup {token}]
    ELSE Append(doc.groups, NewGroup(token))

\* Rules before the first group are dropped.
AddRule(doc, line) ==
  IF doc.groups = <<>> THEN <<>>
  ELSE [doc.groups EXCEPT ![Len(doc.groups)].rules =
          Append(@, [allow |-> line.field = "allow", pattern |-> line.value])]

ParseLine(doc, line) ==
  CASE line.field = "user-agent" ->
         [groups |-> AddAgent(doc, line.value), lastWasAgent |-> TRUE]
    [] line.field \in {"allow", "disallow"} ->
         [groups |-> AddRule(doc, line), lastWasAgent |-> FALSE]
    [] OTHER -> [doc EXCEPT !.lastWasAgent = FALSE]

ParseRobots(lines) ==
  LET read[n \in 0 .. Len(lines)] ==
        IF n = 0 THEN [groups |-> <<>>, lastWasAgent |-> FALSE]
                 ELSE ParseLine(read[n - 1], lines[n])
  IN  read[Len(lines)].groups

-----------------------------------------------------------------------------
(* selectGroup, isAllowed *)

\* The first group with one of these tokens, 0 if none has.
FirstGroup(groups, tokens) ==
  LET having == {g \in DOMAIN groups : groups[g].agents \cap tokens # {}}
  IN  IF having = {} THEN 0 ELSE CHOOSE g \in having : \A f \in having : g <= f

\* The first of the groups with the longest token that fits, else the first for *.
SelectGroup(groups, agent) ==
  LET fitting == Fits[agent] \cap UNION {groups[g].agents : g \in DOMAIN groups}
      longest == {t \in fitting : \A u \in fitting : Length[u] <= Length[t]}
  IN  FirstGroup(groups, IF fitting # {} THEN longest ELSE {Star})

\* The rule read so far that wins: the longest, and of two as long the one that allows.
NoRule == [allow |-> TRUE, length |-> -1]
OfEqual(winner, rule) == IF rule.allow THEN [winner EXCEPT !.allow = TRUE] ELSE winner

Contend(winner, rule, path) ==
  LET n == Length[rule.pattern]
  IN  IF rule.pattern = Empty \/ path \notin Covers[rule.pattern] \/ n < winner.length THEN winner
      ELSE IF n > winner.length THEN [allow |-> rule.allow, length |-> n]
      ELSE OfEqual(winner, rule)

Winner(rules, path) ==
  LET after[n \in 0 .. Len(rules)] ==
        IF n = 0 THEN NoRule ELSE Contend(after[n - 1], rules[n], path)
  IN  after[Len(rules)]

IsAllowed(groups, agent, path) ==
  LET g == SelectGroup(groups, agent)
  IN  g = 0 \/ Winner(groups[g].rules, path).allow

\* evaluateAiAccess, with no robots.txt as no lines.
EvaluateAiAccess(lines, path) == [a \in Agent |-> IsAllowed(ParseRobots(lines), a, path)]

-----------------------------------------------------------------------------
(* Properties *)

AgentLines(lines) == {i \in DOMAIN lines : lines[i].field = "user-agent"}

\* The line that speaks for the agent: the first with the longest token that fits it,
\* else the first for *.
SpeakingFor(lines, agent) ==
  LET fits == {i \in AgentLines(lines) : lines[i].value \in Fits[agent]}
      from == IF fits # {} THEN fits ELSE {i \in AgentLines(lines) : lines[i].value = Star}
      len(i) == Length[lines[i].value]
  IN  {i \in from : \A j \in from : len(j) < len(i) \/ (len(j) = len(i) /\ i <= j)}

\* The rules below line i: those that follow it with only user-agent lines between them
\* and i or, after the first rule, none.
Below(lines, i) ==
  {r \in DOMAIN lines :
     /\ r > i /\ lines[r].field \in {"allow", "disallow"}
     /\ \A j, k \in i..r : j < k /\ lines[j].field # "user-agent" => lines[k].field # "user-agent"}

\* For each agent and path, the lines of the file say: allowed unless, of the patterns
\* below the line that speaks for the agent, a longest one that covers the path is
\* disallowed and no allowed one is as long (robots.ts:1-4, parseRobots, isAllowed).
AsDeclared(lines) ==
  \A a \in Agent, p \in Path :
    LET rules == UNION {Below(lines, i) : i \in SpeakingFor(lines, a)}
        apply == {r \in rules : lines[r].value # Empty /\ p \in Covers[lines[r].value]}
        denied == \E r \in apply : \A s \in apply :
                    /\ lines[r].field = "disallow"
                    /\ \/ Length[lines[s].value] < Length[lines[r].value]
                       \/ /\ Length[lines[s].value] = Length[lines[r].value]
                          /\ lines[s].field = "disallow"
    IN  EvaluateAiAccess(lines, p)[a] = ~denied
=============================================================================
