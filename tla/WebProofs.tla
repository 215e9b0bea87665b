----------------------------- MODULE WebProofs -----------------------------
(***************************************************************************)
(* Theorems about what comes from the web.  What a call of safeFetch keeps *)
(* to whatever resolver, servers and timer do: any set of URLs, any        *)
(* limits, any number of redirects.  And what extractHtml takes from a     *)
(* page: any plain page, and in particular those of MCAlgorithms.          *)
(***************************************************************************)
EXTENDS SafeFetch, MCAlgorithms, FiniteSetTheorems, WellFoundedInduction, TLAPS


-----------------------------------------------------------------------------
(* SafeFetch: the inductive invariant *)

Hop == [url : Url, found : SUBSET Address]

FetchTypeOK ==
  /\ pc \in {"start", "lookup", "request", "read", "done"}
  /\ url \in Url /\ redirects \in Nat /\ total \in 0 .. MaxBytes
  /\ hops \in Seq(Hop)

\* Every request sent went to a URL that was checked, with what the check had found.
Vetted == \A i \in DOMAIN hops : Kind[hops[i].url] # "blocked" /\ hops[i].found = {"public"}

\* Each redirect is followed by at most one request.
HopsCounted ==
  /\ Len(hops) <= MaxRedirects + 1
  /\ pc \in {"start", "lookup"} => Len(hops) <= redirects
  /\ pc \in {"request", "read"} => Len(hops) <= redirects + 1
  /\ pc # "done" => redirects <= MaxRedirects

\* What is awaited belongs to the current URL; an answer is that of the last request.
LastHop ==
  /\ pc = "lookup" => Kind[url] = "name"
  /\ pc \in {"request", "read"} \/ outcome = "ok" => hops # <<>> /\ hops[Len(hops)].url = url
  /\ pc # "done" => outcome = "none"

FetchInv == FetchTypeOK /\ Vetted /\ HopsCounted /\ LastHop

-----------------------------------------------------------------------------
(* SafeFetch: the steps keep it *)

\* A call that ends without an answer keeps it.
LEMMA FinishInv ==
  ASSUME FetchInv, NEW result, result # "ok", Finish(result), url' \in Url, redirects' \in Nat,
         UNCHANGED total
  PROVE  FetchInv'
BY DEF Finish, FetchInv, FetchTypeOK, Vetted, HopsCounted, LastHop

\* A request to a URL that was checked keeps it: it is the first, or follows a redirect
\* that no request has followed yet.
LEMMA RequestInv ==
  ASSUME FetchInv, NEW u \in Url, url' = u, Kind[u] # "blocked", Request(u, {"public"}),
         pc # "done", redirects' \in Nat, Len(hops) <= redirects', redirects' <= MaxRedirects,
         UNCHANGED total
  PROVE  FetchInv'
<1>1. CASE timer = "fired"
  BY <1>1, FinishInv DEF Request
<1>2. CASE timer # "fired"
  <2> DEFINE hop == [url |-> u, found |-> {"public"}]
  <2>1. /\ pc' = "request" /\ hops' = Append(hops, hop) /\ UNCHANGED outcome
    BY <1>2 DEF Request
  <2>2. hop \in Hop /\ hop.url = u /\ hop.found = {"public"}
    BY DEF Hop, Address
  <2> HIDE DEF hop
  <2>3. /\ hops \in Seq(Hop) /\ Len(hops') = Len(hops) + 1 /\ hops' \in Seq(Hop)
        /\ \A i \in 1 .. Len(hops) : hops'[i] = hops[i]
        /\ hops'[Len(hops')] = hop
    BY <2>1, <2>2 DEF FetchInv, FetchTypeOK
  <2>4. Len(hops) \in Nat /\ DOMAIN hops = 1 .. Len(hops) /\ DOMAIN hops' = 1 .. Len(hops')
    BY <2>3
  <2>5. FetchTypeOK'
    BY <2>1, <2>3 DEF FetchInv, FetchTypeOK
  <2>6. Vetted'
    <3> SUFFICES ASSUME NEW i \in 1 .. Len(hops')
                 PROVE  Kind[hops'[i].url] # "blocked" /\ hops'[i].found = {"public"}
      BY <2>4 DEF Vetted
    <3>1. CASE i = Len(hops')
      BY <2>2, <2>3, <3>1
    <3>2. CASE i # Len(hops')
      <4>1. i \in 1 .. Len(hops)
        BY <2>3, <2>4, <3>2
      <4> QED BY <2>3, <2>4, <4>1 DEF FetchInv, Vetted
    <3> QED BY <3>1, <3>2
  <2>7. HopsCounted'
    BY <2>1, <2>3, <2>4, FetchAssumption DEF HopsCounted
  <2>8. LastHop'
    <3>1. hops' # <<>>
      BY <2>3, <2>4
    <3> QED BY <2>1, <2>2, <2>3, <3>1 DEF FetchInv, LastHop, HopsCounted, FetchTypeOK
  <2> QED BY <2>5, <2>6, <2>7, <2>8 DEF FetchInv
<1> QED BY <1>1, <1>2

\* So does the validation of a URL.
LEMMA ValidateInv ==
  ASSUME FetchInv, NEW u \in Url, Validate(u), pc # "done", redirects' \in Nat,
         Len(hops) <= redirects', redirects' <= MaxRedirects, UNCHANGED total
  PROVE  FetchInv'
<1>1. CASE Finish("network_blocked")
  BY <1>1, FinishInv DEF Validate
<1>2. CASE Kind[u] = "address" /\ Request(u, {"public"})
  BY <1>2, RequestInv DEF Validate
<1>3. CASE Kind[u] = "name" /\ pc' = "lookup" /\ UNCHANGED <<timer, outcome, hops>>
  BY <1>3 DEF Validate, FetchInv, FetchTypeOK, Vetted, HopsCounted, LastHop
<1> QED BY <1>1, <1>2, <1>3 DEF Validate

\* Every step keeps it.
LEMMA NextFetchInv == FetchInv /\ [FetchNext]_vars => FetchInv'
<1> SUFFICES ASSUME FetchInv, [FetchNext]_vars PROVE FetchInv'
  OBVIOUS
<1>1. /\ url \in Url /\ redirects \in Nat /\ Len(hops) \in Nat
  BY DEF FetchInv, FetchTypeOK
<1>2. CASE StartFetch
  <2>1. Validate(First) /\ pc = "start" /\ UNCHANGED <<redirects, total>>
    BY <1>2 DEF StartFetch
  <2>2. Len(hops) <= redirects /\ redirects <= MaxRedirects
    BY <2>1 DEF FetchInv, HopsCounted
  <2> QED BY <1>1, <2>1, <2>2, FetchAssumption, ValidateInv
<1>3. CASE Resolved
  <2>1. PICK found \in SUBSET Address :
          \/ found # {} /\ "forbidden" \notin found /\ Request(url, found)
          \/ (found = {} \/ "forbidden" \in found) /\ Finish("network_blocked")
    BY <1>3 DEF Resolved
  <2>2. pc = "lookup" /\ UNCHANGED <<url, redirects, total>>
    BY <1>3 DEF Resolved
  <2>3. CASE Finish("network_blocked")
    BY <1>1, <2>2, <2>3, FinishInv
  <2>4. CASE found # {} /\ "forbidden" \notin found /\ Request(url, found)
    <3>1. found = {"public"}
      BY <2>4 DEF Address
    <3>2. Kind[url] # "blocked" /\ Len(hops) <= redirects /\ redirects <= MaxRedirects
      BY <2>2 DEF FetchInv, HopsCounted, LastHop
    <3> QED BY <1>1, <2>2, <2>4, <3>1, <3>2, RequestInv
  <2> QED BY <2>1, <2>3, <2>4
<1>4. CASE Redirected
  <2>1. pc = "request" /\ UNCHANGED total
    BY <1>4 DEF Redirected, Await
  <2>2. CASE Finish("network_blocked") /\ UNCHANGED <<url, redirects>>
    BY <1>1, <2>1, <2>2, FinishInv
  <2>3. CASE /\ redirects' = redirects + 1
             /\ Finish("network_blocked") \/ Finish("provider_unavailable")
             /\ UNCHANGED url
    BY <1>1, <2>1, <2>3, FinishInv
  <2>4. ASSUME NEW u \in Url, redirects' = redirects + 1, ~(redirects' > MaxRedirects), Validate(u)
        PROVE  FetchInv'
    <3>1. Len(hops) <= redirects' /\ redirects' <= MaxRedirects /\ redirects' \in Nat
      BY <1>1, <2>1, <2>4, FetchAssumption DEF FetchInv, HopsCounted
    <3> QED BY <2>1, <2>4, <3>1, ValidateInv
  <2> QED BY <1>4, <2>2, <2>3, <2>4 DEF Redirected
<1>5. CASE Responded
  BY <1>5 DEF Responded, Await, FetchInv, FetchTypeOK, Vetted, HopsCounted, LastHop
<1>6. CASE Chunk
  <2>1. CASE Finish("network_blocked") /\ UNCHANGED total
    BY <1>1, <1>6, <2>1, FinishInv DEF Chunk
  <2>2. CASE total < MaxBytes /\ total' = total + 1 /\ UNCHANGED <<pc, timer, outcome, hops>>
    BY <1>6, <2>2, FetchAssumption
       DEF Chunk, FetchInv, FetchTypeOK, Vetted, HopsCounted, LastHop
  <2> QED BY <1>6, <2>1, <2>2 DEF Chunk
<1>7. CASE Ended
  <2>1. PICK result : Finish(result)
    BY <1>7 DEF Ended
  <2>2. pc = "read" /\ UNCHANGED <<url, redirects, total>>
    BY <1>7 DEF Ended, Await
  <2>3. pc' = "done" /\ hops' = hops
    BY <2>1 DEF Finish
  <2>4. FetchTypeOK' /\ Vetted' /\ HopsCounted'
    BY <2>2, <2>3 DEF FetchInv, FetchTypeOK, Vetted, HopsCounted
  <2>5. LastHop'
    BY <2>2, <2>3 DEF FetchInv, LastHop
  <2> QED BY <2>4, <2>5 DEF FetchInv
<1>8. CASE Failed \/ Abort
  BY <1>1, <1>8, FinishInv DEF Failed, Abort
<1>9. CASE Fire \/ UNCHANGED vars
  BY <1>9 DEF Fire, vars, FetchInv, FetchTypeOK, Vetted, HopsCounted, LastHop
<1> QED BY <1>2, <1>3, <1>4, <1>5, <1>6, <1>7, <1>8, <1>9 DEF FetchNext

\* A call that has sent nothing satisfies it.
LEMMA InitFetchInv == FetchInit => FetchInv
BY FetchAssumption DEF FetchInit, FetchInv, FetchTypeOK, Vetted, HopsCounted, LastHop

-----------------------------------------------------------------------------
\* Every request that leaves the process, the redirected ones too, goes to a URL that
\* this very call has checked and found public; their number and the bytes read stay
\* within the limits whenever timer, lookups and redirects fall together (safeFetch.ts
\* validateUrl, safeFetch).
THEOREM EveryHopIsVetted == FetchSpec => []HopsVetted
<1>1. FetchInv => HopsVetted
  BY FetchAssumption DEF FetchInv, FetchTypeOK, Vetted, HopsCounted, LastHop, HopsVetted
<1> QED BY <1>1, InitFetchInv, NextFetchInv, PTL DEF FetchSpec

-----------------------------------------------------------------------------
(* Induction *)

\* A set of natural numbers with 0, and with the successor of each of its elements, has
\* all of them.
LEMMA EveryNumber ==
  ASSUME NEW P, 0 \in P, \A n \in Nat : n \in P => n + 1 \in P
  PROVE  \A n \in Nat : n \in P
<1> SUFFICES ASSUME Nat \ P # {} PROVE FALSE
  OBVIOUS
<1>1. PICK n \in Nat \ P : \A m \in Nat \ P : ~ (<<m, n>> \in OpToRel(<, Nat))
  BY NatLessThanWellFounded, WFMin, Zenon
<1>2. \A m \in Nat \ P : ~ (m < n)
  BY <1>1, Zenon DEF OpToRel
<1>3. n # 0 /\ n - 1 \in Nat
  OBVIOUS
<1>4. n - 1 \in P
  BY <1>2, <1>3
<1>5. (n - 1) + 1 \in P
  BY <1>3, <1>4
<1> QED BY <1>3, <1>5

-----------------------------------------------------------------------------
(* Html: sequences that list sets *)

\* The members of a set up to a number.
Upto(S, n) == {i \in S : i <= n}

\* One more at the end is listed when it is greater than all others.
LEMMA ListsMore ==
  ASSUME NEW s \in Seq(Nat), NEW S, Lists(s, S), NEW x \in Nat, \A i \in S : i < x
  PROVE  Append(s, x) \in Seq(Nat) /\ Lists(Append(s, x), S \cup {x})
<1> DEFINE t == Append(s, x)
<1>1. /\ t \in Seq(Nat) /\ DOMAIN s = 1 .. Len(s) /\ DOMAIN t = 1 .. Len(s) + 1 /\ Len(s) \in Nat
      /\ t[Len(s) + 1] = x /\ \A m \in 1 .. Len(s) : t[m] = s[m]
  OBVIOUS
<1>2. S = {s[m] : m \in 1 .. Len(s)} /\ \A m, n \in 1 .. Len(s) : m < n => s[m] < s[n]
  BY <1>1 DEF Lists, Range
<1> HIDE DEF t
<1>3. \A m \in 1 .. Len(s) + 1 : m # Len(s) + 1 => m \in 1 .. Len(s)
  BY <1>1
<1>4. Range(t) = S \cup {x}
  <2>1. ASSUME NEW y \in Range(t) PROVE y \in S \cup {x}
    <3>1. PICK m \in 1 .. Len(s) + 1 : y = t[m]
      BY <1>1 DEF Range
    <3> QED BY <1>1, <1>2, <1>3, <3>1
  <2>2. ASSUME NEW y \in S PROVE y \in Range(t)
    <3>1. PICK m \in 1 .. Len(s) : y = s[m]
      BY <1>2
    <3>2. m \in 1 .. Len(s) + 1
      BY <1>1
    <3> QED BY <1>1, <3>1, <3>2 DEF Range
  <2>3. x \in Range(t)
    <3>1. Len(s) + 1 \in 1 .. Len(s) + 1
      BY <1>1
    <3> QED BY <1>1, <3>1 DEF Range
  <2> QED BY <2>1, <2>2, <2>3
<1>5. ASSUME NEW m \in 1 .. Len(s) + 1, NEW n \in 1 .. Len(s) + 1, m < n PROVE t[m] < t[n]
  <2>1. m \in 1 .. Len(s)
    BY <1>1, <1>5
  <2>2. CASE n = Len(s) + 1
    <3>1. s[m] \in S
      BY <1>2, <2>1
    <3> QED BY <1>1, <2>1, <2>2, <3>1
  <2>3. CASE n # Len(s) + 1
    <3>1. n \in 1 .. Len(s)
      BY <1>3, <2>3
    <3> QED BY <1>1, <1>2, <1>5, <2>1, <3>1
  <2> QED BY <2>2, <2>3
<1>6. t \in Seq(Nat) /\ Lists(t, S \cup {x})
  BY <1>1, <1>4, <1>5 DEF Lists
<1> QED BY <1>6 DEF t

\* The greatest is listed last, and the rest before it.
LEMMA ListsLess ==
  ASSUME NEW s \in Seq(Nat), NEW S, Lists(s, S), NEW x \in S, \A i \in S : i <= x
  PROVE  /\ s # <<>> /\ Last(s) = x /\ Len(s) \in DOMAIN s
         /\ Front(s) \in Seq(Nat) /\ Lists(Front(s), S \ {x})
         /\ DOMAIN Front(s) = 1 .. Len(s) - 1 /\ \A m \in DOMAIN Front(s) : m \in DOMAIN s /\ Front(s)[m] = s[m]
<1> DEFINE N == Len(s)
<1>0. N \in Nat
  OBVIOUS
<1>1. DOMAIN s = 1 .. N /\ N \in Nat /\ N = Len(s)
  OBVIOUS
<1> HIDE DEF N
<1>2. S = {s[m] : m \in 1 .. N} /\ \A m, n \in 1 .. N : m < n => s[m] < s[n]
  BY <1>1 DEF Lists, Range
<1>3. PICK k \in 1 .. N : s[k] = x
  BY <1>2
<1>4. N \in 1 .. N /\ s[N] \in S /\ s[N] \in Nat /\ x \in Nat
  BY <1>1, <1>2, <1>3
<1>5. s[N] = x
  <2>1. SUFFICES ASSUME k # N PROVE FALSE
    BY <1>3
  <2>2. k < N
    BY <1>0, <2>1
  <2>3. x < s[N] /\ s[N] <= x
    BY <1>2, <1>3, <1>4, <2>2
  <2> QED BY <1>4, <2>3
<1> DEFINE f == SubSeq(s, 1, N - 1)
<1>6. f \in Seq(Nat) /\ DOMAIN f = 1 .. N - 1 /\ \A m \in 1 .. N - 1 : m \in 1 .. N /\ f[m] = s[m]
  BY <1>1, <1>4
<1>7. s # <<>> /\ Last(s) = x /\ Front(s) = f
  BY <1>1, <1>4, <1>5 DEF Last, Front
<1> HIDE DEF f
<1>8. Range(f) = S \ {x}
  <2>0. Range(f) = {s[m] : m \in 1 .. N - 1}
    BY <1>6 DEF Range
  <2>1. ASSUME NEW m \in 1 .. N - 1 PROVE s[m] \in S /\ s[m] # x
    <3>1. m \in 1 .. N /\ m < N
      BY <1>1
    <3>2. s[m] < s[N] /\ s[m] \in Nat
      BY <1>1, <1>2, <1>4, <3>1
    <3> QED BY <1>2, <1>4, <1>5, <3>1, <3>2
  <2>2. ASSUME NEW y \in S \ {x} PROVE \E m \in 1 .. N - 1 : y = s[m]
    <3>1. PICK m \in 1 .. N : y = s[m]
      BY <1>2
    <3>2. m # N
      BY <1>5, <3>1
    <3>3. m \in 1 .. N - 1
      BY <1>0, <3>2
    <3> QED BY <3>1, <3>3
  <2> QED BY <2>0, <2>1, <2>2
<1>9. Lists(f, S \ {x})
  BY <1>2, <1>6, <1>8 DEF Lists
<1> QED BY <1>1, <1>4, <1>6, <1>7, <1>9

\* A sequence is as long as the set that it lists.
LEMMA ListsAll ==
  ASSUME NEW s \in Seq(Nat), NEW S, Lists(s, S)
  PROVE  IsFiniteSet(S) /\ Cardinality(S) = Len(s) /\ (s = <<>> <=> S = {})
<1>1. DOMAIN s = 1 .. Len(s) /\ Len(s) \in Nat /\ s \in [1 .. Len(s) -> Nat]
  OBVIOUS
<1>2. S = {s[m] : m \in 1 .. Len(s)} /\ \A m, n \in 1 .. Len(s) : m < n => s[m] < s[n]
  BY <1>1 DEF Lists, Range
<1>3. \A m, n \in 1 .. Len(s) : s[m] = s[n] => m = n
  <2> SUFFICES ASSUME NEW m \in 1 .. Len(s), NEW n \in 1 .. Len(s), s[m] = s[n], m < n PROVE FALSE
    BY <1>1
  <2> QED BY <1>1, <1>2
<1>4. s \in [1 .. Len(s) -> S]
  BY <1>1, <1>2
<1>5. s \in Injection(1 .. Len(s), S)
  BY <1>3, <1>4, Zenon DEF Injection, IsInjective
<1>6. s \in Surjection(1 .. Len(s), S)
  BY <1>2, <1>4, Zenon DEF Surjection
<1>7. s \in Bijection(1 .. Len(s), S)
  BY <1>5, <1>6, Zenon DEF Bijection
<1>8. \A n \in Nat : IsFiniteSet(1 .. n) /\ Cardinality(1 .. n) = n
  BY FS_Interval
<1>9. IsFiniteSet(1 .. Len(s)) /\ Cardinality(1 .. Len(s)) = Len(s)
  BY <1>1, <1>8
<1>10. ExistsBijection(1 .. Len(s), S)
  BY <1>7, Zenon DEF ExistsBijection
<1>11. IsFiniteSet(S) /\ Cardinality(S) = Len(s)
  BY <1>9, <1>10, FS_Bijection
<1>12. s = <<>> <=> S = {}
  <2>1. s = <<>> => S = {}
    BY <1>2
  <2>2. S = {} => Len(s) = 0
    BY <1>11, FS_EmptySet
  <2>3. Len(s) = 0 => s = <<>>
    OBVIOUS
  <2> QED BY <2>1, <2>2, <2>3
<1> QED BY <1>11, <1>12

-----------------------------------------------------------------------------
(* Html: the nesting of a page *)

\* The tokens of a page, whatever their names and roles.  Those of the tasks are named
\* beside STRING: the provers do not know a string to be one of STRING.
TagName == STRING \cup {"div", "span", "script", "nav", "main", "h2", "a", "title", "br"}
Role == STRING \cup {"", "navigation"}
PageToken ==
  {Text} \cup [kind : {"open", "close"}, name : TagName, hidden : BOOLEAN, role : Role, void : BOOLEAN]
         \cup [kind : {"opener", "closer"}, name : {"comment", "cdata", "doctype"}]

LEMMA TokenIs ==
  ASSUME NEW t \in PageToken
  PROVE  /\ t.kind \in {"text", "open", "close", "opener", "closer"}
         /\ t.kind = "text" <=> t = Text
         /\ t.kind \in {"opener", "closer"} => t = [kind |-> t.kind, name |-> t.name] /\ t.name # ""
         /\ t.kind = "open" => t.hidden \in BOOLEAN /\ t.void \in BOOLEAN
<1>1. CASE t = Text
  BY <1>1 DEF Text
<1>2. CASE t \in [kind : {"open", "close"}, name : TagName, hidden : BOOLEAN, role : Role, void : BOOLEAN]
  <2>1. /\ t.kind = "open" \/ t.kind = "close"
        /\ t.hidden \in BOOLEAN /\ t.void \in BOOLEAN
    BY <1>2
  <2>2. t.kind # "text" /\ t.kind \notin {"opener", "closer"} /\ t # Text
    BY <2>1 DEF Text
  <2> QED BY <2>1, <2>2, Zenon
<1>3. CASE t \in [kind : {"opener", "closer"}, name : {"comment", "cdata", "doctype"}]
  <2>1. /\ t.kind = "opener" \/ t.kind = "closer"
        /\ t.name \in {"comment", "cdata", "doctype"} /\ t = [kind |-> t.kind, name |-> t.name]
    BY <1>3
  <2>2. t.kind # "text" /\ t.kind # "open" /\ t # Text
    BY <2>1 DEF Text
  <2>3. t.name # ""
    BY <2>1, Zenon
  <2> QED BY <2>1, <2>2, <2>3, Zenon
<1> QED BY <1>1, <1>2, <1>3, Zenon DEF PageToken

\* What the stack becomes at a token, by the definition of Stacks.
StackAfter(page, stack, n) ==
  IF n = 0 THEN <<>>
  ELSE IF Begins(page[n]) THEN Append(stack[n - 1], n)
  ELSE IF Stops(page[n]) THEN Front(stack[n - 1])
  ELSE stack[n - 1]

LEMMA StacksRead ==
  ASSUME NEW page, Len(page) \in Nat
  PROVE  \A n \in 0 .. Len(page) : Stacks(page)[n] = StackAfter(page, Stacks(page), n)
<1> DEFINE Turns(g, N) == g = [n \in 0 .. N |-> StackAfter(page, g, n)]
           P == {N \in Nat : \E g : Turns(g, N)}
<1>1. 0 \in P
  <2> DEFINE g == [n \in 0 .. 0 |-> <<>>]
  <2>1. Turns(g, 0)
    BY DEF StackAfter
  <2> HIDE DEF Turns
  <2> QED BY <2>1
<1>2. ASSUME NEW N \in Nat, N \in P PROVE N + 1 \in P
  <2>1. PICK g : Turns(g, N)
    BY <1>2
  <2> DEFINE next == StackAfter(page, g, N + 1)
             h == [n \in 0 .. N + 1 |-> IF n = N + 1 THEN next ELSE g[n]]
  <2>2. \A n \in 0 .. N : g[n] = StackAfter(page, g, n)
    BY <2>1
  <2>3. \A n \in 0 .. N + 1 : h[n] = StackAfter(page, h, n)
    <3> TAKE n \in 0 .. N + 1
    <3>1. n # 0 => n - 1 \in 0 .. N + 1 /\ n - 1 # N + 1
      OBVIOUS
    <3> HIDE DEF next, Turns
    <3>2. n # 0 => h[n - 1] = g[n - 1]
      BY <3>1
    <3>3. StackAfter(page, h, n) = StackAfter(page, g, n)
      <4> HIDE DEF h
      <4> QED BY <3>2 DEF StackAfter
    <3>4. CASE n = N + 1
      BY <3>3, <3>4 DEF next
    <3>5. CASE n # N + 1
      <4>1. n \in 0 .. N
        BY <3>5
      <4>2. h[n] = g[n]
        BY <3>5
      <4> HIDE DEF h
      <4> QED BY <2>2, <3>3, <4>1, <4>2
    <3> QED BY <3>4, <3>5
  <2>4. Turns(h, N + 1)
    BY <2>3
  <2> HIDE DEF Turns
  <2> QED BY <2>4
<1> HIDE DEF P
<1>3. Len(page) \in P
  BY <1>1, <1>2, EveryNumber
<1>4. \E g : Turns(g, Len(page))
  BY <1>3 DEF P
<1>5. Stacks(page) = CHOOSE g : Turns(g, Len(page))
  BY DEF Stacks, StackAfter
<1>6. Turns(Stacks(page), Len(page))
  <2> HIDE DEF Turns
  <2> QED BY <1>4, <1>5
<1> QED BY <1>6

\* What is open after a place.
OnStack(page, n) == Range(Stacks(page)[n])

\* The stack after a place is in order, and what it holds below an element is what was open
\* before that element.
Stacked(page, n) ==
  /\ Stacks(page)[n] \in Seq(Nat) /\ Lists(Stacks(page)[n], OnStack(page, n))
  /\ OnStack(page, n) \in SUBSET (1 .. n)
  /\ \A k \in OnStack(page, n) :
       Begins(page[k]) /\ OnStack(page, k - 1) = {j \in OnStack(page, n) : j < k}

LEMMA StackGrows ==
  ASSUME NEW page, Len(page) \in Nat, NEW n \in Nat, n + 1 <= Len(page), Stacked(page, n),
         Stops(page[n + 1]) => Stacks(page)[n] # <<>>
  PROVE  /\ Stacked(page, n + 1)
         /\ Begins(page[n + 1]) => OnStack(page, n + 1) = OnStack(page, n) \cup {n + 1}
         /\ ~ Begins(page[n + 1]) /\ ~ Stops(page[n + 1]) => OnStack(page, n + 1) = OnStack(page, n)
         /\ Stops(page[n + 1]) =>
              /\ Last(Stacks(page)[n]) \in OnStack(page, n)
              /\ \A k \in OnStack(page, n) : k <= Last(Stacks(page)[n])
              /\ OnStack(page, n + 1) = OnStack(page, n) \ {Last(Stacks(page)[n])}
<1> DEFINE s == Stacks(page)[n]
           t == Stacks(page)[n + 1]
           S == OnStack(page, n)
           T == OnStack(page, n + 1)
<1>1. t = IF Begins(page[n + 1]) THEN Append(s, n + 1)
          ELSE IF Stops(page[n + 1]) THEN Front(s) ELSE s
  <2>1. n + 1 \in 0 .. Len(page) /\ n + 1 # 0 /\ (n + 1) - 1 = n
    OBVIOUS
  <2> QED BY <2>1, StacksRead DEF StackAfter
<1>2. /\ s \in Seq(Nat) /\ Lists(s, S) /\ S \in SUBSET (1 .. n)
      /\ \A k \in S : Begins(page[k]) /\ OnStack(page, k - 1) = {j \in S : j < k}
  BY DEF Stacked
<1>3. OnStack(page, n) = Range(s) /\ T = Range(t)
  BY DEF OnStack
<1>4. CASE Begins(page[n + 1])
  <2>1. t = Append(s, n + 1) /\ n + 1 \in Nat /\ \A i \in S : i < n + 1
    BY <1>1, <1>2, <1>4
  <2>2. t \in Seq(Nat) /\ Lists(t, S \cup {n + 1})
    <3> HIDE DEF s, t, S
    <3> QED BY <1>2, <2>1, ListsMore
  <2>3. T = S \cup {n + 1}
    BY <1>3, <2>2 DEF Lists
  <2> HIDE DEF s, t, S, T
  <2>4. ASSUME NEW k \in T PROVE Begins(page[k]) /\ OnStack(page, k - 1) = {j \in T : j < k}
    <3>1. CASE k = n + 1
      <4>1. OnStack(page, k - 1) = S
        BY <3>1 DEF S
      <4>2. S = {j \in T : j < k}
        <5>1. \A j \in S : j \in Int /\ j < n + 1
          BY <1>2
        <5>2. ~ (n + 1 < n + 1)
          OBVIOUS
        <5>3. \A j : j \in S <=> j \in T /\ j < k
          BY <2>3, <3>1, <5>1, <5>2, Zenon
        <5> QED BY <5>3, Zenon
      <4> QED BY <1>4, <3>1, <4>1, <4>2
    <3>2. CASE k \in S
      <4>1. {j \in S : j < k} = {j \in T : j < k}
        <5>1. k <= n /\ k \in Nat
          BY <1>2, <3>2
        <5> QED BY <2>3, <5>1
      <4> QED BY <1>2, <3>2, <4>1
    <3> QED BY <2>3, <3>1, <3>2
  <2>5. T \in SUBSET (1 .. n + 1)
    BY <1>2, <2>3
  <2>6. Stacked(page, n + 1)
    BY <2>2, <2>3, <2>4, <2>5 DEF Stacked, t, T
  <2>7. ~ Stops(page[n + 1])
    BY <1>4 DEF Begins, Stops
  <2> QED BY <1>4, <2>3, <2>6, <2>7 DEF S, T
<1>5. CASE ~ Begins(page[n + 1]) /\ Stops(page[n + 1])
  <2>1. t = Front(s) /\ s # <<>>
    BY <1>1, <1>5
  <2> DEFINE x == Last(s)
  <2>2. Len(s) \in DOMAIN s
    <3> HIDE DEF s
    <3> QED BY <1>2, <2>1
  <2>3. x \in S /\ \A k \in S : k <= x
    <3>1. S = {s[m] : m \in 1 .. Len(s)} /\ DOMAIN s = 1 .. Len(s) /\ Len(s) \in Nat
          /\ \A a, b \in 1 .. Len(s) : a < b => s[a] < s[b]
      <4> HIDE DEF s
      <4> QED BY <1>2, <1>3 DEF Lists, Range
    <3> HIDE DEF s, S
    <3>2. x = s[Len(s)]
      BY DEF Last
    <3>3. x \in S
      BY <2>2, <3>1, <3>2
    <3>4. ASSUME NEW k \in S PROVE k <= x
      <4>1. PICK m \in 1 .. Len(s) : k = s[m]
        BY <3>1
      <4>2. k \in Nat /\ x \in Nat
        BY <1>2, <3>3
      <4>3. CASE m = Len(s)
        BY <3>2, <4>1, <4>2, <4>3
      <4>4. CASE m < Len(s)
        <5>1. s[m] < s[Len(s)]
          BY <2>2, <3>1, <4>4
        <5> HIDE DEF x
        <5> QED BY <3>2, <4>1, <4>2, <5>1
      <4>5. m = Len(s) \/ m < Len(s)
        <5>1. \A N \in Nat : \A i \in 1 .. N : i = N \/ i < N
          OBVIOUS
        <5> QED BY <3>1, <5>1, Zenon
      <4> QED BY <4>3, <4>4, <4>5
    <3> QED BY <3>3, <3>4
  <2>4. t \in Seq(Nat) /\ Lists(t, S \ {x})
    <3> HIDE DEF s, t, S, x
    <3> QED BY <1>2, <2>1, <2>3, ListsLess
  <2>5. T = S \ {x}
    BY <1>3, <2>4 DEF Lists
  <2> HIDE DEF s, t, S, T, x
  <2>9. \A k \in S : k \in 1 .. n /\ k <= n /\ k \in Nat
    BY <1>2
  <2>6. ASSUME NEW k \in T PROVE Begins(page[k]) /\ OnStack(page, k - 1) = {j \in T : j < k}
    <3>1. k \in S /\ k <= x /\ k \in Nat /\ x \in Nat
      BY <2>3, <2>5, <2>9
    <3>2. {j \in S : j < k} = {j \in T : j < k}
      <4> QED BY <2>5, <3>1
    <3> QED BY <1>2, <3>1, <3>2
  <2>7. T \in SUBSET (1 .. n + 1)
    <3>1. \A k \in 1 .. n : k \in 1 .. n + 1
      OBVIOUS
    <3> QED BY <2>5, <2>9, <3>1
  <2>8. Stacked(page, n + 1)
    BY <2>4, <2>5, <2>6, <2>7 DEF Stacked, t, T
  <2> QED BY <1>5, <2>3, <2>5, <2>8 DEF S, T, s, x
<1>6. CASE ~ Begins(page[n + 1]) /\ ~ Stops(page[n + 1])
  <2>1. t = s /\ T = S
    BY <1>1, <1>3, <1>6
  <2>2. Stacked(page, n + 1)
    <3> HIDE DEF s, t, S, T
    <3>1. S \in SUBSET (1 .. n + 1)
      BY <1>2
    <3>2. \A k \in T : Begins(page[k]) /\ OnStack(page, k - 1) = {j \in T : j < k}
      BY <1>2, <2>1
    <3> QED BY <1>2, <2>1, <3>1, <3>2 DEF Stacked, t, T
  <2> QED BY <1>6, <2>1, <2>2
<1> QED BY <1>4, <1>5, <1>6

\* In a nested page every stack is so.
LEMMA StacksSo ==
  ASSUME NEW page \in Seq(PageToken), Nested(page, Around(page), Stacks(page))
  PROVE  \A n \in 0 .. Len(page) : Stacked(page, n)
<1>1. Len(page) \in Nat /\ DOMAIN page = 1 .. Len(page)
  OBVIOUS
<1> DEFINE P == {n \in Nat : n <= Len(page) => Stacked(page, n)}
<1>2. 0 \in P
  <2>1. Stacks(page)[0] = <<>>
    BY <1>1, StacksRead DEF StackAfter
  <2>2. OnStack(page, 0) = {}
    BY <2>1 DEF OnStack, Range
  <2>3. Lists(<<>>, {})
    BY DEF Lists, Range
  <2>4. <<>> \in Seq(Nat) /\ {} \in SUBSET (1 .. 0) /\ \A k : k \notin {}
    OBVIOUS
  <2>5. Stacked(page, 0)
    BY <2>1, <2>2, <2>3, <2>4, Zenon DEF Stacked
  <2> QED BY <2>5
<1>3. ASSUME NEW n \in Nat, n \in P PROVE n + 1 \in P
  <2> SUFFICES ASSUME n + 1 <= Len(page) PROVE Stacked(page, n + 1)
    OBVIOUS
  <2>1. Stacked(page, n)
    BY <1>1, <1>3
  <2>2. n + 1 \in DOMAIN page /\ (n + 1) - 1 = n
    BY <1>1
  <2>3. Stops(page[n + 1]) => Stacks(page)[n] # <<>>
    BY <2>2 DEF Nested
  <2> QED BY <1>1, <2>1, <2>3, StackGrows
<1> HIDE DEF P
<1>4. \A n \in Nat : n \in P
  BY <1>2, <1>3, EveryNumber
<1> QED BY <1>1, <1>4 DEF P

\* How a token changes what is open, and what is around it.
Moved(page, n) ==
  LET t == page[n + 1]
      O == OnStack(page, n)
      T == OnStack(page, n + 1)
      A == Around(page)[n + 1]
  IN  /\ Begins(t) => T = O \cup {n + 1} /\ A = O
      /\ ~ Begins(t) /\ ~ Stops(t) => T = O /\ A = O
      /\ Stops(t) => \E top \in O :
           /\ \A k \in O : k <= top
           /\ T = O \ {top} /\ A = T
           /\ page[top].name = t.name /\ (page[top].kind = "open" <=> t.kind = "close")

\* Of what is open: each element begins, and those around it are those open before it.
OpenSo(page, n) ==
  /\ OnStack(page, n) \in SUBSET (1 .. n) /\ OnStack(page, n) \in SUBSET DOMAIN page
  /\ \A k \in OnStack(page, n) : Begins(page[k]) /\ Around(page)[k] = {j \in OnStack(page, n) : j < k}

LEMMA PageMoves ==
  ASSUME NEW page \in Seq(PageToken), Nested(page, Around(page), Stacks(page))
  PROVE  /\ OnStack(page, 0) = {} /\ OnStack(page, Len(page)) = {}
         /\ \A n \in 0 .. Len(page) : OpenSo(page, n)
         /\ \A n \in Nat : n + 1 <= Len(page) => Moved(page, n)
<1>1. Len(page) \in Nat /\ DOMAIN page = 1 .. Len(page)
  OBVIOUS
<1>2. \A n \in 0 .. Len(page) : Stacked(page, n)
  BY StacksSo
<1>3. OnStack(page, 0) = {} /\ OnStack(page, Len(page)) = {}
  <2>1. Stacks(page)[0] = <<>>
    BY <1>1, StacksRead DEF StackAfter
  <2>2. Stacks(page)[Len(page)] = <<>>
    BY DEF Nested
  <2> QED BY <2>1, <2>2 DEF OnStack, Range
<1>4. \A i \in 1 .. Len(page) : Around(page)[i] = OnStack(page, i - 1) \cap OnStack(page, i)
  BY <1>1 DEF Around, OnStack
<1>5. ASSUME NEW n \in Nat, n + 1 <= Len(page) PROVE Moved(page, n)
  <2> DEFINE t == page[n + 1]
             O == OnStack(page, n)
             T == OnStack(page, n + 1)
             A == Around(page)[n + 1]
  <2>1. n \in 0 .. Len(page) /\ n + 1 \in 1 .. Len(page) /\ (n + 1) - 1 = n
    BY <1>1, <1>5
  <2>2. Stacked(page, n) /\ A = O \cap T
    BY <1>2, <1>4, <2>1
  <2>3. Stops(t) => Stacks(page)[n] # <<>>
    BY <1>1, <2>1 DEF Nested
  <2>4. /\ Begins(t) => T = O \cup {n + 1}
        /\ ~ Begins(t) /\ ~ Stops(t) => T = O
        /\ Stops(t) => /\ Last(Stacks(page)[n]) \in O
                       /\ \A k \in O : k <= Last(Stacks(page)[n])
                       /\ T = O \ {Last(Stacks(page)[n])}
    BY <1>1, <1>5, <2>2, <2>3, StackGrows
  <2>5. Stops(t) => LET begun == page[Last(Stacks(page)[n])]
                    IN  begun.name = t.name /\ (begun.kind = "open" <=> t.kind = "close")
    BY <1>1, <2>1 DEF Nested
  <2> HIDE DEF t, O, T, A
  <2>6. Stops(t) => \E top \in O :
           /\ \A k \in O : k <= top
           /\ T = O \ {top} /\ A = T
           /\ page[top].name = t.name /\ (page[top].kind = "open" <=> t.kind = "close")
    BY <2>2, <2>4, <2>5
  <2> QED BY <2>2, <2>4, <2>6 DEF Moved, t, O, T, A
<1>6. ASSUME NEW n \in 0 .. Len(page) PROVE OpenSo(page, n)
  <2>1. Stacked(page, n) /\ n \in Nat
    BY <1>1, <1>2
  <2>2. OnStack(page, n) \in SUBSET (1 .. n)
    BY <2>1 DEF Stacked
  <2>3. OnStack(page, n) \in SUBSET DOMAIN page
    BY <1>1, <2>2
  <2>4. ASSUME NEW k \in OnStack(page, n) PROVE Begins(page[k]) /\ Around(page)[k] = {j \in OnStack(page, n) : j < k}
    <3>1. k \in 1 .. Len(page) /\ k \in Nat /\ k - 1 \in Nat /\ (k - 1) + 1 = k /\ (k - 1) + 1 <= Len(page)
      BY <1>1, <2>3
    <3>2. Begins(page[k]) /\ OnStack(page, k - 1) = {j \in OnStack(page, n) : j < k}
      BY <2>1, <2>4 DEF Stacked
    <3>3. Moved(page, k - 1)
      BY <1>5, <3>1
    <3>4. Around(page)[k] = OnStack(page, k - 1)
      BY <3>1, <3>2, <3>3 DEF Moved
    <3> QED BY <3>2, <3>4
  <2> QED BY <2>2, <2>3, <2>4 DEF OpenSo
<1> QED BY <1>3, <1>5, <1>6

-----------------------------------------------------------------------------
(* Html: the reading of a page *)

\* What is left of a page up to a token, by the definition of Strip.
StripAfter(page, g, n) ==
  IF n = 0 THEN [within |-> "", left |-> <<>>]
  ELSE LET s == g[n - 1] IN
       IF s.within # "" THEN [s EXCEPT !.within = IF Ends(s.within, page[n]) THEN "" ELSE s.within]
       ELSE IF page[n].kind = "opener" THEN [s EXCEPT !.within = page[n].name]
       ELSE [s EXCEPT !.left = Append(s.left, n)]

LEMMA StripRead ==
  ASSUME NEW page, Len(page) \in Nat
  PROVE  \E g : (\A n \in 0 .. Len(page) : g[n] = StripAfter(page, g, n)) /\ Strip(page) = g[Len(page)].left
<1> DEFINE Turns(g, N) == g = [n \in 0 .. N |-> StripAfter(page, g, n)]
           P == {N \in Nat : \E g : Turns(g, N)}
<1>1. 0 \in P
  <2> DEFINE g == [n \in 0 .. 0 |-> [within |-> "", left |-> <<>>]]
  <2>1. Turns(g, 0)
    BY DEF StripAfter
  <2> HIDE DEF Turns
  <2> QED BY <2>1, Zenon
<1>2. ASSUME NEW N \in Nat, N \in P PROVE N + 1 \in P
  <2>1. PICK g : Turns(g, N)
    BY <1>2
  <2> DEFINE next == StripAfter(page, g, N + 1)
             h == [n \in 0 .. N + 1 |-> IF n = N + 1 THEN next ELSE g[n]]
  <2>2. \A n \in 0 .. N : g[n] = StripAfter(page, g, n)
    BY <2>1
  <2>3. \A n \in 0 .. N + 1 : h[n] = StripAfter(page, h, n)
    <3> TAKE n \in 0 .. N + 1
    <3>1. n # 0 => n - 1 \in 0 .. N + 1 /\ n - 1 # N + 1
      OBVIOUS
    <3> HIDE DEF next, Turns
    <3>2. n # 0 => h[n - 1] = g[n - 1]
      BY <3>1
    <3>3. StripAfter(page, h, n) = StripAfter(page, g, n)
      <4> HIDE DEF h
      <4> QED BY <3>2, Zenon DEF StripAfter
    <3>4. CASE n = N + 1
      BY <3>3, <3>4 DEF next
    <3>5. CASE n # N + 1
      <4>1. n \in 0 .. N
        BY <3>5
      <4>2. h[n] = g[n]
        BY <3>5
      <4> HIDE DEF h
      <4> QED BY <2>2, <3>3, <4>1, <4>2
    <3> QED BY <3>4, <3>5
  <2>4. Turns(h, N + 1)
    BY <2>3
  <2> HIDE DEF Turns
  <2> QED BY <2>4
<1> HIDE DEF P
<1>3. Len(page) \in P
  BY <1>1, <1>2, EveryNumber
<1>4. \E g : Turns(g, Len(page))
  BY <1>3 DEF P
<1> DEFINE strip == CHOOSE g : Turns(g, Len(page))
<1>5. Strip(page) = strip[Len(page)].left
  BY DEF Strip, StripAfter
<1>6. Turns(strip, Len(page))
  <2> HIDE DEF Turns
  <2> QED BY <1>4
<1>7. \A n \in 0 .. Len(page) : strip[n] = StripAfter(page, strip, n)
  BY <1>6
<1> HIDE DEF strip
<1> QED BY <1>5, <1>7

\* What is extracted up to a token that is left, by the definition of ExtractHtml.
ReadAfter(page, left, saw, g, m) ==
  IF m = 0 THEN Blank ELSE Take(g[m - 1], page, left[m], saw)

LEMMA HtmlRead ==
  ASSUME NEW page, Len(Strip(page)) \in Nat
  PROVE  \E g : /\ \A m \in 0 .. Len(Strip(page)) :
                     g[m] = ReadAfter(page, Strip(page), SawMain(page, Strip(page)), g, m)
                /\ ExtractHtml(page) = g[Len(Strip(page))]
<1> DEFINE left == Strip(page)
           saw == SawMain(page, left)
<1>0. left = Strip(page) /\ saw = SawMain(page, left) /\ Len(left) \in Nat
  OBVIOUS
<1> HIDE DEF left, saw
<1> DEFINE Turns(g, N) == g = [n \in 0 .. N |-> ReadAfter(page, left, saw, g, n)]
           P == {N \in Nat : \E g : Turns(g, N)}
<1>1. 0 \in P
  <2> DEFINE g == [n \in 0 .. 0 |-> Blank]
  <2>1. Turns(g, 0)
    BY DEF ReadAfter
  <2> HIDE DEF Turns
  <2> QED BY <2>1
<1>2. ASSUME NEW N \in Nat, N \in P PROVE N + 1 \in P
  <2>1. PICK g : Turns(g, N)
    BY <1>2
  <2> DEFINE next == ReadAfter(page, left, saw, g, N + 1)
             h == [n \in 0 .. N + 1 |-> IF n = N + 1 THEN next ELSE g[n]]
  <2>2. \A n \in 0 .. N : g[n] = ReadAfter(page, left, saw, g, n)
    BY <2>1
  <2>3. \A n \in 0 .. N + 1 : h[n] = ReadAfter(page, left, saw, h, n)
    <3> TAKE n \in 0 .. N + 1
    <3>1. n # 0 => n - 1 \in 0 .. N + 1 /\ n - 1 # N + 1
      OBVIOUS
    <3> HIDE DEF next, Turns
    <3>2. n # 0 => h[n - 1] = g[n - 1]
      BY <3>1
    <3>3. ReadAfter(page, left, saw, h, n) = ReadAfter(page, left, saw, g, n)
      <4> HIDE DEF h
      <4> QED BY <3>2 DEF ReadAfter
    <3>4. CASE n = N + 1
      BY <3>3, <3>4 DEF next
    <3>5. CASE n # N + 1
      <4>1. n \in 0 .. N
        BY <3>5
      <4>2. h[n] = g[n]
        BY <3>5
      <4> HIDE DEF h
      <4> QED BY <2>2, <3>3, <4>1, <4>2
    <3> QED BY <3>4, <3>5
  <2>4. Turns(h, N + 1)
    BY <2>3
  <2> HIDE DEF Turns
  <2> QED BY <2>4
<1> HIDE DEF P
<1>3. Len(left) \in P
  BY <1>0, <1>1, <1>2, EveryNumber
<1>4. \E g : Turns(g, Len(left))
  BY <1>3 DEF P
<1> DEFINE read == CHOOSE g : Turns(g, Len(left))
<1>5. ExtractHtml(page) = read[Len(left)]
  BY DEF ExtractHtml, ReadAfter, left, saw
<1>6. Turns(read, Len(left))
  <2> HIDE DEF Turns
  <2> QED BY <1>4
<1>7. \A n \in 0 .. Len(left) : read[n] = ReadAfter(page, left, saw, read, n)
  BY <1>6
<1> HIDE DEF read
<1> QED BY <1>0, <1>5, <1>7 DEF left, saw

\* What a token does: within a comment nothing but end it, and outside it is read.
Phase(page, i, saw, w, s, w1, s1) ==
  /\ w # "" => s1 = s /\ w1 = (IF Ends(w, page[i]) THEN "" ELSE w)
  /\ w = "" /\ page[i].kind = "opener" => s1 = s /\ w1 = page[i].name
  /\ w = "" /\ page[i].kind # "opener" => s1 = Take(s, page, i, saw) /\ w1 = ""

\* The tokens outside comments, and what is within and extracted after each token.
Kept(page, w, n) == {i \in 1 .. n : w[i - 1] = "" /\ page[i].kind # "opener"}
Phases(page, w, st) ==
  /\ w[0] = "" /\ st[0] = Blank
  /\ \A n \in Nat : n + 1 <= Len(page) =>
       Phase(page, n + 1, SawMain(page, Strip(page)), w[n], st[n], w[n + 1], st[n + 1])
  /\ ExtractHtml(page) = st[Len(page)]
  /\ Strip(page) \in Seq(Nat) /\ Range(Strip(page)) = Kept(page, w, Len(page))

\* One token after another is read.
LEMMA PageRead ==
  ASSUME NEW page, Len(page) \in Nat
  PROVE  \E w, st : Phases(page, w, st)
<1> DEFINE N == Len(page)
<1>0. N \in Nat /\ N = Len(page)
  OBVIOUS
<1> HIDE DEF N
<1>1. PICK g : (\A n \in 0 .. N : g[n] = StripAfter(page, g, n)) /\ Strip(page) = g[N].left
  BY <1>0, StripRead
<1> DEFINE w == [n \in 0 .. N |-> g[n].within]
<1>2. \A n \in 0 .. N : w[n] = g[n].within
  OBVIOUS
<1> HIDE DEF w
<1>3. /\ g[0] = [within |-> g[0].within, left |-> g[0].left]
      /\ g[0].within = "" /\ g[0].left = <<>>
  <2>1. 0 \in 0 .. N
    BY <1>0
  <2>2. g[0] = StripAfter(page, g, 0)
    BY <1>1, <2>1
  <2>3. g[0] = [within |-> "", left |-> <<>>]
    BY <2>2, Zenon DEF StripAfter
  <2>4. [within |-> "", left |-> <<>>].within = "" /\ [within |-> "", left |-> <<>>].left = <<>>
    OBVIOUS
  <2> QED BY <2>3, <2>4, Zenon
\* The tokens left after n tokens: which they are, and that what is left only grows.
<1> DEFINE Old(n, m) == /\ Len(g[n].left) \in Nat /\ Len(g[n].left) <= Len(g[m].left)
                        /\ \A j \in 1 .. Len(g[n].left) : g[m].left[j] = g[n].left[j]
           GoodTo(n) == /\ g[n] = [within |-> g[n].within, left |-> g[n].left]
                       /\ g[n].left \in Seq(Nat) /\ Lists(g[n].left, Kept(page, w, n))
                       /\ \A m \in 0 .. n : Old(m, n)
           P == {n \in Nat : n <= N => GoodTo(n)}
<1>4. ASSUME NEW n \in Nat, n + 1 <= N, g[n] = [within |-> g[n].within, left |-> g[n].left]
      PROVE  /\ g[n].within # "" => g[n + 1] = [within |-> IF Ends(g[n].within, page[n + 1]) THEN "" ELSE g[n].within,
                                                left |-> g[n].left]
             /\ g[n].within = "" /\ page[n + 1].kind = "opener" =>
                  g[n + 1] = [within |-> page[n + 1].name, left |-> g[n].left]
             /\ g[n].within = "" /\ page[n + 1].kind # "opener" =>
                  g[n + 1] = [within |-> "", left |-> Append(g[n].left, n + 1)]
  <2>1. n + 1 \in 0 .. N /\ n + 1 # 0 /\ (n + 1) - 1 = n
    BY <1>0, <1>4
  <2>2. g[n + 1] = StripAfter(page, g, n + 1)
    BY <1>1, <2>1
  <2> DEFINE v == g[n].within
             l == g[n].left
             x == IF Ends(v, page[n + 1]) THEN "" ELSE v
             y == Append(l, n + 1)
  <2>3. g[n] = [within |-> v, left |-> l]
    BY <1>4
  <2>4. StripAfter(page, g, n + 1) =
          IF v # "" THEN [g[n] EXCEPT !.within = x]
          ELSE IF page[n + 1].kind = "opener" THEN [g[n] EXCEPT !.within = page[n + 1].name]
          ELSE [g[n] EXCEPT !.left = y]
    BY <2>1, Zenon DEF StripAfter
  <2> HIDE DEF v, l, x, y
  <2>5. CASE v # ""
    <3>1. g[n + 1] = [g[n] EXCEPT !.within = x]
      BY <2>2, <2>4, <2>5, Zenon
    <3>2. g[n + 1] = [within |-> x, left |-> l]
      BY <2>3, <3>1
    <3> QED BY <2>5, <3>2, Zenon DEF v, l, x
  <2>6. CASE v = "" /\ page[n + 1].kind = "opener"
    <3>1. g[n + 1] = [g[n] EXCEPT !.within = page[n + 1].name]
      BY <2>2, <2>4, <2>6, Zenon
    <3>2. g[n + 1] = [within |-> page[n + 1].name, left |-> l]
      BY <2>3, <3>1
    <3> QED BY <2>6, <3>2, Zenon DEF v, l
  <2>7. CASE v = "" /\ page[n + 1].kind # "opener"
    <3>1. g[n + 1] = [g[n] EXCEPT !.left = y]
      BY <2>2, <2>4, <2>7, Zenon
    <3>2. g[n + 1] = [within |-> v, left |-> y]
      BY <2>3, <3>1
    <3> QED BY <2>7, <3>2, Zenon DEF v, l, y
  <2> QED BY <2>5, <2>6, <2>7, Zenon
<1>5. 0 \in P
  <2>1. Kept(page, w, 0) = {}
    BY DEF Kept
  <2>2. Lists(<<>>, {}) /\ <<>> \in Seq(Nat)
    BY DEF Lists, Range
  <2>3. \A m \in 0 .. 0 : Old(m, 0)
    <3>1. Len(g[0].left) = 0
      <4>1. Len(<<>>) = 0
        OBVIOUS
      <4> QED BY <1>3, <4>1, Zenon
    <3>2. \A m \in 0 .. 0 : m = 0
      OBVIOUS
    <3>3. Old(0, 0)
      BY <3>1
    <3> HIDE DEF Old
    <3> QED BY <3>2, <3>3
  <2>4. g[0] = [within |-> g[0].within, left |-> g[0].left] /\ g[0].left = <<>>
    BY <1>3, Zenon
  <2> HIDE DEF Old
  <2>5. GoodTo(0)
    BY <2>1, <2>2, <2>3, <2>4
  <2> HIDE DEF GoodTo
  <2> QED BY <2>5
<1>6. ASSUME NEW n \in Nat, n \in P PROVE n + 1 \in P
  <2> SUFFICES ASSUME n + 1 <= N PROVE GoodTo(n + 1)
    OBVIOUS
  <2>1. n <= N /\ n \in 0 .. N /\ n + 1 \in 0 .. N /\ (n + 1) - 1 = n
    BY <1>0
  <2>2. GoodTo(n)
    BY <1>6, <2>1
  <2> DEFINE l == g[n].left
             k == g[n + 1].left
  <2> HIDE DEF Old
  <2>3. g[n + 1] = [within |-> g[n + 1].within, left |-> g[n + 1].left]
        /\ k = IF w[n] = "" /\ page[n + 1].kind # "opener" THEN Append(l, n + 1) ELSE l
    <3>1. w[n] = g[n].within /\ g[n] = [within |-> g[n].within, left |-> l]
      BY <1>2, <2>1, <2>2
    <3>2. ASSUME NEW x, NEW y, g[n + 1] = [within |-> x, left |-> y]
          PROVE  g[n + 1] = [within |-> g[n + 1].within, left |-> g[n + 1].left] /\ k = y
      BY <3>2
    <3> HIDE DEF k, l
    <3>3. CASE w[n] # ""
      <4>1. g[n + 1] = [within |-> IF Ends(w[n], page[n + 1]) THEN "" ELSE w[n], left |-> l]
        BY <1>4, <3>1, <3>3, Zenon DEF l
      <4> QED BY <3>2, <3>3, <4>1, Zenon
    <3>4. CASE w[n] = "" /\ page[n + 1].kind = "opener"
      <4>1. g[n + 1] = [within |-> page[n + 1].name, left |-> l]
        BY <1>4, <3>1, <3>4, Zenon DEF l
      <4> QED BY <3>2, <3>4, <4>1, Zenon
    <3>5. CASE w[n] = "" /\ page[n + 1].kind # "opener"
      <4>1. g[n + 1] = [within |-> "", left |-> Append(l, n + 1)]
        BY <1>4, <3>1, <3>5, Zenon DEF l
      <4> QED BY <3>2, <3>5, <4>1, Zenon
    <3> QED BY <3>3, <3>4, <3>5, Zenon DEF k, l
  <2>4. l \in Seq(Nat) /\ Lists(l, Kept(page, w, n))
    BY <2>2
  <2>5. Kept(page, w, n + 1) = IF w[n] = "" /\ page[n + 1].kind # "opener"
                                 THEN Kept(page, w, n) \cup {n + 1} ELSE Kept(page, w, n)
    <3>1. 1 .. n + 1 = 1 .. n \cup {n + 1} /\ n + 1 \notin 1 .. n
      OBVIOUS
    <3> QED BY <2>1, <3>1, Zenon DEF Kept
  <2>6. k \in Seq(Nat) /\ Lists(k, Kept(page, w, n + 1))
    <3>1. \A i \in Kept(page, w, n) : i < n + 1
      <4>1. \A i \in 1 .. n : i < n + 1
        OBVIOUS
      <4> QED BY <4>1, Zenon DEF Kept
    <3> HIDE DEF k, l
    <3>2. CASE w[n] = "" /\ page[n + 1].kind # "opener"
      <4>0. n + 1 \in Nat
        OBVIOUS
      <4>1. k = Append(l, n + 1) /\ Kept(page, w, n + 1) = Kept(page, w, n) \cup {n + 1} /\ n + 1 \in Nat
        BY <2>3, <2>5, <3>2, <4>0, Zenon
      <4>2. Append(l, n + 1) \in Seq(Nat) /\ Lists(Append(l, n + 1), Kept(page, w, n) \cup {n + 1})
        BY <2>4, <3>1, <4>1, ListsMore
      <4> QED BY <4>1, <4>2
    <3>3. CASE ~ (w[n] = "" /\ page[n + 1].kind # "opener")
      <4>1. k = l /\ Kept(page, w, n + 1) = Kept(page, w, n)
        BY <2>3, <2>5, <3>3, Zenon
      <4> QED BY <2>4, <4>1
    <3> QED BY <3>2, <3>3, Zenon
  <2>7. Len(l) <= Len(k) /\ \A j \in 1 .. Len(l) : k[j] = l[j]
    <3> HIDE DEF k, l
    <3>1. k = Append(l, n + 1) \/ k = l
      BY <2>3, Zenon
    <3>2. Len(l) \in Nat
      BY <2>4
    <3>3. CASE k = l
      BY <3>2, <3>3
    <3>4. CASE k = Append(l, n + 1)
      BY <2>4, <3>2, <3>4
    <3> QED BY <3>1, <3>3, <3>4
  <2>8. ASSUME NEW m \in 0 .. n + 1 PROVE Old(m, n + 1)
    <3>1. CASE m = n + 1
      <4>1. Len(k) \in Nat
        <5> HIDE DEF k
        <5> QED BY <2>6
      <4> QED BY <3>1, <4>1 DEF Old
    <3>2. CASE m \in 0 .. n
      <4>1. Old(m, n)
        BY <2>2, <3>2
      <4> DEFINE o == g[m].left
      <4>2. Len(o) \in Nat
        BY <4>1 DEF Old
      <4>3. Len(o) <= Len(l) /\ \A j \in 1 .. Len(o) : l[j] = o[j]
        BY <4>1 DEF Old
      <4>4. Len(l) \in Nat /\ Len(k) \in Nat
        <5> HIDE DEF l, k
        <5> QED BY <2>4, <2>6
      <4>5. Len(o) <= Len(k) /\ \A j \in 1 .. Len(o) : k[j] = o[j]
        <5> HIDE DEF l, k, o
        <5>1. \A j \in 1 .. Len(o) : j \in 1 .. Len(l)
          BY <4>2, <4>3, <4>4
        <5> QED BY <2>7, <4>2, <4>3, <4>4, <5>1
      <4> QED BY <4>2, <4>5 DEF Old
    <3> QED BY <3>1, <3>2
  <2> QED BY <2>3, <2>6, <2>8, Zenon
<1>7. \A n \in 0 .. N : GoodTo(n)
  <2> HIDE DEF P
  <2>1. \A n \in Nat : n \in P
    BY <1>5, <1>6, EveryNumber
  <2>2. \A n \in 0 .. N : n \in Nat /\ n <= N
    BY <1>0
  <2> HIDE DEF GoodTo
  <2> QED BY <2>1, <2>2 DEF P
<1> HIDE DEF P
<1> DEFINE left == g[N].left
           saw == SawMain(page, Strip(page))
<1>8. Strip(page) = left /\ left \in Seq(Nat) /\ Len(left) \in Nat /\ Lists(left, Kept(page, w, N))
  <2>1. N \in 0 .. N
    BY <1>0
  <2>2. left \in Seq(Nat) /\ Lists(left, Kept(page, w, N))
    BY <1>7, <2>1
  <2>3. Strip(page) = left
    BY <1>1
  <2> HIDE DEF left
  <2> QED BY <2>2, <2>3
<1> HIDE DEF left
<1>9. PICK r : /\ \A m \in 0 .. Len(left) : r[m] = ReadAfter(page, left, saw, r, m)
               /\ ExtractHtml(page) = r[Len(left)]
  BY <1>8, HtmlRead
<1> HIDE DEF saw
<1> DEFINE st == [n \in 0 .. N |-> r[Len(g[n].left)]]
<1>10. \A n \in 0 .. N : st[n] = r[Len(g[n].left)]
  OBVIOUS
<1> HIDE DEF st
<1>11. w[0] = "" /\ st[0] = Blank /\ ExtractHtml(page) = st[N]
  <2>1. 0 \in 0 .. N /\ N \in 0 .. N /\ Len(<<>>) = 0 /\ 0 \in 0 .. Len(left)
    BY <1>0, <1>8
  <2>2. w[0] = ""
    BY <1>2, <1>3, <2>1, Zenon
  <2>3. st[0] = r[0]
    <3>1. st[0] = r[Len(g[0].left)]
      BY <1>10, <2>1, Zenon
    <3> QED BY <1>3, <2>1, <3>1, Zenon
  <2>4. r[0] = Blank
    BY <1>9, <2>1 DEF ReadAfter
  <2>5. st[N] = r[Len(left)]
    BY <1>10, <2>1 DEF left
  <2> QED BY <1>9, <2>2, <2>3, <2>4, <2>5, Zenon
<1>12. Strip(page) \in Seq(Nat) /\ Range(Strip(page)) = Kept(page, w, N)
  BY <1>8 DEF Lists
<1>13. ASSUME NEW n \in Nat, n + 1 <= N PROVE Phase(page, n + 1, saw, w[n], st[n], w[n + 1], st[n + 1])
  <2>1. n \in 0 .. N /\ n + 1 \in 0 .. N /\ N \in 0 .. N
    BY <1>0, <1>13
  <2>2. GoodTo(n) /\ GoodTo(n + 1) /\ GoodTo(N)
    BY <1>7, <2>1
  <2> DEFINE l == g[n].left
             k == g[n + 1].left
  <2>3. /\ g[n] = [within |-> g[n].within, left |-> l] /\ l \in Seq(Nat) /\ k \in Seq(Nat)
        /\ Len(k) <= Len(left) /\ \A j \in 1 .. Len(k) : left[j] = k[j]
    BY <2>1, <2>2 DEF left
  <2> HIDE DEF GoodTo
  <2>4. /\ w[n] # "" => w[n + 1] = (IF Ends(w[n], page[n + 1]) THEN "" ELSE w[n]) /\ k = l
        /\ w[n] = "" /\ page[n + 1].kind = "opener" => w[n + 1] = page[n + 1].name /\ k = l
        /\ w[n] = "" /\ page[n + 1].kind # "opener" => w[n + 1] = "" /\ k = Append(l, n + 1)
    <3>1. w[n] = g[n].within /\ w[n + 1] = g[n + 1].within
      BY <1>2, <2>1
    <3>2. ASSUME NEW x, NEW y, g[n + 1] = [within |-> x, left |-> y]
          PROVE  w[n + 1] = x /\ k = y
      BY <3>1, <3>2
    <3> HIDE DEF k, l
    <3>3. CASE w[n] # ""
      <4>1. g[n + 1] = [within |-> IF Ends(w[n], page[n + 1]) THEN "" ELSE w[n], left |-> l]
        BY <1>4, <1>13, <2>3, <3>1, <3>3, Zenon DEF l
      <4> QED BY <3>2, <3>3, <4>1, Zenon
    <3>4. CASE w[n] = "" /\ page[n + 1].kind = "opener"
      <4>1. g[n + 1] = [within |-> page[n + 1].name, left |-> l]
        BY <1>4, <1>13, <2>3, <3>1, <3>4, Zenon DEF l
      <4> QED BY <3>2, <3>4, <4>1, Zenon
    <3>5. CASE w[n] = "" /\ page[n + 1].kind # "opener"
      <4>1. g[n + 1] = [within |-> "", left |-> Append(l, n + 1)]
        BY <1>4, <1>13, <2>3, <3>1, <3>5, Zenon DEF l
      <4> QED BY <3>2, <3>5, <4>1, Zenon
    <3> QED BY <3>3, <3>4, <3>5, Zenon
  <2>5. st[n] = r[Len(l)] /\ st[n + 1] = r[Len(k)]
    BY <1>10, <2>1
  <2> HIDE DEF l, k
  <2>6. k = l => st[n + 1] = st[n]
    BY <2>5
  <2>7. k = Append(l, n + 1) => st[n + 1] = Take(st[n], page, n + 1, saw)
    <3> SUFFICES ASSUME k = Append(l, n + 1) PROVE st[n + 1] = Take(st[n], page, n + 1, saw)
      OBVIOUS
    <3>1. Len(k) = Len(l) + 1 /\ Len(l) \in Nat /\ k[Len(l) + 1] = n + 1
      BY <2>3
    <3>2. Len(k) \in 1 .. Len(k) /\ Len(k) \in 0 .. Len(left) /\ Len(k) # 0 /\ Len(k) - 1 = Len(l)
      BY <1>8, <2>3, <3>1
    <3>3. left[Len(k)] = n + 1
      BY <2>3, <3>1, <3>2
    <3>4. r[Len(k)] = ReadAfter(page, left, saw, r, Len(k))
      BY <1>9, <3>2
    <3> QED BY <2>5, <3>2, <3>3, <3>4 DEF ReadAfter
  <2> QED BY <2>4, <2>6, <2>7, Zenon DEF Phase
<1>14. Phases(page, w, st)
  BY <1>0, <1>11, <1>12, <1>13, Zenon DEF Phases, saw
<1> QED BY <1>14

\* The elements that are open after a place and are in no comment.
Live(page, n) ==
  {k \in OnStack(page, n) : page[k].kind = "open" /\ \A j \in Around(page)[k] : page[j].kind = "open"}

\* What Strip is within is the outermost comment.
WithinSo(page, w, n) ==
  /\ w = "" => \A k \in OnStack(page, n) : page[k].kind = "open"
  /\ w # "" => \E k \in OnStack(page, n) : /\ page[k].kind = "opener" /\ page[k].name = w
                                      /\ \A j \in Around(page)[k] : page[j].kind = "open"

\* A comment and what is in it are not read; of the other tokens, texts are emitted, and tags
\* that open and close elements are read.
Unread(page, i) == page[i].kind \in {"opener", "closer"} \/ \E k \in Around(page)[i] : page[k].kind # "open"
Move(page, n, saw, s, s1) ==
  LET t == page[n + 1]
      L == Live(page, n)
      M == Live(page, n + 1)
      A == Around(page)[n + 1]
  IN  \/ Unread(page, n + 1) /\ M = L /\ s1 = s
      \/ t = Text /\ A = L /\ M = L /\ s1 = EmitText(s, n + 1, saw)
      \/ t.kind = "open" /\ t.void /\ A = L /\ M = L /\ s1 = Read(s, t)
      \/ t.kind = "open" /\ ~ t.void /\ A = L /\ M = L \cup {n + 1} /\ s1 = Read(s, t)
      \/ /\ t.kind = "close" /\ A = M /\ s1 = Read(s, t)
         /\ \E top \in L : (\A k \in L : k <= top) /\ M = L \ {top} /\ page[top].name = t.name

LEMMA LiveMoves ==
  ASSUME NEW page \in Seq(PageToken), Nested(page, Around(page), Stacks(page)),
         NEW n \in Nat, n + 1 <= Len(page), NEW saw, NEW v, NEW s, NEW u, NEW r,
         WithinSo(page, v, n), Phase(page, n + 1, saw, v, s, u, r)
  PROVE  WithinSo(page, u, n + 1) /\ Move(page, n, saw, s, r)
<1> DEFINE t == page[n + 1]
           O == OnStack(page, n)
           T == OnStack(page, n + 1)
           A == Around(page)[n + 1]
           L == Live(page, n)
           M == Live(page, n + 1)
<1>1. /\ DOMAIN page = 1 .. Len(page) /\ Len(page) \in Nat /\ n \in 0 .. Len(page)
      /\ n + 1 \in 0 .. Len(page) /\ n + 1 \in DOMAIN page
  OBVIOUS
<1>2. \A i \in DOMAIN page : page[i] \in PageToken
  OBVIOUS
<1>3. OpenSo(page, n) /\ OpenSo(page, n + 1) /\ Moved(page, n)
  BY <1>1, PageMoves
<1>4. /\ \A k \in O : k \in DOMAIN page /\ k \in Int /\ k <= n
      /\ \A k \in O : Begins(page[k]) /\ Around(page)[k] = {j \in O : j < k}
  <2>1. \A k \in 1 .. n : k \in Int /\ k <= n
    OBVIOUS
  <2> QED BY <1>3, <2>1 DEF OpenSo
<1>5. /\ Begins(t) => T = O \cup {n + 1} /\ A = O
      /\ ~ Begins(t) /\ ~ Stops(t) => T = O /\ A = O
      /\ Stops(t) => \E top \in O :
           /\ \A k \in O : k <= top
           /\ T = O \ {top} /\ A = T
           /\ page[top].name = t.name /\ (page[top].kind = "open" <=> t.kind = "close")
  BY <1>3 DEF Moved
<1>6. /\ t.kind \in {"text", "open", "close", "opener", "closer"}
      /\ t.kind = "text" <=> t = Text
      /\ t.kind \in {"opener", "closer"} => t.name # ""
      /\ t.kind = "open" => t.void \in BOOLEAN
  BY <1>1, <1>2, TokenIs, Zenon
<1>7. \A k \in O : page[k].kind = "open" \/ (page[k].kind = "opener" /\ page[k] = [kind |-> "opener", name |-> page[k].name])
  <2> SUFFICES ASSUME NEW k \in O
               PROVE  page[k].kind = "open" \/ (page[k].kind = "opener" /\ page[k] = [kind |-> "opener", name |-> page[k].name])
    OBVIOUS
  <2>1. page[k] \in PageToken
    BY <1>2, <1>4
  <2> QED BY <1>4, <2>1, TokenIs, Zenon DEF Begins
<1>8. \A k \in A : /\ page[k].kind = "opener" => page[k] # t
                   /\ page[k] = Opener("doctype") => t = Text
  BY <1>1 DEF Nested
<1>9. \A k \in O : \A j \in Around(page)[k] : /\ page[j].kind = "opener" => page[j] # page[k]
                                              /\ page[j] = Opener("doctype") => page[k] = Text
  BY <1>4 DEF Nested
<1>10. L = {k \in O : page[k].kind = "open" /\ \A j \in Around(page)[k] : page[j].kind = "open"}
       /\ M = {k \in T : page[k].kind = "open" /\ \A j \in Around(page)[k] : page[j].kind = "open"}
  BY DEF Live
<1>11. n + 1 \notin O
  BY <1>4
<1> HIDE DEF t, O, T, A, L, M
<1>12. CASE v = ""
  <2>1. \A k \in O : page[k].kind = "open"
    BY <1>12, Zenon DEF WithinSo, O
  <2>2. L = O
    BY <1>4, <1>10, <2>1
  <2>3. CASE t.kind = "opener"
    <3>1. Begins(t) /\ r = s /\ u = t.name /\ u # ""
      BY <1>6, <1>12, <2>3, Zenon DEF Begins, Phase, t
    <3>2. T = O \cup {n + 1} /\ A = O
      BY <1>5, <3>1, Zenon
    <3>3. M = L
      BY <1>10, <1>11, <2>3, <3>2 DEF t
    <3>4. n + 1 \in T /\ \A j \in Around(page)[n + 1] : page[j].kind = "open"
      BY <2>1, <3>2 DEF A
    <3>5. WithinSo(page, u, n + 1)
      BY <2>3, <3>1, <3>4, Zenon DEF WithinSo, t, T
    <3>6. Unread(page, n + 1)
      BY <2>3 DEF Unread, t
    <3> QED BY <3>1, <3>3, <3>5, <3>6, Zenon DEF Move, M, L
  <2>4. CASE t.kind = "closer"
    <3>1. PICK top \in O : page[top].kind = "open" <=> t.kind = "close"
      BY <1>5, <2>4 DEF Stops
    <3> QED BY <2>1, <2>4, <3>1
  <2>5. CASE t = Text
    <3>1. t.kind = "text"
      BY <1>6, <2>5, Zenon
    <3>2. ~ Begins(t) /\ ~ Stops(t) /\ u = "" /\ r = EmitText(s, n + 1, saw)
      BY <1>12, <3>1, Zenon DEF Begins, Stops, Phase, Take, t
    <3>3. T = O /\ A = O /\ M = L
      BY <1>5, <1>10, <3>2, Zenon
    <3>4. WithinSo(page, u, n + 1)
      BY <2>1, <3>2, <3>3, Zenon DEF WithinSo, T
    <3> QED BY <2>2, <2>5, <3>2, <3>3, <3>4, Zenon DEF Move, t, A, M, L
  <2>6. CASE t.kind = "open"
    <3>1. ~ Stops(t) /\ (Begins(t) <=> ~ t.void) /\ u = "" /\ r = Read(s, t)
      BY <1>6, <1>12, <2>6, Zenon DEF Begins, Stops, Phase, Take, t
    <3>2. CASE t.void
      <4>1. T = O /\ A = O /\ M = L
        BY <1>5, <1>10, <3>1, <3>2, Zenon
      <4>2. WithinSo(page, u, n + 1)
        BY <2>1, <3>1, <4>1, Zenon DEF WithinSo, T
      <4> QED BY <2>2, <2>6, <3>1, <3>2, <4>1, <4>2, Zenon DEF Move, t, A, M, L
    <3>3. CASE ~ t.void
      <4>1. T = O \cup {n + 1} /\ A = O
        BY <1>5, <3>1, <3>3, Zenon
      <4>2. M = L \cup {n + 1}
        BY <1>10, <2>1, <2>2, <2>6, <4>1 DEF t, A
      <4>3. WithinSo(page, u, n + 1)
        BY <2>1, <2>6, <3>1, <4>1, Zenon DEF WithinSo, T, t
      <4> QED BY <2>2, <2>6, <3>1, <3>3, <4>1, <4>2, <4>3, Zenon DEF Move, t, A, M, L
    <3> QED BY <1>6, <3>2, <3>3, Zenon
  <2>7. CASE t.kind = "close"
    <3>1. Stops(t) /\ u = "" /\ r = Read(s, t)
      BY <1>12, <2>7, Zenon DEF Stops, Phase, Take, t
    <3>2. PICK top \in O : /\ \A k \in O : k <= top
                           /\ T = O \ {top} /\ A = T /\ page[top].name = t.name
      BY <1>5, <3>1, Zenon
    <3>3. M = T
      BY <1>4, <1>10, <2>1, <3>2
    <3>4. WithinSo(page, u, n + 1)
      BY <2>1, <3>1, <3>2, Zenon DEF WithinSo, T
    <3> QED BY <2>2, <2>7, <3>1, <3>2, <3>3, <3>4, Zenon DEF Move, t, A, M, L
  <2> QED BY <1>6, <2>3, <2>4, <2>5, <2>6, <2>7, Zenon
<1>13. CASE v # ""
  <2>1. PICK c \in O : /\ page[c].kind = "opener" /\ page[c].name = v
                       /\ \A j \in Around(page)[c] : page[j].kind = "open"
    BY <1>13, Zenon DEF WithinSo, O
  <2>2. r = s /\ u = (IF Ends(v, t) THEN "" ELSE v)
    BY <1>13, Zenon DEF Phase, t
  <2>3. v = "doctype" => page[c] = Opener("doctype")
    BY <1>7, <2>1 DEF Opener
  <2>4. ASSUME ~ Stops(t) PROVE WithinSo(page, u, n + 1) /\ Move(page, n, saw, s, r)
    <3>1. (T = O \/ T = O \cup {n + 1}) /\ A = O
      BY <1>5, <2>4
    <3>2. ~ Ends(v, t)
      <4>1. v = "doctype" => t = Text
        BY <1>8, <2>1, <2>3, <3>1
      <4>2. t = Text => t.kind = "text"
        BY <1>6, Zenon
      <4> QED BY <2>4, <4>1, <4>2 DEF Ends, Stops
    <3>3. u = v /\ c \in T
      BY <2>1, <2>2, <3>1, <3>2
    <3>4. WithinSo(page, u, n + 1)
      BY <1>13, <2>1, <3>3, Zenon DEF WithinSo, T
    <3>5. c \in A /\ page[c].kind # "open"
      BY <2>1, <3>1
    <3>6. M = L
      BY <1>10, <3>1, <3>5 DEF A
    <3>7. Unread(page, n + 1)
      BY <3>5 DEF Unread, A
    <3> QED BY <2>2, <3>4, <3>6, <3>7, Zenon DEF Move, M, L
  <2>5. ASSUME Stops(t) PROVE WithinSo(page, u, n + 1) /\ Move(page, n, saw, s, r)
    <3>1. PICK top \in O : /\ \A k \in O : k <= top
                           /\ T = O \ {top} /\ A = T
                           /\ page[top].name = t.name /\ (page[top].kind = "open" <=> t.kind = "close")
      BY <1>5, <2>5
    <3>2. CASE top = c
      <4>1. t.kind = "closer"
        BY <2>1, <2>5, <3>1, <3>2 DEF Stops
      <4>2. u = ""
        BY <2>1, <2>2, <3>1, <3>2, <4>1, Zenon DEF Ends
      <4>3. \A k \in T : page[k].kind = "open"
        <5> SUFFICES ASSUME NEW k \in T PROVE page[k].kind = "open"
          OBVIOUS
        <5>1. k \in O /\ k # c /\ k <= c /\ k \in Int /\ c \in Int
          BY <1>4, <3>1, <3>2
        <5>2. k < c
          BY <5>1
        <5> QED BY <1>4, <2>1, <5>1, <5>2
      <4>4. M = L
        BY <1>10, <2>1, <3>1, <3>2
      <4>5. WithinSo(page, u, n + 1)
        BY <4>2, <4>3, Zenon DEF WithinSo, T
      <4>6. Unread(page, n + 1)
        BY <4>1 DEF Unread, t
      <4> QED BY <2>2, <4>4, <4>5, <4>6, Zenon DEF Move, M, L
    <3>3. CASE top # c
      <4>1. c \in Around(page)[top]
        <5>1. c <= top /\ c \in Int /\ top \in Int
          BY <1>4, <3>1
        <5>2. c < top
          BY <3>3, <5>1
        <5> QED BY <1>4, <5>2
      <4>2. page[c] # page[top] /\ v # "doctype"
        <5>1. Text.kind = "text"
          BY DEF Text
        <5> QED BY <1>7, <1>9, <2>1, <2>3, <4>1, <5>1
      <4>3. ~ Ends(v, t)
        <5> SUFFICES ASSUME Ends(v, t) PROVE FALSE
          OBVIOUS
        <5>1. t.kind = "closer" /\ v = t.name
          BY <4>2 DEF Ends
        <5>2. page[top].kind # "open"
          BY <3>1, <5>1
        <5>3. page[top] = [kind |-> "opener", name |-> v] /\ page[c] = [kind |-> "opener", name |-> v]
          BY <1>7, <2>1, <3>1, <5>1, <5>2
        <5> QED BY <4>2, <5>3
      <4>4. u = v /\ c \in T /\ c \in A
        BY <2>1, <2>2, <3>1, <3>3, <4>3
      <4>5. WithinSo(page, u, n + 1)
        BY <1>13, <2>1, <4>4, Zenon DEF WithinSo, T
      <4>6. M = L
        BY <1>10, <2>1, <3>1, <4>1
      <4>7. Unread(page, n + 1)
        BY <2>1, <4>4 DEF Unread, A
      <4> QED BY <2>2, <4>5, <4>6, <4>7, Zenon DEF Move, M, L
    <3> QED BY <3>2, <3>3
  <2> QED BY <2>4, <2>5
<1> QED BY <1>12, <1>13, Zenon

\* Every token moves so.
LEMMA PageSteps ==
  ASSUME NEW page \in Seq(PageToken), Nested(page, Around(page), Stacks(page)), NEW w, NEW st, Phases(page, w, st)
  PROVE  /\ \A n \in 0 .. Len(page) : WithinSo(page, w[n], n)
         /\ \A n \in Nat : n + 1 <= Len(page) => Move(page, n, SawMain(page, Strip(page)), st[n], st[n + 1])
<1> DEFINE P == {n \in Nat : n <= Len(page) => WithinSo(page, w[n], n)}
<1>1. 0 \in P
  <2>1. OnStack(page, 0) = {} /\ w[0] = ""
    BY PageMoves, Zenon DEF Phases
  <2>2. WithinSo(page, w[0], 0)
    BY <2>1, Zenon DEF WithinSo
  <2> QED BY <2>2
<1>2. ASSUME NEW n \in Nat, n + 1 <= Len(page), WithinSo(page, w[n], n)
      PROVE  WithinSo(page, w[n + 1], n + 1) /\ Move(page, n, SawMain(page, Strip(page)), st[n], st[n + 1])
  <2>1. Phase(page, n + 1, SawMain(page, Strip(page)), w[n], st[n], w[n + 1], st[n + 1])
    BY <1>2, Zenon DEF Phases
  <2> QED BY <1>2, <2>1, LiveMoves
<1>3. \A n \in Nat : n \in P => n + 1 \in P
  <2> SUFFICES ASSUME NEW n \in Nat, n \in P, n + 1 <= Len(page) PROVE WithinSo(page, w[n + 1], n + 1)
    OBVIOUS
  <2>1. n <= Len(page)
    OBVIOUS
  <2> QED BY <1>2, <2>1
<1> HIDE DEF P
<1>4. \A n \in Nat : n \in P
  BY <1>1, <1>3, EveryNumber
<1>5. \A n \in Nat : n <= Len(page) => WithinSo(page, w[n], n)
  BY <1>4 DEF P
<1>6. \A n \in Nat : n + 1 <= Len(page) => n <= Len(page)
  OBVIOUS
<1>7. \A n \in 0 .. Len(page) : n \in Nat /\ n <= Len(page)
  OBVIOUS
<1> QED BY <1>2, <1>5, <1>6, <1>7

\* Of the elements that are in no comment: they are open, not void, and around each of them
\* are those open before it.
LiveSo(page, n) ==
  /\ Live(page, n) \in SUBSET (1 .. n) /\ Live(page, n) \in SUBSET DOMAIN page
  /\ \A k \in Live(page, n) :
       page[k].kind = "open" /\ ~ page[k].void /\ Around(page)[k] = {j \in Live(page, n) : j < k}

LEMMA LiveElements ==
  ASSUME NEW page \in Seq(PageToken), Nested(page, Around(page), Stacks(page)), NEW n \in 0 .. Len(page)
  PROVE  LiveSo(page, n)
<1>1. OpenSo(page, n)
  BY PageMoves
<1>2. /\ OnStack(page, n) \in SUBSET (1 .. n) /\ OnStack(page, n) \in SUBSET DOMAIN page
      /\ \A k \in OnStack(page, n) : Begins(page[k]) /\ Around(page)[k] = {j \in OnStack(page, n) : j < k}
  BY <1>1 DEF OpenSo
<1>3. \A i, j, k \in 1 .. n : i < j /\ j < k => i < k
  OBVIOUS
<1>4. ASSUME NEW k \in Live(page, n)
      PROVE  page[k].kind = "open" /\ ~ page[k].void /\ Around(page)[k] = {j \in Live(page, n) : j < k}
  <2>1. k \in OnStack(page, n) /\ page[k].kind = "open" /\ \A j \in Around(page)[k] : page[j].kind = "open"
    BY DEF Live
  <2>2. ~ page[k].void
    BY <1>2, <2>1 DEF Begins
  <2>3. ASSUME NEW j \in OnStack(page, n), j < k PROVE j \in Live(page, n)
    <3>1. j \in Around(page)[k] /\ Around(page)[j] = {i \in OnStack(page, n) : i < j}
      BY <1>2, <2>1, <2>3
    <3>2. \A i \in Around(page)[j] : i \in Around(page)[k]
      <4> SUFFICES ASSUME NEW i \in OnStack(page, n), i < j PROVE i \in Around(page)[k]
        BY <3>1
      <4>1. i < k
        BY <1>2, <1>3, <2>1, <2>3
      <4> QED BY <1>2, <2>1, <4>1
    <3> QED BY <2>1, <3>1, <3>2 DEF Live
  <2>4. \A j \in Live(page, n) : j \in OnStack(page, n)
    BY DEF Live
  <2> QED BY <1>2, <2>1, <2>2, <2>3, <2>4
<1>5. Live(page, n) \in SUBSET OnStack(page, n)
  BY DEF Live
<1> QED BY <1>2, <1>4, <1>5 DEF LiveSo

\* What hides an element until it is closed by name, rather than by its kind.
Masks(t) == t.hidden /\ t.name \notin DropTags

\* What a page that is plain says of an element in no comment.
PlainAt(page, i) ==
  LET A == Around(page)[i]
      t == page[i]
  IN  /\ ~ t.hidden => \A h \in A : Masks(page[h]) =>
                         page[h].name # t.name \/ \E k \in A : Masks(page[k]) /\ k > h
      /\ t.name = "main" => \A k \in A : page[k].name # "main"
      /\ Buffer(t) # "" => \A k \in A : Buffer(page[k]) # Buffer(t)
      /\ t.role \in BoilerplateRoles => t.name \in BoilerplateTags
      /\ t.role = "main" => t.name = "main"
      /\ t.void => Buffer(t) = "" /\ t.name \notin BoilerplateTags \cup {"main"}

LEMMA PlainElements ==
  ASSUME NEW page, Plain(page), NEW i \in DOMAIN page, page[i].kind = "open",
         \A k \in Around(page)[i] : page[k].kind = "open"
  PROVE  PlainAt(page, i)
<1> DEFINE outer == {k \in Around(page)[i] : page[k].kind = "open"}
           hiders == {k \in outer : page[k].hidden /\ page[k].name \notin DropTags}
<1>1. outer = Around(page)[i] /\ hiders = {k \in outer : page[k].hidden /\ page[k].name \notin DropTags}
  OBVIOUS
<1>2. i \in {j \in DOMAIN page : page[j].kind = "open"}
  OBVIOUS
<1>3. /\ ~page[i].hidden => \A h \in hiders : page[h].name # page[i].name \/ \E k \in hiders : k > h
      /\ page[i].name = "main" => \A k \in outer : page[k].name # "main"
      /\ Buffer(page[i]) # "" => \A k \in outer : Buffer(page[k]) # Buffer(page[i])
      /\ page[i].role \in BoilerplateRoles => page[i].name \in BoilerplateTags
      /\ page[i].role = "main" => page[i].name = "main"
      /\ page[i].void => Buffer(page[i]) = "" /\ page[i].name \notin BoilerplateTags \cup {"main"}
  BY <1>2, Zenon DEF Plain
<1> HIDE DEF outer
<1>4. \A h : h \in hiders <=> h \in Around(page)[i] /\ Masks(page[h])
  BY <1>1 DEF Masks
<1> HIDE DEF hiders
<1> QED BY <1>1, <1>3, <1>4, Zenon DEF PlainAt

-----------------------------------------------------------------------------
(* Html: what a page shows, one token after another *)

Seen(page)      == VisibleTexts(page, Around(page))
Content(page)   == MainTexts(page, Around(page))
Inside(page, e) == TextsIn(page, Around(page), e)
InMain(page)    == Elements(page, Around(page), {"main"}) # {}

\* The elements, in no comment, that a buffer collects the texts of.
HeldBy(page, b) ==
  {d \in DOMAIN page :
     page[d].kind = "open" /\ Buffer(page[d]) = b /\ \A k \in Around(page)[d] : page[k].kind = "open"}

LEMMA UptoNext ==
  ASSUME NEW S, NEW N, S \in SUBSET (1 .. N), NEW n \in Nat
  PROVE  Upto(S, n + 1) = IF n + 1 \in S THEN Upto(S, n) \cup {n + 1} ELSE Upto(S, n)
<1>1. \A i \in S : i \in Int
  <2>1. \A i \in 1 .. N : i \in Int
    OBVIOUS
  <2> QED BY <2>1
<1>2. \A i \in S : i <= n + 1 <=> i <= n \/ i = n + 1
  BY <1>1
<1>3. n + 1 \in S => n + 1 <= n + 1
  OBVIOUS
<1> QED BY <1>2, <1>3 DEF Upto

\* What a token that is not read, a text and a tag add.
Gains(page, n) ==
  LET i == n + 1
      L == Live(page, n)
  IN  /\ Unread(page, i) \/ page[i].kind # "text" => i \notin Seen(page)
      /\ Unread(page, i) \/ page[i].kind # "open" => \A b : i \notin HeldBy(page, b)
      /\ page[i] = Text /\ Around(page)[i] = L =>
           /\ i \in Seen(page) <=> \A k \in L : ~ Hides(page[k])
           /\ i \in Content(page) <=> /\ i \in Seen(page) /\ Outside(page, L)
                                      /\ (\E k \in L : page[k].name = "main") \/ ~ InMain(page)
           /\ \A e : i \in Inside(page, e) <=> i \in Seen(page) /\ e \in L
      /\ page[i].kind = "open" /\ Around(page)[i] = L =>
           \A b : i \in HeldBy(page, b) <=> Buffer(page[i]) = b

LEMMA TokensAdd ==
  ASSUME NEW page \in Seq(PageToken), NEW n \in Nat, n + 1 <= Len(page), LiveSo(page, n)
  PROVE  Gains(page, n)
<1> DEFINE i == n + 1
           L == Live(page, n)
           A == Around(page)
<1>1. i \in DOMAIN page /\ page[i] \in PageToken
  OBVIOUS
<1>2. page[i].kind = "text" <=> page[i] = Text
  BY <1>1, TokenIs, Zenon
<1>3. \A k \in L : page[k].kind = "open"
  BY DEF LiveSo
<1>4. \A k \in A[i] : page[k].kind # "open" => Hides(page[k])
  BY DEF Hides
<1>5. Text.kind = "text"
  BY DEF Text
<1>6. /\ i \in Seen(page) <=> page[i] = Text /\ \A k \in A[i] : ~ Hides(page[k])
      /\ \A b : i \in HeldBy(page, b) <=> /\ page[i].kind = "open" /\ Buffer(page[i]) = b
                                        /\ \A k \in A[i] : page[k].kind = "open"
      /\ \A e : i \in Inside(page, e) <=> i \in Seen(page) /\ e \in A[i]
      /\ i \in Content(page) <=> /\ i \in Seen(page) /\ Outside(page, A[i])
                                 /\ (\E k \in A[i] : page[k].name = "main") \/ ~ InMain(page)
  BY <1>1 DEF Seen, VisibleTexts, HeldBy, Inside, TextsIn, Content, MainTexts, InMain
<1>7. Unread(page, i) => \/ page[i].kind = "opener" \/ page[i].kind = "closer"
                         \/ \E k \in A[i] : page[k].kind # "open"
  BY DEF Unread
<1> HIDE DEF i, L, A
<1>8. Unread(page, i) \/ page[i].kind # "text" => i \notin Seen(page)
  BY <1>2, <1>4, <1>5, <1>6, <1>7
<1>9. Unread(page, i) \/ page[i].kind # "open" => \A b : i \notin HeldBy(page, b)
  BY <1>6, <1>7
<1>10. page[i] = Text /\ A[i] = L =>
           /\ i \in Seen(page) <=> \A k \in L : ~ Hides(page[k])
           /\ i \in Content(page) <=> /\ i \in Seen(page) /\ Outside(page, L)
                                      /\ (\E k \in L : page[k].name = "main") \/ ~ InMain(page)
           /\ \A e : i \in Inside(page, e) <=> i \in Seen(page) /\ e \in L
  BY <1>6
<1>11. page[i].kind = "open" /\ A[i] = L => \A b : i \in HeldBy(page, b) <=> Buffer(page[i]) = b
  BY <1>3, <1>6
<1> QED BY <1>8, <1>9, <1>10, <1>11 DEF Gains, i, L, A

\* The sets a page is read into are of its places.
LEMMA PlacesOnly ==
  ASSUME NEW page \in Seq(PageToken)
  PROVE  /\ Seen(page) \in SUBSET (1 .. Len(page)) /\ Content(page) \in SUBSET Seen(page)
         /\ \A e : Inside(page, e) \in SUBSET Seen(page)
         /\ \A b : HeldBy(page, b) \in SUBSET (1 .. Len(page))
         /\ HeldBy(page, "title") = Elements(page, Around(page), {"title"})
         /\ HeldBy(page, "link") = Elements(page, Around(page), {"a"})
         /\ HeldBy(page, "heading") = Elements(page, Around(page), HeadingTags)
<1>1. DOMAIN page = 1 .. Len(page)
  OBVIOUS
<1>2. \A t : /\ Buffer(t) = "heading" <=> t.name \in HeadingTags
             /\ Buffer(t) = "link" <=> t.name = "a"
             /\ Buffer(t) = "title" <=> t.name = "title"
  BY DEF Buffer, HeadingTags
<1>3. Seen(page) \in SUBSET (1 .. Len(page)) /\ Content(page) \in SUBSET Seen(page)
  BY <1>1 DEF Seen, VisibleTexts, Content, MainTexts
<1>4. \A e : Inside(page, e) \in SUBSET Seen(page)
  BY DEF Seen, Inside, TextsIn
<1>5. \A b : HeldBy(page, b) \in SUBSET (1 .. Len(page))
  BY <1>1 DEF HeldBy
<1>6. HeldBy(page, "title") = Elements(page, Around(page), {"title"})
  BY <1>2 DEF HeldBy, Elements
<1>7. HeldBy(page, "link") = Elements(page, Around(page), {"a"})
  BY <1>2 DEF HeldBy, Elements
<1>8. HeldBy(page, "heading") = Elements(page, Around(page), HeadingTags)
  BY <1>2 DEF HeldBy, Elements
<1> QED BY <1>3, <1>4, <1>5, <1>6, <1>7, <1>8

\* An element that has been closed is around nothing that follows, and one that opens is
\* around nothing before it.
LEMMA InsideIs ==
  ASSUME NEW page \in Seq(PageToken), Nested(page, Around(page), Stacks(page)), NEW e \in Nat
  PROVE  /\ \A i \in Inside(page, e) : i \in Nat /\ e < i
         /\ \A n \in 0 .. Len(page) : e <= n /\ e \notin OnStack(page, n) => Upto(Inside(page, e), n) = Inside(page, e)
<1>1. DOMAIN page = 1 .. Len(page) /\ Len(page) \in Nat
  OBVIOUS
<1>2. ASSUME NEW n \in Nat, n + 1 <= Len(page)
      PROVE  Around(page)[n + 1] \in SUBSET OnStack(page, n) /\ OnStack(page, n + 1) \in SUBSET (OnStack(page, n) \cup {n + 1})
  <2>1. Moved(page, n)
    BY <1>2, PageMoves
  <2>2. Begins(page[n + 1]) \/ Stops(page[n + 1]) \/ ~ (Begins(page[n + 1]) \/ Stops(page[n + 1]))
    OBVIOUS
  <2> QED BY <2>1, <2>2 DEF Moved
<1>3. ASSUME NEW i \in Inside(page, e)
      PROVE  i \in Nat /\ i - 1 \in Nat /\ (i - 1) + 1 = i /\ i <= Len(page) /\ e \in OnStack(page, i - 1)
  <2>1. i \in 1 .. Len(page) /\ e \in Around(page)[i]
    BY <1>1 DEF Inside, TextsIn, VisibleTexts
  <2>2. i \in Nat /\ i - 1 \in Nat /\ (i - 1) + 1 = i /\ i <= Len(page)
    BY <1>1, <2>1
  <2>3. Around(page)[i] \in SUBSET OnStack(page, i - 1)
    BY <1>2, <2>2
  <2> QED BY <2>1, <2>2, <2>3
<1>4. ASSUME NEW i \in Inside(page, e) PROVE i \in Nat /\ e < i
  <2>1. i - 1 \in 0 .. Len(page)
    BY <1>1, <1>3
  <2>2. OnStack(page, i - 1) \in SUBSET (1 .. i - 1)
    BY <2>1, PageMoves DEF OpenSo
  <2>3. e \in 1 .. i - 1
    BY <1>3, <2>2
  <2> QED BY <1>3, <2>3
<1>5. ASSUME NEW n \in 0 .. Len(page), e <= n, e \notin OnStack(page, n)
      PROVE  Upto(Inside(page, e), n) = Inside(page, e)
  <2> DEFINE P == {m \in Nat : n + m <= Len(page) => e \notin OnStack(page, n + m)}
  <2>0. n \in Nat
    BY <1>1
  <2>1. 0 \in P
    BY <1>5, <2>0
  <2>2. ASSUME NEW m \in Nat, m \in P PROVE m + 1 \in P
    <3> SUFFICES ASSUME n + (m + 1) <= Len(page) PROVE e \notin OnStack(page, n + (m + 1))
      OBVIOUS
    <3>1. n + m \in Nat /\ (n + m) + 1 = n + (m + 1) /\ n + m <= Len(page) /\ e # (n + m) + 1
      BY <1>1, <1>5, <2>0
    <3>2. e \notin OnStack(page, n + m)
      BY <2>2, <3>1
    <3> QED BY <1>2, <3>1, <3>2
  <2> HIDE DEF P
  <2>3. \A m \in Nat : m \in P
    BY <2>1, <2>2, EveryNumber
  <2>4. ASSUME NEW i \in Inside(page, e), ~ (i <= n) PROVE FALSE
    <3>1. (i - 1) - n \in Nat /\ n + ((i - 1) - n) = i - 1 /\ i - 1 <= Len(page)
      BY <1>3, <2>0, <2>4
    <3>2. (i - 1) - n \in P
      BY <2>3, <3>1
    <3>3. e \notin OnStack(page, i - 1)
      BY <3>1, <3>2 DEF P
    <3> QED BY <1>3, <3>3
  <2> QED BY <2>4 DEF Upto
<1> QED BY <1>4, <1>5

-----------------------------------------------------------------------------
(* Html: the elements a reader is in *)

\* The names of elements, in the order of a list of them.
NamesOf(page, hs) == [m \in DOMAIN hs |-> page[hs[m]].name]

\* The depth of what is dropped, and the names of what hides until it is closed by name.
Veiled(page, L, drop, hidden) ==
  /\ drop = Cardinality({k \in L : Hides(page[k])})
  /\ \E hs \in Seq(Nat) : /\ Lists(hs, {k \in L : Masks(page[k])})
                          /\ hidden = NamesOf(page, hs)
\* The depth of landmarks, and whether the main content is read.
Landed(page, L, boilerplate, inMain) ==
  /\ boilerplate = Cardinality({k \in L : page[k].name \in BoilerplateTags})
  /\ inMain = (\E k \in L : page[k].name = "main")

LEMMA NamesListed ==
  ASSUME NEW page, NEW hs \in Seq(Nat), NEW hidden, hidden = NamesOf(page, hs)
  PROVE  /\ hidden = <<>> <=> hs = <<>>
         /\ hs # <<>> => Last(hidden) = page[Last(hs)].name
         /\ \A x \in Nat : Append(hidden, page[x].name) = NamesOf(page, Append(hs, x))
         /\ hs # <<>> => Front(hidden) = NamesOf(page, Front(hs))
<1> DEFINE N == Len(hs)
           N1 == {page[hs[m]].name : m \in DOMAIN hs}
<1>1. DOMAIN hs = 1 .. N /\ N \in Nat
  OBVIOUS
<1>0. hidden = [m \in DOMAIN hs |-> page[hs[m]].name]
  BY DEF NamesOf
<1>2. hidden \in [1 .. N -> N1]
  BY <1>0, <1>1
<1>3. hidden \in Seq(N1) /\ Len(hidden) = N /\ DOMAIN hidden = 1 .. N /\ \A m \in 1 .. N : hidden[m] = page[hs[m]].name
  <2>1. hidden \in Seq(N1)
    BY <1>1, <1>2
  <2>2. DOMAIN hidden = 1 .. N
    BY <1>0, <1>1
  <2>3. Len(hidden) = N
    BY <1>1, <2>1, <2>2
  <2> QED BY <1>0, <1>1, <2>1, <2>2, <2>3
<1> HIDE DEF N1
<1>4. hidden = <<>> <=> hs = <<>>
  <2>1. \A T, q : q \in Seq(T) => (q = <<>> <=> Len(q) = 0)
    OBVIOUS
  <2> QED BY <1>3, <2>1
<1>5. hs # <<>> => N \in 1 .. N
  BY <1>1
<1>6. hs # <<>> => Last(hidden) = page[Last(hs)].name
  BY <1>3, <1>5 DEF Last
<1>7. ASSUME NEW x \in Nat
      PROVE  Append(hidden, page[x].name) = NamesOf(page, Append(hs, x))
  <2> DEFINE a == Append(hidden, page[x].name)
             b == Append(hs, x)
  <2>1. DOMAIN b = 1 .. N + 1 /\ \A m \in 1 .. N + 1 : b[m] = IF m = N + 1 THEN x ELSE hs[m]
    BY <1>1
  <2>2. /\ a = [m \in 1 .. N + 1 |-> IF m = N + 1 THEN page[x].name ELSE hidden[m]]
    BY <1>1, <1>3
  <2>3. \A m \in 1 .. N + 1 : m # N + 1 => m \in 1 .. N
    BY <1>1
  <2> HIDE DEF b
  <2>4. \A m \in 1 .. N + 1 : (IF m = N + 1 THEN page[x].name ELSE hidden[m]) = page[b[m]].name
    <3> SUFFICES ASSUME NEW m \in 1 .. N + 1
                 PROVE  (IF m = N + 1 THEN page[x].name ELSE hidden[m]) = page[b[m]].name
      OBVIOUS
    <3>1. CASE m = N + 1
      BY <2>1, <3>1
    <3>2. CASE m # N + 1
      <4>1. m \in 1 .. N /\ b[m] = hs[m]
        BY <2>1, <2>3, <3>2
      <4> QED BY <1>3, <3>2, <4>1
    <3> QED BY <3>1, <3>2
  <2> HIDE DEF a
  <2>5. a = [m \in DOMAIN b |-> page[b[m]].name]
    BY <2>1, <2>2, <2>4, Zenon
  <2> QED BY <2>5, Zenon DEF a, b, NamesOf
<1>8. ASSUME hs # <<>>
      PROVE  Front(hidden) = NamesOf(page, Front(hs))
  <2>1. DOMAIN Front(hs) = 1 .. N - 1 /\ \A m \in 1 .. N - 1 : m \in 1 .. N /\ Front(hs)[m] = hs[m]
    BY <1>1, <1>5, <1>8 DEF Front
  <2>2. Front(hidden) = [m \in 1 .. N - 1 |-> hidden[m]]
    BY <1>1, <1>3, <1>5, <1>8 DEF Front
  <2> DEFINE f == Front(hs)
  <2> HIDE DEF f
  <2>3. \A m \in 1 .. N - 1 : hidden[m] = page[f[m]].name
    BY <1>3, <2>1 DEF f
  <2>4. Front(hidden) = [m \in DOMAIN f |-> page[f[m]].name]
    BY <2>1, <2>2, <2>3, Zenon DEF f
  <2> QED BY <2>4 DEF f, NamesOf
<1> QED BY <1>4, <1>6, <1>7, <1>8

\* What is extracted so far has all its fields.
Whole(s) ==
  s = [drop |-> s.drop, hidden |-> s.hidden, boilerplate |-> s.boilerplate, inMain |-> s.inMain,
       open |-> s.open, main |-> s.main, full |-> s.full, title |-> s.title,
       headings |-> s.headings, links |-> s.links]

\* The elements that hide and the others are read apart.
Veil(s, t) == IF t.name \in DropTags THEN Hide(s, t) ELSE Reveal(Hide(s, t), t)
SameTexts(r, s) == r.open = s.open /\ r.main = s.main /\ r.full = s.full
SameEnds(r, s)  == r.title = s.title /\ r.headings = s.headings /\ r.links = s.links

BufferPopped(s, t) == t.name \notin DropTags /\ s.hidden # <<>> /\ Last(s.hidden) = t.name
LEMMA VeilIs ==
  ASSUME NEW s, Whole(s), NEW t, t.kind \in {"open", "close"}, t.kind = "open" => t.hidden \in BOOLEAN /\ t.void \in BOOLEAN
  PROVE  /\ Whole(Veil(s, t)) /\ SameTexts(Veil(s, t), s) /\ SameEnds(Veil(s, t), s)
         /\ Veil(s, t).boilerplate = s.boilerplate /\ Veil(s, t).inMain = s.inMain
         /\ t.kind = "open" /\ t.void => Veil(s, t) = s
         /\ t.kind = "open" /\ ~ t.void =>
              /\ Veil(s, t).drop = IF Hides(t) THEN s.drop + 1 ELSE s.drop
              /\ Veil(s, t).hidden = IF Masks(t) THEN Append(s.hidden, t.name) ELSE s.hidden
         /\ t.kind = "close" =>
              /\ Veil(s, t).drop = IF t.name \in DropTags \/ BufferPopped(s, t) THEN OneLess(s.drop) ELSE s.drop
              /\ Veil(s, t).hidden = IF BufferPopped(s, t) THEN Front(s.hidden) ELSE s.hidden
<1> DEFINE Changed(r, x, y) ==
             /\ Whole(r) /\ SameTexts(r, s) /\ SameEnds(r, s)
             /\ r.boilerplate = s.boilerplate /\ r.inMain = s.inMain /\ r.drop = x /\ r.hidden = y
<1>1. ASSUME NEW x, NEW y, NEW r, r = [s EXCEPT !.drop = x, !.hidden = y]
      PROVE  Changed(r, x, y)
  <2>1. r = [drop |-> x, hidden |-> y, boilerplate |-> s.boilerplate, inMain |-> s.inMain,
             open |-> s.open, main |-> s.main, full |-> s.full, title |-> s.title,
             headings |-> s.headings, links |-> s.links]
    BY <1>1 DEF Whole
  <2> QED BY <2>1 DEF Whole, SameTexts, SameEnds
<1>2. [s EXCEPT !.drop = s.drop, !.hidden = s.hidden] = s
  BY DEF Whole
<1>3. CASE t.kind = "open" /\ t.void
  <2>1. Hide(s, t) = s /\ Reveal(s, t) = s
    BY <1>3 DEF Hide, Reveal
  <2>2. Veil(s, t) = s
    BY <2>1 DEF Veil
  <2> QED BY <1>3, <2>2 DEF SameTexts, SameEnds
<1>4. CASE t.kind = "open" /\ ~ t.void
  <2> DEFINE x == IF Hides(t) THEN s.drop + 1 ELSE s.drop
             y == IF Masks(t) THEN Append(s.hidden, t.name) ELSE s.hidden
  <2>1. Hides(t) <=> t.hidden \/ t.name \in DropTags
    BY <1>4 DEF Hides
  <2>2. Hide(s, t) = [s EXCEPT !.drop = x, !.hidden = y]
    <3>1. CASE Hides(t)
      <4>1. Hide(s, t) = [s EXCEPT !.drop = s.drop + 1,
                                   !.hidden = IF t.name \in DropTags THEN s.hidden ELSE Append(s.hidden, t.name)]
        BY <1>4, <2>1, <3>1 DEF Hide, Whole
      <4>2. (IF t.name \in DropTags THEN s.hidden ELSE Append(s.hidden, t.name)) = y
        BY <2>1, <3>1 DEF Masks
      <4> QED BY <3>1, <4>1, <4>2
    <3>2. CASE ~ Hides(t)
      <4>1. Hide(s, t) = s
        BY <1>4, <2>1, <3>2 DEF Hide
      <4>2. x = s.drop /\ y = s.hidden
        BY <2>1, <3>2 DEF Masks
      <4> QED BY <1>2, <4>1, <4>2
    <3> QED BY <3>1, <3>2
  <2>3. \A r : Reveal(r, t) = r
    BY <1>4 DEF Reveal
  <2>4. Veil(s, t) = [s EXCEPT !.drop = x, !.hidden = y]
    BY <2>2, <2>3 DEF Veil
  <2> HIDE DEF x, y
  <2>5. Changed(Veil(s, t), x, y)
    <3> HIDE DEF Changed
    <3> QED BY <1>1, <2>4, Zenon
  <2> QED BY <1>4, <2>5 DEF x, y
<1>5. CASE t.kind = "close"
  <2> DEFINE x == IF t.name \in DropTags \/ BufferPopped(s, t) THEN OneLess(s.drop) ELSE s.drop
             y == IF BufferPopped(s, t) THEN Front(s.hidden) ELSE s.hidden
  <2>1. Veil(s, t) = [s EXCEPT !.drop = x, !.hidden = y]
    <3>1. CASE t.name \in DropTags
      <4>1. Veil(s, t) = [s EXCEPT !.drop = OneLess(s.drop)]
        BY <1>5, <3>1 DEF Veil, Hide
      <4>2. x = OneLess(s.drop) /\ y = s.hidden
        BY <3>1 DEF BufferPopped
      <4>3. [s EXCEPT !.drop = OneLess(s.drop)] = [s EXCEPT !.drop = OneLess(s.drop), !.hidden = s.hidden]
        BY DEF Whole
      <4> QED BY <4>1, <4>2, <4>3
    <3>2. CASE t.name \notin DropTags
      <4>1. Hide(s, t) = s
        BY <1>5, <3>2 DEF Hide
      <4>2. CASE BufferPopped(s, t)
        <5>1. Reveal(s, t) = [s EXCEPT !.hidden = Front(s.hidden), !.drop = OneLess(s.drop)]
          BY <1>5, <4>2 DEF Reveal, BufferPopped, Whole
        <5>2. [s EXCEPT !.hidden = Front(s.hidden), !.drop = OneLess(s.drop)]
                = [s EXCEPT !.drop = OneLess(s.drop), !.hidden = Front(s.hidden)]
          BY DEF Whole
        <5>3. x = OneLess(s.drop) /\ y = Front(s.hidden)
          BY <4>2
        <5> QED BY <3>2, <4>1, <5>1, <5>2, <5>3 DEF Veil
      <4>3. CASE ~ BufferPopped(s, t)
        <5>1. Reveal(s, t) = s
          BY <3>2, <4>3 DEF Reveal, BufferPopped
        <5>2. x = s.drop /\ y = s.hidden
          BY <3>2, <4>3
        <5> QED BY <1>2, <3>2, <4>1, <5>1, <5>2 DEF Veil
      <4> QED BY <4>2, <4>3
    <3> QED BY <3>1, <3>2
  <2> HIDE DEF x, y
  <2>2. Changed(Veil(s, t), x, y)
    <3> HIDE DEF Changed
    <3> QED BY <1>1, <2>1, Zenon
  <2> QED BY <1>5, <2>2 DEF x, y
<1> QED BY <1>3, <1>4, <1>5

\* Some elements of a finite set, when one is added and when one is taken away.
LEMMA SomeOfMore ==
  ASSUME NEW L, IsFiniteSet(L), NEW x, x \notin L, NEW Q
  PROVE  /\ IsFiniteSet(L \cap Q) /\ Cardinality(L \cap Q) \in Nat
         /\ Cardinality((L \cup {x}) \cap Q) = IF x \in Q THEN Cardinality(L \cap Q) + 1 ELSE Cardinality(L \cap Q)
<1> DEFINE S == L \cap Q
<1>1. IsFiniteSet(S)
  <2>1. S \in SUBSET L
    OBVIOUS
  <2> QED BY <2>1, FS_Subset
<1>2. (L \cup {x}) \cap Q = IF x \in Q THEN S \cup {x} ELSE S
  OBVIOUS
<1>3. x \notin S
  OBVIOUS
<1> HIDE DEF S
<1>4. Cardinality(S) \in Nat /\ Cardinality(S \cup {x}) = Cardinality(S) + 1
  BY <1>1, <1>3, FS_CardinalityType, FS_AddElement
<1>5. Cardinality((L \cup {x}) \cap Q) = IF x \in Q THEN Cardinality(S) + 1 ELSE Cardinality(S)
  BY <1>2, <1>4
<1> QED BY <1>1, <1>4, <1>5 DEF S

LEMMA SomeOfLess ==
  ASSUME NEW L, IsFiniteSet(L), NEW x \in L, NEW Q
  PROVE  /\ Cardinality(L \cap Q) \in Nat
         /\ Cardinality((L \ {x}) \cap Q) = IF x \in Q THEN OneLess(Cardinality(L \cap Q)) ELSE Cardinality(L \cap Q)
<1> DEFINE M == L \ {x}
           a == Cardinality(M \cap Q)
           b == Cardinality(L \cap Q)
<1>1. IsFiniteSet(M) /\ x \notin M /\ M \cup {x} = L
  BY FS_RemoveElement
<1> HIDE DEF M
<1>2. a \in Nat /\ Cardinality((M \cup {x}) \cap Q) = IF x \in Q THEN a + 1 ELSE a
  BY <1>1, SomeOfMore
<1>3. b = IF x \in Q THEN a + 1 ELSE a
  BY <1>1, <1>2
<1> HIDE DEF a, b
<1>4. b \in Nat /\ a = IF x \in Q THEN OneLess(b) ELSE b
  BY <1>2, <1>3 DEF OneLess
<1> QED BY <1>4 DEF a, b, M

LEMMA VeilOpens ==
  ASSUME NEW page, NEW n \in Nat, NEW L \in SUBSET (1 .. n), NEW s, Whole(s),
         page[n + 1].kind = "open", page[n + 1].hidden \in BOOLEAN, page[n + 1].void = FALSE,
         Veiled(page, L, s.drop, s.hidden)
  PROVE  Veiled(page, L \cup {n + 1}, Veil(s, page[n + 1]).drop, Veil(s, page[n + 1]).hidden)
<1> DEFINE i == n + 1
           t == page[i]
           v == Veil(s, t)
           Q == {k \in L \cup {i} : Hides(page[k])}
           m0 == {k \in L : Masks(page[k])}
           m1 == {k \in L \cup {i} : Masks(page[k])}
<1>1. IsFiniteSet(L) /\ i \notin L /\ i \in Nat /\ \A k \in L : k < i
  <2>1. \A k \in 1 .. n : k < n + 1
    OBVIOUS
  <2>2. n + 1 \notin 1 .. n
    OBVIOUS
  <2>3. \A m \in Nat : IsFiniteSet(1 .. m)
    BY FS_Interval
  <2>4. IsFiniteSet(1 .. n)
    BY <2>3
  <2>5. IsFiniteSet(L)
    BY <2>4, FS_Subset
  <2>6. n + 1 \in Nat
    OBVIOUS
  <2> QED BY <2>1, <2>2, <2>5, <2>6
<1>2. /\ v.drop = IF Hides(t) THEN s.drop + 1 ELSE s.drop
      /\ v.hidden = IF Masks(t) THEN Append(s.hidden, t.name) ELSE s.hidden
  <2>1. t.kind = "open" /\ t.hidden \in BOOLEAN /\ t.void \in BOOLEAN /\ ~ t.void
    OBVIOUS
  <2>2. t.kind \in {"open", "close"}
    BY <2>1
  <2> HIDE DEF t
  <2> QED BY <2>1, <2>2, VeilIs
<1>3. s.drop = Cardinality({k \in L : Hides(page[k])})
  BY DEF Veiled
<1>4. PICK hs \in Seq(Nat) : Lists(hs, m0) /\ s.hidden = NamesOf(page, hs)
  BY DEF Veiled
<1>5. v.drop = Cardinality({k \in L \cup {i} : Hides(page[k])})
  <2>1. {k \in L : Hides(page[k])} = L \cap Q /\ Q = (L \cup {i}) \cap Q /\ (i \in Q <=> Hides(t))
    OBVIOUS
  <2>2. Cardinality((L \cup {i}) \cap Q) = IF i \in Q THEN Cardinality(L \cap Q) + 1 ELSE Cardinality(L \cap Q)
    <3> HIDE DEF Q, i
    <3> QED BY <1>1, SomeOfMore
  <2>3. Q = {k \in L \cup {i} : Hides(page[k])}
    OBVIOUS
  <2> HIDE DEF Q, v, t
  <2>4. s.drop = Cardinality(L \cap Q)
    BY <1>3, <2>1
  <2>5. Cardinality(Q) = IF Hides(t) THEN s.drop + 1 ELSE s.drop
    BY <2>1, <2>2, <2>4
  <2>6. v.drop = Cardinality(Q)
    BY <1>2, <2>5
  <2> QED BY <2>3, <2>6
<1>6. \E hs1 \in Seq(Nat) : Lists(hs1, m1) /\ v.hidden = NamesOf(page, hs1)
  <2>1. CASE Masks(t)
    <3>1. m1 = m0 \cup {i} /\ \A k \in m0 : k < i
      BY <1>1, <2>1
    <3> HIDE DEF i, m0, m1, v
    <3>2. Append(hs, i) \in Seq(Nat) /\ Lists(Append(hs, i), m1)
      BY <1>1, <1>4, <3>1, ListsMore
    <3>3. Append(s.hidden, page[i].name) = NamesOf(page, Append(hs, i))
      BY <1>1, <1>4, NamesListed
    <3>4. v.hidden = Append(s.hidden, page[i].name)
      BY <1>2, <2>1
    <3>5. v.hidden = NamesOf(page, Append(hs, i))
      BY <3>3, <3>4
    <3> QED BY <3>2, <3>5
  <2>2. CASE ~ Masks(t)
    <3>1. m1 = m0 /\ v.hidden = s.hidden
      BY <1>2, <2>2
    <3> HIDE DEF m0, m1, v
    <3> QED BY <1>4, <3>1
  <2> QED BY <2>1, <2>2
<1> HIDE DEF v, t
<1> QED BY <1>5, <1>6 DEF Veiled, v, t

LEMMA VeilCloses ==
  ASSUME NEW page, NEW n \in Nat, NEW L \in SUBSET (1 .. n), NEW s, Whole(s), NEW t, t.kind = "close",
         NEW top \in L, \A k \in L : k <= top, page[top].name = t.name,
         page[top].kind = "open", page[top].hidden \in BOOLEAN,
         Around(page)[top] = {j \in L : j < top}, PlainAt(page, top),
         Veiled(page, L, s.drop, s.hidden)
  PROVE  Veiled(page, L \ {top}, Veil(s, t).drop, Veil(s, t).hidden)
<1> DEFINE v == Veil(s, t)
           Q == {k \in L : Hides(page[k])}
           m0 == {k \in L : Masks(page[k])}
           m1 == {k \in L \ {top} : Masks(page[k])}
<1>1. IsFiniteSet(L) /\ \A k \in L : k \in Nat /\ (k # top => k < top)
  <2>1. \A k \in 1 .. n : k \in Nat
    OBVIOUS
  <2>2. \A m \in Nat : IsFiniteSet(1 .. m)
    BY FS_Interval
  <2>3. \A k, m \in Nat : k <= m /\ k # m => k < m
    OBVIOUS
  <2> QED BY <2>1, <2>2, <2>3, FS_Subset
<1>2. /\ v.drop = IF t.name \in DropTags \/ BufferPopped(s, t) THEN OneLess(s.drop) ELSE s.drop
      /\ v.hidden = IF BufferPopped(s, t) THEN Front(s.hidden) ELSE s.hidden
  BY VeilIs
<1>3. s.drop = Cardinality({k \in L : Hides(page[k])})
  BY DEF Veiled
<1>4. PICK hs \in Seq(Nat) : Lists(hs, m0) /\ s.hidden = NamesOf(page, hs)
  BY DEF Veiled
<1>5. BufferPopped(s, t) <=> Masks(page[top])
  <2>1. s.hidden = <<>> <=> hs = <<>>
    BY <1>4, NamesListed
  <2>2. hs # <<>> => Last(s.hidden) = page[Last(hs)].name
    BY <1>4, NamesListed
  <2>3. CASE Masks(page[top])
    <3>1. top \in m0 /\ \A k \in m0 : k <= top
      BY <2>3
    <3>2. hs # <<>> /\ Last(hs) = top
      <4> HIDE DEF m0
      <4> QED BY <1>4, <3>1, ListsLess
    <3> QED BY <2>1, <2>2, <2>3, <3>2 DEF BufferPopped, Masks
  <2>4. CASE ~ Masks(page[top])
    <3> SUFFICES ASSUME BufferPopped(s, t) PROVE FALSE
      BY <2>4
    <3>1. t.name \notin DropTags /\ hs # <<>> /\ page[Last(hs)].name = t.name
      BY <2>1, <2>2 DEF BufferPopped
    <3>2. ~ page[top].hidden
      BY <2>4, <3>1 DEF Masks
    <3> DEFINE h == Last(hs)
    <3>3. h \in m0 /\ \A k \in m0 : k <= h
      <4>1. DOMAIN hs = 1 .. Len(hs) /\ Len(hs) \in 1 .. Len(hs)
        BY <3>1
      <4>2. m0 = {hs[m] : m \in 1 .. Len(hs)} /\ \A a, b \in 1 .. Len(hs) : a < b => hs[a] < hs[b]
        <5> HIDE DEF m0
        <5> QED BY <1>4, <4>1 DEF Lists, Range
      <4>3. h = hs[Len(hs)]
        BY DEF Last
      <4> HIDE DEF h, m0
      <4>4. ASSUME NEW k \in m0 PROVE k <= h
        <5>1. PICK m \in 1 .. Len(hs) : k = hs[m]
          BY <4>2
        <5>2. hs[m] \in Nat /\ hs[Len(hs)] \in Nat
          BY <4>1, <5>1
        <5>3. m = Len(hs) \/ m < Len(hs)
          <6>1. \A N \in Nat : \A x \in 1 .. N : x = N \/ x < N
            OBVIOUS
          <6> QED BY <5>1, <6>1
        <5>4. CASE m = Len(hs)
          BY <4>3, <5>1, <5>2, <5>4
        <5>5. CASE m < Len(hs)
          <6>1. hs[m] < hs[Len(hs)]
            BY <4>1, <4>2, <5>1, <5>5
          <6>2. \A x, y \in Nat : x < y => x <= y
            OBVIOUS
          <6> QED BY <4>3, <5>1, <5>2, <6>1, <6>2
        <5> QED BY <5>3, <5>4, <5>5
      <4> QED BY <4>1, <4>2, <4>3, <4>4
    <3> HIDE DEF h
    <3>4. h \in L /\ Masks(page[h]) /\ h # top
      BY <2>4, <3>3
    <3>5. h \in Around(page)[top]
      BY <1>1, <3>4
    <3>6. page[h].name = page[top].name
      BY <3>1 DEF h
    <3>7. PICK k \in Around(page)[top] : Masks(page[k]) /\ k > h
      BY <3>2, <3>4, <3>5, <3>6, Zenon DEF PlainAt
    <3>8. k \in m0 /\ k \in Nat /\ h \in Nat
      BY <1>1, <3>4, <3>7
    <3> HIDE DEF m0
    <3> QED BY <3>3, <3>7, <3>8
  <2> QED BY <2>3, <2>4
<1>6. v.drop = Cardinality({k \in L \ {top} : Hides(page[k])})
  <2>1. {k \in L : Hides(page[k])} = L \cap Q /\ {k \in L \ {top} : Hides(page[k])} = (L \ {top}) \cap Q
        /\ (top \in Q <=> Hides(page[top]))
    OBVIOUS
  <2>2. Cardinality((L \ {top}) \cap Q) = IF top \in Q THEN OneLess(Cardinality(L \cap Q)) ELSE Cardinality(L \cap Q)
    <3> HIDE DEF Q
    <3> QED BY <1>1, SomeOfLess
  <2>3. Hides(page[top]) <=> t.name \in DropTags \/ BufferPopped(s, t)
    BY <1>5 DEF Hides, Masks
  <2> DEFINE c == Cardinality(L \cap Q)
             d == Cardinality((L \ {top}) \cap Q)
  <2>4. s.drop = c
    BY <1>3, <2>1
  <2>5. d = IF top \in Q THEN OneLess(c) ELSE c
    BY <2>2
  <2>6. v.drop = d
    <3> HIDE DEF c, d, Q, v
    <3> QED BY <1>2, <2>1, <2>3, <2>4, <2>5
  <2> HIDE DEF v
  <2> QED BY <2>1, <2>6
<1>7. \E hs1 \in Seq(Nat) : Lists(hs1, m1) /\ v.hidden = NamesOf(page, hs1)
  <2>1. CASE Masks(page[top])
    <3>1. m1 = m0 \ {top} /\ top \in m0 /\ \A k \in m0 : k <= top
      BY <2>1
    <3> HIDE DEF m0, m1, v
    <3>2. hs # <<>> /\ Front(hs) \in Seq(Nat) /\ Lists(Front(hs), m1)
      BY <1>4, <3>1, ListsLess
    <3>3. Front(s.hidden) = NamesOf(page, Front(hs))
      BY <1>4, <3>2, NamesListed
    <3>4. v.hidden = NamesOf(page, Front(hs))
      BY <1>2, <1>5, <2>1, <3>3
    <3> QED BY <3>2, <3>4
  <2>2. CASE ~ Masks(page[top])
    <3>1. m1 = m0 /\ v.hidden = s.hidden
      BY <1>2, <1>5, <2>2
    <3> HIDE DEF m0, m1, v
    <3> QED BY <1>4, <3>1
  <2> QED BY <2>1, <2>2
<1> HIDE DEF v
<1> QED BY <1>6, <1>7 DEF Veiled, v

\* A tag moves what hides, then the landmarks and the main content, then the buffers.
Entered(s, t) == Enter(Veil(s, t), t)
LandsSo(t) == t.kind = "open" =>
  /\ t.role \in BoilerplateRoles => t.name \in BoilerplateTags
  /\ t.role = "main" => t.name = "main"

Crosses(r, s, t) ==
  /\ Whole(r) /\ SameTexts(r, s) /\ SameEnds(r, s) /\ r.drop = s.drop /\ r.hidden = s.hidden
  /\ r.boilerplate = IF t.name \notin BoilerplateTags THEN s.boilerplate
                     ELSE IF t.kind = "open" THEN s.boilerplate + 1 ELSE OneLess(s.boilerplate)
  /\ t.name = "main" /\ t.kind = "open" => r.inMain = TRUE
  /\ t.name = "main" /\ t.kind = "close" => r.inMain = FALSE
  /\ t.name # "main" => r.inMain = s.inMain

LEMMA EnterIs ==
  ASSUME NEW s, Whole(s), NEW t, t.kind \in {"open", "close"}, LandsSo(t)
  PROVE  Crosses(Enter(s, t), s, t)
<1> DEFINE x == IF t.name \notin BoilerplateTags THEN s.boilerplate
                ELSE IF t.kind = "open" THEN s.boilerplate + 1 ELSE OneLess(s.boilerplate)
           y == IF t.name = "main" THEN t.kind = "open" ELSE s.inMain
           Changed(r, a, b) ==
             /\ Whole(r) /\ SameTexts(r, s) /\ SameEnds(r, s)
             /\ r.drop = s.drop /\ r.hidden = s.hidden /\ r.boilerplate = a /\ r.inMain = b
<1>1. ASSUME NEW a, NEW b, NEW r, r = [s EXCEPT !.boilerplate = a, !.inMain = b]
      PROVE  Changed(r, a, b)
  <2>1. r = [drop |-> s.drop, hidden |-> s.hidden, boilerplate |-> a, inMain |-> b,
             open |-> s.open, main |-> s.main, full |-> s.full, title |-> s.title,
             headings |-> s.headings, links |-> s.links]
    BY <1>1 DEF Whole
  <2> QED BY <2>1 DEF Whole, SameTexts, SameEnds
<1> DEFINE p == CASE t.kind = "open" /\ (t.name \in BoilerplateTags \/ t.role \in BoilerplateRoles) -> s.boilerplate + 1
                  [] t.kind = "close" /\ t.name \in BoilerplateTags -> OneLess(s.boilerplate)
                  [] OTHER -> s.boilerplate
           q == CASE t.kind = "open" /\ IsMain(t) -> TRUE
                  [] t.kind = "close" /\ t.name = "main" -> FALSE
                  [] OTHER -> s.inMain
<1>2. Enter(s, t) = [s EXCEPT !.boilerplate = p, !.inMain = q]
  BY DEF Enter, Whole
<1>3. p = x
  <2>1. t.kind = "open" /\ t.role \in BoilerplateRoles => t.name \in BoilerplateTags
    BY DEF LandsSo
  <2>2. CASE t.kind = "open"
    BY <2>1, <2>2
  <2>3. CASE t.kind = "close"
    BY <2>3
  <2> QED BY <2>2, <2>3
<1>4. q = y
  <2>1. t.kind = "open" => (IsMain(t) <=> t.name = "main")
    BY DEF LandsSo, IsMain
  <2>2. CASE t.kind = "open"
    BY <2>1, <2>2
  <2>3. CASE t.kind = "close"
    BY <2>3
  <2> QED BY <2>2, <2>3
<1> HIDE DEF x, y, p, q
<1>5. Changed(Enter(s, t), x, y)
  <2> HIDE DEF Changed
  <2>1. Enter(s, t) = [s EXCEPT !.boilerplate = x, !.inMain = y]
    BY <1>2, <1>3, <1>4
  <2> QED BY <1>1, <2>1, Zenon
<1>6. /\ t.name = "main" /\ t.kind = "open" => y = TRUE
      /\ t.name = "main" /\ t.kind = "close" => y = FALSE
      /\ t.name # "main" => y = s.inMain
  BY DEF y
<1> QED BY <1>5, <1>6 DEF x, Crosses

\* So an element of a tag that is dropped is read too, as it is of no other kind.
LEMMA ReadIs ==
  ASSUME NEW s, Whole(s), NEW t, t.kind \in {"open", "close"}, LandsSo(t),
         t.kind = "open" => t.hidden \in BOOLEAN /\ t.void \in BOOLEAN
  PROVE  Read(s, t) = Collect(Entered(s, t), t)
<1>1. CASE t.name \in DropTags
  <2>1. t.name \notin BoilerplateTags /\ t.name # "main" /\ Buffer(t) = ""
    BY <1>1 DEF DropTags, BoilerplateTags, Buffer, HeadingTags
  <2>2. Whole(Veil(s, t)) /\ Veil(s, t) = Hide(s, t)
    BY <1>1, VeilIs DEF Veil
  <2> DEFINE v == Veil(s, t)
  <2>3. Whole(v) /\ v = Hide(s, t)
    BY <2>2
  <2> HIDE DEF v
  <2>4. Crosses(Enter(v, t), v, t)
    BY <2>3, EnterIs
  <2> DEFINE r == Enter(v, t)
  <2>5. r = v
    <3>1. /\ Whole(r) /\ SameTexts(r, v) /\ SameEnds(r, v) /\ r.drop = v.drop /\ r.hidden = v.hidden
          /\ r.boilerplate = v.boilerplate /\ r.inMain = v.inMain
      <4> HIDE DEF r
      <4> QED BY <2>1, <2>4, Zenon DEF Crosses, r
    <3> HIDE DEF r
    <3>2. r = [drop |-> v.drop, hidden |-> v.hidden, boilerplate |-> v.boilerplate, inMain |-> v.inMain,
               open |-> v.open, main |-> v.main, full |-> v.full, title |-> v.title,
               headings |-> v.headings, links |-> v.links]
      BY <3>1 DEF Whole, SameTexts, SameEnds
    <3>3. v = [drop |-> v.drop, hidden |-> v.hidden, boilerplate |-> v.boilerplate, inMain |-> v.inMain,
               open |-> v.open, main |-> v.main, full |-> v.full, title |-> v.title,
               headings |-> v.headings, links |-> v.links]
      BY <2>3 DEF Whole
    <3> QED BY <3>2, <3>3
  <2>6. Collect(Enter(v, t), t) = v
    BY <2>1, <2>5, Zenon DEF Collect
  <2> QED BY <1>1, <2>3, <2>6 DEF Read, Entered, v
<1>2. CASE t.name \notin DropTags
  BY <1>2 DEF Read, Entered, Veil
<1> QED BY <1>1, <1>2

\* What is entered is so after a tag when it was before it.
Entry(page, L, s) == Veiled(page, L, s.drop, s.hidden) /\ Landed(page, L, s.boilerplate, s.inMain)

LEMMA EnterOpens ==
  ASSUME NEW page, NEW n \in Nat, NEW L \in SUBSET (1 .. n), NEW s, Whole(s),
         page[n + 1].kind = "open", page[n + 1].hidden \in BOOLEAN, page[n + 1].void = FALSE,
         LandsSo(page[n + 1]), Entry(page, L, s)
  PROVE  Entry(page, L \cup {n + 1}, Entered(s, page[n + 1]))
<1> DEFINE i == n + 1
           t == page[i]
           v == Veil(s, t)
           e == Enter(v, t)
           Q == {k \in L \cup {i} : page[k].name \in BoilerplateTags}
<1>1. IsFiniteSet(L) /\ i \notin L
  <2>1. n + 1 \notin 1 .. n
    OBVIOUS
  <2>2. \A m \in Nat : IsFiniteSet(1 .. m)
    BY FS_Interval
  <2> QED BY <2>1, <2>2, FS_Subset
<1>2. Veiled(page, L \cup {i}, v.drop, v.hidden)
  BY VeilOpens DEF Entry
<1>3. t.kind = "open" /\ t.hidden \in BOOLEAN /\ t.void \in BOOLEAN /\ LandsSo(t) /\ t.kind \in {"open", "close"}
  OBVIOUS
<1>4. Whole(v) /\ v.boilerplate = s.boilerplate /\ v.inMain = s.inMain
  <2> HIDE DEF t
  <2> QED BY <1>3, VeilIs
<1>5. /\ e.drop = v.drop /\ e.hidden = v.hidden
      /\ e.boilerplate = IF t.name \notin BoilerplateTags THEN v.boilerplate ELSE v.boilerplate + 1
      /\ t.name = "main" => e.inMain = TRUE
      /\ t.name # "main" => e.inMain = v.inMain
  <2> HIDE DEF v, t
  <2>1. Crosses(e, v, t)
    BY <1>3, <1>4, EnterIs
  <2> HIDE DEF e
  <2> QED BY <1>3, <2>1 DEF Crosses
<1>6. Landed(page, L, s.boilerplate, s.inMain)
  BY DEF Entry
<1>7. e.boilerplate = Cardinality({k \in L \cup {i} : page[k].name \in BoilerplateTags})
  <2>1. {k \in L : page[k].name \in BoilerplateTags} = L \cap Q /\ Q = (L \cup {i}) \cap Q
        /\ (i \in Q <=> t.name \in BoilerplateTags)
    OBVIOUS
  <2>2. Cardinality((L \cup {i}) \cap Q) = IF i \in Q THEN Cardinality(L \cap Q) + 1 ELSE Cardinality(L \cap Q)
    <3> HIDE DEF Q, i
    <3> QED BY <1>1, SomeOfMore
  <2>3. s.boilerplate = Cardinality({k \in L : page[k].name \in BoilerplateTags})
    BY <1>6 DEF Landed
  <2>4. Q = {k \in L \cup {i} : page[k].name \in BoilerplateTags}
    OBVIOUS
  <2> HIDE DEF Q, e, t, v
  <2>5. s.boilerplate = Cardinality(L \cap Q)
    BY <2>1, <2>3
  <2>6. e.boilerplate = Cardinality(Q)
    BY <1>4, <1>5, <2>1, <2>2, <2>5
  <2> QED BY <2>4, <2>6
<1>8. e.inMain = (\E k \in L \cup {i} : page[k].name = "main")
  <2>1. s.inMain = (\E k \in L : page[k].name = "main")
    BY <1>6 DEF Landed
  <2> HIDE DEF e, v
  <2> QED BY <1>4, <1>5, <2>1
<1> HIDE DEF v, e, t
<1>9. Entry(page, L \cup {i}, e)
  BY <1>2, <1>5, <1>7, <1>8 DEF Entry, Landed
<1> QED BY <1>9 DEF e, v, t, Entered

LEMMA EnterCloses ==
  ASSUME NEW page, NEW n \in Nat, NEW L \in SUBSET (1 .. n), NEW s, Whole(s), NEW t, t.kind = "close",
         NEW top \in L, \A k \in L : k <= top, page[top].name = t.name,
         page[top].kind = "open", page[top].hidden \in BOOLEAN,
         Around(page)[top] = {j \in L : j < top}, PlainAt(page, top), Entry(page, L, s)
  PROVE  Entry(page, L \ {top}, Entered(s, t))
<1> DEFINE v == Veil(s, t)
           e == Enter(v, t)
           Q == {k \in L : page[k].name \in BoilerplateTags}
<1>1. IsFiniteSet(L) /\ \A k \in L : k # top => k < top
  <2>1. \A k \in 1 .. n : k \in Nat
    OBVIOUS
  <2>2. \A m \in Nat : IsFiniteSet(1 .. m)
    BY FS_Interval
  <2>3. \A k, m \in Nat : k <= m /\ k # m => k < m
    OBVIOUS
  <2> QED BY <2>1, <2>2, <2>3, FS_Subset
<1>2. Veiled(page, L \ {top}, v.drop, v.hidden)
  BY VeilCloses DEF Entry
<1>3. t.kind = "close" /\ LandsSo(t) /\ t.kind \in {"open", "close"} /\ t.kind # "open"
  BY DEF LandsSo
<1>4. Whole(v) /\ v.boilerplate = s.boilerplate /\ v.inMain = s.inMain
  BY <1>3, VeilIs
<1>5. /\ e.drop = v.drop /\ e.hidden = v.hidden
      /\ e.boilerplate = IF t.name \notin BoilerplateTags THEN v.boilerplate ELSE OneLess(v.boilerplate)
      /\ t.name = "main" => e.inMain = FALSE
      /\ t.name # "main" => e.inMain = v.inMain
  <2> HIDE DEF v
  <2>1. Crosses(e, v, t)
    BY <1>3, <1>4, EnterIs
  <2> HIDE DEF e
  <2> QED BY <1>3, <2>1 DEF Crosses
<1>6. Landed(page, L, s.boilerplate, s.inMain)
  BY DEF Entry
<1>7. e.boilerplate = Cardinality({k \in L \ {top} : page[k].name \in BoilerplateTags})
  <2>1. {k \in L : page[k].name \in BoilerplateTags} = L \cap Q
        /\ {k \in L \ {top} : page[k].name \in BoilerplateTags} = (L \ {top}) \cap Q
        /\ (top \in Q <=> t.name \in BoilerplateTags)
    OBVIOUS
  <2> DEFINE c == Cardinality(L \cap Q)
             d == Cardinality((L \ {top}) \cap Q)
  <2>2. d = IF top \in Q THEN OneLess(c) ELSE c
    <3> HIDE DEF Q
    <3> QED BY <1>1, SomeOfLess
  <2>3. s.boilerplate = Cardinality({k \in L : page[k].name \in BoilerplateTags})
    BY <1>6 DEF Landed
  <2>4. s.boilerplate = c
    BY <2>1, <2>3
  <2>5. e.boilerplate = d
    <3> HIDE DEF Q, e, v, c, d
    <3> QED BY <1>4, <1>5, <2>1, <2>2, <2>4
  <2> HIDE DEF e, v
  <2> QED BY <2>1, <2>5
<1>8. e.inMain = (\E k \in L \ {top} : page[k].name = "main")
  <2>1. s.inMain = (\E k \in L : page[k].name = "main")
    BY <1>6 DEF Landed
  <2>2. CASE t.name = "main"
    <3>1. \A k \in L \ {top} : page[k].name # "main"
      BY <1>1, <2>2, Zenon DEF PlainAt
    <3> HIDE DEF e, v
    <3> QED BY <1>5, <2>2, <3>1
  <2>3. CASE t.name # "main"
    <3> HIDE DEF e, v
    <3> QED BY <1>4, <1>5, <2>1, <2>3
  <2> QED BY <2>2, <2>3
<1> HIDE DEF v, e
<1>9. Entry(page, L \ {top}, e)
  BY <1>2, <1>5, <1>7, <1>8 DEF Entry, Landed
<1> QED BY <1>9 DEF e, v, Entered

-----------------------------------------------------------------------------
(* Html: the texts a reader collects *)

\* A list of the members up to a number grows with the next one.
LEMMA ListsNext ==
  ASSUME NEW S, NEW N, S \in SUBSET (1 .. N), NEW n \in Nat, NEW q \in Seq(Nat), Lists(q, Upto(S, n))
  PROVE  /\ n + 1 \in S => Append(q, n + 1) \in Seq(Nat) /\ Lists(Append(q, n + 1), Upto(S, n + 1))
         /\ n + 1 \notin S => Lists(q, Upto(S, n + 1))
<1>1. \A i \in Upto(S, n) : i < n + 1
  <2>1. \A i \in 1 .. N : i <= n => i < n + 1
    OBVIOUS
  <2> QED BY <2>1 DEF Upto
<1>2. n + 1 \in Nat
  OBVIOUS
<1>3. Append(q, n + 1) \in Seq(Nat) /\ Lists(Append(q, n + 1), Upto(S, n) \cup {n + 1})
  BY <1>1, <1>2, ListsMore
<1>4. Upto(S, n + 1) = IF n + 1 \in S THEN Upto(S, n) \cup {n + 1} ELSE Upto(S, n)
  BY UptoNext
<1> QED BY <1>3, <1>4

\* What has been read of the text, and of the main content.
Told(page, n, s) ==
  /\ s.full \in Seq(Nat) /\ Lists(s.full, Upto(Seen(page), n))
  /\ s.main \in Seq(Nat) /\ Lists(s.main, Upto(Content(page), n))

\* What the buffers hold of the elements that are open.
Collected(page, n, k, o) ==
  /\ o = [texts |-> o.texts, offset |-> o.offset]
  /\ o.texts \in Seq(Nat) /\ Lists(o.texts, Upto(Inside(page, k), n))
  /\ o.offset = Cardinality(Upto(Content(page), k))
BufferOpened(page, n, L, open) ==
  /\ DOMAIN open = {Buffer(page[k]) : k \in L} \ {""}
  /\ \A k \in L : Buffer(page[k]) # "" => Collected(page, n, k, open[Buffer(page[k])])

\* A token that is no text in view adds to none of them.
LEMMA NothingTold ==
  ASSUME NEW page \in Seq(PageToken), NEW n \in Nat, n + 1 \notin Seen(page)
  PROVE  /\ Upto(Seen(page), n + 1) = Upto(Seen(page), n)
         /\ Upto(Content(page), n + 1) = Upto(Content(page), n)
         /\ \A e : Upto(Inside(page, e), n + 1) = Upto(Inside(page, e), n)
<1>1. /\ Seen(page) \in SUBSET (1 .. Len(page)) /\ Content(page) \in SUBSET Seen(page)
      /\ \A e : Inside(page, e) \in SUBSET Seen(page)
  BY PlacesOnly
<1>2. ASSUME NEW S, S \in SUBSET Seen(page) PROVE Upto(S, n + 1) = Upto(S, n)
  <2>1. S \in SUBSET (1 .. Len(page)) /\ n + 1 \notin S
    BY <1>1, <1>2
  <2> QED BY <2>1, UptoNext
<1> QED BY <1>1, <1>2

LEMMA DepthsSo ==
  ASSUME NEW page, NEW L, IsFiniteSet(L), NEW s, Entry(page, L, s)
  PROVE  /\ s.drop \in Nat /\ (s.drop = 0 <=> \A k \in L : ~ Hides(page[k]))
         /\ s.boilerplate = 0 <=> Outside(page, L)
         /\ s.inMain <=> \E k \in L : page[k].name = "main"
<1>1. ASSUME NEW S \in SUBSET L PROVE Cardinality(S) \in Nat /\ (Cardinality(S) = 0 <=> S = {})
  BY <1>1, FS_Subset, FS_CardinalityType, FS_EmptySet
<1>2. s.drop \in Nat /\ (s.drop = 0 <=> \A k \in L : ~ Hides(page[k]))
  <2> DEFINE S == {k \in L : Hides(page[k])}
  <2>1. s.drop = Cardinality(S)
    BY DEF Entry, Veiled
  <2>2. S \in SUBSET L /\ (S = {} <=> \A k \in L : ~ Hides(page[k]))
    OBVIOUS
  <2> HIDE DEF S
  <2> QED BY <1>1, <2>1, <2>2
<1>3. s.boilerplate = 0 <=> Outside(page, L)
  <2> DEFINE S == {k \in L : page[k].name \in BoilerplateTags}
  <2>1. s.boilerplate = Cardinality(S)
    BY DEF Entry, Landed
  <2>2. S \in SUBSET L /\ (S = {} <=> Outside(page, L))
    BY DEF Outside
  <2> HIDE DEF S
  <2> QED BY <1>1, <2>1, <2>2
<1>4. s.inMain <=> \E k \in L : page[k].name = "main"
  BY DEF Entry, Landed
<1> QED BY <1>2, <1>3, <1>4

LEMMA TextEmitted ==
  ASSUME NEW page \in Seq(PageToken), NEW n \in Nat, n + 1 <= Len(page), LiveSo(page, n), page[n + 1] = Text,
         Around(page)[n + 1] = Live(page, n), NEW s, Whole(s), Entry(page, Live(page, n), s),
         Told(page, n, s), BufferOpened(page, n, Live(page, n), s.open), NEW saw, saw = InMain(page),
         NEW r, r = EmitText(s, n + 1, saw)
  PROVE  /\ Whole(r) /\ Entry(page, Live(page, n), r) /\ SameEnds(r, s)
         /\ Told(page, n + 1, r) /\ BufferOpened(page, n + 1, Live(page, n), r.open)
<1> DEFINE i == n + 1
           L == Live(page, n)
<1>1. L \in SUBSET (1 .. n) /\ IsFiniteSet(L)
  <2>1. \A m \in Nat : IsFiniteSet(1 .. m)
    BY FS_Interval
  <2> QED BY <2>1, FS_Subset DEF LiveSo
<1>2. /\ i \in Seen(page) <=> \A k \in L : ~ Hides(page[k])
      /\ i \in Content(page) <=> /\ i \in Seen(page) /\ Outside(page, L)
                                 /\ (\E k \in L : page[k].name = "main") \/ ~ InMain(page)
      /\ \A e : i \in Inside(page, e) <=> i \in Seen(page) /\ e \in L
  BY TokensAdd DEF Gains
<1>3. /\ s.drop \in Nat /\ (s.drop = 0 <=> \A k \in L : ~ Hides(page[k]))
      /\ s.boilerplate = 0 <=> Outside(page, L)
      /\ s.inMain <=> \E k \in L : page[k].name = "main"
  BY <1>1, DepthsSo
<1>4. s.drop \in Nat /\ (s.drop = 0 <=> i \in Seen(page))
  BY <1>2, <1>3
<1>5. /\ s.boilerplate = 0 <=> Outside(page, L)
      /\ s.inMain <=> \E k \in L : page[k].name = "main"
  BY <1>3
<1>6. /\ Seen(page) \in SUBSET (1 .. Len(page)) /\ Content(page) \in SUBSET (1 .. Len(page))
      /\ \A e : Inside(page, e) \in SUBSET (1 .. Len(page))
  BY PlacesOnly
<1>7. CASE s.drop # 0
  <2>1. r = s
    BY <1>4, <1>7 DEF EmitText
  <2>2. i \notin Seen(page)
    BY <1>4, <1>7
  <2>3. /\ Upto(Seen(page), n + 1) = Upto(Seen(page), n)
        /\ Upto(Content(page), n + 1) = Upto(Content(page), n)
        /\ \A e : Upto(Inside(page, e), n + 1) = Upto(Inside(page, e), n)
    BY <2>2, NothingTold
  <2>4. Told(page, n + 1, r)
    BY <2>1, <2>3 DEF Told
  <2>5. BufferOpened(page, n + 1, L, r.open)
    BY <2>1, <2>3, Zenon DEF BufferOpened, Collected
  <2> QED BY <2>1, <2>4, <2>5 DEF SameEnds
<1>8. CASE s.drop = 0
  <2> DEFINE open == Gather(s.open, i)
             main == IF s.boilerplate = 0 /\ (s.inMain \/ ~saw) THEN Append(s.main, i) ELSE s.main
  <2>0. i \in Seen(page)
    BY <1>4, <1>8
  <2>1. r = [s EXCEPT !.open = open, !.full = Append(s.full, i), !.main = main]
    <3>1. ~ (s.drop > 0)
      BY <1>8
    <3> QED BY <3>1 DEF EmitText, Whole
  <2>2. r = [drop |-> s.drop, hidden |-> s.hidden, boilerplate |-> s.boilerplate, inMain |-> s.inMain,
             open |-> open, main |-> main, full |-> Append(s.full, i), title |-> s.title,
             headings |-> s.headings, links |-> s.links]
    <3> HIDE DEF open, main
    <3> QED BY <2>1 DEF Whole
  <2>3. /\ Whole(r) /\ SameEnds(r, s) /\ r.open = open /\ r.main = main /\ r.full = Append(s.full, i)
        /\ r.drop = s.drop /\ r.hidden = s.hidden /\ r.boilerplate = s.boilerplate /\ r.inMain = s.inMain
    <3> HIDE DEF open, main
    <3> QED BY <2>2 DEF Whole, SameEnds
  <2>4. Entry(page, L, r)
    BY <2>3 DEF Entry
  <2>5. Told(page, n + 1, r)
    <3>1. s.full \in Seq(Nat) /\ Lists(s.full, Upto(Seen(page), n))
      BY DEF Told
    <3>2. s.main \in Seq(Nat) /\ Lists(s.main, Upto(Content(page), n))
      BY DEF Told
    <3>3. Append(s.full, i) \in Seq(Nat) /\ Lists(Append(s.full, i), Upto(Seen(page), i))
      BY <1>6, <2>0, <3>1, ListsNext
    <3>4. /\ i \in Content(page) => Append(s.main, i) \in Seq(Nat) /\ Lists(Append(s.main, i), Upto(Content(page), i))
          /\ i \notin Content(page) => Lists(s.main, Upto(Content(page), i))
      BY <1>6, <3>2, ListsNext
    <3>5. i \in Content(page) <=> s.boilerplate = 0 /\ (s.inMain \/ ~saw)
      BY <1>2, <1>5, <2>0
    <3>6. main = IF i \in Content(page) THEN Append(s.main, i) ELSE s.main
      <4> HIDE DEF i
      <4> QED BY <3>5
    <3> HIDE DEF open, main, i
    <3>7. main \in Seq(Nat) /\ Lists(main, Upto(Content(page), i))
      BY <3>2, <3>4, <3>6
    <3> QED BY <2>3, <3>3, <3>7 DEF Told, i
  <2>6. BufferOpened(page, n + 1, L, open)
    <3>1. DOMAIN open = {Buffer(page[k]) : k \in L} \ {""}
      BY Zenon DEF BufferOpened, Gather
    <3>2. ASSUME NEW k \in L, Buffer(page[k]) # ""
          PROVE  Collected(page, n + 1, k, open[Buffer(page[k])])
      <4> DEFINE o == s.open[Buffer(page[k])]
      <4>1. Collected(page, n, k, o) /\ Buffer(page[k]) \in DOMAIN s.open
        BY <3>2, Zenon DEF BufferOpened
      <4>2. open[Buffer(page[k])] = [o EXCEPT !.texts = Append(o.texts, i)]
        BY <4>1 DEF Gather
      <4>3. i \in Inside(page, k)
        BY <1>2, <2>0
      <4> HIDE DEF o, open
      <4>4. o.texts \in Seq(Nat) /\ Lists(o.texts, Upto(Inside(page, k), n))
        BY <4>1 DEF Collected
      <4>5. Append(o.texts, i) \in Seq(Nat) /\ Lists(Append(o.texts, i), Upto(Inside(page, k), i))
        BY <1>6, <4>3, <4>4, ListsNext
      <4> DEFINE p == open[Buffer(page[k])]
                 texts == Append(o.texts, i)
      <4>6. p = [texts |-> texts, offset |-> o.offset]
        <5> HIDE DEF texts
        <5> USE DEF texts
        <5> QED BY <4>1, <4>2 DEF Collected
      <4>7. texts \in Seq(Nat) /\ Lists(texts, Upto(Inside(page, k), i)) /\ p = [texts |-> texts, offset |-> o.offset]
        BY <4>5, <4>6
      <4> HIDE DEF p, texts
      <4> QED BY <4>1, <4>7 DEF Collected, p
    <3> HIDE DEF open
    <3> QED BY <3>1, <3>2, Zenon DEF BufferOpened
  <2> HIDE DEF open, main
  <2> QED BY <2>3, <2>4, <2>5, <2>6
<1> QED BY <1>7, <1>8

-----------------------------------------------------------------------------
(* Html: the elements a reader has read *)

Buffers == {"title", "link", "heading"}

\* No other element is in the buffer of a tag.
Apart(page, L, t) == \A k \in L : Buffer(t) # "" => Buffer(page[k]) # Buffer(t)

\* A token opens an element, closes the last one, or does neither.
Still(page, n) ==
  Live(page, n + 1) = Live(page, n) /\ \A b \in Buffers : n + 1 \notin HeldBy(page, b)
Opens(page, n) ==
  /\ Live(page, n + 1) = Live(page, n) \cup {n + 1}
  /\ Apart(page, Live(page, n), page[n + 1])
  /\ \A b : n + 1 \in HeldBy(page, b) <=> Buffer(page[n + 1]) = b
Closes(page, n, top) ==
  /\ top \in Live(page, n) /\ \A k \in Live(page, n) : k <= top
  /\ Live(page, n + 1) = Live(page, n) \ {top} /\ \A b : n + 1 \notin HeldBy(page, b)

LEMMA TokensMove ==
  ASSUME NEW page \in Seq(PageToken), Plain(page), NEW n \in Nat, n + 1 <= Len(page), LiveSo(page, n),
         NEW saw, NEW s, NEW r, Move(page, n, saw, s, r)
  PROVE  Still(page, n) \/ Opens(page, n) \/ \E top : Closes(page, n, top)
<1> DEFINE i == n + 1
           t == page[i]
           L == Live(page, n)
           M == Live(page, i)
           A == Around(page)[i]
<1>1. i \in DOMAIN page /\ Text.kind = "text"
  BY DEF Text
<1>2. /\ Unread(page, i) \/ t.kind # "open" => \A b : i \notin HeldBy(page, b)
      /\ t.kind = "open" /\ A = L => \A b : i \in HeldBy(page, b) <=> Buffer(t) = b
  BY TokensAdd DEF Gains
<1>3. \A k \in L : page[k].kind = "open"
  BY DEF LiveSo
<1>4. ASSUME t.kind = "open", A = L
      PROVE  /\ t.void => Buffer(t) = ""
             /\ \A k \in L : Buffer(t) # "" => Buffer(page[k]) # Buffer(t)
  <2>1. PlainAt(page, i)
    BY <1>1, <1>3, <1>4, PlainElements
  <2> QED BY <1>4, <2>1, Zenon DEF PlainAt
<1>5. \/ Unread(page, i) /\ M = L
      \/ t = Text /\ M = L
      \/ t.kind = "open" /\ t.void /\ A = L /\ M = L
      \/ t.kind = "open" /\ ~ t.void /\ A = L /\ M = L \cup {i}
      \/ t.kind = "close" /\ \E top \in L : (\A k \in L : k <= top) /\ M = L \ {top}
  BY DEF Move
<1> HIDE DEF i, t, L, M, A
<1>6. CASE Unread(page, i) /\ M = L
  BY <1>2, <1>6 DEF Still, i, L, M
<1>7. CASE t = Text /\ M = L
  <2>1. t.kind # "open"
    BY <1>1, <1>7
  <2> QED BY <1>2, <1>7, <2>1 DEF Still, i, L, M
<1>8. CASE t.kind = "open" /\ t.void /\ A = L /\ M = L
  <2>1. \A b \in Buffers : i \notin HeldBy(page, b)
    BY <1>2, <1>4, <1>8, Zenon DEF Buffers
  <2> QED BY <1>8, <2>1 DEF Still, i, L, M
<1>9. CASE t.kind = "open" /\ ~ t.void /\ A = L /\ M = L \cup {i}
  BY <1>2, <1>4, <1>9, Zenon DEF Opens, Apart, i, t, L, M
<1>10. CASE t.kind = "close" /\ \E top \in L : (\A k \in L : k <= top) /\ M = L \ {top}
  <2>1. \A b : i \notin HeldBy(page, b)
    BY <1>2, <1>10
  <2>2. PICK top \in L : (\A k \in L : k <= top) /\ M = L \ {top}
    BY <1>10
  <2>3. Closes(page, n, top)
    BY <2>1, <2>2 DEF Closes, i, L, M
  <2> QED BY <2>3
<1> QED BY <1>5, <1>6, <1>7, <1>8, <1>9, <1>10

\* Of the elements a buffer is for, the one that is open is the last so far.
Single(page, n) ==
  \A k \in Live(page, n) : Buffer(page[k]) # "" => \A d \in HeldBy(page, Buffer(page[k])) : d <= n => d <= k

LEMMA SingleKept ==
  ASSUME NEW page \in Seq(PageToken), NEW n \in Nat, LiveSo(page, n), Single(page, n),
         Still(page, n) \/ Opens(page, n) \/ \E top : Closes(page, n, top)
  PROVE  Single(page, n + 1)
<1> DEFINE L == Live(page, n)
           M == Live(page, n + 1)
<1>1. \A b : \A d \in HeldBy(page, b) : d \in Int
  <2>1. \A d \in 1 .. Len(page) : d \in Int
    OBVIOUS
  <2> QED BY <2>1, PlacesOnly
<1>2. \A b : \A d \in HeldBy(page, b) : d <= n + 1 <=> d <= n \/ d = n + 1
  BY <1>1
<1>3. n + 1 <= n + 1
  OBVIOUS
<1>4. \A k \in M : \/ k \in L /\ (Buffer(page[k]) # "" => n + 1 \notin HeldBy(page, Buffer(page[k])))
                   \/ k = n + 1
  <2>1. CASE Still(page, n)
    <3>1. M = L /\ \A b \in Buffers : n + 1 \notin HeldBy(page, b)
      BY <2>1 DEF Still
    <3>2. \A t : Buffer(t) # "" => Buffer(t) \in Buffers
      BY DEF Buffer, Buffers
    <3> SUFFICES ASSUME NEW k \in M, Buffer(page[k]) # "" PROVE k \in L /\ n + 1 \notin HeldBy(page, Buffer(page[k]))
      BY <3>1, Zenon
    <3>3. Buffer(page[k]) \in Buffers
      BY <3>2, Zenon
    <3> QED BY <3>1, <3>3, Zenon
  <2>2. CASE Opens(page, n)
    <3>1. /\ M = L \cup {n + 1}
          /\ \A k \in L : Buffer(page[n + 1]) # "" => Buffer(page[k]) # Buffer(page[n + 1])
          /\ \A b : n + 1 \in HeldBy(page, b) <=> Buffer(page[n + 1]) = b
      BY <2>2, Zenon DEF Opens, Apart
    <3>2. ASSUME NEW k \in L, Buffer(page[k]) # "" PROVE n + 1 \notin HeldBy(page, Buffer(page[k]))
      <4> SUFFICES ASSUME n + 1 \in HeldBy(page, Buffer(page[k])) PROVE FALSE
        OBVIOUS
      <4>1. Buffer(page[n + 1]) = Buffer(page[k])
        BY <3>1, Zenon
      <4>2. Buffer(page[n + 1]) # ""
        BY <3>2, <4>1, Zenon
      <4> QED BY <3>1, <3>2, <4>1, <4>2, Zenon
    <3> HIDE DEF L, M
    <3> QED BY <3>1, <3>2, Zenon
  <2>3. CASE \E top : Closes(page, n, top)
    BY <2>3, Zenon DEF Closes
  <2> QED BY <2>1, <2>2, <2>3, Zenon
<1> SUFFICES ASSUME NEW k \in M, Buffer(page[k]) # "", NEW d \in HeldBy(page, Buffer(page[k])), d <= n + 1
             PROVE  d <= k
  BY Zenon DEF Single
<1>5. CASE k = n + 1
  BY <1>5, Zenon
<1>6. CASE k \in L /\ n + 1 \notin HeldBy(page, Buffer(page[k]))
  <2>1. d <= n
    BY <1>2, <1>6, Zenon
  <2> QED BY <1>6, <2>1, Zenon DEF Single
<1> QED BY <1>4, <1>5, <1>6, Zenon

\* The elements of a set that have been closed.
Done(page, n, S) == Upto(S, n) \ Live(page, n)

DoneSo(page, n, S, top) ==
  /\ top \in S => /\ Done(page, n + 1, S) = Done(page, n, S) \cup {top}
                  /\ Upto(S, top) = Done(page, n, S) \cup {top}
                  /\ \A d \in Done(page, n, S) : d < top
  /\ top \notin S => Done(page, n + 1, S) = Done(page, n, S)

LEMMA DoneMoves ==
  ASSUME NEW page \in Seq(PageToken), NEW n \in Nat, LiveSo(page, n), Single(page, n),
         NEW b \in Buffers, NEW S, S \in SUBSET HeldBy(page, b)
  PROVE  /\ Still(page, n) \/ Opens(page, n) => Done(page, n + 1, S) = Done(page, n, S)
         /\ \A top : Closes(page, n, top) => DoneSo(page, n, S, top)
<1> DEFINE L == Live(page, n)
           M == Live(page, n + 1)
           U == Upto(S, n)
           W == Upto(S, n + 1)
<1>0. HeldBy(page, b) \in SUBSET (1 .. Len(page))
  BY PlacesOnly
<1>1. S \in SUBSET (1 .. Len(page)) /\ W = IF n + 1 \in S THEN U \cup {n + 1} ELSE U
  <2>1. S \in SUBSET (1 .. Len(page))
    BY <1>0
  <2> QED BY <2>1, UptoNext
<1>2. \A d \in S : d \in Int
  <2>1. \A d \in 1 .. Len(page) : d \in Int
    OBVIOUS
  <2> QED BY <1>1, <2>1
<1>3. n + 1 \notin U
  <2>1. ~ (n + 1 <= n)
    OBVIOUS
  <2> QED BY <2>1 DEF Upto
<1>4. Done(page, n, S) = U \ L /\ Done(page, n + 1, S) = W \ M
  BY DEF Done
<1>5. ASSUME Still(page, n) PROVE W \ M = U \ L
  <2>1. M = L /\ n + 1 \notin S
    BY <1>5 DEF Still
  <2> HIDE DEF L, M, U, W
  <2> QED BY <1>1, <2>1
<1>6. ASSUME Opens(page, n) PROVE W \ M = U \ L
  <2>1. M = L \cup {n + 1}
    BY <1>6 DEF Opens
  <2> HIDE DEF L, M, U, W
  <2> QED BY <1>1, <1>3, <2>1
<1>7. ASSUME NEW top, Closes(page, n, top)
      PROVE  /\ top \in S => /\ W \ M = (U \ L) \cup {top} /\ Upto(S, top) = (U \ L) \cup {top}
                             /\ \A d \in U \ L : d < top
             /\ top \notin S => W \ M = U \ L
  <2>1. top \in L /\ (\A k \in L : k <= top) /\ M = L \ {top} /\ n + 1 \notin S
    BY <1>7 DEF Closes
  <2>2. W = U
    BY <1>1, <2>1
  <2>3. CASE top \notin S
    <3>1. top \notin U
      BY <2>3 DEF Upto
    <3> HIDE DEF L, M, U, W
    <3> QED BY <2>1, <2>2, <2>3, <3>1
  <2>4. CASE top \in S
    <3>0. top \in Int /\ top <= n
      <4>1. \A k \in 1 .. n : k <= n
        OBVIOUS
      <4> QED BY <1>2, <2>1, <2>4, <4>1 DEF LiveSo
    <3>1. \A d \in S : Buffer(page[d]) = b /\ Buffer(page[d]) # ""
      BY Zenon DEF HeldBy, Buffers
    <3>2. \A d \in S : d <= n => d <= top
      BY <2>1, <2>4, <3>1, Zenon DEF Single
    <3>3. \A d \in S : d \in L => top <= d
      BY <2>4, <3>0, <3>1, Zenon DEF Single
    <3>4. \A d \in S : d <= top => d <= n
      BY <1>2, <3>0
    <3>5. Upto(S, top) = U
      BY <3>2, <3>4 DEF Upto
    <3>6. top \in U
      BY <2>4, <3>0 DEF Upto
    <3>7. \A d \in U : d \in S /\ d \in Int
      BY <1>2 DEF Upto
    <3>8. \A d \in U : d \in L => d = top
      BY <2>1, <3>0, <3>3, <3>7
    <3>9. \A d \in U \ L : d < top
      <4>1. \A d \in U : d <= top
        BY <3>2 DEF Upto
      <4> QED BY <2>1, <3>0, <3>7, <4>1
    <3> HIDE DEF L, M, U, W
    <3>10. W \ M = U /\ U = (U \ L) \cup {top}
      BY <2>1, <2>2, <3>6, <3>8
    <3> QED BY <2>4, <3>5, <3>9, <3>10
  <2> QED BY <2>3, <2>4
<1> HIDE DEF L, M, U, W
<1>8. \A top : Closes(page, n, top) => DoneSo(page, n, S, top)
  BY <1>4, <1>7 DEF DoneSo
<1> QED BY <1>4, <1>5, <1>6, <1>8

\* The depths a reader keeps are the same.
SameDepth(r, s) ==
  r.drop = s.drop /\ r.hidden = s.hidden /\ r.boilerplate = s.boilerplate /\ r.inMain = s.inMain

\* An element that opens starts its buffer afresh, and no other.
LEMMA ListsNone == <<>> \in Seq(Nat) /\ Lists(<<>>, {})
<1>1. <<>> \in Seq(Nat) /\ DOMAIN <<>> = {}
  OBVIOUS
<1>2. Range(<<>>) = {}
  BY <1>1 DEF Range
<1> QED BY <1>1, <1>2 DEF Lists

LEMMA CollectOpens ==
  ASSUME NEW page \in Seq(PageToken), Nested(page, Around(page), Stacks(page)), NEW n \in Nat, n + 1 <= Len(page),
         NEW L \in SUBSET (1 .. n), NEW t, t = page[n + 1], t.kind = "open",
         Apart(page, L, t), NEW s, Whole(s), Told(page, n + 1, s), BufferOpened(page, n + 1, L, s.open), NEW r, r = Collect(s, t)
  PROVE  /\ Whole(r) /\ SameDepth(r, s) /\ SameEnds(r, s)
         /\ Told(page, n + 1, r) /\ BufferOpened(page, n + 1, L \cup {n + 1}, r.open)
<1> DEFINE i == n + 1
           b == Buffer(t)
           open == Renew(s.open, b, Len(s.main))
           fresh == [texts |-> <<>>, offset |-> Len(s.main)]
           buffers == {Buffer(page[k]) : k \in L}
<1>0. i \in Nat /\ b = Buffer(page[i])
  <2>1. i \in Nat
    OBVIOUS
  <2>2. b = Buffer(page[i])
    BY Zenon
  <2> QED BY <2>1, <2>2
<1>1. {Buffer(page[k]) : k \in L \cup {i}} = buffers \cup {b}
  OBVIOUS
<1>2. DOMAIN s.open = buffers \ {""}
  BY Zenon DEF BufferOpened
<1>3. \A k \in L : Buffer(page[k]) # "" => Collected(page, i, k, s.open[Buffer(page[k])]) /\ Buffer(page[k]) \in DOMAIN s.open
  <2>1. \A k \in L : Buffer(page[k]) # "" => Collected(page, i, k, s.open[Buffer(page[k])])
    BY Zenon DEF BufferOpened
  <2> QED BY <1>2, <2>1, Zenon
<1>4. CASE b = ""
  <2>1. r = s
    BY <1>4, Zenon DEF Collect
  <2>2. (buffers \cup {b}) \ {""} = buffers \ {""}
    BY <1>4, Zenon
  <2>3. BufferOpened(page, i, L \cup {i}, s.open)
    <3> HIDE DEF i, b, buffers
    <3> QED BY <1>0, <1>1, <1>2, <1>3, <1>4, <2>2, Zenon DEF BufferOpened
  <2> QED BY <2>1, <2>3 DEF SameDepth, SameEnds
<1>5. CASE b # ""
  <2>1. r = [s EXCEPT !.open = open]
    BY <1>5, Zenon DEF Collect, Whole
  <2>2. r = [drop |-> s.drop, hidden |-> s.hidden, boilerplate |-> s.boilerplate, inMain |-> s.inMain,
             open |-> open, main |-> s.main, full |-> s.full, title |-> s.title,
             headings |-> s.headings, links |-> s.links]
    <3> HIDE DEF open
    <3> QED BY <2>1 DEF Whole
  <2>3. /\ Whole(r) /\ SameDepth(r, s) /\ SameEnds(r, s) /\ r.open = open
        /\ r.main = s.main /\ r.full = s.full
    <3> HIDE DEF open
    <3>1. SameDepth(r, s)
      BY <2>2 DEF SameDepth
    <3>2. SameEnds(r, s)
      BY <2>2 DEF SameEnds
    <3>3. Whole(r)
      BY <2>2 DEF Whole
    <3>4. r.open = open /\ r.main = s.main /\ r.full = s.full
      BY <2>2
    <3> QED BY <3>1, <3>2, <3>3, <3>4
  <2>4. Told(page, i, r)
    <3> HIDE DEF open
    <3> QED BY <2>3 DEF Told
  <2>5. /\ DOMAIN open = DOMAIN s.open \cup {b} /\ open[b] = fresh
        /\ \A c \in DOMAIN s.open : c # b => open[c] = s.open[c]
    BY DEF Renew
  <2>6. DOMAIN open = (buffers \cup {b}) \ {""}
    <3> HIDE DEF open, b, buffers
    <3> QED BY <1>2, <1>5, <2>5, Zenon
  <2>7. Collected(page, i, i, fresh)
    <3>1. s.main \in Seq(Nat) /\ Lists(s.main, Upto(Content(page), i))
      BY DEF Told
    <3>2. Len(s.main) = Cardinality(Upto(Content(page), i))
      BY <3>1, ListsAll
    <3>3. Upto(Inside(page, i), i) = {}
      <4>1. \A x \in Inside(page, i) : x \in Nat /\ i < x
        BY <1>0, InsideIs
      <4> HIDE DEF i
      <4>2. \A x \in Nat : i < x => ~ (x <= i)
        BY <1>0
      <4> QED BY <4>1, <4>2 DEF Upto
    <3>4. <<>> \in Seq(Nat) /\ Lists(<<>>, {})
      BY ListsNone
    <3>5. fresh.texts = <<>> /\ fresh.offset = Len(s.main) /\ fresh = [texts |-> fresh.texts, offset |-> fresh.offset]
      OBVIOUS
    <3> HIDE DEF fresh, i
    <3> QED BY <3>2, <3>3, <3>4, <3>5 DEF Collected
  <2>8. ASSUME NEW k \in L \cup {i}, Buffer(page[k]) # "" PROVE Collected(page, i, k, open[Buffer(page[k])])
    <3>1. CASE k \in L
      <4>1. Buffer(page[k]) # b /\ Collected(page, i, k, s.open[Buffer(page[k])]) /\ Buffer(page[k]) \in DOMAIN s.open
        BY <1>3, <1>5, <2>8, <3>1, Zenon DEF Apart
      <4> HIDE DEF open, b, fresh, i
      <4>2. open[Buffer(page[k])] = s.open[Buffer(page[k])]
        BY <2>5, <4>1
      <4> QED BY <4>1, <4>2
    <3>2. CASE k = i
      <4> HIDE DEF open, fresh, i
      <4> QED BY <1>0, <2>5, <2>7, <3>2
    <3> QED BY <2>8, <3>1, <3>2, Zenon
  <2>9. BufferOpened(page, i, L \cup {i}, open)
    <3> HIDE DEF open, b, buffers, i
    <3> QED BY <1>1, <2>6, <2>8, Zenon DEF BufferOpened
  <2> HIDE DEF open
  <2> QED BY <2>3, <2>4, <2>9
<1> QED BY <1>4, <1>5, Zenon

\* What the end of an element adds, of the kind of its buffer.
EndsAs(r, s, b, o) ==
  /\ r.title = IF b = "title" THEN o.texts ELSE s.title
  /\ r.links = IF b = "link" THEN Append(s.links, o.texts) ELSE s.links
  /\ r.headings = IF b = "heading" /\ o.texts # <<>> /\ s.drop = 0 /\ s.boilerplate = 0
                    THEN Append(s.headings, o) ELSE s.headings

BufferClosed(page, n, L, top, s, r) ==
  LET b == Buffer(page[top])
  IN  /\ Whole(r) /\ SameDepth(r, s) /\ Told(page, n, r) /\ BufferOpened(page, n, L \ {top}, r.open)
      /\ EndsAs(r, s, b, s.open[b])
      /\ b \in Buffers => Collected(page, n, top, s.open[b])

LEMMA CollectCloses ==
  ASSUME NEW page, NEW n, NEW L, NEW top \in L, NEW t, t.kind = "close", page[top].name = t.name,
         Apart(page, L \ {top}, page[top]), NEW s, Whole(s), Told(page, n, s), BufferOpened(page, n, L, s.open)
  PROVE  BufferClosed(page, n, L, top, s, Collect(s, t))
<1> SUFFICES ASSUME NEW r, r = Collect(s, t) PROVE BufferClosed(page, n, L, top, s, r)
  OBVIOUS
<1> DEFINE b == Buffer(page[top])
           o == s.open[b]
           open == Restrict(s.open, DOMAIN s.open \ {b})
           buffers == {Buffer(page[k]) : k \in L}
           others == {Buffer(page[k]) : k \in L \ {top}}
<1>0. Buffer(t) = b /\ b \in {"", "title", "link", "heading"}
  BY DEF Buffer
<1>1. buffers = others \cup {b} /\ (b # "" => b \notin others)
  <2>1. buffers = others \cup {b}
    OBVIOUS
  <2>2. b # "" => \A k \in L \ {top} : Buffer(page[k]) # b
    BY Zenon DEF Apart
  <2> HIDE DEF b
  <2> QED BY <2>1, <2>2, Zenon
<1>2. DOMAIN s.open = buffers \ {""}
  BY Zenon DEF BufferOpened
<1>3. \A k \in L : Buffer(page[k]) # "" => Collected(page, n, k, s.open[Buffer(page[k])]) /\ Buffer(page[k]) \in DOMAIN s.open
  <2>1. \A k \in L : Buffer(page[k]) # "" => Collected(page, n, k, s.open[Buffer(page[k])])
    BY Zenon DEF BufferOpened
  <2> QED BY <1>2, <2>1, Zenon
<1>4. CASE b = ""
  <2>1. r = s
    BY <1>0, <1>4, Zenon DEF Collect
  <2>2. others \ {""} = buffers \ {""}
    <3> HIDE DEF others, buffers, b
    <3> QED BY <1>1, <1>4, Zenon
  <2>3. BufferOpened(page, n, L \ {top}, s.open)
    <3> HIDE DEF b, buffers
    <3> QED BY <1>2, <1>3, <2>2, Zenon DEF BufferOpened
  <2>4. EndsAs(s, s, b, o)
    <3> HIDE DEF b, o
    <3> QED BY <1>4, Zenon DEF EndsAs
  <2>5. b \notin Buffers
    BY <1>4, Zenon DEF Buffers
  <2> QED BY <2>1, <2>3, <2>4, <2>5 DEF SameDepth, BufferClosed
<1>5. CASE b # ""
  <2>1. b \in DOMAIN s.open /\ Collected(page, n, top, o)
    BY <1>3, <1>5, Zenon
  <2> DEFINE shown == o.texts # <<>> /\ s.drop = 0 /\ s.boilerplate = 0
             title == IF b = "title" THEN o.texts ELSE s.title
             links == IF b = "link" THEN Append(s.links, o.texts) ELSE s.links
             headings == IF b = "heading" /\ shown THEN Append(s.headings, o) ELSE s.headings
  <2>2. r = Close(s, b)
    <3> HIDE DEF b
    <3> QED BY <1>0, <1>5, <2>1, Zenon DEF Collect
  <2>3. o = [texts |-> o.texts, offset |-> o.offset]
    <3> HIDE DEF o
    <3> QED BY <2>1 DEF Collected
  <2>4. r = [drop |-> s.drop, hidden |-> s.hidden, boilerplate |-> s.boilerplate, inMain |-> s.inMain,
             open |-> open, main |-> s.main, full |-> s.full, title |-> title,
             headings |-> headings, links |-> links]
    <3> DEFINE closed == [s EXCEPT !.open = open]
    <3>1. closed = [drop |-> s.drop, hidden |-> s.hidden, boilerplate |-> s.boilerplate, inMain |-> s.inMain,
             open |-> open, main |-> s.main, full |-> s.full, title |-> s.title,
             headings |-> s.headings, links |-> s.links]
      <4> HIDE DEF open, b, o
      <4> QED BY Whole(s) DEF Whole
    <3>2. r = CASE b = "title" -> [closed EXCEPT !.title = o.texts]
                [] b = "link"  -> [closed EXCEPT !.links = Append(s.links, o.texts)]
                [] b = "heading" /\ shown -> [closed EXCEPT !.headings = Append(s.headings, o)]
                [] OTHER -> closed
      <4>1. closed.links = s.links /\ closed.headings = s.headings
        <5> HIDE DEF closed
        <5> QED BY <3>1
      <4> HIDE DEF b
      <4> QED BY <2>2, <2>3, <4>1 DEF Close
    <3> HIDE DEF closed, open, b, o
    <3>3. CASE b = "title"
      BY <3>1, <3>2, <3>3
    <3>4. CASE b = "link"
      BY <3>1, <3>2, <3>4
    <3>5. CASE b = "heading" /\ shown
      BY <3>1, <3>2, <3>5
    <3>6. CASE b = "heading" /\ ~ shown
      BY <3>1, <3>2, <3>6
    <3> QED BY <1>0, <1>5, <3>3, <3>4, <3>5, <3>6, Zenon
  <2>5. /\ Whole(r) /\ SameDepth(r, s) /\ r.open = open /\ r.main = s.main /\ r.full = s.full
        /\ r.title = title /\ r.links = links /\ r.headings = headings
    <3> HIDE DEF open, title, links, headings, b, o
    <3>1. SameDepth(r, s)
      BY <2>4 DEF SameDepth
    <3>2. Whole(r)
      BY <2>4 DEF Whole
    <3>3. /\ r.open = open /\ r.main = s.main /\ r.full = s.full
          /\ r.title = title /\ r.links = links /\ r.headings = headings
      BY <2>4
    <3> QED BY <3>1, <3>2, <3>3
  <2>6. Told(page, n, r)
    <3> HIDE DEF open, title, links, headings
    <3> QED BY <2>5 DEF Told
  <2>7. EndsAs(r, s, b, o)
    <3> HIDE DEF open, b, o
    <3> QED BY <2>5 DEF EndsAs
  <2>8. BufferOpened(page, n, L \ {top}, open)
    <3>1. DOMAIN open = DOMAIN s.open \ {b} /\ \A c \in DOMAIN s.open : c # b => open[c] = s.open[c]
      BY DEF Restrict
    <3>2. DOMAIN open = others \ {""}
      <4> HIDE DEF open, b, others, buffers
      <4> QED BY <1>1, <1>2, <1>5, <3>1, Zenon
    <3>3. ASSUME NEW k \in L \ {top}, Buffer(page[k]) # "" PROVE Collected(page, n, k, open[Buffer(page[k])])
      <4>1. Buffer(page[k]) # b /\ Collected(page, n, k, s.open[Buffer(page[k])]) /\ Buffer(page[k]) \in DOMAIN s.open
        BY <1>3, <1>5, <3>3, Zenon DEF Apart
      <4> HIDE DEF open, b, o
      <4>2. open[Buffer(page[k])] = s.open[Buffer(page[k])]
        BY <3>1, <4>1
      <4> QED BY <4>1, <4>2
    <3> HIDE DEF open, b, others
    <3> QED BY <3>2, <3>3, Zenon DEF BufferOpened, others
  <2> HIDE DEF open, o, b
  <2> QED BY <2>1, <2>5, <2>6, <2>7, <2>8 DEF o, b, BufferClosed
<1> QED BY <1>4, <1>5, Zenon

-----------------------------------------------------------------------------
(* Html: the title, the links and the headings *)

Grown(S, D, top, V, q, x, p) ==
  /\ p \in Seq(V) /\ Len(p) = Cardinality(D \cup {top})
  /\ p[Cardinality(Upto(S, top))] = x
  /\ \A d \in D : p[Cardinality(Upto(S, d))] = q[Cardinality(Upto(S, d))]

\* A list of one for each of the elements done grows with the next of them.
LEMMA ListGrows ==
  ASSUME NEW N \in Nat, NEW S, S \in SUBSET (1 .. N), NEW D, NEW top \in S, Upto(S, top) = D \cup {top},
         \A d \in D : d < top, NEW V, NEW q \in Seq(V), NEW x \in V, Len(q) = Cardinality(D)
  PROVE  Grown(S, D, top, V, q, x, Append(q, x))
<1>1. D \in SUBSET S /\ IsFiniteSet(S) /\ \A d \in S : d \in Int
  <2>1. D \in SUBSET S
    BY DEF Upto
  <2>2. \A m \in Nat : IsFiniteSet(1 .. m)
    BY FS_Interval
  <2>3. IsFiniteSet(1 .. N)
    BY <2>2
  <2>4. \A d \in 1 .. N : d \in Int
    OBVIOUS
  <2> QED BY <2>1, <2>3, <2>4, FS_Subset
<1>2. top \notin D
  <2>1. ~ (top < top)
    BY <1>1
  <2> QED BY <2>1
<1>3. IsFiniteSet(D) /\ Cardinality(D) \in Nat /\ Cardinality(D \cup {top}) = Cardinality(D) + 1
  BY <1>1, <1>2, FS_Subset, FS_CardinalityType, FS_AddElement
<1>4. ASSUME NEW d \in D PROVE Cardinality(Upto(S, d)) \in 1 .. Cardinality(D)
  <2> DEFINE U == Upto(S, d)
  <2>1. d \in U
    BY <1>1 DEF Upto
  <2>2. ASSUME NEW e \in U PROVE e \in D
    <3>1. e \in S /\ e <= d /\ d < top /\ e \in Int /\ d \in Int /\ top \in Int
      BY <1>1, <2>2 DEF Upto
    <3>2. e <= top /\ e # top
      BY <3>1
    <3>3. e \in Upto(S, top)
      BY <3>1, <3>2 DEF Upto
    <3> QED BY <3>2, <3>3
  <2>3. U \in SUBSET D
    BY <2>2
  <2> HIDE DEF U
  <2>4. IsFiniteSet(U) /\ Cardinality(U) \in Nat /\ Cardinality(U) <= Cardinality(D)
    BY <1>3, <2>3, FS_Subset, FS_CardinalityType
  <2>5. Cardinality(U) # 0
    BY <2>1, <2>4, FS_EmptySet
  <2> DEFINE c == Cardinality(U)
             m == Cardinality(D)
  <2>6. c \in Nat /\ m \in Nat /\ c <= m /\ c # 0
    BY <1>3, <2>4, <2>5
  <2> HIDE DEF c, m
  <2>7. c \in 1 .. m
    BY <2>6
  <2> QED BY <2>7 DEF c, m, U
<1> DEFINE m == Cardinality(D)
           Nth(d) == Cardinality(Upto(S, d))
<1>5. m \in Nat /\ Len(q) = m /\ Nth(top) = m + 1 /\ Cardinality(D \cup {top}) = m + 1
      /\ \A d \in D : Nth(d) \in 1 .. m
  BY <1>3, <1>4
<1> HIDE DEF m, Nth
<1>6. /\ Append(q, x) \in Seq(V) /\ Len(Append(q, x)) = m + 1 /\ Append(q, x)[m + 1] = x
      /\ \A a \in 1 .. m : Append(q, x)[a] = q[a]
  BY <1>5
<1> QED BY <1>5, <1>6 DEF Nth, Grown

\* The headings a page shows, and the places of others.
ShownHeadings(page) == {e \in HeldBy(page, "heading") : Inside(page, e) # {} /\ Outside(page, Around(page)[e])}

\* What has been read of the title, the links and the headings that are done.
Titled(page, n, title) ==
  /\ Done(page, n, HeldBy(page, "title")) = {} => title = <<>>
  /\ \A e \in Done(page, n, HeldBy(page, "title")) :
       (\A d \in Done(page, n, HeldBy(page, "title")) : d <= e) => Lists(title, Inside(page, e))
Linked(page, n, links) ==
  /\ links \in Seq(Seq(Nat)) /\ Len(links) = Cardinality(Done(page, n, HeldBy(page, "link")))
  /\ \A e \in Done(page, n, HeldBy(page, "link")) :
       Lists(links[Cardinality(Upto(HeldBy(page, "link"), e))], Inside(page, e))
HeadingSo(page, e, heading) ==
  Lists(heading.texts, Inside(page, e)) /\ heading.offset = Cardinality(Upto(Content(page), e))
HeadingsKept(page, n, headings) ==
  /\ headings \in Seq([texts : Seq(Nat), offset : Nat])
  /\ Len(headings) = Cardinality(Done(page, n, ShownHeadings(page)))
  /\ \A e \in Done(page, n, ShownHeadings(page)) : HeadingSo(page, e, headings[Cardinality(Upto(ShownHeadings(page), e))])
EndsSo(page, n, s) == Titled(page, n, s.title) /\ Linked(page, n, s.links) /\ HeadingsKept(page, n, s.headings)

\* Nothing ends but what is closed.
LEMMA NothingEnds ==
  ASSUME NEW page, NEW n, NEW m, NEW r, NEW s, SameEnds(r, s), EndsSo(page, n, s),
         \A b \in Buffers : \A S : S \in SUBSET HeldBy(page, b) => Done(page, m, S) = Done(page, n, S)
  PROVE  EndsSo(page, m, r)
<1>1. ShownHeadings(page) \in SUBSET HeldBy(page, "heading")
  BY DEF ShownHeadings
<1>2. /\ Done(page, m, HeldBy(page, "title")) = Done(page, n, HeldBy(page, "title"))
      /\ Done(page, m, HeldBy(page, "link")) = Done(page, n, HeldBy(page, "link"))
      /\ Done(page, m, ShownHeadings(page)) = Done(page, n, ShownHeadings(page))
  BY <1>1 DEF Buffers
<1>3. Titled(page, m, r.title)
  BY <1>2 DEF EndsSo, SameEnds, Titled
<1>4. Linked(page, m, r.links)
  BY <1>2 DEF EndsSo, SameEnds, Linked
<1>5. HeadingsKept(page, m, r.headings)
  BY <1>2 DEF EndsSo, SameEnds, HeadingsKept
<1> QED BY <1>3, <1>4, <1>5 DEF EndsSo

\* A text in an element is in all that the element is in.
LEMMA InsideAround ==
  ASSUME NEW page \in Seq(PageToken), Nested(page, Around(page), Stacks(page)), NEW e, NEW i \in Inside(page, e)
  PROVE  Around(page)[e] \in SUBSET Around(page)[i]
<1>1. DOMAIN page = 1 .. Len(page) /\ Len(page) \in Nat
  OBVIOUS
<1>2. i \in 1 .. Len(page) /\ page[i] = Text /\ e \in Around(page)[i]
  BY <1>1 DEF Inside, TextsIn, VisibleTexts
<1> DEFINE n == i - 1
<1>3. n \in Nat /\ n \in 0 .. Len(page) /\ n + 1 = i /\ n + 1 <= Len(page)
  BY <1>1, <1>2
<1> HIDE DEF n
<1>4. Moved(page, n) /\ OpenSo(page, n)
  BY <1>3, PageMoves
<1>5. ~ Begins(page[i]) /\ ~ Stops(page[i])
  BY <1>2 DEF Begins, Stops, Text
<1>6. Around(page)[i] = OnStack(page, n)
  BY <1>3, <1>4, <1>5 DEF Moved
<1>7. Around(page)[e] = {j \in OnStack(page, n) : j < e}
  BY <1>2, <1>4, <1>6 DEF OpenSo
<1> QED BY <1>6, <1>7

LEMMA CountsFinite == \A m \in Nat : IsFiniteSet(1 .. m)
  BY FS_Interval

\* What a closed element was read as is all of it.
LEMMA ElementEnds ==
  ASSUME NEW page \in Seq(PageToken), Plain(page), NEW n \in Nat, n + 1 <= Len(page), LiveSo(page, n),
         Single(page, n), NEW top, Closes(page, n, top), NEW b \in Buffers, Buffer(page[top]) = b,
         top \in HeldBy(page, b), Inside(page, top) = Upto(Inside(page, top), n + 1),
         NEW o, Collected(page, n + 1, top, o), NEW s, EndsSo(page, n, s),
         s.drop = 0 <=> \A k \in Around(page)[top] : ~ Hides(page[k]),
         s.boilerplate = 0 <=> Outside(page, Around(page)[top]),
         NEW r, EndsAs(r, s, b, o)
  PROVE  EndsSo(page, n + 1, r)
<1>1. /\ o = [texts |-> o.texts, offset |-> o.offset] /\ o.texts \in Seq(Nat)
      /\ Lists(o.texts, Inside(page, top)) /\ o.offset = Cardinality(Upto(Content(page), top))
  BY DEF Collected
<1>2. Nested(page, Around(page), Stacks(page))
  BY Zenon DEF Plain
<1>3. ShownHeadings(page) \in SUBSET HeldBy(page, "heading") /\ Len(page) \in Nat
      /\ Content(page) \in SUBSET (1 .. Len(page)) /\ \A c : HeldBy(page, c) \in SUBSET (1 .. Len(page))
  BY PlacesOnly DEF ShownHeadings
<1>4. ASSUME NEW c \in Buffers, NEW S, S \in SUBSET HeldBy(page, c)
      PROVE  DoneSo(page, n, S, top)
  BY <1>4, DoneMoves
<1>5. \A c : c # b => top \notin HeldBy(page, c)
  BY DEF HeldBy
<1>6. Titled(page, n + 1, r.title)
  <2> DEFINE T == HeldBy(page, "title")
             D == Done(page, n, T)
             E == Done(page, n + 1, T)
  <2>0. T \in SUBSET HeldBy(page, "title") /\ "title" \in Buffers /\ Titled(page, n, s.title)
    BY DEF Buffers, EndsSo
  <2>1. CASE b = "title"
    <3>1. r.title = o.texts /\ top \in T
      BY <2>1 DEF EndsAs
    <3>2. E = D \cup {top} /\ \A d \in D : d < top
      BY <1>4, <2>0, <3>1 DEF DoneSo
    <3>3. top \in Int /\ \A d \in D : d \in Int
      <4>1. \A d \in 1 .. Len(page) : d \in Int
        BY <1>3
      <4> QED BY <1>3, <3>1, <4>1 DEF Done, Upto
    <3>4. ASSUME NEW e \in E, \A d \in E : d <= e PROVE e = top
      <4>1. e \in D \cup {top} /\ top \in E
        BY <3>2, <3>4
      <4>2. top <= e
        BY <3>4, <4>1
      <4> HIDE DEF D, E, T
      <4>3. e \in D => e \in Int /\ e < top
        BY <3>2, <3>3
      <4>4. e \notin D
        BY <3>3, <4>2, <4>3
      <4> QED BY <4>1, <4>4
    <3> HIDE DEF D
    <3> QED BY <1>1, <3>1, <3>2, <3>4 DEF Titled
  <2>2. CASE b # "title"
    <3>1. r.title = s.title /\ top \notin T
      BY <1>5, <2>2 DEF EndsAs
    <3>2. E = D
      BY <1>4, <2>0, <3>1 DEF DoneSo
    <3> QED BY <2>0, <3>1, <3>2 DEF Titled
  <2> QED BY <2>1, <2>2
<1>7. Linked(page, n + 1, r.links)
  <2> DEFINE T == HeldBy(page, "link")
             D == Done(page, n, T)
             E == Done(page, n + 1, T)
  <2>0. T \in SUBSET HeldBy(page, "link") /\ "link" \in Buffers /\ Linked(page, n, s.links)
    BY DEF Buffers, EndsSo
  <2>1. CASE b = "link"
    <3>1. r.links = Append(s.links, o.texts) /\ top \in T
      BY <2>1 DEF EndsAs
    <3>2. E = D \cup {top} /\ Upto(T, top) = D \cup {top} /\ \A d \in D : d < top
      BY <1>4, <2>0, <3>1 DEF DoneSo
    <3>3. s.links \in Seq(Seq(Nat)) /\ Len(s.links) = Cardinality(D)
          /\ \A e \in D : Lists(s.links[Cardinality(Upto(T, e))], Inside(page, e))
      BY <2>0 DEF Linked
    <3>4. T \in SUBSET (1 .. Len(page)) /\ Len(page) \in Nat
      BY <1>3
    <3> HIDE DEF D, E, T
    <3>5. /\ r.links \in Seq(Seq(Nat)) /\ Len(r.links) = Cardinality(D \cup {top})
          /\ r.links[Cardinality(Upto(T, top))] = o.texts
          /\ \A d \in D : r.links[Cardinality(Upto(T, d))] = s.links[Cardinality(Upto(T, d))]
      <4>1. Grown(T, D, top, Seq(Nat), s.links, o.texts, Append(s.links, o.texts))
        BY <1>1, <3>1, <3>2, <3>3, <3>4, ListGrows
      <4> QED BY <3>1, <4>1 DEF Grown
    <3>6. \A e \in E : Lists(r.links[Cardinality(Upto(T, e))], Inside(page, e))
      BY <1>1, <3>2, <3>3, <3>5
    <3> QED BY <3>2, <3>5, <3>6 DEF Linked, E, T
  <2>2. CASE b # "link"
    <3>1. r.links = s.links /\ top \notin T
      BY <1>5, <2>2 DEF EndsAs
    <3>2. E = D
      BY <1>4, <2>0, <3>1 DEF DoneSo
    <3> QED BY <2>0, <3>1, <3>2 DEF Linked
  <2> QED BY <2>1, <2>2
<1>8. HeadingsKept(page, n + 1, r.headings)
  <2> DEFINE T == ShownHeadings(page)
             D == Done(page, n, T)
             E == Done(page, n + 1, T)
             V == [texts : Seq(Nat), offset : Nat]
             listed == b = "heading" /\ o.texts # <<>> /\ s.drop = 0 /\ s.boilerplate = 0
  <2>0. T \in SUBSET HeldBy(page, "heading") /\ "heading" \in Buffers /\ HeadingsKept(page, n, s.headings)
    BY <1>3 DEF Buffers, EndsSo
  <2>1. listed <=> top \in T
    <3>1. o.texts # <<>> <=> Inside(page, top) # {}
      BY <1>1, ListsAll
    <3>2. Inside(page, top) # {} => s.drop = 0
      <4> SUFFICES ASSUME NEW i \in Inside(page, top) PROVE \A k \in Around(page)[top] : ~ Hides(page[k])
        OBVIOUS
      <4>1. Around(page)[top] \in SUBSET Around(page)[i]
        BY <1>2, InsideAround
      <4>2. \A k \in Around(page)[i] : ~ Hides(page[k])
        BY DEF Inside, TextsIn, VisibleTexts
      <4> QED BY <4>1, <4>2
    <3>3. top \in T <=> top \in HeldBy(page, "heading") /\ Inside(page, top) # {} /\ Outside(page, Around(page)[top])
      BY DEF ShownHeadings
    <3>4. b = "heading" <=> top \in HeldBy(page, "heading")
      BY <1>5
    <3> QED BY <3>1, <3>2, <3>3, <3>4
  <2>2. r.headings = IF listed THEN Append(s.headings, o) ELSE s.headings
    BY DEF EndsAs
  <2>3. CASE top \in T
    <3>1. r.headings = Append(s.headings, o)
      BY <2>1, <2>2, <2>3
    <3>2. E = D \cup {top} /\ Upto(T, top) = D \cup {top} /\ \A d \in D : d < top
      BY <1>4, <2>0, <2>3 DEF DoneSo
    <3>3. s.headings \in Seq(V) /\ Len(s.headings) = Cardinality(D)
          /\ \A e \in D : HeadingSo(page, e, s.headings[Cardinality(Upto(T, e))])
      BY <2>0 DEF HeadingsKept
    <3>4. T \in SUBSET (1 .. Len(page)) /\ Len(page) \in Nat
      BY <1>3, <2>0
    <3>5. o \in V
      <4>1. Upto(Content(page), top) \in SUBSET (1 .. Len(page))
        BY <1>3 DEF Upto
      <4>2. \A m \in Nat : IsFiniteSet(1 .. m)
        BY CountsFinite
      <4>3. Cardinality(Upto(Content(page), top)) \in Nat
        BY <1>3, <4>1, <4>2, FS_Subset, FS_CardinalityType
      <4>4. o.offset \in Nat
        BY <1>1, <4>3
      <4> QED BY <1>1, <4>4
    <3>6. HeadingSo(page, top, o)
      BY <1>1 DEF HeadingSo
    <3> HIDE DEF D, E, T, V
    <3>7. /\ r.headings \in Seq(V) /\ Len(r.headings) = Cardinality(D \cup {top})
          /\ r.headings[Cardinality(Upto(T, top))] = o
          /\ \A d \in D : r.headings[Cardinality(Upto(T, d))] = s.headings[Cardinality(Upto(T, d))]
      <4>1. Grown(T, D, top, V, s.headings, o, Append(s.headings, o))
        BY <2>3, <3>2, <3>3, <3>4, <3>5, ListGrows
      <4> QED BY <3>1, <4>1 DEF Grown
    <3>8. \A e \in E : HeadingSo(page, e, r.headings[Cardinality(Upto(T, e))])
      BY <3>2, <3>3, <3>6, <3>7
    <3> QED BY <3>2, <3>7, <3>8 DEF HeadingsKept, E, T, V
  <2>4. CASE top \notin T
    <3>1. r.headings = s.headings
      BY <2>1, <2>2, <2>4
    <3>2. E = D
      BY <1>4, <2>0, <2>4 DEF DoneSo
    <3> QED BY <2>0, <3>1, <3>2 DEF HeadingsKept
  <2> QED BY <2>3, <2>4
<1> QED BY <1>6, <1>7, <1>8 DEF EndsSo

-----------------------------------------------------------------------------
(* Html: a page is read as what it shows *)

\* What is so after each token.
Reading(page, n, s) ==
  /\ Whole(s) /\ Entry(page, Live(page, n), s) /\ Told(page, n, s) /\ BufferOpened(page, n, Live(page, n), s.open)
  /\ Single(page, n) /\ EndsSo(page, n, s)

LEMMA EnteredIs ==
  ASSUME NEW s, Whole(s), NEW t, t.kind \in {"open", "close"}, LandsSo(t),
         t.kind = "open" => t.hidden \in BOOLEAN /\ t.void \in BOOLEAN
  PROVE  Whole(Entered(s, t)) /\ SameTexts(Entered(s, t), s) /\ SameEnds(Entered(s, t), s)
<1> DEFINE v == Veil(s, t)
<1>1. Whole(v) /\ SameTexts(v, s) /\ SameEnds(v, s)
  BY VeilIs
<1> HIDE DEF v
<1>2. Crosses(Enter(v, t), v, t)
  BY <1>1, EnterIs
<1> DEFINE e == Enter(v, t)
<1>3. Whole(e) /\ SameTexts(e, v) /\ SameEnds(e, v)
  <2> HIDE DEF e
  <2> QED BY <1>2 DEF Crosses, e
<1> HIDE DEF e
<1>4. SameTexts(e, s) /\ SameEnds(e, s)
  BY <1>1, <1>3 DEF SameTexts, SameEnds
<1> QED BY <1>3, <1>4 DEF Entered, e, v

LEMMA TextsKept ==
  ASSUME NEW page \in Seq(PageToken), NEW n \in Nat, n + 1 \notin Seen(page), NEW L, NEW s,
         Told(page, n, s), BufferOpened(page, n, L, s.open), NEW e, SameTexts(e, s)
  PROVE  Told(page, n + 1, e) /\ BufferOpened(page, n + 1, L, e.open)
<1>1. /\ Upto(Seen(page), n + 1) = Upto(Seen(page), n)
      /\ Upto(Content(page), n + 1) = Upto(Content(page), n)
      /\ \A k : Upto(Inside(page, k), n + 1) = Upto(Inside(page, k), n)
  BY NothingTold
<1>2. e.open = s.open /\ e.main = s.main /\ e.full = s.full
  BY DEF SameTexts
<1>3. Told(page, n + 1, e)
  BY <1>1, <1>2 DEF Told
<1>4. BufferOpened(page, n + 1, L, e.open)
  BY <1>1, <1>2, Zenon DEF BufferOpened, Collected
<1> QED BY <1>3, <1>4

\* A tag is a token of the page that is in no comment.
TagSo(page, i) ==
  LET t == page[i]
  IN  /\ t.kind = "open" => PlainAt(page, i) /\ t.hidden \in BOOLEAN /\ t.void \in BOOLEAN
      /\ LandsSo(t)

LEMMA TagsAreSo ==
  ASSUME NEW page \in Seq(PageToken), Plain(page), NEW i \in DOMAIN page, page[i].kind \in {"open", "close"},
         page[i].kind = "open" => \A k \in Around(page)[i] : page[k].kind = "open"
  PROVE  TagSo(page, i)
<1>1. page[i] \in PageToken
  OBVIOUS
<1>2. page[i].kind = "open" => page[i].hidden \in BOOLEAN /\ page[i].void \in BOOLEAN
  BY <1>1, TokenIs, Zenon
<1>3. page[i].kind = "open" => PlainAt(page, i)
  BY PlainElements
<1>4. LandsSo(page[i])
  BY <1>3, Zenon DEF LandsSo, PlainAt
<1> QED BY <1>2, <1>3, <1>4 DEF TagSo

\* While nothing is closed, nothing ends.
LEMMA StillReading ==
  ASSUME NEW page \in Seq(PageToken), NEW n \in Nat, LiveSo(page, n), Single(page, n),
         Still(page, n) \/ Opens(page, n), NEW s, EndsSo(page, n, s), NEW r, SameEnds(r, s)
  PROVE  Single(page, n + 1) /\ EndsSo(page, n + 1, r)
<1>1. Single(page, n + 1)
  BY SingleKept
<1>2. \A b \in Buffers : \A S : S \in SUBSET HeldBy(page, b) => Done(page, n + 1, S) = Done(page, n, S)
  BY DoneMoves
<1>3. EndsSo(page, n + 1, r)
  BY <1>2, NothingEnds
<1> QED BY <1>1, <1>3

\* What opens but is void is none of the kinds that are kept.
LEMMA VoidRead ==
  ASSUME NEW page, NEW i, TagSo(page, i), page[i].kind = "open", page[i].void = TRUE, NEW s, Whole(s)
  PROVE  /\ Read(s, page[i]) = Entered(s, page[i])
         /\ \A L : Entry(page, L, s) => Entry(page, L, Entered(s, page[i]))
<1> DEFINE t == page[i]
           e == Entered(s, t)
<1>1. /\ t.kind = "open" /\ t.kind \in {"open", "close"} /\ t.hidden \in BOOLEAN /\ t.void \in BOOLEAN
      /\ LandsSo(t) /\ PlainAt(page, i)
  BY DEF TagSo
<1>2. Buffer(t) = "" /\ t.name \notin BoilerplateTags /\ t.name # "main"
  BY <1>1, Zenon DEF PlainAt
<1>3. Veil(s, t) = s
  BY <1>1 DEF Veil, Hide, Reveal
<1> HIDE DEF t
<1>4. Crosses(e, s, t)
  BY <1>1, <1>3, EnterIs DEF Entered
<1>5. Read(s, t) = Collect(e, t)
  <2>1. t.kind = "open" => t.hidden \in BOOLEAN /\ t.void \in BOOLEAN
    BY <1>1
  <2>2. LandsSo(t) /\ t.kind \in {"open", "close"}
    BY <1>1
  <2> QED BY <2>1, <2>2, ReadIs
<1>6. Collect(e, t) = e
  BY <1>2, Zenon DEF Collect
<1> HIDE DEF e
<1>7. e.drop = s.drop /\ e.hidden = s.hidden /\ e.boilerplate = s.boilerplate /\ e.inMain = s.inMain
  BY <1>2, <1>4, Zenon DEF Crosses
<1>8. \A L : Entry(page, L, s) => Entry(page, L, e)
  BY <1>7 DEF Entry
<1> QED BY <1>5, <1>6, <1>8 DEF e, t

\* A token that opens nothing and one that opens an element.
LEMMA OtherRead ==
  ASSUME NEW page \in Seq(PageToken), Plain(page), NEW n \in Nat, n + 1 <= Len(page), LiveSo(page, n),
         NEW s, Reading(page, n, s), NEW saw, saw = InMain(page), NEW r, Move(page, n, saw, s, r),
         Still(page, n) \/ Opens(page, n)
  PROVE  Reading(page, n + 1, r)
<1> DEFINE i == n + 1
           t == page[i]
           L == Live(page, n)
           M == Live(page, i)
           A == Around(page)[i]
           e == Entered(s, t)
<1>0. i \in DOMAIN page /\ page[i] \in PageToken /\ Nested(page, Around(page), Stacks(page))
  <2>1. i \in DOMAIN page /\ page[i] \in PageToken
    OBVIOUS
  <2>2. Nested(page, Around(page), Stacks(page))
    BY Zenon DEF Plain
  <2> QED BY <2>1, <2>2
<1>1. /\ Whole(s) /\ Entry(page, L, s) /\ Told(page, n, s) /\ BufferOpened(page, n, L, s.open)
      /\ Single(page, n) /\ EndsSo(page, n, s)
  BY DEF Reading
<1>2. /\ Unread(page, i) \/ t.kind # "text" => i \notin Seen(page)
      /\ L \in SUBSET (1 .. n) /\ \A k \in L : page[k].kind = "open"
  BY TokensAdd DEF Gains, LiveSo
<1>3. \/ Unread(page, i) /\ M = L /\ r = s
      \/ t = Text /\ A = L /\ M = L /\ r = EmitText(s, i, saw)
      \/ t.kind = "open" /\ t.void /\ A = L /\ M = L /\ r = Read(s, t)
      \/ t.kind = "open" /\ ~ t.void /\ A = L /\ M = L \cup {i} /\ r = Read(s, t)
      \/ t.kind = "close" /\ \E top \in L : M = L \ {top}
  BY DEF Move
<1>4. SameEnds(r, s) => Single(page, i) /\ EndsSo(page, i, r)
  BY <1>1, StillReading
<1>5. CASE Unread(page, i) /\ M = L /\ r = s
  <2>1. SameTexts(r, s) /\ SameEnds(r, s)
    BY <1>5 DEF SameTexts, SameEnds
  <2>2. Told(page, i, r) /\ BufferOpened(page, i, L, r.open)
    BY <1>1, <1>2, <1>5, <2>1, TextsKept
  <2> HIDE DEF i, t, L, M
  <2> QED BY <1>1, <1>4, <1>5, <2>1, <2>2 DEF Reading, i, M
<1>6. CASE t = Text /\ A = L /\ M = L /\ r = EmitText(s, i, saw)
  <2>1. /\ Whole(r) /\ Entry(page, L, r) /\ SameEnds(r, s)
        /\ Told(page, i, r) /\ BufferOpened(page, i, L, r.open)
    BY <1>1, <1>6, TextEmitted
  <2> HIDE DEF i, t, L, M
  <2> QED BY <1>4, <1>6, <2>1 DEF Reading, i, M
<1>7. ASSUME t.kind = "open", A = L
      PROVE  /\ TagSo(page, i) /\ Whole(e) /\ SameTexts(e, s) /\ SameEnds(e, s)
             /\ Told(page, i, e) /\ BufferOpened(page, i, L, e.open) /\ i \notin Seen(page)
             /\ t.hidden \in BOOLEAN /\ t.void \in BOOLEAN /\ LandsSo(t) /\ PlainAt(page, i)
  <2>1. TagSo(page, i)
    BY <1>0, <1>2, <1>7, TagsAreSo
  <2>2. t.hidden \in BOOLEAN /\ t.void \in BOOLEAN /\ LandsSo(t) /\ PlainAt(page, i)
    BY <1>7, <2>1 DEF TagSo
  <2>3. i \notin Seen(page)
    BY <1>2, <1>7
  <2> HIDE DEF t
  <2>4. Whole(e) /\ SameTexts(e, s) /\ SameEnds(e, s)
    BY <1>1, <1>7, <2>2, EnteredIs
  <2> HIDE DEF e, L
  <2>5. Told(page, i, e) /\ BufferOpened(page, i, L, e.open)
    BY <1>1, <2>3, <2>4, TextsKept
  <2> QED BY <2>1, <2>2, <2>3, <2>4, <2>5
<1>8. CASE t.kind = "open" /\ t.void /\ A = L /\ M = L /\ r = Read(s, t)
  <2>1. page[i].void = TRUE
    BY <1>7, <1>8
  <2>2. r = e /\ Entry(page, L, e)
    BY <1>1, <1>7, <1>8, <2>1, VoidRead
  <2>3. /\ Whole(e) /\ SameEnds(e, s) /\ Told(page, i, e) /\ BufferOpened(page, i, L, e.open)
    BY <1>7, <1>8
  <2> HIDE DEF i, t, L, M, e
  <2> QED BY <1>4, <1>8, <2>2, <2>3 DEF Reading, i, M
<1>9. CASE t.kind = "open" /\ ~ t.void /\ A = L /\ M = L \cup {i} /\ r = Read(s, t)
  <2>1. page[i].void = FALSE
    BY <1>7, <1>9
  <2>2. Entry(page, L \cup {i}, e)
    BY <1>1, <1>2, <1>7, <1>9, <2>1, EnterOpens
  <2>3. r = Collect(e, t)
    <3>1. t.kind \in {"open", "close"} /\ (t.kind = "open" => t.hidden \in BOOLEAN /\ t.void \in BOOLEAN) /\ LandsSo(t)
      BY <1>7, <1>9
    <3> HIDE DEF t
    <3> QED BY <1>1, <1>9, <3>1, ReadIs
  <2>4. Apart(page, L, t)
    BY <1>7, <1>9, Zenon DEF PlainAt, Apart
  <2>5. /\ Whole(r) /\ SameDepth(r, e) /\ SameEnds(r, e)
        /\ Told(page, i, r) /\ BufferOpened(page, i, L \cup {i}, r.open)
    <3> HIDE DEF e
    <3> QED BY <1>0, <1>2, <1>7, <1>9, <2>3, <2>4, CollectOpens
  <2>6. SameEnds(r, s)
    <3> HIDE DEF e
    <3> QED BY <1>7, <1>9, <2>5 DEF SameEnds
  <2>7. Entry(page, L \cup {i}, r)
    <3> HIDE DEF e
    <3> QED BY <2>2, <2>5 DEF Entry, SameDepth
  <2> HIDE DEF i, t, L, M, e
  <2> QED BY <1>4, <1>9, <2>5, <2>6, <2>7 DEF Reading, i, M
<1>10. CASE t.kind = "close" /\ \E top \in L : M = L \ {top}
  <2>1. L \in SUBSET M
    <3>1. L \in SUBSET M
      BY DEF Still, Opens
    <3> QED BY <3>1
  <2> QED BY <1>10, <2>1
<1> HIDE DEF i, t, L, M, A, e
<1> QED BY <1>3, <1>5, <1>6, <1>8, <1>9, <1>10

\* A token that closes an element.
LEMMA CloseRead ==
  ASSUME NEW page \in Seq(PageToken), Plain(page), NEW n \in Nat, n + 1 <= Len(page), LiveSo(page, n),
         LiveSo(page, n + 1), NEW s, Reading(page, n, s), NEW t, t = page[n + 1], t.kind = "close",
         NEW top, Closes(page, n, top), page[top].name = t.name, NEW r, r = Read(s, t)
  PROVE  Reading(page, n + 1, r)
<1> DEFINE i == n + 1
           L == Live(page, n)
           M == Live(page, i)
           A == Around(page)[top]
           b == Buffer(page[top])
           e == Entered(s, t)
           o == e.open[b]
<1>0. Nested(page, Around(page), Stacks(page)) /\ i \in 0 .. Len(page) /\ DOMAIN page = 1 .. Len(page)
      /\ \A j \in DOMAIN page : page[j] \in PageToken
  <2>1. i \in 0 .. Len(page) /\ DOMAIN page = 1 .. Len(page) /\ \A j \in DOMAIN page : page[j] \in PageToken
    OBVIOUS
  <2>2. Nested(page, Around(page), Stacks(page))
    BY Zenon DEF Plain
  <2> QED BY <2>1, <2>2
<1>1. /\ Whole(s) /\ Entry(page, L, s) /\ Told(page, n, s) /\ BufferOpened(page, n, L, s.open)
      /\ Single(page, n) /\ EndsSo(page, n, s)
  BY DEF Reading
<1>2. top \in L /\ (\A k \in L : k <= top) /\ M = L \ {top}
  BY DEF Closes
<1>3. /\ L \in SUBSET (1 .. n) /\ L \in SUBSET DOMAIN page
      /\ page[top].kind = "open" /\ A = {j \in L : j < top} /\ \A k \in L : page[k].kind = "open"
  BY <1>2 DEF LiveSo
<1>4. A = L \ {top} /\ top \in Nat /\ top <= n
  <2>1. \A k \in 1 .. n : k \in Nat /\ k <= n
    OBVIOUS
  <2>2. \A k \in L : k \in Nat
    BY <1>3, <2>1
  <2>3. top \in Nat /\ top <= n
    BY <1>2, <1>3, <2>1
  <2>4. \A k \in L : k < top <=> k # top
    <3> HIDE DEF L
    <3> QED BY <1>2, <2>2, <2>3
  <2> QED BY <1>3, <2>3, <2>4
<1>5. PlainAt(page, top) /\ page[top].hidden \in BOOLEAN
  <2>1. \A k \in A : page[k].kind = "open"
    BY <1>3
  <2>2. page[top] \in PageToken /\ top \in DOMAIN page
    BY <1>0, <1>2, <1>3
  <2>3. page[top].hidden \in BOOLEAN
    BY <1>3, <2>2, TokenIs, Zenon
  <2> QED BY <1>3, <2>1, <2>2, <2>3, PlainElements
<1>6. Entry(page, L \ {top}, e)
  BY <1>1, <1>2, <1>3, <1>5, EnterCloses
<1>7. t.kind \in {"open", "close"} /\ (t.kind = "open" => t.hidden \in BOOLEAN /\ t.void \in BOOLEAN) /\ LandsSo(t)
  BY DEF LandsSo
<1>8. Whole(e) /\ SameTexts(e, s) /\ SameEnds(e, s) /\ r = Collect(e, t)
  BY <1>1, <1>7, EnteredIs, ReadIs
<1> HIDE DEF e
<1>9. i \notin Seen(page)
  <2>1. t.kind # "text"
    OBVIOUS
  <2> QED BY <2>1, TokensAdd DEF Gains
<1>10. Told(page, i, e) /\ BufferOpened(page, i, L, e.open)
  BY <1>1, <1>8, <1>9, TextsKept
<1>11. Apart(page, L \ {top}, page[top])
  BY <1>4, <1>5, Zenon DEF PlainAt, Apart
<1>12. /\ Whole(r) /\ SameDepth(r, e) /\ Told(page, i, r) /\ BufferOpened(page, i, L \ {top}, r.open)
       /\ EndsAs(r, e, b, o) /\ (b \in Buffers => Collected(page, i, top, o))
  <2> HIDE DEF L, i
  <2>1. BufferClosed(page, i, L, top, e, r)
    BY <1>2, <1>8, <1>10, <1>11, CollectCloses
  <2> QED BY <2>1 DEF BufferClosed
<1>13. Entry(page, M, r)
  <2> HIDE DEF L, M
  <2> QED BY <1>2, <1>6, <1>12 DEF Entry, SameDepth
<1>14. Single(page, i)
  BY <1>1, SingleKept
<1>15. b \in Buffers \/ b = ""
  BY DEF Buffers, Buffer
<1>16. \A k \in A : page[k].kind = "open"
  BY <1>3
<1>17. EndsSo(page, n, e)
  BY <1>1, <1>8 DEF EndsSo, SameEnds
<1>18. CASE b = ""
  <2>1. SameEnds(r, e)
    <3> HIDE DEF b, o
    <3> QED BY <1>12, <1>18, Zenon DEF EndsAs, SameEnds
  <2>2. ASSUME NEW c \in Buffers, NEW S, S \in SUBSET HeldBy(page, c) PROVE Done(page, i, S) = Done(page, n, S)
    <3>1. DoneSo(page, n, S, top)
      BY <1>1, <2>2, DoneMoves
    <3>2. top \notin S
      BY <1>18, <2>2, Zenon DEF HeldBy, Buffers
    <3> QED BY <3>1, <3>2 DEF DoneSo
  <2>3. EndsSo(page, i, r)
    BY <1>17, <2>1, <2>2, NothingEnds
  <2> HIDE DEF i, M, L
  <2> QED BY <1>2, <1>12, <1>13, <1>14, <2>3 DEF Reading, i, M
<1>19. CASE b \in Buffers
  <2>1. top \in HeldBy(page, b)
    BY <1>2, <1>3, <1>16 DEF HeldBy
  <2>2. Inside(page, top) = Upto(Inside(page, top), i)
    <3>1. top \notin OnStack(page, i)
      <4>1. top \notin M
        BY <1>2
      <4> QED BY <1>3, <1>16, <4>1 DEF Live
    <3>2. top <= i
      BY <1>4
    <3> HIDE DEF i
    <3> QED BY <1>0, <1>4, <3>1, <3>2, InsideIs
  <2>3. IsFiniteSet(A)
    <3>1. IsFiniteSet(1 .. n) /\ A \in SUBSET (1 .. n)
      BY <1>3, CountsFinite
    <3> QED BY <3>1, FS_Subset
  <2>4. /\ e.drop = 0 <=> \A k \in A : ~ Hides(page[k])
        /\ e.boilerplate = 0 <=> Outside(page, A)
    <3>1. Entry(page, A, e)
      BY <1>4, <1>6
    <3> HIDE DEF A
    <3> QED BY <2>3, <3>1, DepthsSo
  <2>5. Collected(page, i, top, o) /\ EndsAs(r, e, b, o)
    BY <1>12, <1>19
  <2>6. EndsSo(page, i, r)
    <3> HIDE DEF o
    <3> QED BY <1>1, <1>17, <1>19, <2>1, <2>2, <2>4, <2>5, ElementEnds
  <2> HIDE DEF i, M, L
  <2> QED BY <1>2, <1>12, <1>13, <1>14, <2>6 DEF Reading, i, M
<1> QED BY <1>15, <1>18, <1>19, Zenon

LEMMA ReadingNext ==
  ASSUME NEW page \in Seq(PageToken), Plain(page), NEW n \in Nat, n + 1 <= Len(page),
         NEW s, Reading(page, n, s), NEW saw, saw = InMain(page), NEW r, Move(page, n, saw, s, r)
  PROVE  Reading(page, n + 1, r)
<1>1. LiveSo(page, n) /\ LiveSo(page, n + 1)
  <2>1. n \in 0 .. Len(page) /\ n + 1 \in 0 .. Len(page)
    OBVIOUS
  <2>2. Nested(page, Around(page), Stacks(page))
    BY Zenon DEF Plain
  <2> QED BY <2>1, <2>2, LiveElements
<1>2. CASE Still(page, n) \/ Opens(page, n)
  BY <1>1, <1>2, OtherRead
<1>3. CASE ~ (Still(page, n) \/ Opens(page, n))
  <2>1. PICK top : Closes(page, n, top)
    BY <1>1, <1>3, TokensMove
  <2> DEFINE L == Live(page, n)
             M == Live(page, n + 1)
             t == page[n + 1]
  <2>2. top \in L /\ (\A k \in L : k <= top) /\ M = L \ {top}
    BY <2>1 DEF Closes
  <2>3. ~ (M = L) /\ ~ (M = L \cup {n + 1})
    BY <2>2
  <2>4. t.kind = "close" /\ r = Read(s, t) /\ \E k \in L : (\A j \in L : j <= k) /\ M = L \ {k} /\ page[k].name = t.name
    BY <2>3 DEF Move
  <2>5. PICK k \in L : M = L \ {k} /\ page[k].name = t.name
    BY <2>4
  <2>6. k = top
    BY <2>2, <2>5
  <2>7. page[top].name = t.name
    BY <2>5, <2>6
  <2> QED BY <1>1, <2>1, <2>4, <2>7, CloseRead
<1> QED BY <1>2, <1>3

LEMMA ReadingStarts ==
  ASSUME NEW page \in Seq(PageToken), Plain(page)
  PROVE  Reading(page, 0, Blank)
<1> DEFINE s == Blank
<1>1. /\ Whole(s) /\ s.drop = 0 /\ s.hidden = <<>> /\ s.boilerplate = 0 /\ s.inMain = FALSE /\ s.open = <<>>
      /\ s.main = <<>> /\ s.full = <<>> /\ s.title = <<>> /\ s.headings = <<>> /\ s.links = <<>>
  BY DEF Blank, Whole
<1> HIDE DEF s
<1>2. Live(page, 0) = {}
  <2>1. Nested(page, Around(page), Stacks(page))
    BY Zenon DEF Plain
  <2>2. OnStack(page, 0) = {}
    BY <2>1, PageMoves
  <2> QED BY <2>2 DEF Live
<1>3. \A S : S \in SUBSET (1 .. Len(page)) => Upto(S, 0) = {}
  <2>1. \A i \in 1 .. Len(page) : ~ (i <= 0)
    OBVIOUS
  <2> QED BY <2>1 DEF Upto
<1>4. /\ Upto(Seen(page), 0) = {} /\ Upto(Content(page), 0) = {}
      /\ \A b : \A S : S \in SUBSET HeldBy(page, b) => Upto(S, 0) = {}
  BY <1>3, PlacesOnly
<1>5. Cardinality({}) = 0
  BY FS_EmptySet
<1>6. Entry(page, {}, s)
  <2>1. {k \in {} : Hides(page[k])} = {} /\ {k \in {} : Masks(page[k])} = {}
        /\ {k \in {} : page[k].name \in BoilerplateTags} = {}
    OBVIOUS
  <2>2. s.hidden = NamesOf(page, <<>>)
    <3>1. DOMAIN <<>> = {}
      OBVIOUS
    <3>2. NamesOf(page, <<>>) = [m \in {} |-> page[(<<>>)[m]].name]
      BY <3>1 DEF NamesOf
    <3>3. [m \in {} |-> page[(<<>>)[m]].name] = <<>>
      OBVIOUS
    <3> QED BY <1>1, <3>2, <3>3
  <2>3. Veiled(page, {}, s.drop, s.hidden)
    BY <1>1, <1>5, <2>1, <2>2, ListsNone DEF Veiled
  <2>4. Landed(page, {}, s.boilerplate, s.inMain)
    BY <1>1, <1>5, <2>1 DEF Landed
  <2> QED BY <2>3, <2>4 DEF Entry
<1>7. Told(page, 0, s)
  BY <1>1, <1>4, ListsNone DEF Told
<1>8. BufferOpened(page, 0, {}, s.open)
  <2>1. DOMAIN s.open = {}
    BY <1>1
  <2>2. {Buffer(page[k]) : k \in {}} \ {""} = {}
    OBVIOUS
  <2> QED BY <2>1, <2>2 DEF BufferOpened
<1>9. Single(page, 0)
  BY <1>2, Zenon DEF Single
<1>10. \A b : \A S : S \in SUBSET HeldBy(page, b) => Done(page, 0, S) = {}
  BY <1>4 DEF Done
<1>11. EndsSo(page, 0, s)
  <2>1. ShownHeadings(page) \in SUBSET HeldBy(page, "heading")
    BY DEF ShownHeadings
  <2>2. /\ Done(page, 0, HeldBy(page, "title")) = {} /\ Done(page, 0, HeldBy(page, "link")) = {}
        /\ Done(page, 0, ShownHeadings(page)) = {}
    BY <1>10, <2>1
  <2>3. Titled(page, 0, s.title)
    BY <1>1, <2>2 DEF Titled
  <2>4. <<>> \in Seq(Seq(Nat)) /\ Len(<<>>) = 0 /\ <<>> \in Seq([texts : Seq(Nat), offset : Nat])
    OBVIOUS
  <2>5. Linked(page, 0, s.links)
    BY <1>1, <1>5, <2>2, <2>4 DEF Linked
  <2>6. HeadingsKept(page, 0, s.headings)
    BY <1>1, <1>5, <2>2, <2>4 DEF HeadingsKept
  <2> QED BY <2>3, <2>5, <2>6 DEF EndsSo
<1> QED BY <1>1, <1>2, <1>6, <1>7, <1>8, <1>9, <1>11 DEF Reading, s

\* Whether the page has a main element, in no comment, is what its stripped tokens say.
LEMMA MainSeen ==
  ASSUME NEW page \in Seq(PageToken), Plain(page), NEW w, NEW st, Phases(page, w, st)
  PROVE  SawMain(page, Strip(page)) = InMain(page)
<1> DEFINE N == Len(page)
<1>1. /\ Nested(page, Around(page), Stacks(page)) /\ Strip(page) \in Seq(Nat)
      /\ Range(Strip(page)) = Kept(page, w, N)
  BY Zenon DEF Plain, Phases
<1>2. \A n \in 0 .. N : WithinSo(page, w[n], n)
  BY <1>1, PageSteps
<1>3. SawMain(page, Strip(page)) <=> \E i \in Kept(page, w, N) : page[i].kind = "open" /\ IsMain(page[i])
  <2> DEFINE q == Strip(page)
  <2>1. DOMAIN q = 1 .. Len(q)
    BY <1>1
  <2> HIDE DEF q
  <2>2. SawMain(page, q) <=> \E i \in Range(q) : page[i].kind = "open" /\ IsMain(page[i])
    BY <2>1 DEF SawMain, Range
  <2> QED BY <1>1, <2>2 DEF q
<1>4. ASSUME NEW i \in DOMAIN page, page[i].kind = "open"
      PROVE  w[i - 1] = "" <=> \A k \in Around(page)[i] : page[k].kind = "open"
  <2>1. i - 1 \in Nat /\ (i - 1) + 1 = i /\ i <= N /\ i - 1 \in 0 .. N
    OBVIOUS
  <2>2. Moved(page, i - 1)
    BY <1>1, <2>1, PageMoves
  <2>3. ~ Stops(page[i])
    BY <1>4 DEF Stops
  <2>4. Around(page)[i] = OnStack(page, i - 1)
    BY <2>1, <2>2, <2>3 DEF Moved
  <2>5. WithinSo(page, w[i - 1], i - 1)
    BY <1>2, <2>1
  <2>6. "opener" # "open"
    OBVIOUS
  <2> QED BY <2>4, <2>5, <2>6, Zenon DEF WithinSo
<1>5. ASSUME NEW i \in DOMAIN page, page[i].kind = "open", \A k \in Around(page)[i] : page[k].kind = "open"
      PROVE  IsMain(page[i]) <=> page[i].name = "main"
  <2>1. PlainAt(page, i)
    BY <1>5, PlainElements
  <2> QED BY <2>1, Zenon DEF PlainAt, IsMain
<1>6. \A i : i \in Kept(page, w, N) <=> i \in DOMAIN page /\ w[i - 1] = "" /\ page[i].kind # "opener"
  <2>1. DOMAIN page = 1 .. N
    OBVIOUS
  <2> QED BY <2>1 DEF Kept
<1>7. InMain(page) <=> \E i \in DOMAIN page : /\ page[i].kind = "open" /\ page[i].name = "main"
                                              /\ \A k \in Around(page)[i] : page[k].kind = "open"
  BY DEF InMain, Elements
<1> HIDE DEF N
<1>8. (\E i \in Kept(page, w, N) : page[i].kind = "open" /\ IsMain(page[i])) <=> InMain(page)
  <2>1. ASSUME NEW i \in Kept(page, w, N), page[i].kind = "open", IsMain(page[i]) PROVE InMain(page)
    BY <1>4, <1>5, <1>6, <1>7, <2>1, Zenon
  <2>2. ASSUME NEW i \in DOMAIN page, page[i].kind = "open", page[i].name = "main",
               \A k \in Around(page)[i] : page[k].kind = "open"
        PROVE  i \in Kept(page, w, N) /\ IsMain(page[i])
    BY <1>4, <1>5, <1>6, <2>2, Zenon
  <2> QED BY <1>7, <2>1, <2>2
<1>9. SawMain(page, Strip(page)) \in BOOLEAN /\ InMain(page) \in BOOLEAN
  BY DEF SawMain, InMain
<1> QED BY <1>3, <1>8, <1>9

\* Every page that is plain is read as what it shows: its text, its main content, its
\* title, links and headings, and the offsets of these (html.ts extractHtml).
THEOREM PagesReadPlainly ==
  \A page \in Seq(PageToken) : Plain(page) => ShowsOnly(page)
<1> SUFFICES ASSUME NEW page \in Seq(PageToken), Plain(page) PROVE ShowsOnly(page)
  OBVIOUS
<1> DEFINE N == Len(page)
<1>1. N \in Nat /\ Nested(page, Around(page), Stacks(page))
  <2>1. N \in Nat
    OBVIOUS
  <2>2. Nested(page, Around(page), Stacks(page))
    BY Zenon DEF Plain
  <2> QED BY <2>1, <2>2
<1>2. PICK w, st : Phases(page, w, st)
  BY <1>1, PageRead
<1> DEFINE saw == SawMain(page, Strip(page))
           P == {n \in Nat : n <= N => Reading(page, n, st[n])}
<1>3. saw = InMain(page) /\ \A n \in Nat : n + 1 <= N => Move(page, n, saw, st[n], st[n + 1])
  BY <1>1, <1>2, MainSeen, PageSteps
<1> HIDE DEF saw
<1>4. 0 \in P
  <2>1. st[0] = Blank
    BY <1>2, Zenon DEF Phases
  <2> QED BY <2>1, ReadingStarts
<1>5. \A n \in Nat : n \in P => n + 1 \in P
  <2> SUFFICES ASSUME NEW n \in Nat, n \in P, n + 1 <= N PROVE Reading(page, n + 1, st[n + 1])
    OBVIOUS
  <2>1. Reading(page, n, st[n])
    BY <1>1
  <2> QED BY <1>3, <2>1, ReadingNext
<1> HIDE DEF P
<1>6. N \in P
  BY <1>1, <1>4, <1>5, EveryNumber
<1> DEFINE s == ExtractHtml(page)
<1>7. Reading(page, N, s)
  <2>1. s = st[N]
    BY <1>2, Zenon DEF Phases
  <2> HIDE DEF s
  <2> QED BY <1>1, <1>6, <2>1 DEF P
<1> HIDE DEF s
<1>8. Live(page, N) = {}
  <2>1. OnStack(page, N) = {}
    BY <1>1, PageMoves
  <2> QED BY <2>1 DEF Live
<1>9. \A S : S \in SUBSET (1 .. N) => Upto(S, N) = S
  <2>1. \A i \in 1 .. N : i <= N
    OBVIOUS
  <2> QED BY <2>1 DEF Upto
<1>10. /\ Upto(Seen(page), N) = Seen(page) /\ Upto(Content(page), N) = Content(page)
       /\ \A b : \A S : S \in SUBSET HeldBy(page, b) => Done(page, N, S) = S
  <2> HIDE DEF N
  <2>1. /\ Seen(page) \in SUBSET (1 .. N) /\ Content(page) \in SUBSET (1 .. N)
        /\ \A b : HeldBy(page, b) \in SUBSET (1 .. N)
    BY PlacesOnly DEF N
  <2> QED BY <1>8, <1>9, <2>1 DEF Done
<1>11. Told(page, N, s) /\ Titled(page, N, s.title) /\ Linked(page, N, s.links) /\ HeadingsKept(page, N, s.headings)
  BY <1>7 DEF Reading, EndsSo
<1> DEFINE titles == Elements(page, Around(page), {"title"})
           links == Elements(page, Around(page), {"a"})
           headings == {e \in Elements(page, Around(page), HeadingTags) :
                          TextsIn(page, Around(page), e) # {} /\ Outside(page, Around(page)[e])}
<1>12. HeldBy(page, "title") = titles /\ HeldBy(page, "link") = links /\ ShownHeadings(page) = headings
  BY PlacesOnly DEF ShownHeadings, Inside
<1>13. Done(page, N, titles) = titles /\ Done(page, N, links) = links /\ Done(page, N, headings) = headings
  <2>1. ShownHeadings(page) \in SUBSET HeldBy(page, "heading")
    BY DEF ShownHeadings
  <2> HIDE DEF titles, links, headings
  <2> QED BY <1>10, <1>12, <2>1
<1>14. Lists(s.full, Seen(page)) /\ Lists(s.main, Content(page))
  BY <1>10, <1>11 DEF Told
<1> HIDE DEF titles, links, headings
<1>15. /\ titles = {} => s.title = <<>>
       /\ \A e \in titles : (\A d \in titles : d <= e) => Lists(s.title, Inside(page, e))
  BY <1>11, <1>12, <1>13 DEF Titled
<1>16. /\ Len(s.links) = Cardinality(links)
       /\ \A e \in links : Lists(s.links[Cardinality(Upto(links, e))], Inside(page, e))
  BY <1>11, <1>12, <1>13 DEF Linked
<1>17. /\ Len(s.headings) = Cardinality(headings)
       /\ \A e \in headings : HeadingSo(page, e, s.headings[Cardinality(Upto(headings, e))])
  BY <1>11, <1>12, <1>13 DEF HeadingsKept
<1>18. ShowsOnly(page) <=>
         LET Nth(S, e) == Cardinality(Upto(S, e))
         IN  /\ Lists(s.full, Seen(page)) /\ Lists(s.main, Content(page))
             /\ titles = {} => s.title = <<>>
             /\ \A e \in titles : (\A d \in titles : d <= e) => Lists(s.title, Inside(page, e))
             /\ Len(s.links) = Cardinality(links)
             /\ \A e \in links : Lists(s.links[Nth(links, e)], Inside(page, e))
             /\ Len(s.headings) = Cardinality(headings)
             /\ \A e \in headings : HeadingSo(page, e, s.headings[Nth(headings, e)])
  BY DEF ShowsOnly, s, titles, links, headings, Seen, Content, Inside, HeadingSo, Upto
<1> QED BY <1>14, <1>15, <1>16, <1>17, <1>18


-----------------------------------------------------------------------------
(* Html: the pages of the tasks *)

\* Pages one after another, and what a forest of m nodes may begin with.
Following(A, B) == {first \o rest : first \in A, rest \in B}
Enclosed(p, page) == <<p.before>> \o page \o <<p.after>>
FirstOf(g, leaves, k) ==
  IF k = 1 THEN leaves ELSE {Enclosed(p, page) : p \in Pairs, page \in g[k - 1]}
ForestOf(g, leaves, m) ==
  IF m = 0 THEN {<<>>} ELSE UNION {Following(FirstOf(g, leaves, k), g[m - k]) : k \in 1 .. m}

\* A forest depends on the smaller ones only.
LEMMA ForestsAgree ==
  ASSUME NEW leaves, NEW m \in Nat, NEW g, NEW h, \A k \in 0 .. m - 1 : h[k] = g[k]
  PROVE  ForestOf(h, leaves, m) = ForestOf(g, leaves, m)
<1>1. ASSUME NEW k \in 1 .. m
      PROVE  Following(FirstOf(h, leaves, k), h[m - k]) = Following(FirstOf(g, leaves, k), g[m - k])
  <2>1. m - k \in 0 .. m - 1 /\ k - 1 \in 0 .. m - 1
    OBVIOUS
  <2>2. h[m - k] = g[m - k] /\ h[k - 1] = g[k - 1]
    BY <2>1
  <2>3. FirstOf(h, leaves, k) = FirstOf(g, leaves, k)
    BY <2>2 DEF FirstOf
  <2> QED BY <2>2, <2>3
<1> DEFINE a(k) == Following(FirstOf(h, leaves, k), h[m - k])
           b(k) == Following(FirstOf(g, leaves, k), g[m - k])
<1>2. \A k \in 1 .. m : a(k) = b(k)
  BY <1>1
<1>3. /\ ForestOf(h, leaves, m) = IF m = 0 THEN {<<>>} ELSE UNION {a(k) : k \in 1 .. m}
      /\ ForestOf(g, leaves, m) = IF m = 0 THEN {<<>>} ELSE UNION {b(k) : k \in 1 .. m}
  BY DEF ForestOf
<1> HIDE DEF a, b
<1>4. {a(k) : k \in 1 .. m} = {b(k) : k \in 1 .. m}
  BY <1>2
<1> QED BY <1>3, <1>4

LEMMA PagesGrow ==
  ASSUME NEW n \in Nat, NEW leaves
  PROVE  \E g : g = [m \in 0 .. n |-> ForestOf(g, leaves, m)] /\ Pages(n, leaves) = g[n]
<1> DEFINE Turns(g, N) == g = [m \in 0 .. N |-> ForestOf(g, leaves, m)]
           P == {N \in Nat : \E g : Turns(g, N)}
<1>1. 0 \in P
  <2> DEFINE g == [m \in 0 .. 0 |-> {<<>>}]
  <2>1. Turns(g, 0)
    BY DEF ForestOf
  <2> HIDE DEF Turns
  <2> QED BY <2>1
<1>2. ASSUME NEW N \in Nat, N \in P PROVE N + 1 \in P
  <2>1. PICK g : Turns(g, N)
    BY <1>2
  <2> DEFINE next == ForestOf(g, leaves, N + 1)
             h == [m \in 0 .. N + 1 |-> IF m = N + 1 THEN next ELSE g[m]]
  <2>2. \A m \in 0 .. N : g[m] = ForestOf(g, leaves, m)
    BY <2>1
  <2>3. \A m \in 0 .. N + 1 : h[m] = ForestOf(h, leaves, m)
    <3> TAKE m \in 0 .. N + 1
    <3> HIDE DEF next, Turns
    <3>1. \A k \in 0 .. m - 1 : h[k] = g[k]
      OBVIOUS
    <3>2. ForestOf(h, leaves, m) = ForestOf(g, leaves, m)
      <4> HIDE DEF h
      <4> QED BY <3>1, ForestsAgree
    <3>3. CASE m = N + 1
      BY <3>2, <3>3 DEF next
    <3>4. CASE m # N + 1
      <4>1. m \in 0 .. N
        BY <3>4
      <4>2. h[m] = g[m]
        BY <3>4
      <4> HIDE DEF h
      <4> QED BY <2>2, <3>2, <4>1, <4>2
    <3> QED BY <3>3, <3>4
  <2>4. Turns(h, N + 1)
    BY <2>3
  <2> HIDE DEF Turns
  <2> QED BY <2>4
<1> HIDE DEF P
<1>3. n \in P
  BY <1>1, <1>2, EveryNumber
<1>4. \E g : Turns(g, n)
  BY <1>3 DEF P
<1> DEFINE best == CHOOSE g : Turns(g, n)
<1>5. Pages(n, leaves) = best[n]
  BY DEF Pages, ForestOf, Following, FirstOf, Enclosed
<1>6. Turns(best, n)
  <2> HIDE DEF Turns
  <2> QED BY <1>4
<1> HIDE DEF best
<1> QED BY <1>5, <1>6

\* The tokens that the tasks are made of.
LEMMA TokensAre ==
  /\ Text \in PageToken
  /\ \A c \in {"comment", "cdata", "doctype"} : Opener(c) \in PageToken /\ Closer(c) \in PageToken
  /\ \A kind \in {"open", "close"}, name \in TagName, hidden \in BOOLEAN, role \in Role, void \in BOOLEAN :
       Tag(kind, name, hidden, role, void) \in PageToken
<1>1. \A c \in {"comment", "cdata", "doctype"} : Opener(c) \in PageToken /\ Closer(c) \in PageToken
  BY DEF Opener, Closer, PageToken
<1>2. ASSUME NEW kind \in {"open", "close"}, NEW name \in TagName, NEW hidden \in BOOLEAN,
             NEW role \in Role, NEW void \in BOOLEAN
      PROVE  Tag(kind, name, hidden, role, void) \in PageToken
  BY DEF Tag, PageToken
<1> QED BY <1>1, <1>2 DEF PageToken

LEMMA FollowingIn ==
  ASSUME NEW A, NEW B, NEW S, \A a \in A : \A b \in B : a \o b \in S
  PROVE  Following(A, B) \subseteq S
<1> SUFFICES ASSUME NEW x \in Following(A, B) PROVE x \in S
  OBVIOUS
<1>1. PICK a \in A, b \in B : x = a \o b
  BY DEF Following
<1> QED BY <1>1, Zenon

\* Whatever the pages are made of, they are sequences of tokens.
LEMMA PagesAreTokens ==
  ASSUME NEW n \in Nat, NEW leaves, leaves \subseteq Seq(PageToken)
  PROVE  Pages(n, leaves) \subseteq Seq(PageToken)
<1>1. PICK g : g = [m \in 0 .. n |-> ForestOf(g, leaves, m)] /\ Pages(n, leaves) = g[n]
  BY PagesGrow
<1>2. \A m \in 0 .. n : g[m] = ForestOf(g, leaves, m)
  BY <1>1
<1>3. \A p \in Pairs : p.before \in PageToken /\ p.after \in PageToken
  <2> TAKE p \in Pairs
  <2>1. CASE p = [before |-> Opener("comment"), after |-> Closer("comment")]
    BY <2>1, TokensAre
  <2>2. ASSUME NEW name \in TagName, NEW hidden \in BOOLEAN, NEW role \in Role, p = Pair(name, hidden, role)
        PROVE  p.before \in PageToken /\ p.after \in PageToken
    <3>1. /\ Tag("open", name, hidden, role, FALSE) \in PageToken
          /\ Tag("close", name, FALSE, "", FALSE) \in PageToken
      <4>1. "" \in Role
        BY Zenon DEF Role
      <4>2. FALSE \in BOOLEAN /\ "open" \in {"open", "close"} /\ "close" \in {"open", "close"}
        BY Zenon
      <4> QED BY <4>1, <4>2, TokensAre, Zenon
    <3>2. /\ p.before = Tag("open", name, hidden, role, FALSE)
          /\ p.after = Tag("close", name, FALSE, "", FALSE)
      BY <2>2, Zenon DEF Pair
    <3> QED BY <3>1, <3>2, Zenon
  <2>3. \/ p = Pair("div", FALSE, "") \/ p = Pair("div", TRUE, "") \/ p = Pair("span", TRUE, "")
        \/ p = Pair("script", FALSE, "") \/ p = Pair("nav", FALSE, "navigation")
        \/ p = Pair("main", FALSE, "") \/ p = Pair("h2", FALSE, "") \/ p = Pair("a", FALSE, "")
        \/ p = Pair("title", FALSE, "")
        \/ p = [before |-> Opener("comment"), after |-> Closer("comment")]
    BY Zenon DEF Pairs
  <2>4. FALSE \in BOOLEAN /\ TRUE \in BOOLEAN
    BY Zenon
  <2>5. /\ {"div", "span", "script", "nav", "main", "h2", "a", "title"} \subseteq TagName
        /\ "" \in Role /\ "navigation" \in Role
    BY DEF TagName, Role
  <2> QED BY <2>1, <2>2, <2>3, <2>4, <2>5, Zenon
<1> DEFINE S == Seq(PageToken)
           Grown2(m) == m \in 0 .. n => g[m] \subseteq S
           P == {N \in Nat : \A m \in 0 .. N : Grown2(m)}
<1>4. ASSUME NEW m \in 0 .. n, \A k \in 0 .. m - 1 : g[k] \subseteq S
      PROVE  ForestOf(g, leaves, m) \subseteq S
  <2>1. <<>> \in S
    OBVIOUS
  <2>2. ASSUME NEW k \in 1 .. m PROVE Following(FirstOf(g, leaves, k), g[m - k]) \subseteq S
    <3>1. m - k \in 0 .. m - 1 /\ k - 1 \in 0 .. m - 1
      OBVIOUS
    <3>2. g[m - k] \subseteq S /\ g[k - 1] \subseteq S
      BY <1>4, <3>1
    <3>3. ASSUME k # 1, NEW p \in Pairs, NEW page \in g[k - 1]
          PROVE  Enclosed(p, page) \in S
      <4>1. page \in Seq(PageToken) /\ p.before \in PageToken /\ p.after \in PageToken
        BY <1>3, <3>1, <3>2 DEF S
      <4> DEFINE x == p.before
                 y == p.after
      <4> HIDE DEF x, y
      <4>2. x \in PageToken /\ y \in PageToken
        BY <4>1 DEF x, y
      <4>3. <<x>> \in Seq(PageToken) /\ <<y>> \in Seq(PageToken)
        BY <4>2
      <4>4. <<x>> \o page \o <<y>> \in Seq(PageToken)
        BY <4>1, <4>3
      <4> QED BY <4>4 DEF x, y, S, Enclosed
    <3> HIDE DEF S
    <3>4. FirstOf(g, leaves, k) \subseteq S
      <4>1. CASE k = 1
        BY <4>1 DEF FirstOf, S
      <4>2. CASE k # 1
        <5>1. \A p \in Pairs : \A page \in g[k - 1] : Enclosed(p, page) \in S
          BY <3>3, <4>2, Zenon
        <5> QED BY <4>2, <5>1 DEF FirstOf
      <4> QED BY <4>1, <4>2, Zenon
    <3>5. \A a \in FirstOf(g, leaves, k) : \A b \in g[m - k] : a \o b \in S
      <4> HIDE DEF PageToken
      <4> DEFINE A == FirstOf(g, leaves, k)
                 B == g[m - k]
      <4>1. A \subseteq Seq(PageToken) /\ B \subseteq Seq(PageToken)
        BY <3>2, <3>4 DEF S
      <4> HIDE DEF A, B
      <4>2. \A a \in A : \A b \in B : a \o b \in Seq(PageToken)
        BY <4>1
      <4> QED BY <4>2 DEF A, B, S
    <3> QED BY <3>5, FollowingIn
  <2> HIDE DEF S
  <2> QED BY <2>1, <2>2 DEF ForestOf
<1> HIDE DEF S
<1>5. 0 \in P
  <2>1. g[0] \subseteq S
    BY <1>2, <1>4
  <2> QED BY <2>1
<1>6. ASSUME NEW N \in Nat, N \in P PROVE N + 1 \in P
  <2>1. ASSUME NEW m \in 0 .. N + 1, m \in 0 .. n PROVE g[m] \subseteq S
    <3>1. \A k \in 0 .. m - 1 : g[k] \subseteq S
      <4> TAKE k \in 0 .. m - 1
      <4>1. k \in 0 .. N /\ k \in 0 .. n
        BY <2>1
      <4> QED BY <1>6, <4>1
    <3> QED BY <1>2, <1>4, <2>1, <3>1
  <2> HIDE DEF Grown2
  <2>2. \A m \in 0 .. N + 1 : Grown2(m)
    BY <2>1 DEF Grown2
  <2> QED BY <2>2
<1> HIDE DEF P
<1>7. n \in P
  BY <1>5, <1>6, EveryNumber
<1>8. g[n] \subseteq S
  BY <1>7 DEF P
<1> QED BY <1>1, <1>8 DEF S

LEMMA TaskHtmlPages ==
  ASSUME NEW t \in HtmlTasks
  PROVE  t.page \in Seq(PageToken)
<1> DEFINE more == Others \cup {<<Text>>}
           texts == {<<Text>>}
<1>1. Text \in PageToken /\ Opener("doctype") \in PageToken /\ Closer("doctype") \in PageToken
      /\ Tag("open", "br", TRUE, "", TRUE) \in PageToken
  <2>1. /\ "" \in Role /\ "br" \in TagName /\ "open" \in {"open", "close"}
        /\ "doctype" \in {"comment", "cdata", "doctype"}
    BY DEF TagName, Role
  <2>2. TRUE \in BOOLEAN
    BY Zenon
  <2> QED BY <2>1, <2>2, TokensAre, Zenon
<1>2. <<Text>> \in Seq(PageToken) /\ <<Opener("doctype"), Closer("doctype")>> \in Seq(PageToken)
      /\ <<Tag("open", "br", TRUE, "", TRUE)>> \in Seq(PageToken)
  <2> DEFINE a == Text
             b == Opener("doctype")
             c == Closer("doctype")
             d == Tag("open", "br", TRUE, "", TRUE)
  <2>1. a \in PageToken /\ b \in PageToken /\ c \in PageToken /\ d \in PageToken
    BY <1>1, Zenon
  <2> HIDE DEF a, b, c, d
  <2>2. <<a>> \in Seq(PageToken) /\ <<b, c>> \in Seq(PageToken) /\ <<d>> \in Seq(PageToken)
    BY <2>1
  <2> QED BY <2>2, Zenon DEF a, b, c, d
<1>3. more \subseteq Seq(PageToken) /\ texts \subseteq Seq(PageToken)
  BY <1>2, Zenon DEF Others
<1> HIDE DEF more, texts
<1>4. Pages(4, more) \subseteq Seq(PageToken) /\ Pages(5, texts) \subseteq Seq(PageToken)
  BY <1>3, PagesAreTokens
<1>5. PICK page \in Pages(4, more) \cup Pages(5, texts) : t = [of |-> "html", page |-> page]
  BY DEF HtmlTasks, more, texts
<1>6. page \in Seq(PageToken)
  BY <1>4
<1> QED BY <1>5, <1>6

\* In particular what is extracted from the pages of the tasks is what they show
\* (html.ts extractHtml).
THEOREM TasksShowOnly == Spec => []EvidenceIsVisible
<1> DEFINE Right == task.of = "html" => task \in HtmlTasks
<1>1. Init => Right
  BY DEF Init, RobotsTasks, ChunkTasks, GroundingTasks, GateTasks, ReadinessTasks, ReportTasks,
         RenderTasks, AccessTasks
<1>2. Right /\ [Next]_<<task, answer>> => Right'
  BY DEF Next, Run
<1>3. Right => EvidenceIsVisible
  <2> SUFFICES ASSUME Right, Answered("html"), Plain(task.page) PROVE ShowsOnly(task.page)
    BY DEF EvidenceIsVisible
  <2>1. task \in HtmlTasks
    BY DEF Answered
  <2> QED BY <2>1, TaskHtmlPages, PagesReadPlainly
<1> QED BY <1>1, <1>2, <1>3, PTL DEF Spec
=============================================================================
