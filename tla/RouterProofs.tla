---------------------------- MODULE RouterProofs ---------------------------
(***************************************************************************)
(* What the model router asks and what it spends, for any registry, any    *)
(* adapters and prices, any number of calls that overlap, and whatever     *)
(* withdraws a model under them.                                           *)
(***************************************************************************)
EXTENDS ModelRouter, FiniteSetTheorems, SequenceTheorems, WellFoundedInduction, TLAPS

-----------------------------------------------------------------------------
(* The inductive invariant *)

CallStep == {"idle", "asking", "meter_answer", "meter_failure", "audit_answer", "audit_failure"}

CallRow == [step : CallStep, need : Need, class : Class \cup {None}, plan : Seq(Model),
            attempt : Nat, cost : Cost, withdrawn : SUBSET Model]

RouterTypeOK ==
  /\ call \in [Call -> CallRow]
  /\ registry \in [Model -> Row \cup {None}]
  /\ change # None => change.model \in Model /\ change.row \in Row

\* The candidate a call has come to is one of its plan, and all candidates of the plan
\* were allowed for its class when the plan was made, or have been withdrawn since.
PlanSound(k) ==
  k.step # "idle" =>
    /\ k.attempt \in 1 .. Len(k.plan)
    /\ \A i \in 1 .. Len(k.plan) :
         Allowed(registry[k.plan[i]], k.class) \/ k.plan[i] \in k.withdrawn

RouterInv == RouterTypeOK /\ \A r \in Call : PlanSound(call[r])

-----------------------------------------------------------------------------
(* Plans *)

\* A ranking of finitely many candidates is a sequence of them, and not empty.
LEMMA RankingType ==
  ASSUME NEW S \in SUBSET Model, S # {}, NEW s \in Rankings(S)
  PROVE  s \in Seq(S) /\ Len(s) >= 1
<1>1. IsFiniteSet(S) /\ Cardinality(S) \in Nat \ {0}
  <2>1. IsFiniteSet(S)
    BY ModelAssumption, FS_Subset
  <2> QED BY <2>1, FS_EmptySet, FS_CardinalityType
<1>2. CASE s \in SetToSeqs(S)
  <2>1. s \in [1 .. Cardinality(S) -> S]
    BY <1>2 DEF SetToSeqs
  <2> QED BY <1>1, <2>1
<1>3. CASE \E m \in S : s = <<m>>
  BY <1>3
<1> QED BY <1>2, <1>3 DEF Rankings

\* The smaller of two numbers is one of them and above neither (FiniteSetsExt Min).
LEMMA MinOfTwo ==
  ASSUME NEW m \in Nat, NEW n \in Nat
  PROVE  Min({m, n}) \in {m, n} /\ Min({m, n}) <= m /\ Min({m, n}) <= n
<1>1. \E x \in {m, n} : \A y \in {m, n} : x <= y
  BY SMT
<1> QED BY <1>1 DEF Min

\* The candidates that are tried are the first of the ranking, one at least.
LEMMA TriedType ==
  ASSUME NEW S, NEW s \in Seq(S), Len(s) >= 1, NEW need
  PROVE  /\ Tried(need, s) \in Seq(S) /\ Len(Tried(need, s)) \in 1 .. MaxAttempts
         /\ \A i \in 1 .. Len(Tried(need, s)) : Tried(need, s)[i] \in S
<1> DEFINE k == IF need = "chat" THEN MaxAttempts ELSE 1
           n == Min({Len(s), k})
<1>1. k \in Nat \ {0} /\ k <= MaxAttempts /\ MaxAttempts \in Nat /\ Len(s) \in Nat
  BY BudgetAssumption
<1>2. n \in 1 .. Len(s) /\ n <= MaxAttempts
  BY <1>1, MinOfTwo
<1>3. Tried(need, s) = SubSeq(s, 1, n)
  BY DEF Tried
<1> HIDE DEF n
<1>4. /\ SubSeq(s, 1, n) \in Seq(S) /\ Len(SubSeq(s, 1, n)) = n
      /\ \A i \in 1 .. n : SubSeq(s, 1, n)[i] = s[i]
  BY <1>2, SubSeqProperties
<1> QED BY <1>2, <1>3, <1>4

-----------------------------------------------------------------------------
(* The steps keep it *)

\* No call is a call.
LEMMA NoCallType == NoCall \in CallRow
BY DEF NoCall, CallRow, CallStep, Need, Cost

\* A step of one call keeps the invariant when the call stays sound.
LEMMA CallStepInv ==
  ASSUME RouterInv, NEW r \in Call, NEW k \in CallRow, PlanSound(k),
         call' = [call EXCEPT ![r] = k], UNCHANGED registers
  PROVE  RouterInv'
<1>1. RouterTypeOK'
  BY DEF RouterInv, RouterTypeOK, registers
<1>2. \A q \in Call : call'[q] = IF q = r THEN k ELSE call[q]
  BY DEF RouterInv, RouterTypeOK
<1>3. ASSUME NEW q \in Call PROVE PlanSound(call[q])' 
  <2>1. PlanSound(call'[q])
    BY <1>2 DEF RouterInv
  <2> QED BY <2>1 DEF PlanSound, registers
<1> QED BY <1>1, <1>3 DEF RouterInv

\* The plan that a call starts with is of models allowed for its class.
LEMMA BeginInv ==
  ASSUME RouterInv, NEW r \in Call, NEW need \in Need, NEW class \in Class, Begin(r, need, class)
  PROVE  RouterInv'
<1> DEFINE S == Candidates(need, class)
<1>1. PICK s \in Rankings(S) :
        call' = [call EXCEPT ![r] = [NoCall EXCEPT !.step = "asking", !.need = need,
                   !.class = class, !.plan = Tried(need, s), !.attempt = 1]]
  BY DEF Begin
<1>2. S # {} /\ UNCHANGED registers
  BY DEF Begin
<1>3. S \in SUBSET Model /\ \A m \in S : Allowed(registry[m], class)
  BY DEF Candidates
<1> DEFINE plan == Tried(need, s)
           k == [NoCall EXCEPT !.step = "asking", !.need = need, !.class = class,
                               !.plan = plan, !.attempt = 1]
<1> HIDE DEF S
<1>4. /\ plan \in Seq(S) /\ Len(plan) >= 1 /\ \A i \in 1 .. Len(plan) : plan[i] \in S
  <2>1. s \in Seq(S) /\ Len(s) >= 1
    BY <1>2, <1>3, RankingType
  <2> QED BY <2>1, TriedType
<1> HIDE DEF plan
<1>5. plan \in Seq(Model)
  BY <1>3, <1>4
<1>6. k \in CallRow
  BY <1>5, NoCallType DEF CallRow, CallStep, NoCall
<1>7. k.plan = plan /\ k.class = class /\ k.attempt = 1
  BY DEF NoCall
<1>8. PlanSound(k)
  BY <1>3, <1>4, <1>7 DEF PlanSound
<1>9. call' = [call EXCEPT ![r] = k]
  BY <1>1 DEF plan
<1> HIDE DEF k
<1> QED BY <1>2, <1>6, <1>8, <1>9, CallStepInv

\* A call that goes on with the same candidate, or ends, stays sound.
LEMMA GoesOnInv ==
  ASSUME RouterInv, NEW r \in Call, NEW k, call' = [call EXCEPT ![r] = k], UNCHANGED registers,
         call[r].step # "idle",
         \/ k = NoCall
         \/ \E step \in CallStep, cost \in Cost : k = [call[r] EXCEPT !.step = step, !.cost = cost]
  PROVE  RouterInv'
<1>1. call[r] \in CallRow /\ PlanSound(call[r])
  BY DEF RouterInv, RouterTypeOK
<1>2. CASE k = NoCall
  <2>1. k \in CallRow /\ k.step = "idle"
    BY <1>2, NoCallType DEF NoCall
  <2> QED BY <2>1, CallStepInv DEF PlanSound
<1>3. ASSUME NEW step \in CallStep, NEW cost \in Cost,
             k = [call[r] EXCEPT !.step = step, !.cost = cost]
      PROVE  RouterInv'
  <2>1. /\ k \in CallRow /\ k.plan = call[r].plan /\ k.class = call[r].class
        /\ k.attempt = call[r].attempt /\ k.withdrawn = call[r].withdrawn
    BY <1>1, <1>3 DEF CallRow
  <2>2. PlanSound(k)
    BY <1>1, <2>1 DEF PlanSound
  <2> QED BY <2>1, <2>2, CallStepInv
<1> QED BY <1>2, <1>3

\* After a failure the call comes to the next candidate, if there is one.
LEMMA AuditFailureInv ==
  ASSUME RouterInv, NEW r \in Call, AuditFailure(r)
  PROVE  RouterInv'
<1> DEFINE c == call[r]
           k == [c EXCEPT !.step = "asking", !.attempt = @ + 1]
<1>1. /\ c.step = "audit_failure" /\ UNCHANGED registers
      /\ call' = [call EXCEPT ![r] = NextAttempt(c)]
  BY DEF AuditFailure
<1>2. c \in CallRow /\ PlanSound(c)
  BY DEF RouterInv, RouterTypeOK
<1>3. CASE ~(c.attempt < Len(c.plan))
  BY <1>1, <1>3, GoesOnInv DEF NextAttempt
<1>4. CASE c.attempt < Len(c.plan)
  <2>1. PICK n \in Nat : n = c.attempt + 1
    BY <1>2 DEF CallRow
  <2>2. k = [c EXCEPT !.step = "asking", !.attempt = n] /\ "asking" \in CallStep
    BY <2>1 DEF CallStep
  <2>3. /\ k \in CallRow /\ k.plan = c.plan /\ k.class = c.class
        /\ k.attempt = n /\ k.withdrawn = c.withdrawn
    BY <1>2, <2>2 DEF CallRow
  <2>4. Len(c.plan) \in Nat /\ c.attempt \in Nat
    BY <1>2 DEF CallRow
  <2>5. call' = [call EXCEPT ![r] = k]
    BY <1>1, <1>4 DEF NextAttempt
  <2> HIDE DEF k
  <2>6. PlanSound(k)
    BY <1>1, <1>2, <1>4, <2>1, <2>3, <2>4 DEF PlanSound
  <2> QED BY <1>1, <2>3, <2>5, <2>6, CallStepInv
<1> QED BY <1>3, <1>4

\* Every later step of a call keeps it.
LEMMA ContinueInv ==
  ASSUME RouterInv, NEW r \in Call, Continue(r) \/ Crash(r)
  PROVE  RouterInv'
<1> DEFINE c == call[r]
<1>1. c \in CallRow
  BY DEF RouterInv, RouterTypeOK
<1>2. 0 \in Cost /\ c.cost \in Cost /\ c.step \in CallStep
  BY <1>1 DEF Cost, CallRow
<1>3. ASSUME NEW cost \in Cost, Answer(r, cost) PROVE RouterInv'
  <2> DEFINE k == [c EXCEPT !.step = "meter_answer", !.cost = cost]
  <2>1. /\ c.step = "asking" /\ UNCHANGED registers
        /\ call' = [call EXCEPT ![r].step = "meter_answer", ![r].cost = cost]
    BY <1>3 DEF Answer
  <2>2. call' = [call EXCEPT ![r] = k]
    BY <2>1 DEF RouterInv, RouterTypeOK
  <2>3. "meter_answer" \in CallStep
    BY DEF CallStep
  <2> QED BY <2>1, <2>2, <2>3, GoesOnInv
<1>4. CASE AdapterFails(r) \/ WriteFails(r)
  <2>1. /\ c.step # "idle" /\ UNCHANGED registers
        /\ call' = [call EXCEPT ![r] = Caught(c)]
    BY <1>4 DEF AdapterFails, WriteFails
  <2>2. Caught(c) = NoCall \/ Caught(c) = [c EXCEPT !.step = "meter_failure", !.cost = 0]
    BY DEF Caught
  <2>3. "meter_failure" \in CallStep
    BY DEF CallStep
  <2> QED BY <1>2, <2>1, <2>2, <2>3, GoesOnInv
<1>5. CASE Meter(r)
  <2> DEFINE step == IF c.step = "meter_answer" THEN "audit_answer" ELSE "audit_failure"
             k == [c EXCEPT !.step = step, !.cost = c.cost]
  <2>1. /\ c.step # "idle" /\ UNCHANGED registers
        /\ call' = [call EXCEPT ![r].step =
                      IF @ = "meter_answer" THEN "audit_answer" ELSE "audit_failure"]
    BY <1>5 DEF Meter
  <2>2. k = [c EXCEPT !.step = step]
    BY <1>1 DEF CallRow
  <2>3. call' = [call EXCEPT ![r] = k]
    BY <2>1, <2>2 DEF RouterInv, RouterTypeOK
  <2>4. step \in CallStep
    BY DEF CallStep
  <2> HIDE DEF step
  <2> QED BY <1>2, <2>1, <2>3, <2>4, GoesOnInv
<1>6. CASE AuditAnswer(r) \/ Crash(r)
  BY <1>6, GoesOnInv DEF AuditAnswer, Crash
<1> QED BY <1>3, <1>4, <1>5, <1>6, AuditFailureInv DEF Continue

\* A row of the registry that changes withdraws its model from the calls in progress
\* that the new row does not allow it for, and only from those.
LEMMA StoredInv ==
  ASSUME RouterInv, NEW m \in Model, NEW row \in Row, Stored(m, row),
         change' # None => change'.model \in Model /\ change'.row \in Row
  PROVE  RouterInv'
<1>1. registry' \in [Model -> Row \cup {None}]
  BY DEF Stored, RouterInv, RouterTypeOK
<1>2. \A n \in Model : registry'[n] = IF n = m THEN row ELSE registry[n]
  BY DEF Stored, RouterInv, RouterTypeOK
<1>3. ASSUME NEW r \in Call
      PROVE  call'[r] \in CallRow /\ PlanSound(call[r])'
  <2> DEFINE c == call[r]
             k == [c EXCEPT !.withdrawn = @ \cup ({m} \cap Range(c.plan))]
  <2>1. c \in CallRow /\ PlanSound(c) /\ c.plan \in Seq(Model)
    BY DEF RouterInv, RouterTypeOK, CallRow
  <2>2. CASE c.step # "idle" /\ ~Allowed(row, c.class)
    <3>1. call'[r] = k
      BY <2>2 DEF Stored
    <3>2. /\ k \in CallRow /\ k.plan = c.plan /\ k.class = c.class /\ k.attempt = c.attempt
          /\ k.step = c.step /\ k.withdrawn = c.withdrawn \cup ({m} \cap Range(c.plan))
      BY <2>1 DEF CallRow
    <3> HIDE DEF k
    <3>3. \A i \in 1 .. Len(c.plan) : c.plan[i] \in Model /\ c.plan[i] \in Range(c.plan)
      BY <2>1 DEF Range
    <3>4. \A i \in 1 .. Len(c.plan) :
            Allowed(registry'[c.plan[i]], c.class) \/ c.plan[i] \in k.withdrawn
      BY <1>2, <2>1, <2>2, <3>2, <3>3 DEF PlanSound
    <3> QED BY <2>1, <3>1, <3>2, <3>4 DEF PlanSound
  <2>3. CASE c.step = "idle" \/ Allowed(row, c.class)
    <3>1. call'[r] = c
      BY <2>3 DEF Stored
    <3>2. c.step # "idle" =>
            \A i \in 1 .. Len(c.plan) :
              Allowed(registry'[c.plan[i]], c.class) \/ c.plan[i] \in c.withdrawn
      BY <1>2, <2>1, <2>3 DEF PlanSound
    <3> QED BY <2>1, <3>1, <3>2 DEF PlanSound
  <2> QED BY <2>2, <2>3
<1>4. call' \in [Call -> CallRow]
  <2>1. call' = [r \in Call |-> call'[r]]
    BY DEF Stored
  <2> QED BY <1>3, <2>1
<1> QED BY <1>1, <1>3, <1>4 DEF RouterInv, RouterTypeOK

\* What touches neither calls nor registry keeps it.
LEMMA RegistersInv ==
  ASSUME RouterInv, UNCHANGED <<call, registry>>,
         change' # None => change'.model \in Model /\ change'.row \in Row
  PROVE  RouterInv'
BY DEF RouterInv, RouterTypeOK, PlanSound

\* Every step keeps it.
LEMMA NextRouterInv == RouterInv /\ [Next]_vars => RouterInv'
<1> SUFFICES ASSUME RouterInv, [Next]_vars PROVE RouterInv'
  OBVIOUS
<1>1. change # None => change.model \in Model /\ change.row \in Row
  BY DEF RouterInv, RouterTypeOK
<1>2. ASSUME NEW c \in Cost, Elapse(c) PROVE RouterInv'
  BY <1>1, <1>2, RegistersInv DEF Elapse, registers
<1>3. ASSUME NEW m \in Model, NEW row \in Input[m], Upsert(m, row) PROVE RouterInv'
  <2>1. row \in Row
    BY ModelAssumption
  <2> QED BY <1>1, <1>3, <2>1, StoredInv DEF Upsert
<1>4. ASSUME NEW m \in Model, NEW status \in Status, ReadRow(m, status) PROVE RouterInv'
  <2> DEFINE new == [model |-> m, row |-> [registry[m] EXCEPT !.status = status]]
  <2>1. registry[m] \in Row
    BY <1>4 DEF ReadRow, RouterInv, RouterTypeOK
  <2>2. new.model = m /\ new.row \in Row
    BY <2>1 DEF Row
  <2>3. change' = new /\ UNCHANGED <<call, registry>>
    BY <1>4 DEF ReadRow
  <2> HIDE DEF new
  <2> QED BY <2>2, <2>3, RegistersInv
<1>5. CASE WriteRow
  BY <1>1, <1>5, StoredInv DEF WriteRow
<1>6. CASE StatusFails
  BY <1>6, RegistersInv DEF StatusFails
<1>7. CASE UNCHANGED vars
  BY <1>1, <1>7, RegistersInv DEF vars, registers
<1> QED BY <1>2, <1>3, <1>4, <1>5, <1>6, <1>7, BeginInv, ContinueInv DEF Next

\* With no call in progress it holds.
LEMMA InitRouterInv == Init => RouterInv
<1> SUFFICES ASSUME Init PROVE RouterInv
  OBVIOUS
<1>1. RouterTypeOK
  BY NoCallType, ModelAssumption DEF Init, RouterTypeOK
<1>2. \A r \in Call : PlanSound(call[r])
  BY DEF Init, PlanSound, NoCall
<1> QED BY <1>1, <1>2 DEF RouterInv

-----------------------------------------------------------------------------
\* No request reaches a model that the policy does not allow for its data class, with
\* any registry and any number of attempts and calls, unless the model was withdrawn
\* after that very call had begun (router.ts #plan and complete; registers.ts).
THEOREM AskedModelsAllowed == Spec => []OnlyAllowedAsked
<1>1. RouterInv => OnlyAllowedAsked
  BY DEF RouterInv, RouterTypeOK, PlanSound, OnlyAllowedAsked
<1> QED BY <1>1, InitRouterInv, NextRouterInv, PTL DEF Spec

-----------------------------------------------------------------------------
(* Sums *)

\* A set of natural numbers with 0, and with the successor of each of its elements, has
\* all of them.
LEMMA AllNumbers ==
  ASSUME NEW P, 0 \in P, \A n \in Nat : n \in P => n + 1 \in P
  PROVE  \A n \in Nat : n \in P
<1> SUFFICES ASSUME Nat \ P # {} PROVE FALSE
  OBVIOUS
<1>1. PICK n \in Nat \ P : \A m \in Nat \ P : ~ (<<m, n>> \in OpToRel(<, Nat))
  BY NatLessThanWellFounded, WFMin, Zenon
<1>2. \A m \in Nat \ P : ~ (m < n)
  BY <1>1, Zenon DEF OpToRel
<1>3. n # 0 /\ n - 1 \in Nat
  OBVIOUS
<1>4. n - 1 \in P
  BY <1>2, <1>3
<1>5. (n - 1) + 1 \in P
  BY <1>3, <1>4
<1> QED BY <1>3, <1>5

\* The element that a sum takes first.
Some(S) == CHOOSE x \in S : TRUE

\* total has the sum of w over every subset of S, as SumFunctionOnSet builds it up.
Adds(total, w, S) ==
  total = [T \in SUBSET S |-> IF T = {} THEN 0 ELSE w[Some(T)] + total[T \ {Some(T)}]]

\* A finite set that is not empty has a first element, and is larger than what it leaves.
LEMMA SomeLeaves ==
  ASSUME NEW S, IsFiniteSet(S), NEW T \in SUBSET S, T # {}
  PROVE  /\ Some(T) \in T /\ T \ {Some(T)} \in SUBSET S
         /\ Cardinality(T) \in Nat \ {0} /\ Cardinality(T \ {Some(T)}) = Cardinality(T) - 1
<1>1. Some(T) \in T
  BY DEF Some
<1>2. IsFiniteSet(T) /\ Cardinality(T) \in Nat
  BY FS_Subset, FS_CardinalityType
<1> QED BY <1>1, <1>2, FS_RemoveElement, FS_EmptySet

\* There are such totals.
LEMMA TotalsExist ==
  ASSUME NEW S, IsFiniteSet(S), NEW w \in [S -> Nat]
  PROVE  \E total : Adds(total, w, S)
<1> DEFINE Turn(g, T) == IF T = {} THEN 0 ELSE w[Some(T)] + g[T \ {Some(T)}]
           Right(g, n) == \A T \in SUBSET S : Cardinality(T) <= n => g[T] = Turn(g, T)
           P == {n \in Nat : \E g \in [SUBSET S -> Nat] : Right(g, n)}
<1>1. 0 \in P
  <2> DEFINE g == [T \in SUBSET S |-> 0]
  <2>1. ASSUME NEW T \in SUBSET S, Cardinality(T) <= 0 PROVE T = {}
    <3>1. T # {} => Cardinality(T) \in Nat \ {0}
      BY SomeLeaves
    <3> QED BY <2>1, <3>1
  <2>2. Right(g, 0)
    BY <2>1
  <2> QED BY <2>2
<1>2. ASSUME NEW n \in Nat, n \in P PROVE n + 1 \in P
  <2>1. PICK g \in [SUBSET S -> Nat] : Right(g, n)
    BY <1>2
  <2> DEFINE h == [T \in SUBSET S |-> IF Cardinality(T) = n + 1 THEN Turn(g, T) ELSE g[T]]
  <2>2. h \in [SUBSET S -> Nat]
    <3>1. ASSUME NEW T \in SUBSET S PROVE Turn(g, T) \in Nat
      <4>1. T # {} => Some(T) \in S /\ T \ {Some(T)} \in SUBSET S
        BY SomeLeaves
      <4>2. T # {} => w[Some(T)] \in Nat /\ g[T \ {Some(T)}] \in Nat
        BY <4>1
      <4> QED BY <4>2
    <3> QED BY <3>1
  <2>3. ASSUME NEW T \in SUBSET S, Cardinality(T) <= n + 1 PROVE h[T] = Turn(h, T)
    <3>1. CASE T = {}
      <4>1. Cardinality(T) = 0 /\ Cardinality(T) <= n
        BY <3>1, FS_EmptySet
      <4> QED BY <2>1, <3>1, <4>1
    <3>2. CASE T # {}
      <4>1. PICK U \in SUBSET S : U = T \ {Some(T)}
        BY <3>2, SomeLeaves
      <4>2. /\ Cardinality(T) \in Nat \ {0} /\ Cardinality(U) = Cardinality(T) - 1
        BY <3>2, <4>1, SomeLeaves
      <4>3. h[U] = g[U]
        BY <2>3, <4>2
      <4>4. Turn(h, T) = Turn(g, T)
        BY <3>2, <4>1, <4>3
      <4>5. CASE Cardinality(T) = n + 1
        BY <4>4, <4>5
      <4>6. CASE Cardinality(T) # n + 1
        <5>1. Cardinality(T) <= n
          BY <2>3, <4>2, <4>6
        <5>2. h[T] = g[T] /\ g[T] = Turn(g, T)
          BY <2>1, <4>6, <5>1
        <5> QED BY <4>4, <5>2
      <4> QED BY <4>5, <4>6
    <3> QED BY <3>1, <3>2
  <2> HIDE DEF h
  <2>4. Right(h, n + 1)
    BY <2>3
  <2> HIDE DEF Right
  <2> QED BY <2>2, <2>4
<1> HIDE DEF P
<1>3. Cardinality(S) \in P
  BY <1>1, <1>2, AllNumbers, FS_CardinalityType
<1>4. PICK g \in [SUBSET S -> Nat] : Right(g, Cardinality(S))
  BY <1>3 DEF P
<1>5. ASSUME NEW T \in SUBSET S PROVE g[T] = Turn(g, T)
  <2>1. Cardinality(T) <= Cardinality(S)
    BY FS_Subset
  <2> QED BY <1>4, <2>1
<1>6. g = [T \in SUBSET S |-> Turn(g, T)]
  BY <1>5
<1> QED BY <1>6 DEF Adds

\* The sum is that of any such totals.
LEMMA SumIsTotal ==
  ASSUME NEW S, IsFiniteSet(S), NEW w \in [S -> Nat]
  PROVE  \E total : Adds(total, w, S) /\ SumFunctionOnSet(w, S) = total[S]
<1> DEFINE t == CHOOSE total : Adds(total, w, S)
<1>1. SumFunctionOnSet(w, S) = t[S]
  BY DEF SumFunctionOnSet, FoldFunctionOnSet, MapThenFoldSet, Adds, Some
<1>2. Adds(t, w, S)
  BY TotalsExist
<1> QED BY <1>1, <1>2

\* A sum is a number, and at most as many times a bound on its terms as it has terms.
LEMMA SumAtMost ==
  ASSUME NEW S, IsFiniteSet(S), NEW w \in [S -> Nat], NEW b \in Nat, \A x \in S : w[x] <= b
  PROVE  /\ SumFunctionOnSet(w, S) \in Nat
         /\ SumFunctionOnSet(w, S) <= Cardinality(S) * b
<1>1. PICK total : Adds(total, w, S) /\ SumFunctionOnSet(w, S) = total[S]
  BY SumIsTotal
<1> DEFINE Bounded(T) == total[T] \in Nat /\ total[T] <= Cardinality(T) * b
           P == {n \in Nat : \A T \in SUBSET S : Cardinality(T) = n => Bounded(T)}
<1>2. 0 \in P
  <2>1. ASSUME NEW T \in SUBSET S, Cardinality(T) = 0 PROVE Bounded(T)
    <3>1. T # {} => Cardinality(T) \in Nat \ {0}
      BY SomeLeaves
    <3>2. T = {}
      BY <2>1, <3>1
    <3>3. total[T] = 0
      BY <1>1, <3>2 DEF Adds
    <3>4. 0 * b = 0
      OBVIOUS
    <3> QED BY <2>1, <3>3, <3>4
  <2> QED BY <2>1
<1>3. ASSUME NEW n \in Nat, n \in P PROVE n + 1 \in P
  <2>1. ASSUME NEW T \in SUBSET S, Cardinality(T) = n + 1 PROVE Bounded(T)
    <3>1. T # {}
      BY <2>1, FS_EmptySet
    <3> DEFINE x == Some(T)
               U == T \ {x}
    <3>2. x \in S /\ U \in SUBSET S /\ Cardinality(U) = n
      BY <2>1, <3>1, SomeLeaves
    <3>3. total[U] \in Nat /\ total[U] <= n * b
      BY <1>3, <3>2
    <3>4. total[T] = w[x] + total[U]
      BY <1>1, <3>1 DEF Adds
    <3>5. w[x] \in Nat /\ w[x] <= b
      BY <3>2
    <3>6. (n + 1) * b = n * b + b /\ n * b \in Nat
      OBVIOUS
    <3> HIDE DEF x, U
    <3> QED BY <2>1, <3>3, <3>4, <3>5, <3>6
  <2> QED BY <2>1
<1> HIDE DEF P
<1>4. Cardinality(S) \in P
  BY <1>2, <1>3, AllNumbers, FS_CardinalityType
<1> QED BY <1>1, <1>4 DEF P

\* A sum changes by what one of its terms changes by.
LEMMA SumChanges ==
  ASSUME NEW S, IsFiniteSet(S), NEW w \in [S -> Nat], NEW u \in [S -> Nat],
         NEW c \in S, \A x \in S \ {c} : u[x] = w[x]
  PROVE  /\ SumFunctionOnSet(w, S) \in Nat
         /\ SumFunctionOnSet(u, S) = SumFunctionOnSet(w, S) + (u[c] - w[c])
<1>1. u \in [S -> Nat] /\ \A x \in S \ {c} : u[x] = w[x]
  OBVIOUS
<1>2. PICK old : Adds(old, w, S) /\ SumFunctionOnSet(w, S) = old[S]
  BY SumIsTotal
<1>3. PICK new : Adds(new, u, S) /\ SumFunctionOnSet(u, S) = new[S]
  BY <1>1, SumIsTotal
<1> DEFINE Differs(T) == /\ old[T] \in Nat
                         /\ c \in T => new[T] = old[T] + (u[c] - w[c])
                         /\ c \notin T => new[T] = old[T]
           P == {n \in Nat : \A T \in SUBSET S : Cardinality(T) = n => Differs(T)}
<1>4. 0 \in P
  <2>1. ASSUME NEW T \in SUBSET S, Cardinality(T) = 0 PROVE Differs(T)
    <3>1. T # {} => Cardinality(T) \in Nat \ {0}
      BY SomeLeaves
    <3>2. T = {}
      BY <2>1, <3>1
    <3> QED BY <1>2, <1>3, <3>2 DEF Adds
  <2> QED BY <2>1
<1>5. ASSUME NEW n \in Nat, n \in P PROVE n + 1 \in P
  <2>1. ASSUME NEW T \in SUBSET S, Cardinality(T) = n + 1 PROVE Differs(T)
    <3>1. T # {}
      BY <2>1, FS_EmptySet
    <3> DEFINE x == Some(T)
               U == T \ {x}
    <3>2. x \in T /\ x \in S /\ U \in SUBSET S /\ Cardinality(U) = n
      BY <2>1, <3>1, SomeLeaves
    <3>3. Differs(U)
      BY <1>5, <3>2
    <3>4. old[T] = w[x] + old[U] /\ new[T] = u[x] + new[U]
      BY <1>2, <1>3, <3>1 DEF Adds
    <3>5. w[x] \in Nat /\ u[x] \in Nat /\ w[c] \in Nat /\ u[c] \in Nat /\ (x # c => u[x] = w[x])
      BY <1>1, <3>2
    <3>6. (c \in U <=> c \in T /\ x # c)
      OBVIOUS
    <3> HIDE DEF x, U
    <3> QED BY <3>2, <3>3, <3>4, <3>5, <3>6
  <2> QED BY <2>1
<1> HIDE DEF P
<1>6. Cardinality(S) \in P
  BY <1>4, <1>5, AllNumbers, FS_CardinalityType
<1> QED BY <1>2, <1>3, <1>6 DEF P

-----------------------------------------------------------------------------
(* The budget *)

\* The answers a call may still be charged for: one of each candidate left to it.
AnswersDue(k) ==
  IF k.step = "idle" THEN 0
  ELSE Len(k.plan) - k.attempt + IF k.step \in {"asking", "meter_answer"} THEN 1 ELSE 0

\* The rows it may still insert: two for each candidate left to it.
RowsDue(k) ==
  IF k.step = "idle" THEN 0
  ELSE 2 * (Len(k.plan) - k.attempt)
         + CASE k.step \in {"asking", "meter_answer"}        -> 2
             [] k.step \in {"audit_answer", "meter_failure"} -> 1
             [] OTHER                                        -> 0

AllAnswersDue == SumFunctionOnSet([r \in Call |-> AnswersDue(call[r])], Call)
AllRowsDue    == SumFunctionOnSet([r \in Call |-> RowsDue(call[r])], Call)

\* A plan has at most MaxAttempts candidates, and a failure costs nothing.
PlanBounded(k) ==
  /\ Len(k.plan) <= MaxAttempts
  /\ k.step # "idle" => k.attempt \in 1 .. Len(k.plan)
  /\ k.step = "meter_failure" => k.cost = 0

\* What has been spent, with what the calls in progress may still be charged.
SpendBounded ==
  Spent + AllAnswersDue * MaxPrice <= LimitEur - 1 + Cardinality(Call) * MaxAttempts * MaxPrice
CountBounded ==
  MaxCalls # None =>
    CallCount + AllRowsDue <= MaxCalls - 1 + 2 * MaxAttempts * Cardinality(Call)

BudgetInv ==
  /\ RouterInv
  /\ rows \in [Cost -> Nat]
  /\ \A r \in Call : PlanBounded(call[r])
  /\ SpendBounded /\ CountBounded

\* There are finitely many costs, numbers apart from None.
LEMMA CostsFinite ==
  IsFiniteSet(Cost) /\ IsFiniteSet(Priced) /\ Priced \in SUBSET Nat /\ 0 \in Priced
<1> DEFINE prices == {Price[m] : m \in Model}
<1>1. Price \in Surjection(Model, prices)
  BY ModelAssumption DEF Surjection
<1>2. IsFiniteSet(prices)
  BY <1>1, ModelAssumption, FS_Surjection
<1>3. \A T \in prices : IsFiniteSet(T)
  BY ModelAssumption
<1>4. IsFiniteSet(UNION prices)
  BY <1>2, <1>3, FS_UNION
<1>5. IsFiniteSet({0}) /\ Cost = {0} \cup UNION prices
  BY FS_Singleton DEF Cost
<1>6. IsFiniteSet(Cost)
  BY <1>4, <1>5, FS_Union
<1>7. Priced \in SUBSET Cost /\ Priced \in SUBSET Nat /\ 0 \in Priced
  BY ModelAssumption, BudgetAssumption DEF Priced, Cost
<1> QED BY <1>6, <1>7, FS_Subset

\* A finite set of numbers that is not empty has a greatest one.
LEMMA GreatestExists ==
  ASSUME NEW S \in SUBSET Nat, IsFiniteSet(S), S # {}
  PROVE  \E m \in S : \A x \in S : m >= x
<1> DEFINE HasGreatest(T) == T = {} \/ \E m \in T : \A x \in T : m >= x
           P == {n \in Nat : \A T \in SUBSET S : Cardinality(T) = n => HasGreatest(T)}
<1>1. 0 \in P
  <2>1. ASSUME NEW T \in SUBSET S, Cardinality(T) = 0 PROVE T = {}
    <3>1. T # {} => Cardinality(T) \in Nat \ {0}
      BY SomeLeaves
    <3> QED BY <2>1, <3>1
  <2> QED BY <2>1
<1>2. ASSUME NEW n \in Nat, n \in P PROVE n + 1 \in P
  <2>1. ASSUME NEW T \in SUBSET S, T # {}, Cardinality(T) = n + 1
        PROVE  \E m \in T : \A x \in T : m >= x
    <3> DEFINE y == Some(T)
               U == T \ {y}
    <3>1. y \in T /\ U \in SUBSET S /\ Cardinality(U) = Cardinality(T) - 1
      BY <2>1, SomeLeaves
    <3>2. T = U \cup {y}
      BY <3>1
    <3> HIDE DEF y, U
    <3>3. y \in Nat /\ Cardinality(U) = n
      BY <2>1, <3>1
    <3>4. HasGreatest(U)
      BY <1>2, <3>1, <3>3
    <3>5. CASE U = {}
      BY <3>3, <3>2, <3>5
    <3>6. ASSUME NEW m \in U, \A x \in U : m >= x PROVE \E k \in T : \A x \in T : k >= x
      <4>1. CASE m >= y
        BY <3>1, <3>3, <3>2, <3>6, <4>1
      <4>2. CASE y >= m
        BY <3>1, <3>3, <3>2, <3>6, <4>2
      <4> QED BY <3>1, <3>3, <3>2, <3>6, <4>1, <4>2
    <3> QED BY <2>1, <3>4, <3>5, <3>6
  <2> QED BY <2>1
<1> HIDE DEF P
<1>3. Cardinality(S) \in P
  BY <1>1, <1>2, AllNumbers, FS_CardinalityType
<1> QED BY <1>3 DEF P

\* No answer costs more than MaxPrice.
LEMMA PricesBounded == MaxPrice \in Nat /\ \A c \in Priced : c <= MaxPrice
<1>1. \E m \in Priced : \A x \in Priced : m >= x
  BY CostsFinite, GreatestExists
<1>2. MaxPrice \in Priced /\ \A x \in Priced : MaxPrice >= x
  BY <1>1 DEF MaxPrice, Max
<1> QED BY <1>2, CostsFinite

\* What is due of a call is bounded.
LEMMA DueType ==
  ASSUME NEW k \in CallRow, PlanBounded(k)
  PROVE  /\ AnswersDue(k) \in Nat /\ AnswersDue(k) <= MaxAttempts
         /\ RowsDue(k) \in Nat /\ RowsDue(k) <= 2 * MaxAttempts
<1>1. Len(k.plan) \in Nat /\ k.attempt \in Nat /\ MaxAttempts \in Nat
  BY BudgetAssumption DEF CallRow
<1>2. CASE k.step = "idle"
  BY <1>1, <1>2 DEF AnswersDue, RowsDue
<1>3. CASE k.step # "idle"
  <2>1. 1 <= k.attempt /\ k.attempt <= Len(k.plan) /\ Len(k.plan) <= MaxAttempts
    BY <1>3 DEF PlanBounded
  <2>2. k.step \in CallStep
    BY DEF CallRow
  <2> QED BY <1>1, <1>3, <2>1, <2>2 DEF AnswersDue, RowsDue, CallStep
<1> QED BY <1>2, <1>3

\* What is due of all calls changes by what is due of one.
LEMMA DueChanges ==
  ASSUME call \in [Call -> CallRow], \A r \in Call : PlanBounded(call[r]),
         NEW q \in Call, NEW k \in CallRow, PlanBounded(k), call' = [call EXCEPT ![q] = k]
  PROVE  /\ AllAnswersDue \in Nat
         /\ AllAnswersDue' = AllAnswersDue + (AnswersDue(k) - AnswersDue(call[q]))
         /\ AllAnswersDue' \in Nat /\ AllAnswersDue' <= Cardinality(Call) * MaxAttempts
         /\ AllRowsDue \in Nat
         /\ AllRowsDue' = AllRowsDue + (RowsDue(k) - RowsDue(call[q]))
         /\ AllRowsDue' \in Nat /\ AllRowsDue' <= Cardinality(Call) * (2 * MaxAttempts)
<1> DEFINE answers == [r \in Call |-> AnswersDue(call[r])]
           rowsdue == [r \in Call |-> RowsDue(call[r])]
           newanswers == [answers EXCEPT ![q] = AnswersDue(k)]
           newrows == [rowsdue EXCEPT ![q] = RowsDue(k)]
<1>1. answers \in [Call -> Nat] /\ rowsdue \in [Call -> Nat]
  BY DueType
<1>2. AnswersDue(k) \in Nat /\ RowsDue(k) \in Nat
  BY DueType
<1>3. \A r \in Call : call'[r] = IF r = q THEN k ELSE call[r]
  OBVIOUS
<1>4. \A r \in Call : call'[r] \in CallRow /\ PlanBounded(call'[r])
  BY <1>3
<1>5. /\ [r \in Call |-> AnswersDue(call'[r])] = newanswers
      /\ [r \in Call |-> RowsDue(call'[r])] = newrows
  BY <1>3
<1>6. newanswers \in [Call -> Nat] /\ \A r \in Call : newanswers[r] <= MaxAttempts
  BY <1>4, <1>5, DueType
<1>7. newrows \in [Call -> Nat] /\ \A r \in Call : newrows[r] <= 2 * MaxAttempts
  BY <1>4, <1>5, DueType
<1>8. /\ AllAnswersDue = SumFunctionOnSet(answers, Call)
      /\ AllRowsDue = SumFunctionOnSet(rowsdue, Call)
  BY DEF AllAnswersDue, AllRowsDue
<1>9. /\ AllAnswersDue' = SumFunctionOnSet(newanswers, Call)
      /\ AllRowsDue' = SumFunctionOnSet(newrows, Call)
  <2>1. /\ AllAnswersDue' = SumFunctionOnSet([r \in Call |-> AnswersDue(call'[r])], Call)
        /\ AllRowsDue' = SumFunctionOnSet([r \in Call |-> RowsDue(call'[r])], Call)
    BY DEF AllAnswersDue, AllRowsDue, AnswersDue, RowsDue
  <2> QED BY <1>5, <2>1
<1>10. answers[q] = AnswersDue(call[q]) /\ rowsdue[q] = RowsDue(call[q])
  OBVIOUS
<1>11. MaxAttempts \in Nat /\ 2 * MaxAttempts \in Nat /\ IsFiniteSet(Call)
  BY BudgetAssumption
<1> HIDE DEF answers, rowsdue
<1>12. /\ newanswers[q] = AnswersDue(k) /\ newrows[q] = RowsDue(k)
       /\ \A r \in Call \ {q} : newanswers[r] = answers[r] /\ newrows[r] = rowsdue[r]
  BY <1>1
<1> HIDE DEF newanswers, newrows
<1>13. /\ SumFunctionOnSet(answers, Call) \in Nat
       /\ SumFunctionOnSet(newanswers, Call)
            = SumFunctionOnSet(answers, Call) + (newanswers[q] - answers[q])
  BY <1>1, <1>6, <1>11, <1>12, SumChanges
<1>14. /\ SumFunctionOnSet(rowsdue, Call) \in Nat
       /\ SumFunctionOnSet(newrows, Call)
            = SumFunctionOnSet(rowsdue, Call) + (newrows[q] - rowsdue[q])
  BY <1>1, <1>7, <1>11, <1>12, SumChanges
<1>15. /\ SumFunctionOnSet(newanswers, Call) \in Nat
       /\ SumFunctionOnSet(newanswers, Call) <= Cardinality(Call) * MaxAttempts
  BY <1>6, <1>11, SumAtMost
<1>16. /\ SumFunctionOnSet(newrows, Call) \in Nat
       /\ SumFunctionOnSet(newrows, Call) <= Cardinality(Call) * (2 * MaxAttempts)
  BY <1>7, <1>11, SumAtMost
<1> QED BY <1>8, <1>9, <1>10, <1>12, <1>13, <1>14, <1>15, <1>16

\* The meter's sums are numbers.
LEMMA SumsTyped == ASSUME rows \in [Cost -> Nat] PROVE Spent \in Nat /\ CallCount \in Nat
<1> DEFINE spend == [x \in Priced |-> x * rows[x]]
<1>1. Priced \in SUBSET Cost /\ Priced \in SUBSET Nat /\ IsFiniteSet(Priced) /\ IsFiniteSet(Cost)
  BY CostsFinite DEF Priced
<1>2. ASSUME NEW x \in Priced PROVE x * rows[x] \in Nat
  <2>1. x \in Nat /\ rows[x] \in Nat
    BY <1>1
  <2> QED BY <2>1
<1>3. spend \in [Priced -> Nat] /\ Spent = SumFunctionOnSet(spend, Priced)
  BY <1>2 DEF Spent
<1> HIDE DEF spend
<1>4. 0 \in Priced /\ 0 \in Cost
  BY CostsFinite DEF Cost
<1> QED BY <1>1, <1>3, <1>4, SumChanges DEF CallCount

\* The meter's sums change with the rows of one cost.
LEMMA MeterChanges ==
  ASSUME rows \in [Cost -> Nat], NEW c \in Cost, NEW n \in Nat, rows' = [rows EXCEPT ![c] = n]
  PROVE  /\ Spent \in Nat /\ CallCount \in Nat
         /\ Spent' \in Nat /\ CallCount' \in Nat
         /\ CallCount' = CallCount + (n - rows[c])
         /\ c \in Priced => Spent' = Spent + (c * n - c * rows[c])
         /\ c \notin Priced => Spent' = Spent
<1> DEFINE spend == [x \in Priced |-> x * rows[x]]
           newspend == [x \in Priced |-> x * rows'[x]]
<1>1. Priced \in SUBSET Cost /\ Priced \in SUBSET Nat /\ IsFiniteSet(Priced) /\ IsFiniteSet(Cost)
  BY CostsFinite DEF Priced
<1>2. spend \in [Priced -> Nat]
  <2>1. ASSUME NEW x \in Priced PROVE x * rows[x] \in Nat
    <3>1. x \in Nat /\ rows[x] \in Nat
      BY <1>1
    <3> QED BY <3>1
  <2> QED BY <2>1
<1>3. Spent = SumFunctionOnSet(spend, Priced) /\ CallCount = SumFunctionOnSet(rows, Cost)
  BY DEF Spent, CallCount
<1>4. Spent' = SumFunctionOnSet(newspend, Priced) /\ CallCount' = SumFunctionOnSet(rows', Cost)
  BY DEF Spent, CallCount
<1>5. /\ CallCount \in Nat /\ CallCount' \in Nat
      /\ CallCount' = CallCount + (n - rows[c])
  <2>1. PICK after : after = rows'
    OBVIOUS
  <2>2. after \in [Cost -> Nat] /\ after[c] = n /\ \A x \in Cost \ {c} : after[x] = rows[x]
    BY <2>1
  <2>3. /\ SumFunctionOnSet(rows, Cost) \in Nat /\ SumFunctionOnSet(after, Cost) \in Nat
        /\ SumFunctionOnSet(after, Cost) = SumFunctionOnSet(rows, Cost) + (after[c] - rows[c])
    BY <1>1, <2>2, SumChanges
  <2> QED BY <1>3, <1>4, <2>1, <2>2, <2>3
<1>6. Spent \in Nat
  BY SumsTyped
<1>7. CASE c \in Priced
  <2>1. PICK v \in Nat : v = c * n
    <3>1. c \in Nat
      BY <1>1, <1>7
    <3> QED BY <3>1
  <2>2. /\ newspend \in [Priced -> Nat] /\ newspend[c] = v /\ spend[c] = c * rows[c]
        /\ \A x \in Priced \ {c} : newspend[x] = spend[x]
    <3>1. newspend = [spend EXCEPT ![c] = v]
      BY <1>1, <1>7, <2>1
    <3> QED BY <1>1, <1>2, <1>7, <3>1
  <2> HIDE DEF spend, newspend
  <2>3. /\ SumFunctionOnSet(newspend, Priced) \in Nat
        /\ SumFunctionOnSet(newspend, Priced)
             = SumFunctionOnSet(spend, Priced) + (newspend[c] - spend[c])
    BY <1>1, <1>2, <1>7, <2>2, SumChanges
  <2> QED BY <1>3, <1>4, <1>5, <1>6, <1>7, <2>1, <2>2, <2>3
<1>8. CASE c \notin Priced
  <2>1. newspend = spend
    BY <1>1, <1>8
  <2> HIDE DEF spend, newspend
  <2> QED BY <1>3, <1>4, <1>5, <1>6, <1>8, <2>1
<1> QED BY <1>7, <1>8

\* Fewer answers that may still be charged can cost no more.
LEMMA ChargesBounded ==
  ASSUME NEW m \in Nat, NEW n \in Nat, m <= n
  PROVE  /\ m * MaxPrice \in Nat /\ m * MaxPrice <= n * MaxPrice
         /\ m < n => \A c \in Priced : m * MaxPrice + c <= n * MaxPrice
<1>1. MaxPrice \in Nat
  BY PricesBounded
<1>2. PICK d \in Nat : n = m + d
  <2>1. n - m \in Nat /\ n = m + (n - m)
    OBVIOUS
  <2> QED BY <2>1
<1>3. n * MaxPrice = m * MaxPrice + d * MaxPrice /\ d * MaxPrice \in Nat /\ m * MaxPrice \in Nat
  BY <1>1, <1>2
<1>4. m < n => d * MaxPrice >= MaxPrice
  BY <1>1, <1>2
<1>5. \A c \in Priced : c \in Nat /\ c <= MaxPrice
  BY PricesBounded, CostsFinite
<1> QED BY <1>1, <1>3, <1>4, <1>5

\* The bounds are numbers.
LEMMA BoundTypes ==
  /\ Cardinality(Call) \in Nat \ {0} /\ MaxAttempts \in Nat \ {0} /\ LimitEur \in Nat \ {0}
  /\ Cardinality(Call) * MaxAttempts \in Nat
  /\ Cardinality(Call) * (2 * MaxAttempts) = 2 * MaxAttempts * Cardinality(Call)
  /\ MaxCalls # None => MaxCalls \in Nat
<1>1. Cardinality(Call) \in Nat \ {0}
  BY BudgetAssumption, FS_CardinalityType, FS_EmptySet
<1> QED BY <1>1, BudgetAssumption

\* A call that goes on to owe no more keeps the bounds, when it inserts no row.
LEMMA GoesOnBudget ==
  ASSUME BudgetInv, NEW r \in Call, NEW k \in CallRow, PlanBounded(k),
         call' = [call EXCEPT ![r] = k], rows' = rows, RouterInv',
         AnswersDue(k) <= AnswersDue(call[r]), RowsDue(k) <= RowsDue(call[r])
  PROVE  BudgetInv'
<1>1. /\ call \in [Call -> CallRow] /\ call[r] \in CallRow
      /\ \A q \in Call : PlanBounded(call[q])
  BY DEF BudgetInv, RouterInv, RouterTypeOK
<1>2. /\ AllAnswersDue \in Nat /\ AllRowsDue \in Nat
      /\ AllAnswersDue' = AllAnswersDue + (AnswersDue(k) - AnswersDue(call[r]))
      /\ AllRowsDue' = AllRowsDue + (RowsDue(k) - RowsDue(call[r]))
  BY <1>1, DueChanges
<1>3. AnswersDue(k) \in Nat /\ AnswersDue(call[r]) \in Nat /\ RowsDue(k) \in Nat /\ RowsDue(call[r]) \in Nat
  BY <1>1, DueType
<1>4. /\ AllAnswersDue' \in Nat /\ AllAnswersDue' <= AllAnswersDue
      /\ AllRowsDue' \in Nat /\ AllRowsDue' <= AllRowsDue
  <2>1. AllAnswersDue' \in Nat /\ AllRowsDue' \in Nat
    BY <1>1, DueChanges
  <2> QED BY <1>2, <1>3, <2>1
<1>5. /\ AllAnswersDue' * MaxPrice <= AllAnswersDue * MaxPrice
      /\ AllAnswersDue' * MaxPrice \in Nat /\ AllAnswersDue * MaxPrice \in Nat
  BY <1>2, <1>4, ChargesBounded
<1>6. Spent' = Spent /\ CallCount' = CallCount /\ Spent \in Nat /\ CallCount \in Nat
  BY SumsTyped DEF Spent, CallCount, BudgetInv
<1>7. SpendBounded' /\ CountBounded'
  <2>1. Cardinality(Call) * MaxAttempts * MaxPrice \in Nat
    BY BoundTypes, PricesBounded
  <2>2. SpendBounded'
    BY <1>5, <1>6, <2>1, BoundTypes DEF BudgetInv, SpendBounded
  <2>3. CountBounded'
    BY <1>2, <1>4, <1>6, BoundTypes DEF BudgetInv, CountBounded
  <2> QED BY <2>2, <2>3
<1>8. \A q \in Call : PlanBounded(call[q])'
  BY <1>1 DEF PlanBounded
<1> QED BY <1>7, <1>8 DEF BudgetInv

\* A call that ends, or goes from step to step as the router lets it, owes no more.
LEMMA CallsGoOn ==
  ASSUME BudgetInv, RouterInv', NEW r \in Call,
         \/ \E cost \in Cost : Answer(r, cost)
         \/ AdapterFails(r) \/ AuditAnswer(r) \/ AuditFailure(r) \/ WriteFails(r) \/ Crash(r)
  PROVE  BudgetInv'
<1> DEFINE c == call[r]
<1>1. /\ c \in CallRow /\ PlanBounded(c) /\ call \in [Call -> CallRow]
      /\ call' \in [Call -> CallRow]
  BY DEF BudgetInv, RouterInv, RouterTypeOK
<1>2. /\ c.step \in CallStep /\ Len(c.plan) \in Nat /\ c.attempt \in Nat /\ Len(c.plan) <= MaxAttempts
      /\ c.step # "idle" => 1 <= c.attempt /\ c.attempt <= Len(c.plan)
  BY <1>1 DEF CallRow, PlanBounded
<1>3. /\ AnswersDue(c) \in Nat /\ RowsDue(c) \in Nat
  BY <1>1, DueType
<1>4. rows' = rows
  BY DEF Answer, AdapterFails, AuditAnswer, AuditFailure, WriteFails, Crash
<1>5. ASSUME call' = [call EXCEPT ![r] = NoCall] PROVE BudgetInv'
  <2>1. PlanBounded(NoCall) /\ AnswersDue(NoCall) = 0 /\ RowsDue(NoCall) = 0
    BY BoundTypes DEF PlanBounded, NoCall, AnswersDue, RowsDue
  <2>2. AnswersDue(NoCall) <= AnswersDue(c) /\ RowsDue(NoCall) <= RowsDue(c)
    BY <1>3, <2>1
  <2>3. PICK k \in CallRow : k = NoCall
    BY NoCallType
  <2> QED BY <1>4, <1>5, <2>1, <2>2, <2>3, GoesOnBudget
<1>6. ASSUME NEW k, call' = [call EXCEPT ![r] = k], k.plan = c.plan,
             \/ k.attempt = c.attempt /\ c.step = "asking" /\ k.step = "meter_answer"
             \/ /\ k.attempt = c.attempt /\ k.step = "meter_failure" /\ k.cost = 0
                /\ c.step \in {"asking", "meter_answer", "audit_answer"}
             \/ /\ k.attempt = c.attempt + 1 /\ k.step = "asking" /\ c.step = "audit_failure"
                /\ c.attempt < Len(c.plan)
      PROVE  BudgetInv'
  <2>1. k \in CallRow
    BY <1>1, <1>6
  <2>2. PlanBounded(k)
    BY <1>2, <1>6 DEF PlanBounded
  <2>3. AnswersDue(k) <= AnswersDue(c) /\ RowsDue(k) <= RowsDue(c)
    <3>1. CASE k.attempt = c.attempt /\ c.step = "asking" /\ k.step = "meter_answer"
      <4>1. /\ AnswersDue(k) = Len(c.plan) - c.attempt + 1
            /\ AnswersDue(c) = Len(c.plan) - c.attempt + 1
        BY <1>6, <3>1 DEF AnswersDue
      <4>2. /\ RowsDue(k) = 2 * (Len(c.plan) - c.attempt) + 2
            /\ RowsDue(c) = 2 * (Len(c.plan) - c.attempt) + 2
        BY <1>6, <3>1 DEF RowsDue
      <4> QED BY <1>2, <4>1, <4>2
    <3>2. CASE /\ k.attempt = c.attempt /\ k.step = "meter_failure"
               /\ c.step \in {"asking", "meter_answer", "audit_answer"}
      <4>1. /\ AnswersDue(k) = Len(c.plan) - c.attempt + 0
            /\ AnswersDue(c) \in {Len(c.plan) - c.attempt + 0, Len(c.plan) - c.attempt + 1}
        BY <1>6, <3>2 DEF AnswersDue
      <4>2. /\ RowsDue(k) = 2 * (Len(c.plan) - c.attempt) + 1
            /\ RowsDue(c) \in {2 * (Len(c.plan) - c.attempt) + 1, 2 * (Len(c.plan) - c.attempt) + 2}
        BY <1>6, <3>2 DEF RowsDue
      <4> QED BY <1>2, <4>1, <4>2
    <3>3. CASE k.attempt = c.attempt + 1 /\ k.step = "asking" /\ c.step = "audit_failure"
      <4>1. /\ AnswersDue(k) = Len(c.plan) - (c.attempt + 1) + 1
            /\ AnswersDue(c) = Len(c.plan) - c.attempt + 0
        BY <1>6, <3>3 DEF AnswersDue
      <4>2. /\ RowsDue(k) = 2 * (Len(c.plan) - (c.attempt + 1)) + 2
            /\ RowsDue(c) = 2 * (Len(c.plan) - c.attempt) + 0
        BY <1>6, <3>3 DEF RowsDue
      <4> QED BY <1>2, <4>1, <4>2
    <3> QED BY <1>6, <3>1, <3>2, <3>3
  <2> QED BY <1>4, <1>6, <2>1, <2>2, <2>3, GoesOnBudget
<1>7. ASSUME NEW cost \in Cost, Answer(r, cost) PROVE BudgetInv'
  <2> DEFINE k == [c EXCEPT !.step = "meter_answer", !.cost = cost]
  <2>1. c.step = "asking" /\ call' = [call EXCEPT ![r] = k]
    BY <1>1, <1>7 DEF Answer
  <2>2. k.plan = c.plan /\ k.attempt = c.attempt /\ k.step = "meter_answer"
    BY <1>1 DEF CallRow
  <2> HIDE DEF k
  <2> QED BY <1>6, <2>1, <2>2
<1>8. CASE AdapterFails(r) \/ WriteFails(r)
  <2> DEFINE k == [c EXCEPT !.step = "meter_failure", !.cost = 0]
  <2>1. c.step # "idle" /\ call' = [call EXCEPT ![r] = Caught(c)]
    BY <1>8 DEF AdapterFails, WriteFails
  <2>2. CASE Caught(c) = NoCall
    BY <1>5, <2>1, <2>2
  <2>3. CASE Caught(c) # NoCall
    <3>1. Caught(c) = k /\ c.step \in {"asking", "meter_answer", "audit_answer"}
      BY <1>2, <2>1, <2>3 DEF Caught, CallStep
    <3>2. k.plan = c.plan /\ k.attempt = c.attempt /\ k.step = "meter_failure" /\ k.cost = 0
      BY <1>1 DEF CallRow
    <3> HIDE DEF k
    <3> QED BY <1>6, <2>1, <3>1, <3>2
  <2> QED BY <2>2, <2>3
<1>9. CASE AuditAnswer(r) \/ Crash(r)
  BY <1>5, <1>9 DEF AuditAnswer, Crash
<1>10. CASE AuditFailure(r)
  <2> DEFINE k == [c EXCEPT !.step = "asking", !.attempt = @ + 1]
  <2>1. c.step = "audit_failure" /\ call' = [call EXCEPT ![r] = NextAttempt(c)]
    BY <1>10 DEF AuditFailure
  <2>2. CASE ~(c.attempt < Len(c.plan))
    BY <1>5, <2>1, <2>2 DEF NextAttempt
  <2>3. CASE c.attempt < Len(c.plan)
    <3>1. NextAttempt(c) = k
      BY <2>3 DEF NextAttempt
    <3>2. k.plan = c.plan /\ k.attempt = c.attempt + 1 /\ k.step = "asking"
      BY <1>1 DEF CallRow
    <3> HIDE DEF k
    <3> QED BY <1>6, <2>1, <2>3, <3>1, <3>2
  <2> QED BY <2>2, <2>3
<1> QED BY <1>7, <1>8, <1>9, <1>10

\* What keeps every call as it was, in what it owes, and adds no row, keeps the bounds.
LEMMA RestsBudget ==
  ASSUME BudgetInv, RouterInv', rows' \in [Cost -> Nat],
         \A r \in Call : /\ call'[r].step = call[r].step /\ call'[r].plan = call[r].plan
                        /\ call'[r].attempt = call[r].attempt /\ call'[r].cost = call[r].cost,
         Spent' \in Nat, CallCount' \in Nat, Spent' <= Spent, CallCount' <= CallCount
  PROVE  BudgetInv'
<1>1. call \in [Call -> CallRow] /\ \A r \in Call : PlanBounded(call[r])
  BY DEF BudgetInv, RouterInv, RouterTypeOK
<1>2. /\ [r \in Call |-> AnswersDue(call'[r])] = [r \in Call |-> AnswersDue(call[r])]
      /\ [r \in Call |-> RowsDue(call'[r])] = [r \in Call |-> RowsDue(call[r])]
  BY DEF AnswersDue, RowsDue
<1>3. /\ AllAnswersDue' = SumFunctionOnSet([r \in Call |-> AnswersDue(call'[r])], Call)
      /\ AllRowsDue' = SumFunctionOnSet([r \in Call |-> RowsDue(call'[r])], Call)
  BY DEF AllAnswersDue, AllRowsDue, AnswersDue, RowsDue
<1>4. AllAnswersDue' = AllAnswersDue /\ AllRowsDue' = AllRowsDue
  BY <1>2, <1>3 DEF AllAnswersDue, AllRowsDue
<1>5. AllAnswersDue \in Nat /\ AllRowsDue \in Nat
  <2>1. PICK r \in Call : TRUE
    BY BudgetAssumption
  <2> DEFINE answers == [q \in Call |-> AnswersDue(call[q])]
             rowsdue == [q \in Call |-> RowsDue(call[q])]
  <2>2. answers \in [Call -> Nat] /\ rowsdue \in [Call -> Nat]
    BY <1>1, DueType
  <2>3. AllAnswersDue = SumFunctionOnSet(answers, Call) /\ AllRowsDue = SumFunctionOnSet(rowsdue, Call)
    BY DEF AllAnswersDue, AllRowsDue
  <2> HIDE DEF answers, rowsdue
  <2> QED BY <2>1, <2>2, <2>3, BudgetAssumption, SumChanges
<1>6. SpendBounded'
  <2>1. AllAnswersDue * MaxPrice \in Nat /\ Cardinality(Call) * MaxAttempts * MaxPrice \in Nat
    BY <1>5, BoundTypes, PricesBounded
  <2>2. Spent \in Nat
    BY SumsTyped DEF BudgetInv
  <2> QED BY <1>4, <2>1, <2>2, BoundTypes DEF BudgetInv, SpendBounded
<1>7. CountBounded'
  <2>1. CallCount \in Nat
    BY SumsTyped DEF BudgetInv
  <2> QED BY <1>4, <1>5, <2>1, BoundTypes DEF BudgetInv, CountBounded
<1>8. \A r \in Call : PlanBounded(call[r])'
  BY <1>1 DEF PlanBounded
<1> QED BY <1>6, <1>7, <1>8 DEF BudgetInv

\* A call begins only when the budget is not exhausted; whatever it and the others may
\* come to owe is then within the bounds.
LEMMA BeginBudget ==
  ASSUME BudgetInv, RouterInv', NEW r \in Call, NEW need \in Need, NEW class \in Class,
         Begin(r, need, class)
  PROVE  BudgetInv'
<1> DEFINE S == Candidates(need, class)
<1>1. PICK s \in Rankings(S) :
        call' = [call EXCEPT ![r] = [NoCall EXCEPT !.step = "asking", !.need = need,
                   !.class = class, !.plan = Tried(need, s), !.attempt = 1]]
  BY DEF Begin
<1>2. S # {} /\ S \in SUBSET Model /\ rows' = rows /\ ~Exhausted
  BY DEF Begin, Candidates
<1> HIDE DEF S
<1> DEFINE k == [NoCall EXCEPT !.step = "asking", !.need = need, !.class = class,
                               !.plan = Tried(need, s), !.attempt = 1]
<1>3. k.step = "asking" /\ k.plan = Tried(need, s) /\ k.attempt = 1
  BY DEF NoCall
<1>4. 1 <= Len(Tried(need, s)) /\ Len(Tried(need, s)) <= MaxAttempts /\ Len(Tried(need, s)) \in Nat
  <2>1. s \in Seq(S) /\ Len(s) >= 1
    BY <1>2, RankingType
  <2>2. Len(Tried(need, s)) \in 1 .. MaxAttempts /\ MaxAttempts \in Nat
    BY <2>1, TriedType, BudgetAssumption
  <2> QED BY <2>2
<1>5. call \in [Call -> CallRow] /\ call' \in [Call -> CallRow] /\ \A q \in Call : PlanBounded(call[q])
  BY DEF BudgetInv, RouterInv, RouterTypeOK
<1>6. call' = [call EXCEPT ![r] = k] /\ k \in CallRow
  BY <1>1, <1>5
<1> HIDE DEF k
<1>7. PlanBounded(k)
  BY <1>3, <1>4 DEF PlanBounded
<1>8. /\ AllAnswersDue' \in Nat /\ AllAnswersDue' <= Cardinality(Call) * MaxAttempts
      /\ AllRowsDue' \in Nat /\ AllRowsDue' <= Cardinality(Call) * (2 * MaxAttempts)
  BY <1>5, <1>6, <1>7, DueChanges
<1>9. Spent' = Spent /\ CallCount' = CallCount /\ Spent \in Nat /\ CallCount \in Nat
  BY <1>2, SumsTyped DEF Spent, CallCount, BudgetInv
<1>10. Spent <= LimitEur - 1 /\ (MaxCalls # None => CallCount <= MaxCalls - 1)
  BY <1>2, <1>9, BoundTypes DEF Exhausted
<1>11. SpendBounded'
  <2>1. /\ AllAnswersDue' * MaxPrice \in Nat
        /\ AllAnswersDue' * MaxPrice <= Cardinality(Call) * MaxAttempts * MaxPrice
    BY <1>8, BoundTypes, ChargesBounded
  <2>2. Cardinality(Call) * MaxAttempts * MaxPrice \in Nat
    BY BoundTypes, PricesBounded
  <2> QED BY <1>9, <1>10, <2>1, <2>2, BoundTypes DEF SpendBounded
<1>12. CountBounded'
  BY <1>8, <1>9, <1>10, BoundTypes DEF CountBounded
<1>13. \A q \in Call : PlanBounded(call[q])'
  BY <1>5, <1>6, <1>7 DEF PlanBounded
<1> QED BY <1>2, <1>11, <1>12, <1>13 DEF BudgetInv

\* A row that is inserted was due, and so was its cost.
LEMMA MeterBudget ==
  ASSUME BudgetInv, RouterInv', NEW r \in Call, Meter(r)
  PROVE  BudgetInv'
<1> DEFINE c == call[r]
           step == IF c.step = "meter_answer" THEN "audit_answer" ELSE "audit_failure"
           k == [c EXCEPT !.step = step]
           cost == RecordCost(c)
<1>1. /\ c \in CallRow /\ PlanBounded(c) /\ call \in [Call -> CallRow]
      /\ call' \in [Call -> CallRow] /\ \A q \in Call : PlanBounded(call[q])
      /\ rows \in [Cost -> Nat]
  BY DEF BudgetInv, RouterInv, RouterTypeOK
<1>2. /\ Len(c.plan) \in Nat /\ c.attempt \in Nat /\ c.cost \in Cost
      /\ 1 <= c.attempt /\ c.attempt <= Len(c.plan) /\ Len(c.plan) <= MaxAttempts
      /\ c.step \in {"meter_answer", "meter_failure"}
      /\ c.step = "meter_failure" => c.cost = 0
  BY <1>1 DEF CallRow, PlanBounded, Meter
<1>3. call' = [call EXCEPT ![r] = k] /\ rows' = [rows EXCEPT ![cost] = @ + 1]
  BY <1>1 DEF Meter
<1>4. /\ k.plan = c.plan /\ k.attempt = c.attempt /\ k.cost = c.cost
      /\ c.step = "meter_answer" => k.step = "audit_answer"
      /\ c.step = "meter_failure" => k.step = "audit_failure"
  BY <1>1, <1>2 DEF CallRow
<1>5. k \in CallRow
  BY <1>1, <1>3
<1> HIDE DEF k
<1>6. PlanBounded(k)
  BY <1>2, <1>4 DEF PlanBounded
<1>7. /\ c.step = "meter_answer" => AnswersDue(c) = AnswersDue(k) + 1 /\ RowsDue(c) = RowsDue(k) + 1
      /\ c.step = "meter_failure" => AnswersDue(c) = AnswersDue(k) /\ RowsDue(c) = RowsDue(k) + 1
  <2>1. CASE c.step = "meter_answer"
    <3>1. /\ AnswersDue(c) = Len(c.plan) - c.attempt + 1 /\ AnswersDue(k) = Len(c.plan) - c.attempt + 0
      BY <1>4, <2>1 DEF AnswersDue
    <3>2. /\ RowsDue(c) = 2 * (Len(c.plan) - c.attempt) + 2
          /\ RowsDue(k) = 2 * (Len(c.plan) - c.attempt) + 1
      BY <1>4, <2>1 DEF RowsDue
    <3> QED BY <1>2, <2>1, <3>1, <3>2
  <2>2. CASE c.step = "meter_failure"
    <3>1. /\ AnswersDue(c) = Len(c.plan) - c.attempt + 0 /\ AnswersDue(k) = Len(c.plan) - c.attempt + 0
      BY <1>4, <2>2 DEF AnswersDue
    <3>2. /\ RowsDue(c) = 2 * (Len(c.plan) - c.attempt) + 1
          /\ RowsDue(k) = 2 * (Len(c.plan) - c.attempt) + 0
      BY <1>4, <2>2 DEF RowsDue
    <3> QED BY <1>2, <2>2, <3>1, <3>2
  <2> QED BY <1>2, <2>1, <2>2
<1>8. cost \in Cost /\ (c.step = "meter_failure" => cost \in {0, None})
  <2>1. CASE c.step = "meter_failure" /\ None \in Price[c.plan[c.attempt]]
    <3>1. c.plan[c.attempt] \in Model
      BY <1>1, <1>2 DEF CallRow
    <3>2. cost = None
      BY <2>1 DEF RecordCost
    <3> QED BY <2>1, <3>1, <3>2 DEF Cost
  <2>2. CASE ~(c.step = "meter_failure" /\ None \in Price[c.plan[c.attempt]])
    BY <1>2, <2>2 DEF RecordCost
  <2> QED BY <2>1, <2>2
<1> HIDE DEF cost
<1>9. PICK n \in Nat : n = rows[cost] + 1 /\ rows' = [rows EXCEPT ![cost] = n] /\ rows[cost] \in Nat
  <2>1. rows[cost] \in Nat /\ rows' = [rows EXCEPT ![cost] = rows[cost] + 1]
    BY <1>1, <1>3, <1>8
  <2>2. PICK m \in Nat : m = rows[cost] + 1
    BY <2>1
  <2>3. rows' = [rows EXCEPT ![cost] = m]
    BY <2>1, <2>2
  <2> QED BY <2>1, <2>2, <2>3, Zenon
<1>10. /\ Spent \in Nat /\ CallCount \in Nat /\ CallCount' = CallCount + 1
       /\ cost \in Priced => Spent' = Spent + cost
       /\ cost \notin Priced => Spent' = Spent
  <2>1. /\ Spent \in Nat /\ CallCount \in Nat /\ CallCount' = CallCount + (n - rows[cost])
        /\ cost \in Priced => Spent' = Spent + (cost * n - cost * rows[cost])
        /\ cost \notin Priced => Spent' = Spent
    BY <1>1, <1>8, <1>9, MeterChanges
  <2>2. cost \in Priced => cost \in Nat /\ cost * n - cost * rows[cost] = cost
    <3>1. cost \in Priced => cost \in Nat
      BY CostsFinite
    <3>2. ASSUME NEW x \in Nat, NEW m \in Nat PROVE x * (m + 1) - x * m = x
      OBVIOUS
    <3> QED BY <1>9, <3>1, <3>2
  <2> QED BY <1>9, <2>1, <2>2
<1>11. /\ AllAnswersDue \in Nat /\ AllAnswersDue' \in Nat
       /\ AllAnswersDue' = AllAnswersDue + (AnswersDue(k) - AnswersDue(c))
       /\ AllRowsDue \in Nat /\ AllRowsDue' \in Nat
       /\ AllRowsDue' = AllRowsDue + (RowsDue(k) - RowsDue(c))
  BY <1>1, <1>3, <1>5, <1>6, DueChanges
<1>12. /\ AnswersDue(k) \in Nat /\ RowsDue(k) \in Nat
  BY <1>5, <1>6, DueType
<1>13. /\ AllRowsDue' + 1 = AllRowsDue
       /\ c.step = "meter_answer" => AllAnswersDue' < AllAnswersDue
       /\ c.step = "meter_failure" => AllAnswersDue' = AllAnswersDue
  BY <1>2, <1>7, <1>11, <1>12
<1>14. Spent' \in Nat /\ Spent' + AllAnswersDue' * MaxPrice <= Spent + AllAnswersDue * MaxPrice
  <2>1. AllAnswersDue' * MaxPrice \in Nat /\ AllAnswersDue * MaxPrice \in Nat
    BY <1>11, ChargesBounded
  <2>2. AllAnswersDue' * MaxPrice <= AllAnswersDue * MaxPrice
    BY <1>2, <1>11, <1>13, ChargesBounded
  <2>3. CASE cost \in Priced /\ c.step = "meter_answer"
    <3>1. AllAnswersDue' * MaxPrice + cost <= AllAnswersDue * MaxPrice /\ cost \in Nat
      BY <1>11, <1>13, <2>3, ChargesBounded, CostsFinite
    <3> QED BY <1>10, <2>1, <2>3, <3>1
  <2>4. CASE cost \notin Priced
    BY <1>10, <2>1, <2>2, <2>4
  <2>5. CASE cost \in Priced /\ c.step = "meter_failure"
    <3>1. cost = 0
      BY <1>8, <2>5, BudgetAssumption DEF Priced
    <3> QED BY <1>10, <2>1, <2>2, <2>5, <3>1
  <2> QED BY <1>2, <2>3, <2>4, <2>5
<1>15. SpendBounded'
  <2>1. /\ AllAnswersDue' * MaxPrice \in Nat /\ AllAnswersDue * MaxPrice \in Nat
        /\ Cardinality(Call) * MaxAttempts * MaxPrice \in Nat
    BY <1>11, BoundTypes, PricesBounded
  <2> QED BY <1>10, <1>14, <2>1, BoundTypes DEF BudgetInv, SpendBounded
<1>16. CountBounded'
  BY <1>10, <1>11, <1>13, BoundTypes DEF BudgetInv, CountBounded
<1>17. \A q \in Call : PlanBounded(call[q])'
  BY <1>1, <1>3, <1>6 DEF PlanBounded
<1>18. rows' \in [Cost -> Nat]
  BY <1>1, <1>8, <1>9
<1> QED BY <1>15, <1>16, <1>17, <1>18 DEF BudgetInv

\* Every step keeps the bounds.
LEMMA NextBudgetInv == BudgetInv /\ [Next]_vars => BudgetInv'
<1> SUFFICES ASSUME BudgetInv, [Next]_vars PROVE BudgetInv'
  OBVIOUS
<1>1. RouterInv'
  BY NextRouterInv DEF BudgetInv
<1>2. /\ rows \in [Cost -> Nat] /\ call \in [Call -> CallRow]
      /\ Spent \in Nat /\ CallCount \in Nat
  BY SumsTyped DEF BudgetInv, RouterInv, RouterTypeOK
<1>3. rows' = rows => Spent' = Spent /\ CallCount' = CallCount
  BY DEF Spent, CallCount
<1>4. ASSUME UNCHANGED <<rows, call>> PROVE BudgetInv'
  BY <1>1, <1>2, <1>3, <1>4, RestsBudget
<1>5. ASSUME NEW m \in Model, NEW row, Stored(m, row) PROVE BudgetInv'
  <2>1. ASSUME NEW r \in Call
        PROVE  /\ call'[r].step = call[r].step /\ call'[r].plan = call[r].plan
               /\ call'[r].attempt = call[r].attempt /\ call'[r].cost = call[r].cost
    <3>1. call[r] \in CallRow
      BY <1>2
    <3>2. \/ call'[r] = call[r]
          \/ call'[r] = [call[r] EXCEPT !.withdrawn = @ \cup ({m} \cap Range(call[r].plan))]
      BY <1>5 DEF Stored
    <3> QED BY <3>1, <3>2 DEF CallRow
  <2>2. rows' = rows
    BY <1>5 DEF Stored
  <2> QED BY <1>1, <1>2, <1>3, <2>1, <2>2, RestsBudget
<1>6. ASSUME NEW c \in Cost, Elapse(c) PROVE BudgetInv'
  <2>1. rows[c] \in Nat /\ rows[c] > 0
    BY <1>2, <1>6 DEF Elapse
  <2>2. PICK n \in Nat : rows[c] = n + 1
    <3>1. rows[c] - 1 \in Nat /\ rows[c] = (rows[c] - 1) + 1
      BY <2>1
    <3> QED BY <3>1
  <2>3. rows' = [rows EXCEPT ![c] = n] /\ call' = call
    BY <1>2, <1>6, <2>2 DEF Elapse
  <2>4. /\ CallCount' = CallCount + (n - rows[c]) /\ Spent' \in Nat /\ CallCount' \in Nat
        /\ c \in Priced => Spent' = Spent + (c * n - c * rows[c])
        /\ c \notin Priced => Spent' = Spent
    BY <1>2, <2>3, MeterChanges
  <2>5. rows' \in [Cost -> Nat]
    BY <1>2, <2>3
  <2>6. c \in Priced => c \in Nat /\ c * n - c * rows[c] = -c
    <3>1. c \in Priced => c \in Nat
      BY CostsFinite
    <3>2. ASSUME NEW x \in Nat, NEW m \in Nat PROVE x * m - x * (m + 1) = -x
      OBVIOUS
    <3> QED BY <2>2, <3>1, <3>2
  <2>7. Spent' <= Spent /\ CallCount' <= CallCount
    BY <1>2, <2>2, <2>4, <2>6
  <2> QED BY <1>1, <2>3, <2>4, <2>5, <2>7, RestsBudget
<1>7. ASSUME NEW m \in Model, NEW row \in Input[m], Upsert(m, row) PROVE BudgetInv'
  BY <1>5, <1>7 DEF Upsert
<1>8. ASSUME NEW m \in Model, NEW status \in Status, ReadRow(m, status) PROVE BudgetInv'
  BY <1>4, <1>8 DEF ReadRow
<1>9. CASE WriteRow
  <2>1. change.model \in Model /\ Stored(change.model, change.row)
    BY <1>9 DEF WriteRow, BudgetInv, RouterInv, RouterTypeOK
  <2> QED BY <1>5, <2>1
<1>10. CASE StatusFails
  BY <1>4, <1>10 DEF StatusFails
<1>11. CASE UNCHANGED vars
  BY <1>4, <1>11 DEF vars
<1>12. ASSUME NEW r \in Call, Continue(r) \/ Crash(r) PROVE BudgetInv'
  BY <1>1, <1>12, CallsGoOn, MeterBudget DEF Continue
<1>13. ASSUME NEW r \in Call, NEW need \in Need, NEW class \in Class, Begin(r, need, class)
       PROVE BudgetInv'
  BY <1>1, <1>13, BeginBudget
<1> QED BY <1>6, <1>7, <1>8, <1>9, <1>10, <1>11, <1>12, <1>13 DEF Next

\* With nothing spent and nothing due they hold.
LEMMA InitBudgetInv == Init => BudgetInv
<1> SUFFICES ASSUME Init PROVE BudgetInv
  OBVIOUS
<1> DEFINE answers == [r \in Call |-> AnswersDue(call[r])]
           rowsdue == [r \in Call |-> RowsDue(call[r])]
           spend == [x \in Priced |-> x * rows[x]]
<1>1. rows \in [Cost -> Nat] /\ \A c \in Cost : rows[c] = 0
  BY DEF Init
<1>2. \A r \in Call : call[r] = NoCall
  BY DEF Init
<1>3. \A r \in Call : PlanBounded(call[r])
  BY <1>2, BoundTypes DEF PlanBounded, NoCall
<1>4. /\ answers \in [Call -> Nat] /\ \A r \in Call : answers[r] <= 0
      /\ rowsdue \in [Call -> Nat] /\ \A r \in Call : rowsdue[r] <= 0
  BY <1>2 DEF AnswersDue, RowsDue, NoCall
<1>5. spend \in [Priced -> Nat] /\ \A x \in Priced : spend[x] <= 0
  <2>1. ASSUME NEW x \in Priced PROVE x * rows[x] = 0
    <3>1. x \in Nat /\ rows[x] = 0
      BY <1>1, CostsFinite DEF Priced
    <3> QED BY <3>1
  <2> QED BY <2>1
<1>6. /\ AllAnswersDue = SumFunctionOnSet(answers, Call) /\ AllRowsDue = SumFunctionOnSet(rowsdue, Call)
      /\ Spent = SumFunctionOnSet(spend, Priced) /\ CallCount = SumFunctionOnSet(rows, Cost)
  BY DEF AllAnswersDue, AllRowsDue, Spent, CallCount
<1> HIDE DEF answers, rowsdue, spend
<1>7. /\ SumFunctionOnSet(answers, Call) \in Nat /\ SumFunctionOnSet(answers, Call) <= Cardinality(Call) * 0
      /\ SumFunctionOnSet(rowsdue, Call) \in Nat /\ SumFunctionOnSet(rowsdue, Call) <= Cardinality(Call) * 0
  BY <1>4, BudgetAssumption, SumAtMost
<1>8. /\ SumFunctionOnSet(spend, Priced) \in Nat
      /\ SumFunctionOnSet(spend, Priced) <= Cardinality(Priced) * 0
  BY <1>5, CostsFinite, SumAtMost
<1>9. SumFunctionOnSet(rows, Cost) \in Nat /\ SumFunctionOnSet(rows, Cost) <= Cardinality(Cost) * 0
  BY <1>1, CostsFinite, SumAtMost
<1>10. Cardinality(Call) \in Nat /\ Cardinality(Priced) \in Nat /\ Cardinality(Cost) \in Nat
  BY BudgetAssumption, CostsFinite, FS_CardinalityType
<1>11. AllAnswersDue = 0 /\ AllRowsDue = 0 /\ Spent = 0 /\ CallCount = 0
  BY <1>6, <1>7, <1>8, <1>9, <1>10
<1>12. SpendBounded
  <2>1. Cardinality(Call) * MaxAttempts * MaxPrice \in Nat /\ 0 * MaxPrice = 0
    BY BoundTypes, PricesBounded
  <2> QED BY <1>11, <2>1, BoundTypes DEF SpendBounded
<1>13. CountBounded
  <2>1. 2 * MaxAttempts * Cardinality(Call) \in Nat \ {0}
    BY BoundTypes
  <2> QED BY <1>11, <2>1, BoundTypes DEF CountBounded
<1> QED BY <1>1, <1>3, <1>12, <1>13, InitRouterInv DEF BudgetInv

\* The overrun of a hard budget is what the calls in progress may still cost when it is
\* reached, for any prices, limits, numbers of calls and attempts, however the calls
\* overlap, fail and record (router.ts complete and embed, costMeter.ts).
THEOREM OverrunIsBounded == Spec => []BudgetBounded
<1>1. ASSUME BudgetInv PROVE BudgetBounded
  <2>1. AllAnswersDue \in Nat /\ AllRowsDue \in Nat
    <3>1. /\ [r \in Call |-> AnswersDue(call[r])] \in [Call -> Nat]
          /\ [r \in Call |-> RowsDue(call[r])] \in [Call -> Nat]
      BY <1>1, DueType DEF BudgetInv, RouterInv, RouterTypeOK
    <3>2. /\ \A r \in Call : [q \in Call |-> AnswersDue(call[q])][r] <= MaxAttempts
          /\ \A r \in Call : [q \in Call |-> RowsDue(call[q])][r] <= 2 * MaxAttempts
      BY <1>1, DueType DEF BudgetInv, RouterInv, RouterTypeOK
    <3> QED BY <3>1, <3>2, BudgetAssumption, SumAtMost DEF AllAnswersDue, AllRowsDue
  <2>2. Spent \in Nat /\ CallCount \in Nat /\ AllAnswersDue * MaxPrice \in Nat
    BY <1>1, <2>1, SumsTyped, PricesBounded DEF BudgetInv
  <2>3. Cardinality(Call) * MaxAttempts * MaxPrice \in Nat
    BY BoundTypes, PricesBounded
  <2> QED BY <1>1, <2>1, <2>2, <2>3, BoundTypes DEF BudgetInv, SpendBounded, CountBounded, BudgetBounded
<1>2. BudgetInv => BudgetBounded
  BY <1>1
<1> QED BY <1>2, InitBudgetInv, NextBudgetInv, PTL DEF Spec
=============================================================================
