--------------------------- MODULE ConsoleProofs ---------------------------
(***************************************************************************)
(* Who acts in the governance console, and how often a key may try, for    *)
(* any users, keys, requests and limits, over any number of restarts that  *)
(* change the users.                                                       *)
(***************************************************************************)
EXTENDS Console, FiniteSetTheorems, FunctionTheorems, TLAPS

-----------------------------------------------------------------------------
(* The inductive invariant *)

\* login l is that of a session, no later than t.
LoginOf(l, session, t) ==
  /\ l.user = session.user /\ l.role = session.role /\ l.csrf = session.csrf
  /\ l.at \in Nat /\ l.at <= t /\ session.exp = l.at + TTL

\* Every session that was signed is that of a login.
CookiesIssued == \A c \in cookies : \E l \in logins : LoginOf(l, c, clock)

\* What was read of a form before its body: a session that was valid then, of a login
\* before it, with a role that suffices.
FormAdmitted(q) ==
  /\ q.arrived \in Nat /\ q.arrived <= q.session.exp
  /\ HasRole(q.session.role, Needs[q.form])
  /\ \E l \in logins : LoginOf(l, q.session, q.arrived)

RequestsAdmitted ==
  \A r \in Request : requests[r] # Idle /\ requests[r].form # "login" => FormAdmitted(requests[r])

ConsoleInv ==
  /\ clock \in Nat /\ requests = [r \in Request |-> requests[r]]
  /\ CookiesIssued /\ RequestsAdmitted /\ ActsWereAuthenticated

-----------------------------------------------------------------------------
(* The steps keep it *)

\* Logins are never forgotten, so sessions and requests that stay keep theirs.
LEMMA HistoryKept ==
  ASSUME ConsoleInv, logins \subseteq logins', clock' \in Nat, clock <= clock'
  PROVE  /\ \A c \in cookies : \E l \in logins' : LoginOf(l, c, clock')
         /\ \A q : FormAdmitted(q) => FormAdmitted(q)'
<1>1. ASSUME NEW c \in cookies PROVE \E l \in logins' : LoginOf(l, c, clock')
  <2>1. PICK l \in logins : LoginOf(l, c, clock)
    BY DEF ConsoleInv, CookiesIssued
  <2>2. LoginOf(l, c, clock')
    BY <2>1 DEF LoginOf, ConsoleInv
  <2> QED BY <2>1, <2>2
<1>2. ASSUME NEW q, FormAdmitted(q) PROVE FormAdmitted(q)'
  BY <1>2 DEF FormAdmitted
<1> QED BY <1>1, <1>2

\* A step that carries out no form, signs no session and leaves every request it does
\* not drop or read a login of keeps the invariant.
LEMMA QuietInv ==
  ASSUME ConsoleInv, UNCHANGED <<logins, cookies>>, acted' = Nobody,
         clock' \in Nat, clock <= clock',
         requests' = [r \in Request |-> requests'[r]],
         \A r \in Request : \/ requests'[r] = requests[r] \/ requests'[r] = Idle
                            \/ requests'[r].form = "login" \/ FormAdmitted(requests'[r])
  PROVE  ConsoleInv'
<1>1. CookiesIssued'
  BY HistoryKept DEF CookiesIssued
<1>2. \A q : FormAdmitted(q) => FormAdmitted(q)'
  BY HistoryKept
<1>3. RequestsAdmitted'
  <2> SUFFICES ASSUME NEW r \in Request, requests'[r] # Idle, requests'[r].form # "login"
               PROVE  FormAdmitted(requests'[r])
    BY <1>2 DEF RequestsAdmitted, FormAdmitted
  <2> QED BY DEF ConsoleInv, RequestsAdmitted
<1>4. ActsWereAuthenticated'
  BY DEF ActsWereAuthenticated
<1> QED BY <1>1, <1>3, <1>4 DEF ConsoleInv

\* A request that has become free is Idle, and the others are as they were.
LEMMA FreeFrees ==
  ASSUME ConsoleInv, NEW r \in Request, Free(r)
  PROVE  /\ requests' = [q \in Request |-> requests'[q]]
         /\ \A q \in Request : requests'[q] = requests[q] \/ requests'[q] = Idle
BY DEF ConsoleInv, Free

\* A login that is let through has only read its key.
LEMMA LoginArrivesInv ==
  ASSUME ConsoleInv, NEW r \in Request, NEW k \in Key, LoginArrives(r, k)
  PROVE  ConsoleInv'
<1> DEFINE read == [form |-> "login", key |-> k]
<1>1. /\ requests' = [requests EXCEPT ![r] = read] \/ UNCHANGED requests
      /\ acted' = Nobody /\ UNCHANGED <<clock, cookies, logins>>
  BY DEF LoginArrives
<1>2. read.form = "login"
  OBVIOUS
<1> HIDE DEF read
<1>3. /\ requests' = [q \in Request |-> requests'[q]]
      /\ \A q \in Request : requests'[q] = requests[q] \/ requests'[q].form = "login"
  BY <1>1, <1>2 DEF ConsoleInv
<1> QED BY <1>1, <1>3, QuietInv DEF ConsoleInv

\* A session is signed for the login that is recorded.
LEMMA LoggedInInv ==
  ASSUME ConsoleInv, NEW r \in Request, NEW u \in User, LoggedIn(r, u)
  PROVE  ConsoleInv'
<1> DEFINE n == Cardinality(logins)
           session == [user |-> u, role |-> users[u], exp |-> clock + TTL, csrf |-> n]
           login == [user |-> u, role |-> users[u], at |-> clock, csrf |-> n]
<1>1. /\ cookies' = cookies \cup {session} /\ logins' = logins \cup {login}
      /\ Free(r) /\ acted' = Nobody /\ UNCHANGED clock
  BY DEF LoggedIn
<1>2. clock \in Nat /\ clock' \in Nat /\ clock <= clock'
  BY <1>1 DEF ConsoleInv
<1>3. LoginOf(login, session, clock')
  BY <1>1, <1>2 DEF LoginOf
<1> HIDE DEF login, session
<1>4. logins \subseteq logins'
  BY <1>1
<1>5. CookiesIssued'
  <2> SUFFICES ASSUME NEW c \in cookies' PROVE \E l \in logins' : LoginOf(l, c, clock')
    BY DEF CookiesIssued
  <2>1. CASE c = session
    BY <1>1, <1>3, <2>1
  <2>2. CASE c \in cookies
    BY <1>2, <1>4, <2>2, HistoryKept
  <2> QED BY <1>1, <2>1, <2>2
<1>6. \A q : FormAdmitted(q) => FormAdmitted(q)'
  BY <1>2, <1>4, HistoryKept
<1>7. /\ requests' = [q \in Request |-> requests'[q]]
      /\ \A q \in Request : requests'[q] = requests[q] \/ requests'[q] = Idle
  BY <1>1, FreeFrees
<1>8. RequestsAdmitted'
  <2> SUFFICES ASSUME NEW q \in Request, requests'[q] # Idle, requests'[q].form # "login"
               PROVE  FormAdmitted(requests[q])' /\ requests'[q] = requests[q]
    BY <1>7 DEF RequestsAdmitted, FormAdmitted
  <2>1. requests'[q] = requests[q] /\ FormAdmitted(requests[q])
    BY <1>7 DEF ConsoleInv, RequestsAdmitted
  <2>2. \E l \in logins' : LoginOf(l, requests[q].session, requests[q].arrived)
    BY <1>4, <2>1 DEF FormAdmitted
  <2> QED BY <2>1, <2>2 DEF FormAdmitted
<1>9. ActsWereAuthenticated'
  BY <1>1 DEF ActsWereAuthenticated
<1> QED BY <1>2, <1>5, <1>7, <1>8, <1>9 DEF ConsoleInv

\* A form is admitted with a session that is valid and whose role suffices.
LEMMA FormArrivesInv ==
  ASSUME ConsoleInv, NEW r \in Request, NEW form \in Form, NEW c \in cookies,
         FormArrives(r, form, c)
  PROVE  ConsoleInv'
<1> DEFINE read == [form |-> form, session |-> c, arrived |-> clock]
<1>1. /\ requests' = [requests EXCEPT ![r] = read]
      /\ acted' = Nobody /\ UNCHANGED <<clock, cookies, logins>>
      /\ c.exp >= clock /\ HasRole(c.role, Needs[form])
  BY DEF FormArrives, Verify
<1>2. clock \in Nat
  BY DEF ConsoleInv
<1>3. PICK l \in logins : LoginOf(l, c, clock)
  BY DEF ConsoleInv, CookiesIssued
<1>4. clock <= c.exp
  BY <1>1, <1>2, <1>3, ConsoleAssumption DEF LoginOf
<1>5. read.form = form /\ read.session = c /\ read.arrived = clock
  OBVIOUS
<1> HIDE DEF read
<1>6. FormAdmitted(read)
  BY <1>1, <1>2, <1>3, <1>4, <1>5 DEF FormAdmitted
<1>7. /\ requests' = [q \in Request |-> requests'[q]]
      /\ \A q \in Request : requests'[q] = requests[q] \/ requests'[q] = read
  BY <1>1 DEF ConsoleInv
<1>8. \A q \in Request : requests'[q] = requests[q] \/ FormAdmitted(requests'[q])
  BY <1>6, <1>7
<1> QED BY <1>1, <1>2, <1>7, <1>8, QuietInv

\* What is carried out is what was admitted, with the token of its session.
LEMMA FormCarriedOutInv ==
  ASSUME ConsoleInv, NEW r \in Request, FormCarriedOut(r)
  PROVE  ConsoleInv'
<1> DEFINE q == requests[r]
<1>1. /\ q # Idle /\ q.form # "login" /\ Free(r) /\ UNCHANGED <<clock, cookies, logins>>
  BY DEF FormCarriedOut
<1>2. PICK act : /\ acted' = act /\ act.form = q.form /\ act.user = q.session.user
                 /\ act.arrived = q.arrived /\ act.csrf = q.session.csrf
  <2>1. PICK csrf \in {c.csrf : c \in cookies} :
          /\ csrf = q.session.csrf
          /\ acted' = [form |-> q.form, user |-> q.session.user, arrived |-> q.arrived,
                       csrf |-> csrf]
    BY DEF FormCarriedOut
  <2> QED BY <2>1
<1>3. FormAdmitted(q)
  BY <1>1 DEF ConsoleInv, RequestsAdmitted
<1>4. PICK l \in logins : LoginOf(l, q.session, q.arrived)
  BY <1>3 DEF FormAdmitted
<1>5. /\ l.user = act.user /\ l.csrf = act.csrf /\ l.at <= act.arrived
      /\ act.arrived <= l.at + TTL /\ HasRole(l.role, Needs[act.form])
  BY <1>2, <1>3, <1>4 DEF FormAdmitted, LoginOf
<1>6. ActsWereAuthenticated'
  BY <1>1, <1>2, <1>5 DEF ActsWereAuthenticated
<1>7. CookiesIssued'
  BY <1>1 DEF ConsoleInv, CookiesIssued
<1>8. /\ requests' = [x \in Request |-> requests'[x]]
      /\ \A x \in Request : requests'[x] = requests[x] \/ requests'[x] = Idle
  BY <1>1, FreeFrees
<1>9. RequestsAdmitted'
  <2>1. \A x \in Request : requests'[x] # Idle /\ requests'[x].form # "login" =>
          requests'[x] = requests[x] /\ FormAdmitted(requests[x])
    BY <1>8 DEF ConsoleInv, RequestsAdmitted
  <2> QED BY <1>1, <2>1 DEF RequestsAdmitted, FormAdmitted
<1> QED BY <1>1, <1>6, <1>7, <1>8, <1>9 DEF ConsoleInv

\* Every step keeps it.
LEMMA NextConsoleInv == ConsoleInv /\ [Next]_vars => ConsoleInv'
<1> SUFFICES ASSUME ConsoleInv, [Next]_vars PROVE ConsoleInv'
  OBVIOUS
<1>1. clock \in Nat
  BY DEF ConsoleInv
<1>2. ASSUME NEW r \in Request, Refused(r) PROVE ConsoleInv'
  <2>1. Free(r) /\ acted' = Nobody /\ UNCHANGED <<clock, cookies, logins>>
    BY <1>2 DEF Refused
  <2> QED BY <1>1, <2>1, FreeFrees, QuietInv
<1>3. CASE Tick
  <2>1. /\ clock' = clock + 1 /\ acted' = Nobody /\ UNCHANGED <<cookies, logins, requests>>
    BY <1>3 DEF Tick
  <2> QED BY <1>1, <2>1, QuietInv DEF ConsoleInv
<1>4. CASE Restart
  <2>1. /\ requests' = [r \in Request |-> Idle] /\ acted' = Nobody
        /\ UNCHANGED <<clock, cookies, logins>>
    BY <1>4 DEF Restart
  <2> QED BY <1>1, <2>1, QuietInv
<1>5. CASE UNCHANGED vars
  <2>1. UNCHANGED <<clock, requests, cookies, logins, acted>>
    BY <1>5 DEF vars
  <2> QED BY <2>1 DEF ConsoleInv, CookiesIssued, RequestsAdmitted, FormAdmitted,
                      ActsWereAuthenticated
<1> QED BY <1>2, <1>3, <1>4, <1>5, LoginArrivesInv, LoggedInInv, FormArrivesInv,
           FormCarriedOutInv DEF Next

\* A console that has just been started for the first time satisfies it.
LEMMA InitConsoleInv == Init => ConsoleInv
BY DEF Init, ConsoleInv, CookiesIssued, RequestsAdmitted, ActsWereAuthenticated

-----------------------------------------------------------------------------
\* Whoever has a form carried out has logged in, at most TTL before the request arrived,
\* with a role that suffices for it, and sent the token of that very login: for any
\* users and sessions, with the body arriving at any time later, and over restarts that
\* take users or roles away (auth.ts verify, app.ts checkCsrf).
THEOREM ActsAreAuthenticated == Spec => []ActsWereAuthenticated
<1>1. ConsoleInv => ActsWereAuthenticated
  BY DEF ConsoleInv
<1> QED BY <1>1, InitConsoleInv, NextConsoleInv, PTL DEF Spec

-----------------------------------------------------------------------------
(* The limiter's map *)

\* The ranks of a finite set of positions are 1, 2, ..., each of one position.
LEMMA Ranks ==
  ASSUME NEW n \in Nat, NEW I \in SUBSET (1..n)
  PROVE  /\ Cardinality(I) \in Nat /\ Cardinality(I) <= n
         /\ \A m \in 1..Cardinality(I) : \E i \in I : Cardinality({j \in I : j <= i}) = m
         /\ \A i \in I : Cardinality({j \in I : j <= i}) \in 1..Cardinality(I)
         /\ \A h, i \in I : Cardinality({j \in I : j <= h}) = Cardinality({j \in I : j <= i}) => h = i
<1> DEFINE upto(i) == {j \in I : j <= i}
           rank == [i \in I |-> Cardinality(upto(i))]
           N == Cardinality(I)
<1>1. IsFiniteSet(1..n) /\ Cardinality(1..n) = n
  BY FS_Interval
<1>2. IsFiniteSet(I) /\ N \in Nat /\ N <= n
  BY <1>1, FS_Subset, FS_CardinalityType
<1>3. ASSUME NEW i \in I
      PROVE  IsFiniteSet(upto(i)) /\ Cardinality(upto(i)) \in 1..N
  <2>1. upto(i) \in SUBSET I /\ i \in upto(i)
    OBVIOUS
  <2>2. IsFiniteSet(upto(i)) /\ Cardinality(upto(i)) <= N
    BY <1>2, <2>1, FS_Subset
  <2>3. Cardinality(upto(i)) \in Nat /\ Cardinality(upto(i)) # 0
    BY <2>1, <2>2, FS_CardinalityType, FS_EmptySet
  <2> QED BY <1>2, <2>2, <2>3
<1>4. ASSUME NEW h \in I, NEW i \in I, h < i
      PROVE  Cardinality(upto(h)) # Cardinality(upto(i))
  <2>1. h \in Nat /\ i \in Nat /\ \A j \in I : j \in Nat
    OBVIOUS
  <2>2. upto(h) \in SUBSET upto(i)
    <3>1. \A j \in I : j <= h => j <= i
      BY <1>4, <2>1
    <3> QED BY <3>1
  <2>3. i \in upto(i) /\ i \notin upto(h)
    BY <1>4, <2>1
  <2> HIDE DEF upto
  <2> QED BY <1>3, <2>2, <2>3, FS_Subset
<1>5. \A h, i \in I : Cardinality(upto(h)) = Cardinality(upto(i)) => h = i
  <2> SUFFICES ASSUME NEW h \in I, NEW i \in I, h # i
               PROVE  Cardinality(upto(h)) # Cardinality(upto(i))
    OBVIOUS
  <2>1. h < i \/ i < h
    OBVIOUS
  <2> HIDE DEF upto
  <2> QED BY <1>4, <2>1
<1>6. rank \in [I -> 1..N]
  BY <1>3
<1>7. \A h, i \in I : rank[h] = rank[i] => h = i
  BY <1>5
<1>8. \A m \in 1..N : \E i \in I : rank[i] = m
  <2> HIDE DEF rank, N
  <2>1. rank \in Injection(I, 1..N)
    BY <1>6, <1>7, Fun_IsInj
  <2>2. IsFiniteSet(1..N) /\ Cardinality(1..N) = N
    BY <1>2, FS_Interval
  <2>3. rank \in Surjection(I, 1..N)
    BY <2>1, <2>2, FS_Injection DEF N
  <2> QED BY <2>3, Fun_SurjectionProperties
<1> QED BY <1>2, <1>3, <1>5, <1>8

Entry == [key : Key, count : Nat \ {0}, resetAt : Int]

\* A map in insertion order: one entry for a key.
Map(s) ==
  /\ s \in Seq(Entry)
  /\ \A i, j \in DOMAIN s : s[i].key = s[j].key => i = j

\* The entries at some positions of a map are a map of just these.
LEMMA EntriesAtMap ==
  ASSUME NEW s, Map(s), NEW I \in SUBSET DOMAIN s
  PROVE  /\ Map(EntriesAt(s, I)) /\ Len(EntriesAt(s, I)) <= Len(s)
         /\ Range(EntriesAt(s, I)) = {s[i] : i \in I}
<1> DEFINE rank(i) == Cardinality({j \in I : j <= i})
           N == Cardinality(I)
           at(m) == CHOOSE i \in I : rank(i) = m
           t == EntriesAt(s, I)
<1>1. Len(s) \in Nat /\ DOMAIN s = 1..Len(s) /\ \A i \in DOMAIN s : s[i] \in Entry
  BY DEF Map
<1>2. /\ N \in Nat /\ N <= Len(s)
      /\ \A m \in 1..N : \E i \in I : rank(i) = m
      /\ \A i \in I : rank(i) \in 1..N
      /\ \A h, i \in I : rank(h) = rank(i) => h = i
  BY <1>1, Ranks
<1>3. t = [m \in 1..N |-> s[at(m)]]
  BY DEF EntriesAt
<1> HIDE DEF rank, N, t
<1>4. \A m \in 1..N : at(m) \in I /\ rank(at(m)) = m
  BY <1>2
<1>5. \A i \in I : at(rank(i)) = i
  BY <1>2, <1>4
<1> HIDE DEF at
<1>6. \A m \in 1..N : t[m] = s[at(m)] /\ t[m] \in Entry
  BY <1>1, <1>3, <1>4
<1>7. t \in Seq(Entry) /\ Len(t) = N /\ DOMAIN t = 1..N
  <2>1. t \in [1..N -> Entry]
    BY <1>3, <1>6
  <2> QED BY <1>2, <2>1
<1>8. ASSUME NEW m \in DOMAIN t, NEW p \in DOMAIN t, t[m].key = t[p].key PROVE m = p
  <2>1. at(m) = at(p)
    BY <1>1, <1>4, <1>6, <1>7, <1>8 DEF Map
  <2> QED BY <1>4, <1>7, <2>1
<1>9. Range(t) = {s[i] : i \in I}
  <2>1. \A m \in DOMAIN t : t[m] \in {s[i] : i \in I}
    BY <1>4, <1>6, <1>7
  <2>2. \A i \in I : rank(i) \in DOMAIN t /\ t[rank(i)] = s[i]
    BY <1>2, <1>5, <1>6, <1>7
  <2> QED BY <2>1, <2>2 DEF Range
<1> QED BY <1>2, <1>7, <1>8, <1>9 DEF Map, t

\* Pruning leaves the entries that have not expired.
LEMMA PruneMap ==
  ASSUME NEW s, Map(s), NEW now
  PROVE  /\ Map(Prune(s, now)) /\ Len(Prune(s, now)) <= Len(s)
         /\ Range(Prune(s, now)) = {e \in Range(s) : e.resetAt >= now}
<1> DEFINE I == {i \in DOMAIN s : s[i].resetAt >= now}
<1>1. Prune(s, now) = EntriesAt(s, I)
  BY DEF Prune
<1>2. {s[i] : i \in I} = {e \in Range(s) : e.resetAt >= now}
  BY DEF Range
<1>3. I \in SUBSET DOMAIN s
  OBVIOUS
<1> HIDE DEF I
<1> QED BY <1>1, <1>2, <1>3, EntriesAtMap

\* A reset leaves the entries of the other keys.
LEMMA ResetMap ==
  ASSUME NEW s, Map(s), NEW k
  PROVE  /\ Map(Reset(s, k)) /\ Len(Reset(s, k)) <= Len(s)
         /\ Range(Reset(s, k)) = {e \in Range(s) : e.key # k}
<1> DEFINE I == DOMAIN s \ PositionsOf(s, k)
<1>1. Reset(s, k) = EntriesAt(s, I)
  BY DEF Reset
<1>2. {s[i] : i \in I} = {e \in Range(s) : e.key # k}
  BY DEF Range, PositionsOf
<1>3. I \in SUBSET DOMAIN s
  OBVIOUS
<1> HIDE DEF I
<1> QED BY <1>1, <1>2, <1>3, EntriesAtMap

\* Counting an attempt of a key with an entry changes the count of this one.
LEMMA CountMap ==
  ASSUME NEW s, Map(s), NEW k \in Key, NEW now, PositionsOf(s, k) # {}
  PROVE  /\ Map(Count(s, k, now)) /\ Len(Count(s, k, now)) = Len(s)
         /\ \E e \in Range(s) :
              /\ e.key = k
              /\ Range(Count(s, k, now)) = (Range(s) \ {e}) \cup {[e EXCEPT !.count = Counted(@)]}
<1> DEFINE put(i) == IF s[i].key = k THEN [s[i] EXCEPT !.count = Counted(@)] ELSE s[i]
           t == Count(s, k, now)
<1>1. Len(s) \in Nat /\ DOMAIN s = 1..Len(s) /\ \A i \in DOMAIN s : s[i] \in Entry
  BY DEF Map
<1>2. t = [i \in DOMAIN s |-> put(i)]
  BY DEF Count
<1>3. \A n \in Nat : Counted(n) \in Nat \ {0}
  BY ConsoleAssumption DEF Counted
<1>4. \A i \in DOMAIN s : put(i) \in Entry /\ put(i).key = s[i].key
  BY <1>1, <1>3 DEF Entry
<1>5. PICK p \in DOMAIN s : s[p].key = k
  BY DEF PositionsOf
<1>6. /\ put(p) = [s[p] EXCEPT !.count = Counted(@)]
      /\ \A i \in DOMAIN s \ {p} : put(i) = s[i] /\ s[i] # s[p]
  BY <1>5 DEF Map
<1> HIDE DEF put, t
<1>7. DOMAIN t = 1..Len(s) /\ \A i \in DOMAIN s : t[i] = put(i)
  BY <1>1, <1>2
<1>8. Map(t) /\ Len(t) = Len(s)
  <2>1. t \in [1..Len(s) -> Entry]
    BY <1>1, <1>2, <1>4
  <2>2. t \in Seq(Entry) /\ Len(t) = Len(s)
    BY <1>1, <2>1
  <2>3. \A i \in DOMAIN s : t[i].key = s[i].key
    BY <1>4, <1>7
  <2> QED BY <1>1, <1>7, <2>2, <2>3 DEF Map
<1>9. Range(t) = (Range(s) \ {s[p]}) \cup {put(p)}
  <2>1. \A i \in DOMAIN s : t[i] \in (Range(s) \ {s[p]}) \cup {put(p)}
    BY <1>6, <1>7 DEF Range
  <2>2. \A e \in Range(s) \ {s[p]} : \E i \in DOMAIN s : t[i] = e
    BY <1>6, <1>7 DEF Range
  <2>3. t[p] = put(p)
    BY <1>7
  <2> QED BY <1>1, <1>5, <1>7, <2>1, <2>2, <2>3 DEF Range
<1> QED BY <1>5, <1>6, <1>8, <1>9 DEF t, Range

\* The first attempt of a key puts its entry last, and the oldest out of a full map.
LEMMA CountNewMap ==
  ASSUME NEW s, Map(s), Len(s) <= Capacity, NEW k \in Key, NEW now \in Int, PositionsOf(s, k) = {}
  PROVE  /\ Map(Count(s, k, now)) /\ Len(Count(s, k, now)) <= Capacity
         /\ Range(Count(s, k, now)) = {e \in Range(s) : e.key \notin Evicted(s, k)}
                                        \cup {[key |-> k, count |-> 1, resetAt |-> now + Window]}
<1> DEFINE new == [key |-> k, count |-> 1, resetAt |-> now + Window]
           old == IF Full(s, k) THEN Tail(s) ELSE s
           t == Count(s, k, now)
<1>1. t = Append(old, new) /\ new \in Entry /\ new.key = k
  BY ConsoleAssumption DEF Count, Entry
<1>2. \A i \in DOMAIN s : s[i].key # k
  BY DEF PositionsOf
<1>3. s \in Seq(Entry) /\ Len(s) \in Nat /\ Capacity \in Nat \ {0} /\ DOMAIN s = 1..Len(s)
  BY ConsoleAssumption DEF Map
<1>4. /\ Map(old) /\ Len(old) + 1 <= Capacity
      /\ Range(old) = {e \in Range(s) : e.key \notin Evicted(s, k)}
  <2>1. CASE ~Full(s, k)
    <3>1. old = s /\ Evicted(s, k) = {}
      BY <2>1 DEF Evicted
    <3>2. Len(s) < Capacity
      BY <1>3, <2>1 DEF Full
    <3> HIDE DEF old
    <3> QED BY <1>3, <3>1, <3>2
  <2>2. CASE Full(s, k)
    <3>1. old = Tail(s) /\ Evicted(s, k) = {s[1].key} /\ Len(s) = Capacity /\ s # <<>>
      <4>1. Len(s) >= Capacity /\ Evicted(s, k) = {Head(s).key}
        BY <2>2 DEF Evicted, Full
      <4>2. Len(s) = Capacity /\ Len(s) # 0
        <5> DEFINE n == Len(s)
        <5>1. n \in Nat /\ Capacity \in Nat \ {0} /\ n <= Capacity /\ n >= Capacity
          BY <1>3, <4>1
        <5> HIDE DEF n
        <5>2. n = Capacity /\ n # 0
          BY <5>1
        <5> QED BY <5>2 DEF n
      <4>3. s # <<>>
        BY <4>2
      <4> QED BY <1>3, <2>2, <4>1, <4>2, <4>3
    <3> HIDE DEF old
    <3>2. /\ old \in Seq(Entry) /\ Len(old) = Len(s) - 1 /\ DOMAIN old = 1..(Len(s) - 1)
          /\ \A i \in 1..(Len(s) - 1) : old[i] = s[i+1]
      BY <1>3, <3>1
    <3>3. \A i \in DOMAIN s : s[i].key = s[1].key <=> i = 1
      BY <1>3, <3>1 DEF Map
    <3>4. Map(old)
      <4> SUFFICES ASSUME NEW i \in DOMAIN old, NEW j \in DOMAIN old, old[i].key = old[j].key
                   PROVE  i = j
        BY <3>2 DEF Map
      <4>1. i + 1 \in DOMAIN s /\ j + 1 \in DOMAIN s /\ s[i+1].key = s[j+1].key
        BY <1>3, <3>2
      <4>2. i + 1 = j + 1
        BY <4>1 DEF Map
      <4> QED BY <1>3, <3>2, <4>2
    <3>5. \A i \in DOMAIN s \ {1} : i - 1 \in DOMAIN old /\ old[i - 1] = s[i]
      BY <1>3, <3>2
    <3>6. \A i \in DOMAIN old : i + 1 \in DOMAIN s /\ i + 1 # 1 /\ old[i] = s[i+1]
      BY <1>3, <3>2
    <3>7. Range(old) \subseteq {e \in Range(s) : e.key \notin Evicted(s, k)}
      BY <3>1, <3>3, <3>6 DEF Range
    <3>8. {e \in Range(s) : e.key \notin Evicted(s, k)} \subseteq Range(old)
      BY <3>1, <3>3, <3>5 DEF Range
    <3> QED BY <1>3, <3>1, <3>2, <3>4, <3>7, <3>8
  <2> QED BY <2>1, <2>2
<1>5. \A i \in DOMAIN old : old[i].key # k
  <2>1. \A i \in DOMAIN old : old[i] \in Range(s)
    BY <1>4 DEF Range
  <2> QED BY <1>2, <2>1 DEF Range
<1> HIDE DEF new, old, t
<1>6. /\ t \in Seq(Entry) /\ Len(t) = Len(old) + 1 /\ DOMAIN t = 1..(Len(old) + 1)
      /\ \A i \in DOMAIN old : t[i] = old[i]
      /\ t[Len(old) + 1] = new /\ DOMAIN old = 1..Len(old) /\ Len(old) \in Nat
  BY <1>1, <1>4 DEF Map
<1>7. \A i \in DOMAIN t : i \in DOMAIN old \/ i = Len(old) + 1
  BY <1>6
<1>8. Map(t)
  BY <1>1, <1>4, <1>5, <1>6, <1>7 DEF Map
<1>9. Range(t) = Range(old) \cup {new}
  BY <1>6, <1>7 DEF Range
<1> QED BY <1>4, <1>6, <1>8, <1>9 DEF t, new

-----------------------------------------------------------------------------
(* The attempts of one key *)

Try == [at : Nat, nth : 1..MaxAttempts]

\* Of the attempts T of a key, those that an entry begun at start has counted, up to n,
\* and those of the entry before it, whose first is out of the Window.
CountedSince(T, start, n) ==
  \A t \in T : /\ t.at >= start => t.nth <= n /\ (t.nth = 1 => t.at = start)
               /\ t.at < start => t.nth >= 2
               /\ \A u \in T : t.nth = u.nth /\ (t.at >= start <=> u.at >= start) => t = u

\* What is left of the attempts of a key whose entry has expired: not its first.
LeftOver(T, now) ==
  \A t \in T : /\ t.at < now /\ t.nth >= 2
               /\ \A u \in T : t.nth = u.nth => t = u

\* The attempts T of key k are accounted for by its entry among E, or left over.
Accounted(k, E, T, now) ==
  /\ \A e \in E : e.key = k => /\ CountedSince(T, e.resetAt - Window, e.count)
                               /\ \A t \in T : t.at <= e.resetAt
  /\ (\A e \in E : e.key # k) => LeftOver(T, now)

\* Attempts so accounted for are fewer than two entries allow.
LEMMA FewAttempts ==
  ASSUME NEW T \in SUBSET Try, NEW start \in Int, NEW n, CountedSince(T, start, n)
  PROVE  Cardinality(T) <= 2 * MaxAttempts - 1
<1> DEFINE place(t) == IF t.at >= start THEN t.nth ELSE t.nth + MaxAttempts - 1
           f == [t \in T |-> place(t)]
           P == 1..(2 * MaxAttempts - 1)
<1>1. MaxAttempts \in Nat /\ MaxAttempts > 0
  BY ConsoleAssumption
<1>2. \A t \in T : t.at \in Nat /\ t.nth \in 1..MaxAttempts /\ (t.at < start <=> ~(t.at >= start))
  BY DEF Try
<1>3. \A t \in T : place(t) \in P
  <2> TAKE t \in T
  <2>1. t.at \in Nat /\ t.nth \in 1..MaxAttempts /\ (t.at < start => t.nth >= 2)
    BY DEF Try, CountedSince
  <2> QED BY <1>1, <2>1
<1>4. \A t, u \in T : place(t) = place(u) => t = u
  <2> SUFFICES ASSUME NEW t \in T, NEW u \in T, place(t) = place(u) PROVE t = u
    OBVIOUS
  <2>1. /\ t.nth \in 1..MaxAttempts /\ u.nth \in 1..MaxAttempts
        /\ t.at \in Nat /\ u.at \in Nat
        /\ t.at < start => t.nth >= 2 
        /\ u.at < start => u.nth >= 2
    BY DEF Try, CountedSince
  <2>2. t.nth = u.nth /\ (t.at >= start <=> u.at >= start)
    BY <1>1, <2>1
  <2> QED BY <2>2 DEF CountedSince
<1> HIDE DEF place
<1>5. f \in Injection(T, P)
  BY <1>3, <1>4, Fun_IsInj
<1>6. IsFiniteSet(P) /\ Cardinality(P) = 2 * MaxAttempts - 1
  <2>1. 1 \in Int /\ 2 * MaxAttempts - 1 \in Int /\ ~(1 > 2 * MaxAttempts - 1)
    BY <1>1
  <2>2. (2 * MaxAttempts - 1) - 1 + 1 = 2 * MaxAttempts - 1
    BY <1>1
  <2> QED BY <2>1, <2>2, FS_Interval
<1> QED BY <1>5, <1>6, FS_Injection

\* Accounted attempts are few.
LEMMA AccountedAreFew ==
  ASSUME NEW k, NEW E, NEW T \in SUBSET Try, NEW now \in Int, Accounted(k, E, T, now),
         \A e \in E : e.resetAt \in Int
  PROVE  Cardinality(T) <= 2 * MaxAttempts - 1
<1>1. Window \in Int
  BY ConsoleAssumption
<1>2. ASSUME NEW e \in E, e.key = k PROVE Cardinality(T) <= 2 * MaxAttempts - 1
  BY <1>1, <1>2, FewAttempts DEF Accounted
<1>3. CASE \A e \in E : e.key # k
  <2>1. LeftOver(T, now)
    BY <1>3 DEF Accounted
  <2>2. \A t \in T : t.at \in Nat
    BY DEF Try
  <2>3. CountedSince(T, now, 0)
    BY <2>1, <2>2 DEF LeftOver, CountedSince
  <2> QED BY <2>3, FewAttempts
<1> QED BY <1>2, <1>3

\* Entries that have expired account for what is left over of theirs.
LEMMA PruneAccounted ==
  ASSUME NEW k, NEW E, NEW T \in SUBSET Try, NEW now \in Int, Accounted(k, E, T, now),
         \A e \in E : e.resetAt \in Int, \A t \in T : now - Window <= t.at
  PROVE  Accounted(k, {e \in E : e.resetAt >= now}, T, now)
<1>1. SUFFICES ASSUME \A e \in E : e.resetAt >= now => e.key # k
               PROVE  LeftOver(T, now)
  BY DEF Accounted
<1>2. CASE \A e \in E : e.key # k
  BY <1>2 DEF Accounted
<1>3. ASSUME NEW e \in E, e.key = k PROVE LeftOver(T, now)
  <2>1. /\ CountedSince(T, e.resetAt - Window, e.count) /\ e.resetAt < now /\ Window \in Nat
        /\ \A t \in T : t.at <= e.resetAt
    BY <1>1, <1>3, ConsoleAssumption DEF Accounted
  <2>2. \A t \in T : /\ t.at \in Nat /\ t.nth \in 1..MaxAttempts /\ t.at < now
                     /\ t.at > e.resetAt - Window
    BY <2>1 DEF Try
  <2>3. \A t \in T : t.at >= e.resetAt - Window /\ t.at # e.resetAt - Window
    BY <2>1, <2>2
  <2>4. ASSUME NEW t \in T PROVE t.nth >= 2
    <3>1. t.nth # 1
      BY <2>1, <2>3 DEF CountedSince
    <3> QED BY <2>2, <3>1, ConsoleAssumption
  <2> QED BY <2>1, <2>2, <2>3, <2>4 DEF LeftOver, CountedSince
<1> QED BY <1>2, <1>3

\* Later, fewer of them are.
LEMMA FewerAccounted ==
  ASSUME NEW k, NEW E, NEW T \in SUBSET Try, NEW S \in SUBSET T,
         NEW now \in Int, NEW later \in Int, now <= later, Accounted(k, E, T, now)
  PROVE  Accounted(k, E, S, later)
<1>1. \A t \in S : t \in T /\ t.at \in Nat
  BY DEF Try
<1>2. LeftOver(T, now) => LeftOver(S, later)
  BY <1>1 DEF LeftOver
<1>3. \A start, n : CountedSince(T, start, n) => CountedSince(S, start, n)
  BY <1>1 DEF CountedSince
<1> QED BY <1>1, <1>2, <1>3 DEF Accounted

\* No attempts need no account.
LEMMA NoneAccounted ==
  ASSUME NEW k, NEW E, NEW now
  PROVE  Accounted(k, E, {}, now)
BY DEF Accounted, CountedSince, LeftOver

\* The first attempt an entry counts comes after all that is left over.
LEMMA FirstCounted ==
  ASSUME NEW T \in SUBSET Try, NEW now \in Nat, LeftOver(T, now)
  PROVE  /\ CountedSince(T \cup {[at |-> now, nth |-> 1]}, now, 1)
         /\ [at |-> now, nth |-> 1] \in Try
<1> DEFINE new == [at |-> now, nth |-> 1]
<1>1. new \in Try /\ new.at = now /\ new.nth = 1
  BY ConsoleAssumption DEF Try
<1>2. \A t \in T : t.at \in Nat /\ t.nth \in Nat /\ t.at < now /\ t.nth >= 2
  BY DEF Try, LeftOver
<1>3. \A t, u \in T : t.nth = u.nth => t = u
  BY DEF LeftOver
<1> HIDE DEF new
<1> QED BY <1>1, <1>2, <1>3 DEF CountedSince, new

\* The next attempt an entry counts has a number of its own.
LEMMA NextCounted ==
  ASSUME NEW T \in SUBSET Try, NEW now \in Nat, NEW start \in Int, start <= now,
         NEW n \in Nat, n > 0, n < MaxAttempts, CountedSince(T, start, n)
  PROVE  /\ CountedSince(T \cup {[at |-> now, nth |-> n + 1]}, start, n + 1)
         /\ [at |-> now, nth |-> n + 1] \in Try
<1> DEFINE new == [at |-> now, nth |-> n + 1]
<1>1. new \in Try /\ new.at = now /\ new.nth = n + 1 /\ new.nth # 1 /\ new.at >= start
      /\ ~(new.at < start)
  BY ConsoleAssumption DEF Try
<1>2. \A t \in T : t.at \in Nat /\ t.nth \in Nat
  BY DEF Try
<1>3. \A t \in T : /\ t.at >= start => t.nth <= n + 1 /\ t.nth # new.nth /\ (t.nth = 1 => t.at = start)
                   /\ t.at < start => t.nth >= 2
  BY <1>1, <1>2 DEF CountedSince
<1>4. \A t, u \in T : t.nth = u.nth /\ (t.at >= start <=> u.at >= start) => t = u
  BY DEF CountedSince
<1> HIDE DEF new
<1>5. \A t, u \in T \cup {new} : t.nth = u.nth /\ (t.at >= start <=> u.at >= start) => t = u
  BY <1>1, <1>3, <1>4
<1>6. \A t \in T \cup {new} : /\ t.at >= start => t.nth <= n + 1 /\ (t.nth = 1 => t.at = start)
                              /\ t.at < start => t.nth >= 2
  BY <1>1, <1>3
<1> QED BY <1>1, <1>5, <1>6 DEF CountedSince, new

-----------------------------------------------------------------------------
(* Logins *)

\* The attempts remembered of key k.
TriesCounted(k) ==
  /\ tries[k] \in SUBSET Try
  /\ \A t \in tries[k] : clock - Window <= t.at
  /\ Accounted(k, Range(attempts), tries[k], clock)

LoginsInv ==
  /\ clock \in Nat
  /\ Map(attempts) /\ Len(attempts) <= Capacity
  /\ \A e \in Range(attempts) : e.resetAt - Window <= clock
  /\ tries = [k \in Key |-> tries[k]]
  /\ \A k \in Key : TriesCounted(k)

\* The entries of a map are entries.
LEMMA MapEntries ==
  ASSUME NEW s, Map(s)
  PROVE  \A e \in Range(s) : e \in Entry /\ e.resetAt \in Int /\ e.count \in Nat /\ e.count > 0
<1>1. \A e \in Range(s) : e \in Entry
  BY DEF Map, Range
<1> QED BY <1>1 DEF Entry

\* What the invariant says of the entries that are left when those expired are pruned.
LEMMA LiveEntries ==
  ASSUME LoginsInv
  PROVE  /\ Map(Prune(attempts, clock)) /\ Len(Prune(attempts, clock)) <= Capacity
         /\ \A e \in Range(Prune(attempts, clock)) : e.resetAt >= clock /\ e.resetAt - Window <= clock
         /\ \A k \in Key : Accounted(k, Range(Prune(attempts, clock)), tries[k], clock)
<1> DEFINE live == Prune(attempts, clock)
<1>1. /\ Map(live) /\ Len(live) <= Len(attempts)
      /\ Range(live) = {e \in Range(attempts) : e.resetAt >= clock}
  BY PruneMap DEF LoginsInv
<1>2. Len(live) <= Capacity
  <2>1. Len(live) \in Nat /\ Len(attempts) \in Nat /\ Capacity \in Nat /\ Len(attempts) <= Capacity
    BY <1>1, ConsoleAssumption DEF LoginsInv, Map
  <2> HIDE DEF live
  <2> QED BY <1>1, <2>1
<1>3. clock \in Int /\ \A e \in Range(attempts) : e.resetAt \in Int
  BY MapEntries DEF LoginsInv
<1>4. ASSUME NEW k \in Key PROVE Accounted(k, Range(live), tries[k], clock)
  BY <1>1, <1>3, PruneAccounted DEF LoginsInv, TriesCounted
<1> HIDE DEF live
<1>5. \A e \in Range(live) : e.resetAt >= clock /\ e.resetAt - Window <= clock
  BY <1>1 DEF LoginsInv
<1> QED BY <1>1, <1>2, <1>4, <1>5 DEF live

\* An attempt of a key that has an entry.
LEMMA AnotherAttempt ==
  ASSUME LoginsInv, NEW r \in Request, NEW k \in Key, LoginArrives(r, k),
         PositionsOf(Prune(attempts, clock), k) # {}
  PROVE  LoginsInv'
<1> DEFINE live  == Prune(attempts, clock)
           after == Count(live, k, clock)
           nth   == after[CHOOSE i \in PositionsOf(after, k) : TRUE].count
           known == [x \in Key |-> IF x \in Evicted(live, k) THEN {} ELSE tries[x]]
           new   == [at |-> clock, nth |-> nth]
<1>1. /\ attempts' = after /\ UNCHANGED clock
      /\ IF nth <= MaxAttempts THEN tries' = [known EXCEPT ![k] = @ \cup {new}] ELSE tries' = known
  BY DEF LoginArrives
<1>2. clock \in Nat /\ tries = [x \in Key |-> tries[x]] /\ \A x \in Key : TriesCounted(x)
  BY DEF LoginsInv
<1>3. /\ Map(live) /\ Len(live) <= Capacity
      /\ \A e \in Range(live) : e.resetAt >= clock /\ e.resetAt - Window <= clock
      /\ \A x \in Key : Accounted(x, Range(live), tries[x], clock)
  BY LiveEntries
<1>4. PositionsOf(live, k) # {} /\ known = tries
  BY <1>2 DEF Evicted, Full
<1> HIDE DEF live, known
<1>5. Map(after) /\ Len(after) = Len(live)
  BY <1>3, <1>4, CountMap
<1>6. PICK e \in Range(live) :
        /\ e.key = k
        /\ Range(after) = (Range(live) \ {e}) \cup {[e EXCEPT !.count = Counted(@)]}
  BY <1>3, <1>4, CountMap
<1>7. e \in Entry /\ e.resetAt \in Int /\ e.count \in Nat /\ e.count > 0
  BY <1>3, MapEntries
<1>8. PICK f : /\ f = [e EXCEPT !.count = Counted(@)]
               /\ f.key = k /\ f.resetAt = e.resetAt /\ f.count = Counted(e.count)
  <2> DEFINE f == [e EXCEPT !.count = Counted(@)]
  <2>1. f.key = e.key /\ f.resetAt = e.resetAt /\ f.count = Counted(e.count)
    BY <1>7 DEF Entry
  <2> HIDE DEF f
  <2>2. f.key = k
    BY <1>6, <2>1
  <2> QED BY <2>1, <2>2 DEF f
<1>9. \A g \in Range(live) : g.key = k => g = e
  BY <1>3, <1>6 DEF Map, Range
<1>10. nth = f.count
  <2>1. \A i \in PositionsOf(after, k) : after[i] \in Range(after) /\ after[i].key = k
    BY DEF PositionsOf, Range
  <2>2. \A i \in PositionsOf(after, k) : after[i] = f
    BY <1>6, <1>8, <1>9, <2>1
  <2> HIDE DEF after
  <2>3. PositionsOf(after, k) # {}
    <3>1. f \in Range(after) /\ f.key = k
      BY <1>6, <1>8
    <3> QED BY <3>1 DEF PositionsOf, Range
  <2>4. PICK i \in PositionsOf(after, k) : i = CHOOSE j \in PositionsOf(after, k) : TRUE
    BY <2>3
  <2> QED BY <2>2, <2>4
<1>11. nth = IF e.count < MaxAttempts THEN e.count + 1 ELSE MaxAttempts + 1
  BY <1>8, <1>10 DEF Counted
<1> HIDE DEF after, nth
<1>12. MaxAttempts \in Nat \ {0} /\ Window \in Nat /\ nth \in Nat
  BY <1>7, <1>11, ConsoleAssumption
<1>13. /\ CountedSince(tries[k], e.resetAt - Window, e.count)
       /\ \A t \in tries[k] : t.at <= e.resetAt
       /\ e.resetAt >= clock /\ e.resetAt - Window <= clock /\ e.resetAt - Window \in Int
  BY <1>3, <1>6, <1>7, <1>12 DEF Accounted
<1>14. /\ tries'[k] \in SUBSET Try /\ \A t \in tries'[k] : t.at >= clock - Window /\ t.at <= e.resetAt
       /\ CountedSince(tries'[k], e.resetAt - Window, f.count)
  <2>1. /\ tries[k] \in SUBSET Try /\ \A t \in tries[k] : t.at >= clock - Window /\ t.at <= e.resetAt
    <3>1. /\ tries[k] \in SUBSET Try /\ \A t \in tries[k] : clock - Window <= t.at /\ t.at \in Nat
      BY <1>2 DEF TriesCounted, Try
    <3> QED BY <1>2, <1>12, <1>13, <3>1
  <2>2. CASE nth <= MaxAttempts
    <3>1. tries'[k] = tries[k] \cup {new} /\ e.count < MaxAttempts /\ nth = e.count + 1
      BY <1>1, <1>2, <1>4, <1>7, <1>11, <1>12, <2>2
    <3>2. /\ CountedSince(tries[k] \cup {new}, e.resetAt - Window, nth)
          /\ new \in Try
      BY <1>2, <1>7, <1>13, <2>1, <3>1, NextCounted
    <3>3. new.at = clock /\ clock >= clock - Window
      BY <1>2, <1>12
    <3> HIDE DEF new
    <3> QED BY <1>10, <1>13, <2>1, <3>1, <3>2, <3>3
  <2>3. CASE ~(nth <= MaxAttempts)
    <3>1. tries'[k] = tries[k]
      BY <1>1, <1>4, <2>3
    <3>2. \A t \in tries[k] : t.nth <= nth
      BY <1>12, <2>1, <2>3 DEF Try
    <3>3. CountedSince(tries[k], e.resetAt - Window, nth)
      BY <1>13, <3>2 DEF CountedSince
    <3> QED BY <1>10, <2>1, <3>1, <3>3
  <2> QED BY <2>2, <2>3
<1>15. /\ tries' = [x \in Key |-> tries'[x]]
       /\ \A x \in Key \ {k} : tries'[x] = tries[x]
  BY <1>1, <1>2, <1>4
<1>16. \A g \in Range(attempts') : g = f \/ (g \in Range(live) /\ g.key # k)
  BY <1>1, <1>6, <1>8, <1>9
<1>17. ASSUME NEW x \in Key PROVE TriesCounted(x)'
  <2>1. CASE x = k
    <3>1. f \in Range(attempts')
      BY <1>1, <1>6, <1>8
    <3>2. Accounted(k, Range(attempts'), tries'[k], clock)
      BY <1>8, <1>14, <1>16, <3>1 DEF Accounted
    <3>3. \A t \in tries'[k] : clock - Window <= t.at
      BY <1>2, <1>12, <1>14 DEF Try
    <3> QED BY <1>1, <1>14, <2>1, <3>2, <3>3 DEF TriesCounted
  <2>2. CASE x # k
    <3>1. /\ \A g \in Range(attempts') : g.key = x => g \in Range(live)
          /\ \A g \in Range(live) : g.key = x => g \in Range(attempts')
      BY <1>1, <1>6, <1>8, <2>2
    <3>2. Accounted(x, Range(attempts'), tries[x], clock)
      BY <1>3, <3>1 DEF Accounted
    <3> QED BY <1>1, <1>2, <1>15, <2>2, <3>2 DEF TriesCounted
  <2> QED BY <2>1, <2>2
<1>18. \A g \in Range(attempts') : g.resetAt - Window <= clock
  BY <1>3, <1>8, <1>13, <1>16
<1> QED BY <1>1, <1>2, <1>3, <1>5, <1>15, <1>17, <1>18 DEF LoginsInv

\* An attempt of a key that has none: it begins, and may put out the oldest.
LEMMA FirstAttempt ==
  ASSUME LoginsInv, NEW r \in Request, NEW k \in Key, LoginArrives(r, k),
         PositionsOf(Prune(attempts, clock), k) = {}
  PROVE  LoginsInv'
<1> DEFINE live  == Prune(attempts, clock)
           after == Count(live, k, clock)
           nth   == after[CHOOSE i \in PositionsOf(after, k) : TRUE].count
           gone  == Evicted(live, k)
           known == [x \in Key |-> IF x \in gone THEN {} ELSE tries[x]]
           new   == [at |-> clock, nth |-> 1]
           begun == [key |-> k, count |-> 1, resetAt |-> clock + Window]
<1>1. /\ attempts' = after /\ UNCHANGED clock
      /\ IF nth <= MaxAttempts THEN tries' = [known EXCEPT ![k] = @ \cup {[at |-> clock, nth |-> nth]}]
                               ELSE tries' = known
  BY DEF LoginArrives
<1>2. /\ clock \in Nat /\ tries = [x \in Key |-> tries[x]] /\ \A x \in Key : TriesCounted(x)
      /\ Window \in Nat /\ MaxAttempts \in Nat \ {0}
  BY ConsoleAssumption DEF LoginsInv
<1>3. /\ Map(live) /\ Len(live) <= Capacity
      /\ \A e \in Range(live) : e.resetAt >= clock /\ e.resetAt - Window <= clock
      /\ \A x \in Key : Accounted(x, Range(live), tries[x], clock)
  BY LiveEntries
<1>4. \A e \in Range(live) : e.key # k
  BY DEF PositionsOf, Range
<1>5. k \notin gone
  <2>1. CASE Full(live, k)
    <3>1. live \in Seq(Entry) /\ Len(live) >= Capacity /\ Capacity \in Nat \ {0}
      BY <1>3, <2>1, ConsoleAssumption DEF Full, Map
    <3> HIDE DEF live
    <3>2. Len(live) # 0
      BY <3>1
    <3>3. Head(live) = live[1] /\ 1 \in DOMAIN live
      BY <3>1, <3>2
    <3>4. Head(live).key # k
      BY <1>4, <3>3 DEF Range
    <3> QED BY <2>1, <3>4 DEF Evicted
  <2>2. CASE ~Full(live, k)
    BY <2>2 DEF Evicted
  <2> QED BY <2>1, <2>2
<1>6. /\ Map(after) /\ Len(after) <= Capacity
      /\ Range(after) = {e \in Range(live) : e.key \notin gone} \cup {begun}
  BY <1>2, <1>3, CountNewMap
<1>7. begun.key = k /\ begun.count = 1 /\ begun.resetAt = clock + Window
  OBVIOUS
<1> HIDE DEF live, begun, gone
<1>8. nth = 1
  <2>1. \A i \in PositionsOf(after, k) : after[i] = begun
    BY <1>4, <1>6 DEF PositionsOf, Range
  <2>2. PositionsOf(after, k) # {}
    BY <1>6, <1>7 DEF PositionsOf, Range
  <2> HIDE DEF after
  <2>3. PICK i \in PositionsOf(after, k) : i = CHOOSE j \in PositionsOf(after, k) : TRUE
    BY <2>2
  <2> QED BY <1>7, <2>1, <2>3
<1>9. tries' = [known EXCEPT ![k] = @ \cup {new}]
  BY <1>1, <1>2, <1>8
<1> HIDE DEF after, nth, new
<1>10. /\ tries' = [x \in Key |-> tries'[x]]
       /\ tries'[k] = tries[k] \cup {new}
       /\ \A x \in Key \ {k} : tries'[x] = IF x \in gone THEN {} ELSE tries[x]
  BY <1>5, <1>9
<1>11. LeftOver(tries[k], clock) /\ tries[k] \in SUBSET Try
  BY <1>2, <1>3, <1>4 DEF Accounted, TriesCounted
<1>12. /\ CountedSince(tries'[k], clock, 1) /\ new \in Try /\ new.at = clock
  BY <1>2, <1>10, <1>11, FirstCounted DEF new
<1>13. ASSUME NEW x \in Key PROVE TriesCounted(x)'
  <2>1. CASE x = k
    <3>1. \A t \in tries'[k] : t.at \in Nat /\ t.at <= clock
      BY <1>2, <1>10, <1>11, <1>12 DEF LeftOver, Try
    <3>2. \A t \in tries'[k] : t.at <= begun.resetAt
      BY <1>2, <1>7, <3>1
    <3>3. CountedSince(tries'[k], begun.resetAt - Window, begun.count)
      <4>1. begun.resetAt - Window = clock
        BY <1>2, <1>7
      <4> QED BY <1>7, <1>12, <4>1
    <3>4. Accounted(k, Range(attempts'), tries'[k], clock)
      BY <1>1, <1>4, <1>6, <1>7, <3>2, <3>3 DEF Accounted
    <3>5. \A t \in tries'[k] : clock - Window <= t.at
      BY <1>2, <1>10, <1>12 DEF TriesCounted
    <3> QED BY <1>1, <1>10, <1>11, <1>12, <2>1, <3>4, <3>5 DEF TriesCounted
  <2>2. CASE x # k /\ x \in gone
    <3>1. tries'[x] = {}
      BY <1>10, <2>2
    <3> QED BY <3>1, NoneAccounted DEF TriesCounted
  <2>3. CASE x # k /\ x \notin gone
    <3>1. /\ \A g \in Range(attempts') : g.key = x => g \in Range(live)
          /\ \A g \in Range(live) : g.key = x => g \in Range(attempts')
      BY <1>1, <1>6, <1>7, <2>3
    <3>2. Accounted(x, Range(attempts'), tries[x], clock)
      BY <1>3, <3>1 DEF Accounted
    <3> QED BY <1>1, <1>2, <1>10, <2>3, <3>2 DEF TriesCounted
  <2> QED BY <2>1, <2>2, <2>3
<1>14. \A g \in Range(attempts') : g.resetAt - Window <= clock
  BY <1>1, <1>2, <1>3, <1>6, <1>7
<1> QED BY <1>1, <1>2, <1>6, <1>10, <1>13, <1>14 DEF LoginsInv

\* A login forgets the attempts of its key.
LEMMA LoggedInLogins ==
  ASSUME LoginsInv, NEW r \in Request, NEW u \in User, LoggedIn(r, u)
  PROVE  LoginsInv'
<1> DEFINE k == requests[r].key
<1>1. /\ attempts' = Reset(attempts, k) /\ tries' = [tries EXCEPT ![k] = {}] /\ UNCHANGED clock
  BY DEF LoggedIn
<1> HIDE DEF k
<1>2. /\ Map(attempts') /\ Len(attempts') <= Len(attempts)
      /\ Range(attempts') = {e \in Range(attempts) : e.key # k}
  BY <1>1, ResetMap DEF LoginsInv
<1>3. Len(attempts') <= Capacity
  <2>1. Len(attempts') \in Nat /\ Len(attempts) \in Nat /\ Capacity \in Nat /\ Len(attempts) <= Capacity
    BY <1>2, ConsoleAssumption DEF LoginsInv, Map
  <2> QED BY <1>2, <2>1
<1>4. /\ tries' = [x \in Key |-> tries'[x]]
      /\ \A x \in Key : tries'[x] = IF x = k THEN {} ELSE tries[x]
  BY <1>1 DEF LoginsInv
<1>5. ASSUME NEW x \in Key PROVE TriesCounted(x)'
  <2>1. CASE x = k
    <3>1. tries'[x] = {}
      BY <1>4, <2>1
    <3> QED BY <3>1, NoneAccounted DEF TriesCounted
  <2>2. CASE x # k
    <3>1. TriesCounted(x)
      BY DEF LoginsInv
    <3>2. Accounted(x, Range(attempts'), tries[x], clock)
      BY <1>2, <2>2, <3>1 DEF Accounted, TriesCounted
    <3> QED BY <1>1, <1>4, <2>2, <3>1, <3>2 DEF TriesCounted
  <2> QED BY <2>1, <2>2
<1> QED BY <1>1, <1>2, <1>3, <1>4, <1>5 DEF LoginsInv

\* Time passes, and attempts leave the Window.
LEMMA TickLogins ==
  ASSUME LoginsInv, Tick
  PROVE  LoginsInv'
<1>1. /\ clock' = clock + 1 /\ UNCHANGED attempts
      /\ tries' = [k \in Key |-> {t \in tries[k] : t.at >= clock' - Window}]
  BY DEF Tick
<1>2. /\ clock \in Nat /\ clock' \in Nat /\ clock <= clock' /\ Window \in Nat
  BY <1>1, ConsoleAssumption DEF LoginsInv
<1>3. ASSUME NEW k \in Key PROVE TriesCounted(k)'
  <2>1. TriesCounted(k) /\ tries'[k] = {t \in tries[k] : t.at >= clock' - Window}
    BY <1>1 DEF LoginsInv
  <2>2. /\ tries[k] \in SUBSET Try /\ tries'[k] \in SUBSET tries[k]
    BY <2>1 DEF TriesCounted
  <2>3. Accounted(k, Range(attempts), tries'[k], clock')
    BY <1>2, <2>1, <2>2, FewerAccounted DEF TriesCounted
  <2>4. \A t \in tries'[k] : clock' - Window <= t.at
    BY <1>2, <2>1, <2>2 DEF Try
  <2> QED BY <1>1, <2>2, <2>3, <2>4 DEF TriesCounted
<1>4. \A e \in Range(attempts) : e.resetAt - Window <= clock'
  <2> TAKE e \in Range(attempts)
  <2>1. e.resetAt \in Int /\ e.resetAt - Window <= clock
    BY MapEntries DEF LoginsInv
  <2> QED BY <1>2, <2>1
<1>5. tries' = [k \in Key |-> tries'[k]]
  BY <1>1
<1> QED BY <1>1, <1>2, <1>3, <1>4, <1>5 DEF LoginsInv

\* A console with an empty map has counted nothing.
LEMMA EmptyMap ==
  /\ Map(<<>>) /\ Range(<<>>) = {} /\ Len(<<>>) <= Capacity
BY ConsoleAssumption DEF Map, Range

\* Every step keeps it.
LEMMA NextLoginsInv == LoginsInv /\ [Next]_vars => LoginsInv'
<1> SUFFICES ASSUME LoginsInv, [Next]_vars PROVE LoginsInv'
  OBVIOUS
<1>1. ASSUME UNCHANGED <<clock, attempts, tries>> PROVE LoginsInv'
  BY <1>1 DEF LoginsInv, TriesCounted
<1>2. ASSUME NEW r \in Request, NEW k \in Key, LoginArrives(r, k) PROVE LoginsInv'
  BY <1>2, FirstAttempt, AnotherAttempt
<1>3. ASSUME NEW r \in Request, NEW form \in Form, NEW c \in cookies, FormArrives(r, form, c)
      PROVE  LoginsInv'
  BY <1>1, <1>3 DEF FormArrives
<1>4. ASSUME NEW r \in Request, FormCarriedOut(r) PROVE LoginsInv'
  BY <1>1, <1>4 DEF FormCarriedOut
<1>5. ASSUME NEW r \in Request, Refused(r) PROVE LoginsInv'
  BY <1>1, <1>5 DEF Refused
<1>6. CASE Restart
  <2>1. attempts' = <<>> /\ tries' = [k \in Key |-> {}] /\ UNCHANGED clock
    BY <1>6 DEF Restart
  <2>2. \A k \in Key : TriesCounted(k)'
    BY <2>1, NoneAccounted DEF TriesCounted
  <2> QED BY <2>1, <2>2, EmptyMap DEF LoginsInv
<1>7. CASE UNCHANGED vars
  BY <1>1, <1>7 DEF vars
<1> QED BY <1>2, <1>3, <1>4, <1>5, <1>6, <1>7, LoggedInLogins, TickLogins DEF Next

\* And it holds when the console is started.
LEMMA InitLoginsInv == Init => LoginsInv
<1> SUFFICES ASSUME Init PROVE LoginsInv
  OBVIOUS
<1>1. clock = 0 /\ attempts = <<>> /\ tries = [k \in Key |-> {}]
  BY DEF Init
<1>2. \A k \in Key : TriesCounted(k)
  BY <1>1, NoneAccounted DEF TriesCounted
<1> QED BY <1>1, <1>2, EmptyMap DEF LoginsInv

\* Within any Window a key gets at most 2 * MaxAttempts - 1 attempts through unless its
\* entry is reset or evicted, and the map stays within its capacity: for any limit,
\* window, capacity and number of keys, and any times at which they try (auth.ts allow).
THEOREM AttemptsAreFew == Spec => []LoginsBounded
<1>1. LoginsInv => LoginsBounded
  <2> SUFFICES ASSUME LoginsInv PROVE LoginsBounded
    OBVIOUS
  <2>1. clock \in Int /\ \A e \in Range(attempts) : e.resetAt \in Int
    BY MapEntries DEF LoginsInv
  <2>2. \A k \in Key : Cardinality(tries[k]) <= 2 * MaxAttempts - 1
    BY <2>1, AccountedAreFew DEF LoginsInv, TriesCounted
  <2> QED BY <2>2 DEF LoginsBounded, LoginsInv
<1> QED BY <1>1, InitLoginsInv, NextLoginsInv, PTL DEF Spec
=============================================================================
