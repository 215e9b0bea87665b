------------------------------ MODULE Console ------------------------------
(***************************************************************************)
(* Logins, sessions and roles of the governance console                    *)
(* (apps/admin/src/auth.ts, apps/admin/src/app.ts).                        *)
(*                                                                         *)
(* A request is read in two steps: the middleware and the checks before    *)
(* the body arrives, the rest after.  A cookie is the session it signs;    *)
(* clients hold every cookie ever issued, as a logout deletes one only in  *)
(* the browser.  Requests that are refused change nothing and are left     *)
(* out; what an accepted one does is the subject of the other modules.     *)
(***************************************************************************)
EXTENDS Integers, Sequences, FiniteSets

CONSTANTS
  User, Key,               \* users, and the keys that attempts are counted under
  Form,                    \* the forms sent, of those the console has
  Request,                 \* requests in progress at once
  TTL, Window, MaxAttempts, Capacity,
  Nobody, Idle,
  MaxTime, MaxLogins, MaxRestarts    \* bounds of the model

VARIABLES
  clock,
  restarts,
  users,       \* the configured role of each user, or "none"
  attempts,    \* the limiter's map, in insertion order
  cookies,     \* the sessions that were signed
  requests,    \* for each request Idle, or what was read of it before its body
  acted,       \* history: the form carried out in the last step, or Nobody
  logins,      \* history: logins, with the role configured at the time
  tries        \* history: for each key the attempts let through in the last Window, since
               \* its entry was last reset or evicted: when, and as which of its entry

vars == <<clock, restarts, users, attempts, cookies, requests, acted, logins, tries>>

-----------------------------------------------------------------------------
(* auth.ts *)

Rank == [viewer |-> 0, editor |-> 1, approver |-> 2, admin |-> 3]
Role == DOMAIN Rank
HasRole(actual, required) == Rank[actual] >= Rank[required]

\* The session a cookie stands for.
AnyAge(cookie, now) == TRUE                                                 \* mutant
Verify(cookie, now) == cookie.exp >= now

\* The entries at the positions I, in their order.
EntriesAt(entries, I) ==
  [n \in 1..Cardinality(I) |-> entries[CHOOSE i \in I : Cardinality({j \in I : j <= i}) = n]]

\* #prune.
ExpiredAtOnce(entries, now) == EntriesAt(entries, {i \in DOMAIN entries : entries[i].resetAt > now})   \* mutant
Prune(entries, now) == EntriesAt(entries, {i \in DOMAIN entries : entries[i].resetAt >= now})

\* The entries after allow, and the keys evicted for it.  Counts above MaxAttempts are
\* alike.
PositionsOf(entries, key) == {i \in DOMAIN entries : entries[i].key = key}
Full(entries, key) == PositionsOf(entries, key) = {} /\ Len(entries) >= Capacity
Counted(n) == IF n < MaxAttempts THEN n + 1 ELSE MaxAttempts + 1
Count(entries, key, now) ==
  IF PositionsOf(entries, key) # {}
  THEN [i \in DOMAIN entries |-> IF entries[i].key = key THEN [entries[i] EXCEPT !.count = Counted(@)]
                                  ELSE entries[i]]
  ELSE Append(IF Full(entries, key) THEN Tail(entries) ELSE entries,
              [key |-> key, count |-> 1, resetAt |-> now + Window])
Evicted(entries, key) == IF Full(entries, key) THEN {Head(entries).key} ELSE {}

\* reset.
Reset(entries, key) == EntriesAt(entries, DOMAIN entries \ PositionsOf(entries, key))

-----------------------------------------------------------------------------
(* app.ts *)

\* The role each form needs; a viewer's forms need only a session.
Needs ==
  [logout |-> "viewer", readiness |-> "viewer", check |-> "viewer",
   ingest |-> "editor", release |-> "editor", draft |-> "editor", verify |-> "editor",
   gate |-> "editor", decide |-> "approver", publish |-> "approver", status |-> "admin"]

ASSUME ConsoleAssumption ==
  /\ TTL \in Nat /\ Window \in Nat /\ MaxAttempts \in Nat \ {0} /\ Capacity \in Nat \ {0}
  /\ Nobody \notin User /\ Form \subseteq DOMAIN Needs

Init ==
  /\ clock = 0 /\ restarts = 0 /\ users \in [User -> Role]
  /\ attempts = <<>> /\ cookies = {} /\ requests = [r \in Request |-> Idle]
  /\ acted = Nobody /\ logins = {} /\ tries = [k \in Key |-> {}]

Free(r) == requests' = [requests EXCEPT ![r] = Idle]

\* POST /login until its body is read: the limiter counts the attempt.
LoginArrives(r, k) ==
  LET live   == Prune(attempts, clock)
      after  == Count(live, k, clock)
      nth    == after[CHOOSE i \in PositionsOf(after, k) : TRUE].count
      known  == [x \in Key |-> IF x \in Evicted(live, k) THEN {} ELSE tries[x]]
  IN  /\ requests[r] = Idle
      /\ attempts' = after
      /\ IF nth <= MaxAttempts
           THEN /\ requests' = [requests EXCEPT ![r] = [form |-> "login", key |-> k]]
                /\ tries' = [known EXCEPT ![k] = @ \cup {[at |-> clock, nth |-> nth]}]
           ELSE tries' = known /\ UNCHANGED requests
      /\ acted' = Nobody /\ UNCHANGED <<clock, restarts, users, cookies, logins>>

\* The token is that of a user: the attempts of the key are forgotten and a session is
\* signed.
LoggedIn(r, u) ==
  LET session == [user |-> u, role |-> users[u], exp |-> clock + TTL, csrf |-> Cardinality(logins)]
  IN  /\ requests[r] # Idle /\ requests[r].form = "login"
      /\ users[u] # "none" /\ Cardinality(logins) < MaxLogins
      /\ attempts' = Reset(attempts, requests[r].key)
      /\ tries' = [tries EXCEPT ![requests[r].key] = {}]
      /\ cookies' = cookies \cup {session}
      /\ logins' = logins \cup {[user |-> u, role |-> users[u], at |-> clock, csrf |-> session.csrf]}
      /\ Free(r) /\ acted' = Nobody /\ UNCHANGED <<clock, restarts, users>>

\* The checks of a form before its body: a valid session, and its role.
FormArrives(r, form, cookie) ==
  /\ requests[r] = Idle
  /\ Verify(cookie, clock) /\ HasRole(cookie.role, Needs[form])
  /\ requests' = [requests EXCEPT ![r] = [form |-> form, session |-> cookie, arrived |-> clock]]
  /\ acted' = Nobody /\ UNCHANGED <<clock, restarts, users, attempts, cookies, logins, tries>>

\* checkCsrf has the body, with the token of that session: the form is carried out.
\* The session is not verified again.
FormCarriedOut(r) ==
  /\ requests[r] # Idle /\ requests[r].form # "login"
  /\ \E csrf \in {c.csrf : c \in cookies} :
       /\ csrf = requests[r].session.csrf
       /\ acted' = [form |-> requests[r].form, user |-> requests[r].session.user,
                    arrived |-> requests[r].arrived, csrf |-> csrf]
  /\ Free(r) /\ UNCHANGED <<clock, restarts, users, attempts, cookies, logins, tries>>

\* A body that is refused or never comes: a wrong token, another csrf token, no length.
Refused(r) ==
  /\ requests[r] # Idle
  /\ Free(r) /\ acted' = Nobody
  /\ UNCHANGED <<clock, restarts, users, attempts, cookies, logins, tries>>

Tick ==
  /\ clock < MaxTime /\ clock' = clock + 1
  /\ tries' = [k \in Key |-> {t \in tries[k] : t.at >= clock' - Window}]
  /\ acted' = Nobody /\ UNCHANGED <<restarts, users, attempts, cookies, requests, logins>>

\* The console is started again, with the same secret and maybe other users.
Restart ==
  /\ restarts < MaxRestarts /\ restarts' = restarts + 1
  /\ users' \in [User -> Role \cup {"none"}]
  /\ attempts' = <<>> /\ requests' = [r \in Request |-> Idle] /\ tries' = [k \in Key |-> {}]
  /\ acted' = Nobody /\ UNCHANGED <<clock, cookies, logins>>

Next ==
  \/ \E r \in Request, k \in Key : LoginArrives(r, k)
  \/ \E r \in Request, u \in User : LoggedIn(r, u)
  \/ \E r \in Request, form \in Form, c \in cookies : FormArrives(r, form, c)
  \/ \E r \in Request : FormCarriedOut(r)
  \/ \E r \in Request : Refused(r)
  \/ Tick
  \/ Restart

Spec == Init /\ [][Next]_vars

-----------------------------------------------------------------------------
(* Properties *)

\* Within any Window a key gets at most 2 * MaxAttempts - 1 attempts through between two
\* moments at which its entry is reset or evicted, however the attempts fall around the
\* end of a window; and the map never outgrows its capacity (auth.ts:72-76, allow).
LoginsBounded ==
  /\ Len(attempts) <= Capacity
  /\ \A k \in Key : Cardinality(tries[k]) <= 2 * MaxAttempts - 1

\* Whoever has a form carried out logged in no longer than TTL before the request
\* arrived, with a role that was configured then and suffices, and sent the token of
\* that very session; also after a restart that changed the users (app.ts:49-61, 87-109).
ActsWereAuthenticated ==
  acted # Nobody =>
    \E l \in logins :
      /\ l.user = acted.user /\ l.csrf = acted.csrf
      /\ l.at <= acted.arrived /\ acted.arrived <= l.at + TTL
      /\ HasRole(l.role, Needs[acted.form])
=============================================================================
