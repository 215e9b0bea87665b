----------------------------- MODULE SafeFetch -----------------------------
(***************************************************************************)
(* One call of postJson (packages/core/src/providers/http.ts) through      *)
(* safeFetch (packages/core/src/net/safeFetch.ts): lookups, requests,      *)
(* redirects and the reading of the body, against a timer that starts      *)
(* after the first lookup and aborts requests and reads, not lookups.      *)
(*                                                                         *)
(* A URL is known by what validateUrl finds without asking the resolver;   *)
(* the resolver and the servers answer as they like, servers maybe never.  *)
(***************************************************************************)
EXTENDS Integers, Sequences

CONSTANTS
  Url,
  Kind,          \* of each URL: "blocked" (scheme, credentials, local name, host not
                 \* allowed, address not public), "address" (public) or "name"
  First,         \* the URL of the call
  MaxRedirects, MaxBytes

ASSUME FetchAssumption ==
  /\ Kind \in [Url -> {"blocked", "address", "name"}]
  /\ First \in Url /\ MaxRedirects \in Nat /\ MaxBytes \in Nat

VARIABLES
  pc,            \* "start", or what the call awaits: "lookup", "request", "read"; "done"
  url,
  redirects,
  total,         \* bytes read
  timer,         \* "unset", "running", "fired", "cleared"
  outcome,       \* "none", "ok", or the code of the error
  hops           \* history: the requests sent, each with the addresses found for its URL

vars == <<pc, url, redirects, total, timer, outcome, hops>>

\* What a lookup finds; one that fails finds nothing.
Address == {"public", "forbidden"}

FetchInit ==
  /\ pc = "start" /\ url = First /\ redirects = 0 /\ total = 0
  /\ timer = "unset" /\ outcome = "none" /\ hops = <<>>

-----------------------------------------------------------------------------
\* The finally clause clears the timer; the first validation is before it.
Finish(result) ==
  /\ pc' = "done" /\ outcome' = result
  /\ timer' = IF timer = "unset" THEN "unset" ELSE "cleared"
  /\ UNCHANGED hops

\* The loop requests u.  The timer is set before its first turn; when it has fired
\* during a lookup nothing is sent.
Request(u, found) ==
  IF timer = "fired" THEN Finish("network_blocked")
  ELSE /\ pc' = "request" /\ timer' = "running"
       /\ hops' = Append(hops, [url |-> u, found |-> found])
       /\ UNCHANGED outcome

Unchecked(u) == url' = u /\ Request(u, {})                                  \* mutant

\* validateUrl, up to the lookup of a name.
Validate(u) ==
  /\ url' = u
  /\ \/ Kind[u] = "blocked" /\ Finish("network_blocked")
     \/ Kind[u] = "address" /\ Request(u, {"public"})
     \/ Kind[u] = "name" /\ pc' = "lookup" /\ UNCHANGED <<timer, outcome, hops>>

StartFetch == pc = "start" /\ Validate(First) /\ UNCHANGED <<redirects, total>>

\* validateUrl after the lookup: there is an address and every one is public.
Resolved ==
  /\ pc = "lookup"
  /\ \E found \in SUBSET Address :
       \/ found # {} /\ "forbidden" \notin found /\ Request(url, found)
       \/ (found = {} \/ "forbidden" \in found) /\ Finish("network_blocked")
  /\ UNCHANGED <<url, redirects, total>>

-----------------------------------------------------------------------------
(* What the server does before the timer fires. *)

Await(what) == pc = what /\ timer = "running"

\* A redirect; the location may be missing, or be no URL.
Redirected ==
  /\ Await("request")
  /\ UNCHANGED total
  /\ \/ Finish("network_blocked") /\ UNCHANGED <<url, redirects>>
     \/ /\ redirects' = redirects + 1
        /\ IF redirects' > MaxRedirects THEN Finish("network_blocked") /\ UNCHANGED url
           ELSE \/ Finish("provider_unavailable") /\ UNCHANGED url
                \/ \E u \in Url : Validate(u)

\* Any other status: the body is read next.
Responded ==
  /\ Await("request") /\ pc' = "read"
  /\ UNCHANGED <<url, redirects, total, timer, outcome, hops>>

\* Some bytes, and one that is too much.
Chunk ==
  /\ Await("read")
  /\ \/ total < MaxBytes /\ total' = total + 1 /\ UNCHANGED <<pc, timer, outcome, hops>>
     \/ Finish("network_blocked") /\ UNCHANGED total
  /\ UNCHANGED <<url, redirects>>

\* postJson: 429 and 5xx, any other status but 2xx, a body that is not JSON.
PostJson(status, json) ==
  CASE status = "unavailable"        -> "provider_unavailable"
    [] status = "refused"            -> "provider_error"
    [] status = "success" /\ ~json   -> "provider_error"
    [] status = "success" /\ json    -> "ok"

Ended ==
  /\ Await("read")
  /\ \E status \in {"success", "refused", "unavailable"}, json \in BOOLEAN :
       Finish(PostJson(status, json))
  /\ UNCHANGED <<url, redirects, total>>

\* The connection fails.
Failed ==
  /\ Await("request") \/ Await("read")
  /\ Finish("provider_unavailable") /\ UNCHANGED <<url, redirects, total>>

-----------------------------------------------------------------------------
Fire ==
  /\ timer = "running" /\ timer' = "fired"
  /\ UNCHANGED <<pc, url, redirects, total, outcome, hops>>

AbortRequest ==                                                             \* mutant
  /\ timer = "fired" /\ pc = "request"
  /\ Finish("network_blocked") /\ UNCHANGED <<url, redirects, total>>

\* The signal ends a request or a read, not a lookup.
Abort ==
  /\ timer = "fired" /\ pc \in {"request", "read"}
  /\ Finish("network_blocked") /\ UNCHANGED <<url, redirects, total>>

FetchNext ==
  \/ StartFetch \/ Resolved
  \/ Redirected \/ Responded \/ Chunk \/ Ended \/ Failed
  \/ Fire \/ Abort

\* The resolver answers and the timer fires; servers owe nothing.
Fairness == WF_vars(StartFetch) /\ WF_vars(Resolved) /\ WF_vars(Fire) /\ WF_vars(Abort)

FetchSpec == FetchInit /\ [][FetchNext]_vars /\ Fairness

-----------------------------------------------------------------------------
(* Properties *)

\* Every request of a call, the redirected ones too, goes to a URL that was checked and
\* found public in this call; there are at most MaxRedirects more than one, and the
\* URL of the answer is the last one requested (safeFetch.ts:15, 160-197).
HopsVetted ==
  /\ \A i \in DOMAIN hops : Kind[hops[i].url] # "blocked" /\ hops[i].found = {"public"}
  /\ Len(hops) <= MaxRedirects + 1
  /\ outcome = "ok" => hops # <<>> /\ hops[Len(hops)].url = url /\ total <= MaxBytes

\* A call returns whatever the servers do, as long as lookups return: the timer bounds
\* requests, redirects and reads (safeFetch.ts:16, 167).
FetchReturns == <>(pc = "done")
=============================================================================
