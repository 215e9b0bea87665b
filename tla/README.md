# A verification project for Evidentia

TLA+ models of Evidentia (TypeScript: `packages/core`, `packages/cli`, `apps/admin`),
TLC configurations that check them, and proofs that TLAPS checks. All paths below are
relative to the root of the repository; `pipeline.ts` and the like are files under
`packages/core/src/`.

## 1. The system

A deployment is one SQLite file (WAL) and several processes that open it: the
administration console (one Node process, Hono), any number of commands of the CLI, and
scheduled jobs (retention). `docs/OPERATIONS.md` tells the operator to quiesce writers for
maintenance, so concurrent writers are the normal case. Two facts shape every model:

* **Inside a process** JavaScript runs a function to completion unless it awaits. Most
  methods are synchronous; `publish`, `ingest`, `complete`, `embed` and the observatory's
  `run` await the network *between reading the database and writing it*.
* **Between processes** only the database is shared. `transaction()` (`database.ts:40-55`)
  is a deferred `BEGIN`: the first read fixes a snapshot, the first write takes the one
  write lock or throws at once (no busy timeout is set). A statement outside a transaction
  commits by itself.

| Component | State | Operations | Interacts through | What is hard | What makes it correct |
|---|---|---|---|---|---|
| Content pipeline (`publishing/pipeline.ts`) | `drafts`, `publications` | createDraft, updateDraft, verify, gate, decide, publish | approvals, ledger, policy, adapters | await in publish; two commits per method; unconditional UPDATEs | what leaves was cleared in that very form; four eyes; single use |
| Approval service (`governance/approvals.ts`) | `approvals` | request, decide, assertValid, consume, expiry on read | ledger, clock | check outside the transaction; expiry racing a receipt | one-way life cycle; decided by an outsider |
| Publishing adapters (`publishing/adapters.ts`) | the target | publish | network, file system | lost receipts, retries | at most one artefact per approval |
| Audit ledger (`audit/ledger.ts`) | `audit_events` | append, head, list, verify, verifyCached | every component appends | concurrent appends; rollback; damage | chain never forks; damage shows |
| Storage (`storage/`) | the file, `schema_migrations` | openDatabase, transaction, applyMigrations | every component | snapshots, lock, concurrent first open | atomic, no lock left held |
| Retention, export, erasure (`governance/retention.ts`) | all tables | applyRetention, exportTenant, eraseTenant | pipeline, approvals, ledger | running beside calls in flight | never revives or breaks an approval |
| Policy (`governance/policy.ts`) | none | evaluatePublication, evaluateModelAccess, retentionDaysFor | router, pipeline | rule order, deny by default | deny dominates |
| Router and cost meter (`providers/router.ts`, `costMeter.ts`) | `model_calls`, budgets | plan, complete, embed, record, exhaustedHardBudget | registry, policy, ledger, providers | budget checked before the await, metered after | fallback inside the allowed set; bounded overshoot |
| Knowledge store (`knowledge/store.ts`) | `sources`, `documents`, `chunks`, `claims`, `entities`, index | addSource, ingest, deleteSource, redactTerm, setQuarantine | embedder, ledger | await of the embedder | one whole version per source; quarantine and redaction hold |
| Hybrid retrieval (`retrieval/hybrid.ts`) | none | search, toEvidence | store, embedder | documents changing meanwhile | shows what was visible, and only that |
| Observatory (`observatory/`) | `query_sets`, `observations` | saveQuerySet, run, report | router, ledger | runs beside erasure, a registry that changes, new versions | a run accounts for every prompt; nothing survives an erasure |
| Safe fetch (`net/safeFetch.ts`) | none | safeFetch, and `postJson` through it | DNS, network | redirects, timer, size limit | every hop validated; the call returns |
| GEO analysis (`geo/`) | none | parseRobots, evaluateAiAccess, analyzePage | pipeline, console | which group and which rule wins; a score of forty checks | robots.txt read as declared; an improvement never lowers the score |
| Grounding and markdown (`content/`) | none | verifyDraft, renderWithSources, markdownToHtml | pipeline | thresholds that interact | fabrication is found; a page has all of its draft and its sources |
| Ingestion algorithms (`knowledge/chunker.ts`, `html.ts`, `claims.ts`, `entities.ts`) | none | chunkText, extractHtml, extraction | store | overlap windows, nested hidden elements | no text lost; evidence is what a reader sees |
| Registers (`governance/registers.ts`) | `model_registry`, `ai_systems`, `processing_records` | upsert, setApprovalStatus | ledger, router | a status changed in two statements while calls have planned | a withdrawn model gets no new call |
| Console (`apps/admin`) | users, cookies, login limiter | login, logout, forms | everything | awaits on bodies, cookies that outlive restarts | attempts bounded; acts by those who logged in |
| Command line (`packages/cli`) | none | commands | everything | several processes | see the components it calls |

`PROJECT.json` lists every component with its status and every hazard with its line.

## 2. Modules

| Module | What it is |
|---|---|
| `ContentPipeline` | pipeline, approval service, retention of drafts and approvals, adapters, over one database |
| `PipelineProperties` | what the pipeline promises; the claims of the documentation it does not keep; fairness |
| `EditorialControl` | the same promise without the mechanism: licences, given and lost |
| `PipelineRefinement` | the refinement mapping from the first to the last |
| `MCPipeline` | finite instances |
| `PipelineProofs` | theorems about any instance: any deployment; one process; one process with no call cut short |
| `AuditLedger` | the hash chain over concurrent transactions, with damage behind the API |
| `MCLedger` | finite instances |
| `AuditLedgerProofs` | theorems about any instance |
| `KnowledgeStore` | the store's tables, ingestion and search around their awaits, review, redaction, deletion |
| `MCKnowledge` | finite instances |
| `KnowledgeProofs` | theorems about any instance |
| `ModelRouter` | complete and embed of overlapping calls, the cost meter, one hard budget, the model registry |
| `MCRouter` | finite instances |
| `RouterProofs` | theorems about any instance |
| `Database` | processes that open the file and migrate it |
| `Observatory` | query sets and runs, several in each process, beside the tenant's erasure and writes that are refused; extends `Database` |
| `MCObservatory` | finite instances |
| `ObservatoryProofs` | theorems about any instance of both |
| `SafeFetch` | one request with its lookups, redirects, limits and timer |
| `MCFetch` | a finite instance |
| `Console` | logins, limiter, sessions and roles of the console |
| `MCConsole` | a finite instance |
| `ConsoleProofs` | theorems about any instance |
| `Policy` | model access and the publication gate, as functions |
| `Grounding` | the verification of a draft against its evidence |
| `Robots` | robots.txt: groups, the group of an agent, the rule that wins |
| `Chunker` | headings and chunks of a text |
| `Html` | the text, headings, links and title of a page |
| `Readiness` | the readiness checks, the score, the recommendations |
| `Report` | mentions, citations and the report of the observatory |
| `Rendering` | footnotes and the blocks of a page |
| `MCAlgorithms` | the functions of the last eight modules on every input of small sets |
| `AlgorithmProofs` | theorems about `Policy`, `Grounding`, `Robots`, `Chunker`, `Readiness`, `Report` and `Rendering` on any input |
| `WebProofs` | theorems about `SafeFetch` on any instance and `Html` on any page |

### ContentPipeline and the code

A *call* is one execution of a method of `ContentPipeline`; `call[r]` records where it
stands and which columns of the row it has read and will use again, which is what makes
stale reads visible. One action is the code between two points where other code can run:

* `Begin…` is a method's first read with its early returns (a call that returns early takes
  no step, since it changes nothing); `Commit…`, `RecordContribution`, `Consume`,
  `SettlePublication`, … are one commit each, in the order of the source.
* `ReadApproval` is `ApprovalService.get` with the test of `#expireIfStale` and the
  caller's checks; `Expire` is the UPDATE that persists an expiry before the call throws.
* `At(r, step)` contains `CanRun(r)`: a call goes on only if no other call of its process is
  inside a synchronous section. With one process the interleavings are exactly those of the
  event loop (calls overlap only in the await of `publish`); with two processes they are
  those of the database.
* `Abort` is a process that dies, or a statement that throws, anywhere: what has been
  committed stays. In-memory state is the call itself, so a restart is the loss of the call.
* `TargetAccepts` happens at the target, so it does not need the process; `AdapterFails` may
  follow it (the answer was lost), so a retry may deliver twice.
* `Age` is the clock passing 30 days and then the retention of approvals (the shipped
  policy has the second above the first).

| Variable | Code |
|---|---|
| `drafts` | table `drafts`: status, body+title+slug+flag (`text`), evidence and report (one JSON column), `gate_result`, `approval_id`, author, reviewer |
| `approvals` | table `approvals`; `payload` is what `payload_hash` binds; `reviewed` is history |
| `publications` | table `publications` |
| `contributed` | the actors `contributors()` reads from the ledger |
| `delivered`, `editors` | history: what targets accepted; who really edited |
| `call` | the calls in progress |

Abstractions. SHA-256 and canonical JSON are injective. `Text` stands for all the payload
hashes, `Evidence` for the evidence list. The policy is an arbitrary function `Effect` of
the text and of the report; in the runs AI-assisted `t1` needs an approval, `t2` is allowed,
evidence `e2` supports neither (denied). The report is the pair it was computed from.
`decide`'s read of the row and of the ledger are one step, as are the reads of one approval
row and the checks on it. Slug uniqueness, rendering, the readiness score and every ledger
event the pipeline does not read back are left out. `createDraft` takes any author.

### AuditLedger and the code

`Begin` is `BEGIN` with the first read, `AppendEvent` is `append` inside the transaction
(several may follow each other, since a nested `transaction()` joins the outer one),
`Commit` and `Rollback` end it. `MayWrite` is SQLite's rule in WAL mode: an INSERT succeeds
when the transaction already holds the lock, or nobody does and nothing has been committed
since its snapshot; otherwise it throws, which is `Rollback`. A hash *is* what it was
computed from. `Load` is `rowToEvent`: a text column that is empty comes back undefined.
`Alter` and `Delete` change a committed row in place or remove it, without recomputing
hashes; `log` remembers what was appended under each number.

### KnowledgeStore and the code

One process: every method but `ingest` and `search` is one transaction, hence one action.
`BeginIngest` is `ingest` up to the await of the embedder, with its early return for a
fingerprint that is already there; `CommitIngest` is the transaction after it, whose foreign
key fails when the source has been deleted meanwhile (`Abort`). `BeginSearch` reads the
lexical leg, `EndSearch` the semantic one. Any number of calls overlap, so a deletion, a
redaction, a review or another ingestion may fall into each await.

| Variable | Code |
|---|---|
| `sources`, `documents` | the tables, by id; `quarantine` is the flag in `metadata`, `named` says that title or owner contains the term |
| `chunks`, `index`, `claims`, `mentions`, `entities` | tables `chunks`, `chunks_fts`, `claims`, `entity_mentions`, `entities`, as sets of rows |
| `call` | the locals of `ingest` and `search` that survive the await |
| `erased` | history: a redaction has happened, and nothing in which one would find the term has been stored since |

Abstractions. A document has one chunk, and a chunk one claim, each standing for all of
them (what the code does to one it does to every one; an empty document has none, and is
left out). A text is the content it was extracted from with a flag for the redaction of the
one term. The text of a document is not that of its chunks: a sentence that is longer than the
target is cut (`chunker.ts:70-73`), and `documents.content` keeps it whole (`store.ts:212`).
So a content says where it has the term: in a chunk (`Naming`), in the title (`Titled`), in a
part no chunk has (`Tailed`), or in several of these. `CutOf` is what the chunks have of a
document's text, `FoundByChunk` and `FoundDocuments` are what `findTerm` finds, which reads
chunks and titles and no contents, and `RedactTerm` rewrites the content and title of just
those. A deleted row keeps only that its id was used. What extraction finds is the parameter `Mentioned`. A query matches every text and
`k` is large, so that what a search leaves out is left out by the state of the documents.
Embeddings, offsets, scores and filters on sources are left out. A deleted id is not used
again. `SetQuarantine` to the present state changes only a note and is no step.
`EraseTenant` is `eraseTenant` on these tables, one transaction; a call in progress goes on
after it, and an ingestion then fails at its foreign key.

### ModelRouter and the code

One tenant and workload, one hard budget, as many calls as the instance has, in one process
or in several: the budget is read when a call begins, and every later write is a step of its
own. `Answer` and `AdapterFails` end the await; `Meter` is the INSERT into `model_calls`,
`AuditAnswer` and `AuditFailure` the ledger's transaction after it; `WriteFails` is either of
them throwing. `Caught` is the `try` of `complete`: it also contains the record of a success,
so a record that throws is followed by the record of a failure and by the next candidate.
`embed` has no `try`. `rows` counts the rows of the budget's window by cost (an unpriced
model has cost NULL, which the sum ignores and the count does not); `Elapse` is a row leaving
the window. `Rankings` admits any order of the candidates, so it covers the four strategies,
and a single preferred model. The adapters' capabilities are `Does`.

`registry` is the table `model_registry`: a row is a status and the data classes the policy
allows the model for when it is approved (`Policy` has that decision in full). `Upsert` is
one transaction; `ReadRow` and `WriteRow` are the two statements of `setApprovalStatus`,
which no transaction holds together, so that `change` carries a row that may be stale. A
plan is made once, when the call begins: `withdrawn` is history, the models of a plan that
lost their approval since.

### Database, Observatory and the code

`Open` reads the applied versions, `Migrated` is one migration with its row in
`schema_migrations` (the primary key makes the slower of two processes fail), `Thrown` ends
the program. `Observatory` extends it, since only a process that has the database open saves
or runs. `Save` and `Saved` are the two statements of `saveQuerySet`. `Begin`, `Ask`,
`Denied`, `Insert`, `InsertFails` and `End` are the stretches of `run` between its accesses to
the database and its awaits, and inside the await of `router.complete` come its own:
`AskFails` is the reading of the registry, or the event of a denial, that throws; `Answered`
is an answer with its record; `RecordFails` an answer whose record throws at the INSERT (no
row) or at the ledger's event after it (a row that stays), which the `try` of
`router.ts:104-109` takes for a failure of the call; `CallFails` the adapter's own failure;
`FailureRecorded` the record of either failure in the `catch` (112), which may leave no row
too. So a prompt leaves no row, one or two. The run names its model (`preferred`), and a model
is registered once (`UNIQUE` in `migrations.ts`), so that `complete` has one candidate here
and does not go on to another; `ModelRouter` has the fallback.

`runs[s]` holds the locals of the run in slot `s`: its process, where it stands and its
summary. A process may have several, since nothing in the code forbids it (the command line
starts one); their steps interleave at every statement, which is more than the event loop of one process allows. Every
write may be refused, `MaxRefusals` times in all: another process holds the lock, the disk is
full. `Denied` may end the run when its own event is refused (`runner.ts:209`). `Erase` is
`eraseTenant`; what registry, policy and budget say is any answer at any prompt. `since` and
`asked` are history: how many erasures there had been when the run began and when the model
was asked. The answer itself, its mentions and citations are `Report`'s subject.

### SafeFetch and the code

`pc` says what the call awaits. `Validate` is `validateUrl` up to its lookup, `Resolved` what
follows it; `Redirected`, `Responded`, `Chunk`, `Ended`, `Failed` are what the server may do
before the timer fires, `Fire` and `Abort` the timer. The limits on redirects and bytes are
the code's. Which URLs are forbidden without a lookup (scheme, credentials, names, literal
addresses, the allow list) is the parameter `Kind`; what a lookup finds is any set.

### Console and the code

A request is two steps, because a handler runs to the await of its body (`LoginArrives`,
`FormArrives`) and then to its end (`LoggedIn`, `FormCarriedOut`, `Refused`). `attempts` is
the limiter's map in insertion order, with its pruning and its eviction of the oldest key.
A cookie is the session it signs, with its role, its end and its CSRF token; the clients
together may send any cookie ever issued. `Restart` loses the map and the requests, and may
change the configured users; cookies survive, since the secret does. `acted`, `logins` and
`tries` are history.

### The pure functions

Each module translates its functions on inputs reduced to what the decisions look at; a
comment at its head says what that is. `MCAlgorithms` makes a *task* of every input of small
sets, and one step computes its answer; the properties compare it with a definition of what
the function is for, stated apart from how it computes:

* `Policy`: effects and counts of blockers and reasons, not their wording.
* `Grounding`: a sentence is its markers, its specifics (figures, qualifiers, names), its
  negations and its overlap with each item of evidence, in percent.
* `Robots`: tokens and patterns are known by their length and by what they fit or cover.
* `Chunker`: a text is the ranges of its sentences and the offsets and levels of its headings.
* `Html`: a page is the sequence of its tokens; a text is known by its place in the page. Every
  `a` has an href (without one, `html.ts:271` does not take it for a link).
* `Readiness`: a page is the facts that the checks read, each from worst to best; points are
  counted in halves so that sums are exact, and a dimension is the sequence of its checks.
* `Report`: an answer is a sequence of words, with its links and the tool's; a rate is a pair
  of counts.
* `Rendering`: a draft is its lines, each of a kind, and its text: words, markers and
  references, each on a line. The kind of a line is that of the draft, before markers become
  references: a line that starts with a marker and a colon, which the code then reads as the
  definition of a footnote, is left out.

## 3. Runs

| Run | Instance | Checks |
|---|---|---|
| `pipeline_process` | 1 process, 2 calls, 1 draft (created), 2 texts, 2 evidence lists, 2 actors, 1 approval, 2 publications, aborts | `TypeOK`, `DeliveredAsCleared`, `OnePublicationPerApproval`, `ApprovalLifecycle`, `PublishedImmutable` |
| `pipeline_calls` | 1 process, 2 calls, no aborts, fairness | `PendingOnlyIfApprovalLost`, `ApprovedByOutsider`, `CallsReturn`, `ImplementsEditorialControl` |
| `pipeline_processes` | 2 processes, one call each, 1 draft (created), no aborts | `DeliveredUnderItsApproval`, `ConsumedWasDelivered` |
| `ledger` | 2 writers, 3 rows, aborts, damage | `TypeOK`, `ChainVerifies`, `VerifiedIsAsWritten`, `AppendOnly` |
| `knowledge` | 2 calls, 2 sources, 4 documents, 2 locators, 3 contents with a name in a part no chunk has (one nowhere else; one in its title; one in a chunk, with an instruction), 2 entities | `TypeOK`, `OneVersionPerSource`, `DocumentsWhole`, `MinedUnlessQuarantined`, `EntitiesMentioned`, `ErasedFromText`, `SearchAnswers` |
| `router` | 2 calls, 3 models (one unpriced, for embeddings; one whose record changes), 2 attempts, limit 1 EUR at 1 EUR an answer, ceiling of 2 calls, crashes, fairness | `OnlyAllowedAsked`, `BudgetBounded`, `CallsReturn` |
| `observatory` | 2 processes, 2 migrations, 2 slots for runs of at most 2 models with 2 prompts, 3 saves and models run in all, 1 erasure, 1 refused write, crashes, fairness of runs | `SchemaReady`, `ErasedStaysErased`, `SummaryAccounts`, `NewestOnTop`, `RunsEnd` |
| `fetch` | 4 URLs (two names, a public address, a forbidden one), 3 redirects, 2 bytes, fairness | `HopsVetted`, `FetchReturns` |
| `console` | 2 users, 2 requests at once, 2 limiter keys in a map for 1, window 2, sessions of 1, 4 moments, 2 logins, 1 restart | `LoginsBounded`, `ActsWereAuthenticated` |
| `algorithms` | every input of the sets in `MCAlgorithms` | `RobotsAsDeclared`, `NothingLost`, `EvidenceIsVisible`, `FabricationDenied`, `ReportAddsUp`, `DecisionsMonotone` |
| `claim_consumed_once` | 1 process, 2 calls | `OneDeliveryPerApproval` is violated |
| `claim_edits_reset` | 1 process, 2 calls | `PublishedWasDelivered` is violated |

The passing runs and the violations belong together: they draw the line between what the
code guarantees everywhere, what it guarantees while one process runs it, and what it does
not guarantee. `DeliveredAsCleared` holds for one process, even one that dies anywhere, and
fails for two; redaction reaches every chunk, claim, entity and source and all of the documents
it finds, but neither a term that is only in a dropped part of a text nor the entity lists of
the claims (`ErasedFromDerived`); an approval settles one publication but can let out two artefacts.

What the other runs show. `router`: a withdrawn approval stops every call that has not
begun, and only those; the overrun of a hard budget is what the calls in progress at once
may cost. `observatory`: however two processes open, save, run, erase and die, and whichever
write is refused, a run's summary accounts for each prompt of the models it is through with,
an observation that is stored has its call recorded as answered and not also as failed, and of
an erased tenant nothing comes back but, for each run that was in progress, the rows of one
prompt: the one its model was answering. That each outcome has exactly one row of
`model_calls` is *not* so. `fetch`: no hop
goes out unvetted, and the call ends whatever the servers do as long as lookups end.
`console`: a key gets up to `2 * MaxAttempts - 1` attempts through in a window, one less
than twice the nominal limit and no more; a role outlives its removal from the configuration
by at most the life of a session. `algorithms`: see the properties of each module.

**Bounds.** Two calls are what every race named in the hazards needs; a third only repeats
one of them. One draft is enough because an approval names its draft and no method reads
another draft; one approval id at a time because a second gate of the same draft clears the
reference to the first (`pipeline_process` has two publications, so that one approval can be
tried twice). Two texts and two evidence lists are an original and an edit. Two actors are
an editor and someone else. Two runs start after `createDraft` (`InitCreated`), which
`pipeline_calls` covers, and the run with two processes cuts no call short: the proofs of
its two properties do cover aborts, and any number of processes. The identifiers run out, so the runs say `CHECK_DEADLOCK FALSE`,
apart from the ledger's, where a transaction can always be opened, and the router's, where
the window can always move on or a call begin; in the other runs time, saves and runs run
out, a fetch returns, a task is answered. In `knowledge`, four documents are two
versions of each source, or a version that a second call supersedes while others are stored;
the harmful content is also the one with the name in a chunk, so that redaction, quarantine
and release meet; each content has the name in a part no chunk has, so that what a redaction
finds the document by decides what becomes of it there. In `router`, replacing `>=` by `>` in the test
of the budget exceeds `BudgetBounded`; a limit one answer reaches, and a ceiling two reach,
are met by single calls and by overlapping ones. One model's record is enough to change,
since what is asked depends on the record of one model at a time. In `observatory`, two
models of two prompts let a run be denied, fail or lose its query set at the first, a middle
and the last prompt; the bound of 3 on saves and models run together admits two saves that race
and one that finds both, one save and a run of two models, and one save and two runs at once,
in one process or two, each of which has put a question when the tenant is erased. One refused
write meets each place where one can be refused. In `console`, a
window of 2 in 4 moments lets attempts fall on both sides of a window's end, and a map for
one key makes every second key an eviction. In `fetch`, one redirect more than allowed can
happen. The inputs of `algorithms` are all sequences up to a length at which its cases meet:
five lines of robots.txt are two groups with rules in between; six sentences of lengths below
and above the target of 6 make chunks that overlap, chunks that are cut and tails; five nodes
nest an element in an element that is hidden; two sentences of a draft are a good and a bad
one; pages differ from three corners in any two facts. Symmetry is over
the generated ids, calls and actors, and over users, keys and requests of the console; it is
not used in a run with liveness, nor over actors where the initial state names one.

**Fairness.** `FairSpec` asserts strong fairness of `Continue(r)` for each call: Node runs
the continuations that are ready in turn, and a call is blocked only while another call of
its process is inside a synchronous section. Nothing forces a *new* call to start. That an
adapter answers or fails is the timer of `safeFetch.ts:168` (15 s); its first host lookup is
outside the timer and is assumed to end by itself. In the router weak fairness is enough,
because nothing but a crash disables a call that can continue: the two writes succeed or throw, and the
adapters' requests have a timer of their own (`providers/http.ts`). A run of the observatory
is likewise one promise that is always ready to go on or waiting for such a call. In `fetch`
the servers owe nothing: fairness is asserted of the first step, of lookups (the operating
system's resolver gives up by itself), of the timer and of the abort it causes.

**Mutants.** Each property of a passing run fails when one definition is replaced by the
variant beside it in the module (marked `mutant`): a dropped status check, a check of the
requester alone, an unhandled denial, an edit that leaves an approved draft approved, an
approval consumed before the adapter call, a failure not recorded, a lock that is not
released, and so on.

## 4. Findings

`PROJECT.json` quotes each sentence of the documentation with its line.

1. One approval can release two artefacts: `publish` checks before the await and consumes
   after it (`pipeline.ts:265`, `280`).
2. A reviewer of an earlier text is named as the approver of one nobody approved: edits
   clear `approval_id` but not `reviewer` (`pipeline.ts:154`, `287`).
3. An edit made during the await ends up published, though it was never delivered
   (`pipeline.ts:283`).
4. With two processes, `gate` and `decide` overwrite an edit with a status computed from
   the row before it (`pipeline.ts:194`, `216`).
5. An event with an empty optional field breaks verification by itself (`ledger.ts:75`,
   `100`; reachable through `apps/admin/src/app.ts:50`).
6. A redacted name stays in the entity lists of the claims (`store.ts:237`, `367`).

Findings 1 and 3 are the violation runs. 2, 4, 5 and 6 are seen by checking
`NamedApproverApproved` (`PipelineProperties`), `DeliveredAsCleared` with two processes,
`ChainVerifies` with a caller that passes `''`, and `ErasedFromDerived` (`KnowledgeStore`).

The rest follows from the models, or was met while writing them:

* An edit whose ledger event is lost (a process that stops between `pipeline.ts:153` and
  `156`) leaves its editor free to approve: `ApprovedByOutsider` fails when calls may be cut
  short.
* Rows removed from the end of the ledger are not missed (`ledger.ts:204-218`, against lines
  13-14): `VerifiedIsAsWritten` speaks of the rows that are kept.
* A failing `embed` is neither metered nor audited (`router.ts:125`, against lines 18-19).
* `setApprovalStatus` reads, updates and appends in no transaction and does not validate the
  status (`registers.ts:99-118`, against line 18, "Every write is validated and audited with
  before/after state"): an `upsert` in between is lost, and the audited state before is stale.
* `redactTerm` is documented to replace a term "everywhere it can appear (chunk text, [...]
  document content and title, [...])" (`store.ts:335-338`), and `docs/SECURITY_ARCHITECTURE.md:27-28`
  says that it "rewrites documents". It rewrites the contents of documents that `findTerm`
  found by a chunk or a title (`store.ts:321-331`, `364-372`); a term that occurs only in the
  end of a sentence the chunker has cut stays in `documents.content`. `ErasedFromText` allows
  this case, `Tailed` without `Naming` and `Titled`, and no other.
* An erasure can be followed by rows of `model_calls` (`retention.ts:62-90`; the table refers to
  nothing): for each run that was waiting for a model, the one or two of its prompt
  (`ErasedStaysErased`). `exportTenant` reads its tables in no transaction.
* A call can leave no row in `model_calls`, when the INSERT of its failure is refused, or two, `ok`
  and `error`, when the ledger refuses the event of its answer (`router.ts:107`, `112`, against
  lines 18-19, that every attempt is metered and audited): `RecordFails` and `FailureRecorded` in `Observatory`,
  `WriteFails` in `ModelRouter`.
* In `observatory/runner.ts`, an exhausted budget is reported as `policy_denied` and skips
  the rest of the model; a model listed twice resets its own counts; `seriesBreaks` cuts
  model names at `/` (line 280).
* A sentence longer than the target loses its end (`chunker.ts:72-73`), and a heading path
  loses ancestors when a level is skipped (25-35): `Complete` in `Chunker` says exactly how
  much.
* Only the first of several groups for one agent is used (`robots.ts:92-105`); RFC 9309, which
  lines 2-4 name, merges them.
* A closing tag of the same name inside a hidden element ends the hiding (`html.ts:247`,
  against 238-240); an SVG's `<title>` replaces the page's (255-258): `Plain` in `Html` names
  the pages that `EvidenceIsVisible` and `PagesReadPlainly` speak of.
* Recommendations are ordered by points alone (`analyzer.ts:339`, against 334), and some
  checks lose points without one.
* A draft with footnotes of its own shares their numbers with those of its sources
  (`grounding.ts:263-272`).
* The timer of `safeFetch` does not end a lookup, so that a resolver that hangs is not bounded
  by `timeoutMs`.
* In the console, a session that ends while the body is awaited still acts; a role removed
  from the configuration stays in the cookies until they end; a logout deletes the cookie in
  the browser only.
* The static export writes three files with awaits between them (`adapters.ts:52-57`): two
  publications under one slug may mix, and a failure leaves a page online.

## 5. Proofs

TLAPS proves, for **every** value of the constants:

| Module | Theorem | States | Of |
|---|---|---|---|
| `PipelineProofs` | `TypeCorrect` | `TypeOK` | `Spec` |
| | `DeliveriesCovered` | `DeliveredUnderItsApproval` | `Spec` |
| | `ConsumptionsDelivered` | `ConsumedWasDelivered` | `Spec` |
| | `DeliveriesCleared` | `DeliveredAsCleared` | `Spec`, one process |
| | `ApprovalsSettleOnce` | `OnePublicationPerApproval` | `Spec`, one process |
| | `LifecycleOfApprovals` | `ApprovalLifecycle` | `Spec`, one process |
| | `PublishedStaysPublished` | `PublishedImmutable` | `Spec`, one process |
| | `ApproversAreOutsiders` | `ApprovedByOutsider` | `SpecNoAbort`, one process |
| | `PendingMeansApprovalLost` | `PendingOnlyIfApprovalLost` | `SpecNoAbort`, one process |
| | `PipelineImplementsEditorialControl` | `ImplementsEditorialControl` | `SpecNoAbort`, one process |
| `AuditLedgerProofs` | `TypeCorrect` | `TypeOK` | `Spec` |
| | `UndamagedVerifies` | `ChainVerifies` | `Spec`, no caller passes `''` |
| | `VerifiedAsWritten` | `VerifiedIsAsWritten` | `Spec` |
| | `NeverRewritten` | `AppendOnly` | `Spec` |
| `KnowledgeProofs` | one for each property of `knowledge` | | `Spec`, erasure included |
| `ObservatoryProofs` | `SchemaIsReady` | `SchemaReady` | `Spec` |
| | `VersionsGrow` | `NewestOnTop` | `Spec` |
| | `ErasedStays` | `ErasedStaysErased` | `Spec` |
| | `SummariesAccount` | `SummaryAccounts` | `Spec` |
| `RouterProofs` | `AskedModelsAllowed` | `OnlyAllowedAsked` | `Spec` |
| | `OverrunIsBounded` | `BudgetBounded` | `Spec` |
| `ConsoleProofs` | `ActsAreAuthenticated` | `ActsWereAuthenticated` | `Spec` |
| | `AttemptsAreFew` | `LoginsBounded` | `Spec` |
| `AlgorithmProofs` | `GateMonotone` | `WorseNeverEasier` | any policy and facts |
| | `AccessNeverWidens` | `NeverWidens` | any rules, model, classes |
| | `ReportsSound` | `ReportSound` | any draft, any evidence |
| | `FabricatedIsDenied` | a fabricated draft is denied | any policy that blocks unsupported claims |
| | `FabricationsDenied` | `FabricationDenied` | `Spec` of `MCAlgorithms` |
| | `RobotsDeclared` | `AsDeclared` | any file, of tokens and patterns of known length |
| | `RobotsAnswered` | `RobotsAsDeclared` | `Spec` of `MCAlgorithms` |
| | `ChunksComplete` | `Complete` | any text and headings, each in order |
| | `PagesScoredHonestly` | `ScoreHonest` | any page whose facts may occur together |
| | `DecisionsAreMonotone` | `DecisionsMonotone` | `Spec` of `MCAlgorithms` |
| | `ReportsAddUp` | `AddsUp` | any query set, any answers to it |
| | `TaskReportsAddUp` | `ReportAddsUp` | `Spec` of `MCAlgorithms` |
| | `DraftsRendered` | `NothingUnrendered`, `SourcesShown` | any draft, any evidence |
| | `TasksLoseNothing` | `NothingLost` | `Spec` of `MCAlgorithms` |
| `WebProofs` | `EveryHopIsVetted` | `HopsVetted` | `FetchSpec` |
| | `PagesReadPlainly` | `ShowsOnly` | any plain page |
| | `TasksShowOnly` | `EvidenceIsVisible` | `Spec` of `MCAlgorithms` |

**Assumptions.** Each is named where its constants are declared and evaluated by the runs:
`HostAssumption`, `EffectAssumption`, `NoneAssumption`, `NoneIsNothing` (SQL NULL is neither
a licence nor a parcel), `BoundAssumption`, `MarkedAssumption`, `ContentAssumption`,
`MentionAssumption`, `ModelAssumption` (finitely many models have adapters, each with
finitely many prices), `BudgetAssumption` (finitely many calls, and at least one), `DatabaseAssumption`, `ObservatoryAssumption` (a set has at least one prompt),
and those of `SafeFetch` and `Console`. "One process" is the hypothesis `SingleProcess`:
every call has the same `Host`. It is a hypothesis of the theorems and no assumption,
because `pipeline_processes` and part one are about several; it holds while only the console,
or only one command, is at work. "No call cut short" is the specification `SpecNoAbort`: an
editor whose process dies between the edit and the ledger's event is unknown to `decide`.

**The pipeline in any deployment.** `DeliveredUnderItsApproval` is not inductive: it speaks of what
has been delivered, and the delivery happens two awaits after the check. `IInv` carries the
check along: a call past `assertValid` is *covered* (`CallCovered`: its approval binds its
draft and text, and its decider is not its requester), a call past the checks of `decide` is
by someone other than the requester (`CallDecides`), an unused approval has decided nothing
and an approved one was given by someone else (`ApprovalsDecided`). This is stable because
nothing but `request` writes the binding columns, and it writes only unused ids
(`ApprovalsKept` in `StepInv`). `CallDelivered` says that a call about to consume has
delivered. `DraftsComplete` and `CallComplete` are what typing needs: `gate` must find the
report it casts (`pipeline.ts:182`). The invariant depends on nothing a second process could
disturb, and this is the point: it is what remains true when the synchronous sections are
not atomic. `StepInv` reduces each action to the row of the call that takes it; there is one
lemma per action.

**The pipeline in one process.** `OneBusy`: no two calls are ever inside a synchronous
section, because a call begins or continues only when no other call of its process is. Hence
`Current`: what a call has read inside its section is still what the database holds
(`CallCurrent`), and the columns of a draft belong together (`DraftCurrent`: its report and
its approval are of the content it has now). Each action is first reduced to what it does
point by point (the lemmas `...Effect`: how its call moved, which drafts and approvals it
left alone, which went one status onward), and those facts, not the actions, carry the rest.
`Onwards` with `Undecided` gives `ApprovalLifecycle`; that a write of a draft is by a call
whose reading is current gives `PublishedImmutable`. `Published` adds the publications: an
id belongs to one call and one artefact (`SentOnce`), one that has been settled has used up
its approval (`Settled`), and a call about to settle knows that nobody else has
(`CallPublishes`), since the approval was still approved when this call spent it. Note what
is *not* needed for `DeliveredAsCleared`: that the draft has stayed as it was across the
await; the call sends what it read, and that was cleared.

**With no call cut short.** `EditorsKnown`: whoever has edited a draft is in the ledger or
about to be, so that outside a synchronous section the ledger names them all (`AllKnown`),
and `decide` bars them (`CallOutside`, `DraftOutside`). `CallSends` accounts for what is in
flight, and gives `PendingOnlyIfApprovalLost`. The refinement maps each action to one of
`EditorialControl`: gate and decision may give a licence, edits and everything that ages an
approval withdraw some, sending and receiving are `Dispatch` and `Deliver`, and all the
others leave its state alone; a licence is for the content the draft has *now*
(`DraftCurrent`) and by someone with no hand in it (`DraftOutside`).

**The ledger.** `Extends`: what the lock's holder sees is the committed table,
then rows of its own, each sealed by its hash; so a commit extends the table. `Verifiable`:
while nothing has been damaged that view verifies. `LogSeals`: a row's hash still seals the
event that was logged under its number. When verification succeeds, the hash also seals the
event the row shows, and hashes are injective: both are the same event.

**The knowledge store.** The properties are inductive together, with one
addition. `CallComplete` says what a call brings back from its await: a source and a content,
or what was visible when the search began. No property may say more of a call in progress,
since everything else may have changed by then; that `ingest` looks up the versions to
supersede, and `search` the semantic leg, *after* the await is what makes this enough.
`DocumentsWhole` carries most of the rest: a chunk reads like what the chunker keeps of its
document (`Cuts`), so `redactTerm` finds through chunks and titles every document whose chunks
or title have the term, and rewrites its tail with the rest; a release mines the redacted text
(`Texts`: no entity of the term is found in it), and both legs of a search see exactly the
visible documents (`LegsFindVisible`). There is one lemma per action.

**The database and the observatory.** `SchemaInv`: what an opening process has yet to apply
covers what the database lacks; the loser of a race fails on the primary key, so nothing is
skipped. For `NewestOnTop`, a save that has read the highest version holds a number that is
above all those stored, unless somebody stored it meanwhile (`VersionsAhead`); then the
UNIQUE constraint refuses the slower. For `SummaryAccounts`, a run has
put as many questions to its current model as it has moved on by, and the models it left
early are those it counts as denied (`OutcomesCounted`); its rows, of observations and of
calls, are of prompts it is past or at (`RowsBehind`), so that the next observation is new, and
with no erasure since it began there is one for each thing it counted (`RowsStored`). Which
statuses the calls of a prompt have (`Statuses`) is settled when its answer is inserted: a run
about to insert has recorded its call as answered and as nothing else, and no later step
records that prompt again. `ErasedStaysErased` rests on `StaleInv`: the rows a run has left
from before an erasure are of one prompt (`StaleOnce`), because a run that still stands at a
prompt it put before the erasure has no calls but those of this prompt (`StaleHere`); the next
question it puts is of the present.

**Router, fetch, console.** `PlanSound`: every candidate of a plan, tried or not, was
allowed when the plan was made or has been withdrawn since; the history variable is what
makes the property of the one being asked inductive. `FetchInv`: the hops are counted
against the redirects by where the call stands (`HopsCounted`), which gives the limit on
requests although only redirects are limited. `ConsoleInv`: every cookie is that of a login
(`CookiesIssued`), and a form whose body is awaited was admitted on such a cookie
(`RequestsAdmitted`); neither clock nor configuration occurs in it after the fact, so a
restart cannot disturb it.

For `BudgetBounded` the budget alone is not inductive: it is exceeded by what is still out. A
call that passed the test of the budget may yet be answered once for each candidate left
(`AnswersDue`), and its answer may be metered (`RowsDue`); what has been spent *and* the most
that all of this may cost are together within the bound (`SpendBounded`, `CountBounded`), and
each step moves from the second to the first, or takes from it. That a sum over a finite set
changes by what one of its terms changes by (`SumChanges`), and is at most the greatest term
times their number (`SumAtMost`), needs an induction, done over the numbers by a least
counterexample (`AllNumbers`).

For `LoginsBounded`, the attempts of a key are accounted for by its entry (`Accounted`): it
has counted one for each number up to its count, and those that are older are of the entry
before it, whose *first* is out of the window by the time that entry has expired
(`LeftOver`); hence one less than two entries allow (`FewAttempts`, an injection into so many
numbers). The limiter's map is a sequence, pruned to the positions that are kept in their
order: `Ranks` says that these are numbered without gaps.

**The pure functions.** `GateMonotone`: blockers and reasons grow with worse facts
(`BlockersGrow`, `ReasonsGrow`), and the effect is monotone in them. `ReportsSound`: what
supports a sentence supports it among more evidence (`MoreEvidence`), and nothing supports a
fabricated one (`FabricatedUnsupported`), so the report's counts, which are cardinalities of
finite sets, miss it by one at least (`ReportSays`); a policy that blocks unsupported claims
then denies.

`RobotsDeclared` is two inductions over the lines. The groups read so far begin each at a
user-agent line that follows none (`Grouping`); a group's agents are those of the user-agent
lines that stand together there, and its rules, in whatever order, those below them; the last
group is the only one that another line can change (`LastOpen`, `OlderKept`). So the first
group with a longest token is that of the first line with one (`FirstLineSpeaks`,
`SelectedSpeaks`). Among the rules read so far the winner is a longest that applies, and
allows if one as long does (`WinnerWins`). The induction is over the set of the numbers up to
which a statement holds (`EveryNumber`, from the well-foundedness of <), since the theorems of
the library take the statement as a parameter; that a function on 0 .. n which is defined by
its earlier values exists has to be proved in the same way (`WinnerReads`, `ParseReads`).

`ChunksComplete` is an induction over the windows of a text (`Chunked`): the sentences before
the next window are covered, but for the end of those longer than the target, the chunks so
far are in order, and the last one starts before the next and ends no later (`WindowsAdvance`).
A window starts at a later unit than the one before it, however large the overlap
(`RestartsLater`), so that the loop ends. The heading path is a stack: each is one level
below the other, and what is on it is what no later heading has closed (`PathAt`); a heading
closes as many as `pop` removes (`PoppedCloses`), which holds only while no level is skipped
(`NoLevelSkipped`).

`PagesScoredHonestly` is about every page, not only those of the tasks. A fact that is no
worse is ranked no lower (`RankedGrows`), so each check is worth no less (`HalvesOfBetter`);
the sum of a dimension is that of its checks, and divides evenly by what they are worth at most
(`SumOfFew`, `RetrievabilityIs` and so on), whence the scores are monotone (`ScoresGrow`). The
penalties together are at most 15 points, so that their cap never bites (`PenaltiesAre`). That
a page without recommendations lacks less than five points (`NothingAdvised`) needs
`Possible`: a page with one `h1` has a heading. With `GateMonotone` and `AccessNeverWidens`
this is all of `DecisionsMonotone`.

`ReportsAddUp` counts the same observations twice. A table is a sum over its keys, and every
row has one key (`KeysJoin`, `TablesAddUp`). The place of a brand is one more than the number
of competitors named before it, so the places of a series are at most the mentions and the
named competitors together (`Observed`, `PlacesAddUp`), which are counted by row in one sum
and by competitor in the other (`NamesAddUp`). What a sum over a finite set is, the sum over
one element more, of two functions and of a larger one, is again an induction of its own
(`SumIsTotal`, `SumChanges`, `SumOfTwo`, `SumAtMost`).

`DraftsRendered` has two parts. Of the page, what is read so far (`ReadSo`) keeps: each written
block is a run of lines, the runs follow one another, what is still open is the run that ends
at the last line, and the footnotes are the definitions so far. `FlushesAll` says what a flush
leaves of it, `LineLaid` that each kind of line keeps it, `PageLaid` that a whole draft does,
and `RunsShowLines` reads the places of each line off the runs. Of the sources, the ids used
so far are the markers so far, each once, in the order of their first use (`UsedSo`); so each
marker has one number, the lines that `RenderWithSources` adds are one definition for each
number (`SourcesAdded`), the page keeps them as its footnotes (`SourcesNoted`), and a marker
has no number above the next one when it is met (`NumbersInOrder`). `TasksLoseNothing` joins
this with `ChunksComplete`: the tasks are drafts and texts of the shape both are about
(`TaskDrafts`, `TaskUnits`).

`PagesReadPlainly` relates two readings of a page: the stack of what is open (`Stacks`), by
which the reference says what a browser shows, and the counters and buffers of `extractHtml`,
which knows no stack. It is one induction over the tokens (`Reading`, `ReadingNext`), of
three layers. The stack after a token lists what is open in order, and what was open when an
element began is what is around it (`StacksSo`). The code's comment is the outermost that is
open, so that what is read is the tokens in no comment (`PageSteps`). Of the elements that
are open and in no comment (`Live`), the depth of what is dropped is the number of those that
hide, the stack of hidden names is that of those hidden by attribute, in their order, and the
depth of landmarks and `inMain` are likewise counts of them (`VeilOpens`, `VeilCloses`,
`EnterOpens`, `EnterCloses`): this is where `Plain` is needed, since a closing tag of the
hidden name pops that stack whichever element it ends. So a text is kept exactly when it is
shown (`TextEmitted`), a buffer holds what was shown in its element (`CollectOpens`,
`CollectCloses`), and each title, link and heading is kept when it ends, in order
(`ElementEnds`). Elements are kept in the order in which they end, and the reference lists them in
the order in which they begin: the two agree because a plain page nests none in its kind
(`SingleKept`). `TasksShowOnly` adds that the pages of the tasks are of tokens
(`PagesAreTokens`, an induction over the number of nodes).

The invariants were checked with TLC on the instances of the runs before they were proved.

**Only model-checked**: `CallsReturn` of both modules, `RunsEnd` and `FetchReturns`:
liveness, which the prover does not do. Every invariant and every action property of the
passing runs is stated by a theorem.

## 6. Plan

The model is as wide as the rest of this section allows, and every safety property is proved;
what could follow is parts of the list below, of which pages with elements that are never
closed and filters of `list` are the nearest.

### Not modelled

* **Provider adapters**: stateless translations to wire formats; which answers and failures
  they produce is any, in `ModelRouter` and `SafeFetch`.
* **Command line**: parses arguments and calls one method; its calls are those of the
  components. **Evaluation runner**: offline scoring of fixtures.
* **Regular expressions over text**: sentences, claims, entities, injection patterns,
  tokenisers, page metadata, inline markup and escaping. What they find is a parameter or an
  input. `Readiness` likewise takes the facts of a page as given.
* **Floating point and cryptography**: the intervals of `stats.ts`, the scores of hybrid
  search, SHA-256, HMAC, signatures of provenance (a hash is what it was computed from).
* **Parts of modelled components**: `verifyCached` and the filters of `list`; soft budgets,
  alerts and summaries of the cost meter; the score of each routing strategy (any order);
  the three files of the static export; forms the console refuses, and what an accepted one
  does (the other modules); two configured users with one token; versions of a query set
  that the caller chooses; a run that names a model twice; elements of a page that are never
  closed.
* **A knowledge store shared by two processes**: its methods read outside their transactions
  there; the module's atomic actions are those of one process, and hazards of `PROJECT.json`
  say where that matters.
* **Registers other than the models'**: one upsert each, with no reader that decides by it.
