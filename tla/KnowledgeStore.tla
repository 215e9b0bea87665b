-------------------------- MODULE KnowledgeStore ---------------------------
(***************************************************************************)
(* The knowledge store of packages/core/src/knowledge/store.ts and the     *)
(* search of retrieval/hybrid.ts, as one process runs them.                *)
(*                                                                         *)
(* ingest() awaits the embedder between looking for the document and       *)
(* writing it; search() awaits it between its lexical and its semantic     *)
(* leg.  Each is two actions, and every other method, one transaction, may *)
(* run in between; so may other calls of ingest and search.                *)
(*                                                                         *)
(* The chunks of a document are treated alike, and so are the claims of a  *)
(* chunk: one of each stands for all.  A text is known by the content it   *)
(* was extracted from and by whether the one personal name the model knows *)
(* (the term) has been redacted in it.  A document stores the whole text   *)
(* and a title; its chunks lack the end of every sentence that is longer   *)
(* than a chunk (chunker.ts:71-73), so that the term can be in the text of *)
(* a document and in no chunk of it.                                       *)
(***************************************************************************)

CONSTANTS
  SourceId, DocumentId,  \* generated ids, used once
  Locator,               \* what a source is found by
  Content,               \* what ingest is given; its SHA-256 is the fingerprint
  Poisoned,              \* contents in which the scanner finds an instruction
  Naming,                \* contents with the term in the text or the heading of a chunk
  Titled,                \* contents with the term in the title of the document
  Tailed,                \* contents with the term in a part of the text that no chunk has
  Entity,                \* what extraction can resolve
  TermEntity,            \* entities with the term among their names
  Mentioned,             \* the entities of each content
  Call,                  \* calls that can be in progress at once
  NamedLocator,          \* locators whose sources get a title or owner with the term
  None                   \* NULL

ASSUME ContentAssumption ==
  /\ Poisoned \subseteq Content /\ NamedLocator \subseteq Locator
  /\ Naming \subseteq Content /\ Titled \subseteq Content /\ Tailed \subseteq Content
ASSUME MentionAssumption ==
  /\ Mentioned \in [Content -> SUBSET Entity]
  /\ TermEntity \subseteq Entity
  /\ \A c \in Content \ Naming : Mentioned[c] \cap TermEntity = {}
ASSUME NoneAssumption == None \notin SourceId \cup Locator \cup Content

VARIABLES
  sources, documents,    \* the tables of these names, by id
  chunks,                \* table chunks
  index,                 \* the full-text table chunks_fts
  claims,                \* table claims
  mentions,              \* table entity_mentions
  entities,              \* table entities
  call,                  \* progress of each call of ingest or search
  erased                 \* history: a redaction would find nothing stored since the last

tables == <<chunks, index, claims, mentions, entities>>
vars   == <<sources, documents, tables, call, erased>>

-----------------------------------------------------------------------------
(* Rows *)

Text == [of : Content, redacted : BOOLEAN]

\* The term is in the text t of a chunk or a claim; in the title of a document of text t;
\* in its title or its content.
Names(t)  == t.of \in Naming /\ ~t.redacted
Titles(t) == t.of \in Titled /\ ~t.redacted
Holds(t)  == t.of \in Naming \cup Titled \cup Tailed /\ ~t.redacted

\* What the chunks have of a document's text: redacted where they named the term.
CutOf(t) == IF t.of \in Naming THEN t ELSE [t EXCEPT !.redacted = FALSE]

Redacted(t) == [t EXCEPT !.redacted = TRUE]

EntitiesIn(t) == IF Names(t) THEN Mentioned[t.of] ELSE Mentioned[t.of] \ TermEntity

RowStatus == {"unused", "stored", "deleted"}

\* named: the title or the owner contains the term.
SourceRow == [status : RowStatus, locator : Locator \cup {None}, named : BOOLEAN]
NoSource      == [status |-> "unused", locator |-> None, named |-> FALSE]
DeletedSource == [NoSource EXCEPT !.status = "deleted"]

\* The fingerprint is that of text.of.
DocumentRow == [status : RowStatus, source : SourceId \cup {None}, text : Text \cup {None},
                quarantine : BOOLEAN]
NoDocument      == [status |-> "unused", source |-> None, text |-> None, quarantine |-> FALSE]
DeletedDocument == [NoDocument EXCEPT !.status = "deleted"]

\* Chunks and their index entries; a claim also lists the entities it involves.
ChunkRow   == [document : DocumentId, text : Text]
ClaimRow   == [document : DocumentId, text : Text, entities : SUBSET Entity]
MentionRow == [document : DocumentId, entity : Entity]

\* visible is history: the documents search() might show when it was called.
CallRow ==
  [step : {"idle", "embedding", "searching"}, source : SourceId \cup {None},
   content : Content \cup {None}, hits : SUBSET DocumentId, visible : SUBSET DocumentId]
NoCall == [step |-> "idle", source |-> None, content |-> None, hits |-> {}, visible |-> {}]

Init ==
  /\ sources = [s \in SourceId |-> NoSource]
  /\ documents = [d \in DocumentId |-> NoDocument]
  /\ chunks = {} /\ index = {} /\ claims = {} /\ mentions = {} /\ entities = {}
  /\ call = [r \in Call |-> NoCall]
  /\ erased = TRUE

StoredSources   == {s \in SourceId : sources[s].status = "stored"}
StoredDocuments == {d \in DocumentId : documents[d].status = "stored"}
VersionsOf(s)   == {d \in StoredDocuments : documents[d].source = s}

\* The rows of a table that deleting documents D leaves.
Without(t, D) == {row \in t : row.document \notin D}
Mentioning(m) == {row.entity : row \in m}

-----------------------------------------------------------------------------
(* Sources *)

\* The locator's row is updated when there is one, and s is its id; otherwise s is new.
AddSource(s, l) ==
  /\ \/ s \in StoredSources /\ sources[s].locator = l
     \/ sources[s].status = "unused" /\ \A x \in StoredSources : sources[x].locator # l
  /\ sources' = [sources EXCEPT ![s] = [status |-> "stored", locator |-> l,
                                          named |-> l \in NamedLocator]]
  /\ erased' = (erased /\ l \notin NamedLocator)
  /\ UNCHANGED <<documents, tables, call>>

\* #deleteDocumentRows for each document of D.  The index has no cascade and is cleared
\* by hand; chunks, claims and mentions follow their documents; then the entities that
\* nothing mentions any more are deleted.
IndexUncleared(D) == index                                                  \* mutant
IndexWithout(D)   == Without(index, D)

AllEntities(D)     == entities                                              \* mutant
EntitiesWithout(D) ==
  IF D = {} THEN entities ELSE entities \cap Mentioning(Without(mentions, D))

\* The rows of D are deleted and new ones inserted, in one transaction.
Replace(D, newChunks, newClaims, newMentions) ==
  /\ chunks' = Without(chunks, D) \cup newChunks
  /\ index' = IndexWithout(D) \cup newChunks
  /\ claims' = Without(claims, D) \cup newClaims
  /\ mentions' = Without(mentions, D) \cup newMentions
  /\ entities' = EntitiesWithout(D) \cup Mentioning(newMentions)

DeleteSource(s) ==
  /\ s \in StoredSources
  /\ sources' = [sources EXCEPT ![s] = DeletedSource]
  /\ documents' = [d \in DocumentId |->
                     IF d \in VersionsOf(s) THEN DeletedDocument ELSE documents[d]]
  /\ Replace(VersionsOf(s), {}, {}, {})
  /\ UNCHANGED <<call, erased>>

-----------------------------------------------------------------------------
(* Ingestion *)

\* What extraction makes of the text of document d.
ClaimsOf(d, t)   == {[document |-> d, text |-> t, entities |-> EntitiesIn(t)]}
MentionsOf(d, t) == {[document |-> d, entity |-> e] : e \in EntitiesIn(t)}

\* The source exists and has no version with this fingerprint ("unchanged"
\* otherwise); the embedder is called.
BeginIngest(r, s, c) ==
  /\ call[r].step = "idle"
  /\ s \in StoredSources
  /\ \A d \in VersionsOf(s) : documents[d].text.of # c
  /\ call' = [call EXCEPT ![r] = [NoCall EXCEPT !.step = "embedding", !.source = s,
                                                !.content = c]]
  /\ UNCHANGED <<sources, documents, tables, erased>>

KeepsVersions(s) == {}                                                      \* mutant
Superseded(s)    == VersionsOf(s)

\* The embedder has answered: every stored version of the source gives way to the
\* document d, which is mined unless it is quarantined.
CommitIngest(r, d) ==
  LET s == call[r].source
      c == call[r].content
      t == [of |-> c, redacted |-> FALSE]
      old == Superseded(s)
      poisoned == c \in Poisoned
  IN  /\ call[r].step = "embedding"
      /\ s \in StoredSources                              \* the foreign key
      /\ documents[d].status = "unused"
      /\ documents' = [x \in DocumentId |->
           IF x = d THEN [status |-> "stored", source |-> s, text |-> t, quarantine |-> poisoned]
           ELSE IF x \in old THEN DeletedDocument ELSE documents[x]]
      /\ Replace(old, {[document |-> d, text |-> CutOf(t)]},
                 IF poisoned THEN {} ELSE ClaimsOf(d, CutOf(t)),
                 IF poisoned THEN {} ELSE MentionsOf(d, CutOf(t)))
      /\ erased' = (erased /\ ~Names(t) /\ ~Titles(t))
      /\ call' = [call EXCEPT ![r] = NoCall]
      /\ UNCHANGED sources

\* The embedder throws, or the transaction does (the source is gone, the ledger
\* refuses the event) and is rolled back.
Abort(r) ==
  /\ call[r].step \in {"embedding", "searching"}
  /\ call' = [call EXCEPT ![r] = NoCall]
  /\ UNCHANGED <<sources, documents, tables, erased>>

-----------------------------------------------------------------------------
(* Review and redaction *)

\* A reviewer releases document d, which is then mined as its chunks now read, or
\* holds it, which undoes that.  Repeating the present state writes nothing else.
Release(d) ==
  LET texts == {c.text : c \in {x \in chunks : x.document = d}}
  IN  /\ claims' = Without(claims, {d}) \cup UNION {ClaimsOf(d, t) : t \in texts}
      /\ mentions' = mentions \cup UNION {MentionsOf(d, t) : t \in texts}
      /\ entities' = entities \cup UNION {EntitiesIn(t) : t \in texts}

HoldKeepsMined(d) == UNCHANGED <<claims, mentions, entities>>               \* mutant

Hold(d) ==
  /\ claims' = Without(claims, {d})
  /\ mentions' = Without(mentions, {d})
  /\ entities' = entities \cap Mentioning(mentions')

SetQuarantine(d, q) ==
  /\ d \in StoredDocuments /\ documents[d].quarantine # q
  /\ documents' = [documents EXCEPT ![d].quarantine = q]
  /\ IF q THEN Hold(d) ELSE Release(d)
  /\ UNCHANGED <<sources, chunks, index, call, erased>>

\* redactTerm: what findTerm finds, rewritten in place.  The entity lists of the claims
\* stay as they are.
Rewritten(rows) == {IF Names(row.text) THEN [row EXCEPT !.text = Redacted(@)] ELSE row : row \in rows}

ClaimsUntouched == claims                                                   \* mutant
RedactedClaims  == Rewritten(claims)

\* Deleting an entity deletes its mentions with it.
AllMentions      == mentions                                                \* mutant
CascadedMentions == {m \in mentions : m.entity \notin TermEntity}

\* The term is looked for in the chunks and the titles of documents, not in their
\* contents; the content and the title of what is found are rewritten.
FoundByChunk   == {c.document : c \in {x \in chunks : Names(x.text)}}
TitlesMissed   == FoundByChunk                                              \* mutant
FoundDocuments == FoundByChunk \cup {d \in StoredDocuments : Titles(documents[d].text)}

RedactTerm ==
  /\ chunks' = Rewritten(chunks)
  /\ index' = Without(index, FoundByChunk) \cup {c \in chunks' : c.document \in FoundByChunk}
  /\ claims' = RedactedClaims
  /\ documents' = [d \in DocumentId |->
       IF d \in FoundDocuments THEN [documents[d] EXCEPT !.text = Redacted(@)] ELSE documents[d]]
  /\ sources' = [s \in SourceId |->
       IF s \in StoredSources THEN [sources[s] EXCEPT !.named = FALSE] ELSE sources[s]]
  /\ entities' = entities \ TermEntity
  /\ mentions' = CascadedMentions
  /\ erased' = TRUE
  /\ UNCHANGED call

\* eraseTenant, the part of it in these tables.  Calls in progress go on.
EraseTenant ==
  /\ sources' = [s \in SourceId |->
       IF s \in StoredSources THEN DeletedSource ELSE sources[s]]
  /\ documents' = [d \in DocumentId |->
       IF d \in StoredDocuments THEN DeletedDocument ELSE documents[d]]
  /\ chunks' = {} /\ index' = {} /\ claims' = {} /\ mentions' = {} /\ entities' = {}
  /\ erased' = TRUE /\ UNCHANGED call

-----------------------------------------------------------------------------
(* Search: a query every text matches, with room for every chunk *)

\* Both legs join their chunks to documents that are not quarantined.
Visible       == {d \in StoredDocuments : ~documents[d].quarantine}
AnyDocument   == StoredDocuments                                            \* mutant
SemanticScope == {d \in StoredDocuments : ~documents[d].quarantine}

Lexical  == {d \in Visible : /\ \E i \in index : i.document = d
                             /\ \E c \in chunks : c.document = d}
Semantic == {d \in SemanticScope : \E c \in chunks : c.document = d}

\* The lexical leg has been read; the embedding of the query is awaited.
BeginSearch(r) ==
  /\ call[r].step = "idle"
  /\ call' = [call EXCEPT ![r] = [NoCall EXCEPT !.step = "searching", !.hits = Lexical,
                                                !.visible = Visible]]
  /\ UNCHANGED <<sources, documents, tables, erased>>

\* The semantic leg is read, the two are merged and returned.
Answer(r) == call[r].hits \cup Semantic

EndSearch(r) ==
  /\ call[r].step = "searching"
  /\ call' = [call EXCEPT ![r] = NoCall]
  /\ UNCHANGED <<sources, documents, tables, erased>>

-----------------------------------------------------------------------------
Next ==
  \/ \E s \in SourceId, l \in Locator : AddSource(s, l)
  \/ \E s \in SourceId : DeleteSource(s)
  \/ \E r \in Call :
       \/ \E s \in SourceId, c \in Content : BeginIngest(r, s, c)
       \/ \E d \in DocumentId : CommitIngest(r, d)
       \/ Abort(r) \/ BeginSearch(r) \/ EndSearch(r)
  \/ \E d \in DocumentId, q \in BOOLEAN : SetQuarantine(d, q)
  \/ RedactTerm
  \/ EraseTenant

Spec == Init /\ [][Next]_vars

-----------------------------------------------------------------------------
(* Properties *)

\* The shape of the tables, with their foreign keys, and of the calls in progress.
TypeOK ==
  /\ sources \in [SourceId -> SourceRow]
  /\ documents \in [DocumentId -> DocumentRow]
  /\ \A d \in StoredDocuments : documents[d].source \in SourceId /\ documents[d].text \in Text
  /\ chunks \subseteq ChunkRow /\ index \subseteq ChunkRow /\ claims \subseteq ClaimRow
  /\ mentions \subseteq MentionRow /\ entities \subseteq Entity
  /\ Mentioning(mentions) \subseteq entities
  /\ call \in [Call -> CallRow]
  /\ erased \in BOOLEAN

\* However ingestions of one source overlap, it has one version at most (store.ts
\* ingest: the versions superseded are looked up after the await).
OneVersionPerSource ==
  \A d, e \in StoredDocuments : documents[d].source = documents[e].source => d = e

\* A stored document is whole and nothing outlives it: it has its source, its chunk, which
\* is redacted exactly if the document is and it named the term, and the index entry of
\* that chunk as it reads now; no other row is left in the tables or in the index (store.ts
\* ingest, deleteSource, redactTerm).
DocumentsWhole ==
  /\ \A d \in StoredDocuments : documents[d].source \in StoredSources
  /\ {c.document : c \in chunks} = StoredDocuments
  /\ \A c \in chunks : c.text = CutOf(documents[c.document].text)
  /\ index = chunks

\* A document has claims exactly if it is not quarantined, and mentions only then
\* (store.ts:226-229, 386-391).
MinedUnlessQuarantined ==
  /\ {c.document : c \in claims} = Visible
  /\ {m.document : m \in mentions} \subseteq Visible

\* The entities are those some text mentions (store.ts #deleteDocumentRows,
\* setQuarantine, redactTerm).
EntitiesMentioned == entities = Mentioning(mentions)

\* After a redaction the term is in no chunk, index entry, claim, entity or source until
\* something is stored in which a redaction would find it, and a document that still holds
\* it has it only in the part of its text that no chunk ever had: where the chunks or the
\* title had the term, the rest of the content is rewritten too (store.ts findTerm,
\* redactTerm).
ErasedFromText ==
  erased =>
    /\ \A row \in chunks \cup index \cup claims : ~Names(row.text)
    /\ \A d \in StoredDocuments :
         Holds(documents[d].text) => documents[d].text.of \in Tailed \ (Naming \cup Titled)
    /\ \A s \in StoredSources : ~sources[s].named
    /\ entities \cap TermEntity = {}

\* Whenever a search ends, it shows every document that was visible when it began and
\* still is, and none that was visible at neither moment (hybrid.ts search).
SearchAnswers ==
  \A r \in Call : call[r].step = "searching" =>
    /\ call[r].visible \cap Visible \subseteq Answer(r)
    /\ Answer(r) \subseteq call[r].visible \cup Visible

\* "redactTerm supports GDPR rectification/erasure across all derived artefacts"
\* (store.ts:19-20): nor is it in the entity lists of the claims.
ErasedFromDerived ==
  erased => \A c \in claims : c.entities \cap TermEntity = {}
=============================================================================
