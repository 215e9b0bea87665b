-------------------------- MODULE KnowledgeProofs --------------------------
(***************************************************************************)
(* Theorems about the knowledge store, for any ids, contents and calls.    *)
(***************************************************************************)
EXTENDS KnowledgeStore, TLAPS

\* A call that awaits the embedder knows its source and its content, and one that
\* searches holds what it might show when it began.
CallComplete ==
  \A r \in Call :
    /\ call[r].step = "embedding" => call[r].source \in SourceId /\ call[r].content \in Content
    /\ call[r].step = "searching" => call[r].hits = call[r].visible

IInv == /\ TypeOK /\ CallComplete
        /\ OneVersionPerSource /\ DocumentsWhole /\ MinedUnlessQuarantined
        /\ EntitiesMentioned /\ ErasedFromText

-----------------------------------------------------------------------------
(* Texts *)

\* Redaction yields a text of the same content without the term, and extraction finds
\* no entity of the term in a text without it (extractEntities reads the text as stored).
LEMMA Texts ==
  ASSUME NEW t \in Text
  PROVE  /\ Redacted(t) \in Text /\ ~Names(Redacted(t)) /\ ~Holds(Redacted(t))
         /\ EntitiesIn(t) \subseteq Entity
         /\ ~Names(t) => EntitiesIn(t) \cap TermEntity = {}
  BY ContentAssumption, MentionAssumption DEF Text, Redacted, Names, Holds, EntitiesIn

\* The chunk of a document names the term where the document's text does, and a redaction
\* of the document leaves the chunk as it is unless the chunk named the term.
LEMMA Cuts ==
  ASSUME NEW t \in Text
  PROVE  /\ CutOf(t) \in Text /\ (Names(CutOf(t)) <=> Names(t))
         /\ Names(t) => CutOf(Redacted(t)) = Redacted(CutOf(t))
         /\ ~Names(t) => CutOf(Redacted(t)) = CutOf(t)
  <1>1. CASE t.of \in Naming
    BY <1>1, Texts DEF CutOf, Redacted, Names, Text
  <1>2. CASE t.of \notin Naming
    BY <1>2 DEF CutOf, Redacted, Names, Text
  <1>3. QED BY <1>1, <1>2

\* A row that is deleted is a row.
LEMMA DeletedRows ==
  /\ DeletedSource \in SourceRow /\ DeletedSource.status = "deleted"
  /\ DeletedDocument \in DocumentRow /\ DeletedDocument.status = "deleted"
  BY DEF DeletedSource, DeletedDocument, NoSource, NoDocument, SourceRow, DocumentRow, RowStatus

\* With the tables whole, both legs of a search find exactly the visible documents.
LEMMA LegsFindVisible ==
  ASSUME DocumentsWhole
  PROVE  Lexical = Visible /\ Semantic = Visible
  BY DEF DocumentsWhole, Lexical, Semantic, SemanticScope, Visible

-----------------------------------------------------------------------------
(* Each action preserves the invariant *)

\* The empty store.
LEMMA InitInv == ASSUME Init PROVE IInv
  <1> USE DEF Init, StoredSources, StoredDocuments, NoSource, NoDocument, NoCall
  <1>1. TypeOK
    BY DEF TypeOK, SourceRow, DocumentRow, CallRow, RowStatus, Text, Mentioning
  <1>2. QED
    BY <1>1 DEF IInv, CallComplete, OneVersionPerSource, DocumentsWhole,
                MinedUnlessQuarantined, EntitiesMentioned, ErasedFromText, Visible, Mentioning

\* A step that leaves the tables and the history alone.
LEMMA TablesUnchanged ==
  ASSUME IInv, UNCHANGED <<sources, documents, tables, erased>>,
         call' \in [Call -> CallRow], CallComplete'
  PROVE  IInv'
  BY DEF IInv, TypeOK, OneVersionPerSource, DocumentsWhole, MinedUnlessQuarantined, tables,
         EntitiesMentioned, ErasedFromText, StoredSources, StoredDocuments, Visible, Mentioning

\* ingest up to its await.
LEMMA BeginIngestInv ==
  ASSUME IInv, NEW r \in Call, NEW s \in SourceId, NEW c \in Content, BeginIngest(r, s, c)
  PROVE  IInv'
  <1>1. call' \in [Call -> CallRow]
    BY DEF IInv, TypeOK, BeginIngest, CallRow, NoCall
  <1>2. CallComplete'
    BY DEF IInv, TypeOK, CallComplete, BeginIngest, CallRow, NoCall
  <1>3. QED BY <1>1, <1>2, TablesUnchanged DEF BeginIngest

\* search up to its await.
LEMMA BeginSearchInv ==
  ASSUME IInv, NEW r \in Call, BeginSearch(r)
  PROVE  IInv'
  <1>1. Lexical = Visible BY LegsFindVisible DEF IInv
  <1>2. Visible \subseteq DocumentId BY DEF Visible, StoredDocuments
  <1>3. call' \in [Call -> CallRow]
    BY <1>1, <1>2 DEF IInv, TypeOK, BeginSearch, CallRow, NoCall
  <1>4. CallComplete'
    BY <1>1 DEF IInv, TypeOK, CallComplete, BeginSearch, CallRow, NoCall
  <1>5. QED BY <1>3, <1>4, TablesUnchanged DEF BeginSearch

\* A call that ends without writing.
LEMMA CallEndsInv ==
  ASSUME IInv, NEW r \in Call, Abort(r) \/ EndSearch(r)
  PROVE  IInv'
  <1>1. call' \in [Call -> CallRow]
    BY DEF IInv, TypeOK, Abort, EndSearch, CallRow, NoCall
  <1>2. CallComplete'
    BY DEF IInv, TypeOK, CallComplete, Abort, EndSearch, CallRow, NoCall
  <1>3. QED BY <1>1, <1>2, TablesUnchanged DEF Abort, EndSearch

\* addSource: no stored source disappears.
LEMMA AddSourceInv ==
  ASSUME IInv, NEW s \in SourceId, NEW l \in Locator, AddSource(s, l)
  PROVE  IInv'
  <1>1. sources' \in [SourceId -> SourceRow]
    BY DEF IInv, TypeOK, AddSource, SourceRow, RowStatus
  <1>2. StoredSources' = StoredSources \cup {s}
    BY DEF IInv, TypeOK, AddSource, StoredSources
  <1>3. ErasedFromText'
    BY <1>2 DEF IInv, TypeOK, ErasedFromText, AddSource, tables, StoredSources, StoredDocuments
  <1>4. QED
    BY <1>1, <1>2, <1>3
    DEF IInv, TypeOK, CallComplete, OneVersionPerSource, DocumentsWhole,
        MinedUnlessQuarantined, EntitiesMentioned, AddSource, tables, StoredDocuments,
        Visible, Mentioning

\* deleteSource: the rows of all its versions go with it.
LEMMA DeleteSourceInv ==
  ASSUME IInv, NEW s \in SourceId, DeleteSource(s)
  PROVE  IInv'
  <1> DEFINE D == VersionsOf(s)
  <1>1. /\ sources' \in [SourceId -> SourceRow]
        /\ documents' \in [DocumentId -> DocumentRow]
    BY DeletedRows DEF IInv, TypeOK, DeleteSource, SourceRow, DocumentRow, RowStatus
  <1>2. /\ StoredSources' = StoredSources \ {s}
        /\ StoredDocuments' = StoredDocuments \ D
        /\ \A d \in StoredDocuments' : documents'[d] = documents[d]
    BY DeletedRows DEF IInv, TypeOK, DeleteSource, SourceRow, DocumentRow, StoredSources,
           StoredDocuments, VersionsOf
  <1>3. /\ chunks' = Without(chunks, D) /\ index' = Without(index, D)
        /\ claims' = Without(claims, D) /\ mentions' = Without(mentions, D)
        /\ entities' = EntitiesWithout(D)
        /\ UNCHANGED <<call, erased>>
    BY DEF DeleteSource, Replace, IndexWithout, Mentioning
  <1>4. entities' = Mentioning(mentions') /\ entities' \subseteq entities
    BY <1>3 DEF IInv, EntitiesMentioned, EntitiesWithout, Without, Mentioning
  <1>5. Visible' = Visible \ D
    BY <1>2 DEF Visible
  <1>6. TypeOK'
    BY <1>1, <1>2, <1>3, <1>4 DEF IInv, TypeOK, Without
  <1>7. OneVersionPerSource' /\ CallComplete'
    BY <1>2, <1>3 DEF IInv, OneVersionPerSource, CallComplete
  <1>8. DocumentsWhole'
    <2>1. \A d \in StoredDocuments' : documents'[d].source \in StoredSources'
      BY <1>2 DEF IInv, DocumentsWhole, VersionsOf
    <2>2. {c.document : c \in chunks'} = StoredDocuments'
      BY <1>2, <1>3 DEF IInv, DocumentsWhole, Without
    <2>3. index' = chunks' /\ \A c \in chunks' : c.text = CutOf(documents'[c.document].text)
      BY <1>2, <1>3, <2>2 DEF IInv, DocumentsWhole, Without
    <2>4. QED BY <2>1, <2>2, <2>3 DEF DocumentsWhole
  <1>9. MinedUnlessQuarantined'
    BY <1>3, <1>5 DEF IInv, MinedUnlessQuarantined, Without
  <1>10. ErasedFromText'
    <2>1. /\ chunks' \subseteq chunks /\ index' \subseteq index /\ claims' \subseteq claims
      BY <1>3 DEF Without
    <2>2. \A x \in StoredSources' : sources'[x] = sources[x]
      BY <1>2 DEF DeleteSource, IInv, TypeOK, StoredSources
    <2>3. QED BY <1>2, <1>3, <1>4, <2>1, <2>2 DEF IInv, ErasedFromText, Names
  <1>11. QED BY <1>4, <1>6, <1>7, <1>8, <1>9, <1>10 DEF IInv, EntitiesMentioned

\* ingest after its await: the new document takes the place of every stored version.
LEMMA CommitIngestInv ==
  ASSUME IInv, NEW r \in Call, NEW d \in DocumentId, CommitIngest(r, d)
  PROVE  IInv'
  <1>1. PICK s \in SourceId, c \in Content : call[r].source = s /\ call[r].content = c
    BY DEF CommitIngest, IInv, CallComplete
  <1> DEFINE t == [of |-> c, redacted |-> FALSE]
             D == VersionsOf(s)
             u == CutOf(t)
             row == [document |-> d, text |-> u]
             mined == IF c \in Poisoned THEN {} ELSE {d}
             newClaims == IF c \in Poisoned THEN {} ELSE ClaimsOf(d, u)
             newMentions == IF c \in Poisoned THEN {} ELSE MentionsOf(d, u)
  <1>2. /\ documents' = [x \in DocumentId |->
             IF x = d THEN [status |-> "stored", source |-> s, text |-> t,
                            quarantine |-> c \in Poisoned]
             ELSE IF x \in D THEN DeletedDocument ELSE documents[x]]
        /\ chunks' = Without(chunks, D) \cup {row}
        /\ index' = Without(index, D) \cup {row}
        /\ claims' = Without(claims, D) \cup newClaims
        /\ mentions' = Without(mentions, D) \cup newMentions
        /\ entities' = EntitiesWithout(D) \cup Mentioning(newMentions)
        /\ erased' = (erased /\ ~Names(t) /\ ~Titles(t))
        /\ call' = [call EXCEPT ![r] = NoCall]
        /\ sources' = sources /\ StoredSources' = StoredSources /\ s \in StoredSources
        /\ documents[d].status = "unused" /\ d \notin StoredDocuments
    BY <1>1 DEF CommitIngest, Superseded, Replace, IndexWithout, StoredSources, StoredDocuments
  <1>3. documents' \in [DocumentId -> DocumentRow]
    BY <1>1, <1>2, DeletedRows DEF IInv, TypeOK, DocumentRow, RowStatus, Text
  <1>4. StoredDocuments' = (StoredDocuments \ D) \cup {d}
    BY <1>1, <1>2, DeletedRows DEF IInv, TypeOK, DocumentRow, StoredDocuments, VersionsOf
  <1>5. /\ \A x \in StoredDocuments \ D : documents'[x] = documents[x]
        /\ documents'[d].source = s /\ documents'[d].text = t
        /\ documents'[d].quarantine <=> c \in Poisoned
    BY <1>1, <1>2 DEF StoredDocuments
  <1>t. t \in Text /\ u \in Text BY Cuts DEF Text
  <1>7. /\ newClaims \subseteq ClaimRow /\ newMentions \subseteq MentionRow
        /\ {x.document : x \in newClaims} = mined
        /\ {x.document : x \in newMentions} \subseteq mined
        /\ \A x \in newClaims : x.text = u
        /\ Mentioning(newMentions) \subseteq EntitiesIn(u)
    <2>1. EntitiesIn(u) \subseteq Entity BY <1>t, Texts
    <2> HIDE DEF t, u
    <2>2. CASE c \in Poisoned
      BY <2>2 DEF Mentioning
    <2>3. CASE c \notin Poisoned
      <3>1. newClaims = ClaimsOf(d, u) /\ newMentions = MentionsOf(d, u) /\ mined = {d}
        BY <2>3
      <3>2. ClaimsOf(d, u) \subseteq ClaimRow /\ \A x \in ClaimsOf(d, u) : x.text = u
        BY <1>t, <2>1 DEF ClaimsOf, ClaimRow
      <3>3. {x.document : x \in ClaimsOf(d, u)} = {d}
        BY DEF ClaimsOf
      <3>4. /\ MentionsOf(d, u) \subseteq MentionRow
            /\ {x.document : x \in MentionsOf(d, u)} \subseteq {d}
        BY <2>1 DEF MentionsOf, MentionRow
      <3>5. Mentioning(MentionsOf(d, u)) \subseteq EntitiesIn(u)
        BY DEF MentionsOf, Mentioning
      <3>6. QED BY <3>1, <3>2, <3>3, <3>4, <3>5
    <2>4. QED BY <2>2, <2>3
  <1> HIDE DEF t, u, newClaims, newMentions
  <1>6. Visible' = (Visible \ D) \cup mined
    <2>1. \A x \in DocumentId : x \in Visible' <=> x \in (Visible \ D) \cup mined
      BY <1>2, <1>4, <1>5 DEF Visible
    <2>2. Visible' \subseteq DocumentId /\ (Visible \ D) \cup mined \subseteq DocumentId
      BY DEF Visible, StoredDocuments
    <2>3. QED BY <2>1, <2>2
  <1> HIDE DEF mined
  <1>8. entities' = Mentioning(mentions')
    <2>1. EntitiesWithout(D) = Mentioning(Without(mentions, D))
      BY DEF IInv, EntitiesMentioned, EntitiesWithout, Without, Mentioning
    <2>2. QED BY <1>2, <2>1 DEF Mentioning
  <1>9. entities' \subseteq entities \cup EntitiesIn(u)
    BY <1>2, <1>7 DEF EntitiesWithout
  <1>10. call' \in [Call -> CallRow] /\ CallComplete'
    BY <1>2 DEF IInv, TypeOK, CallComplete, CallRow, NoCall
  <1>11. TypeOK'
    <2>1. chunks' \subseteq ChunkRow /\ index' \subseteq ChunkRow
      BY <1>t, <1>2 DEF IInv, TypeOK, Without, ChunkRow
    <2>2. claims' \subseteq ClaimRow /\ mentions' \subseteq MentionRow
      BY <1>2, <1>7 DEF IInv, TypeOK, Without
    <2>3. entities' \subseteq Entity
      BY <1>t, <1>9, Texts DEF IInv, TypeOK
    <2>4. \A x \in StoredDocuments' : documents'[x].source \in SourceId /\ documents'[x].text \in Text
      BY <1>t, <1>4, <1>5 DEF IInv, TypeOK
    <2>5. sources' \in [SourceId -> SourceRow] /\ erased' \in BOOLEAN
      BY <1>2 DEF IInv, TypeOK
    <2>6. QED BY <1>3, <1>8, <1>10, <2>1, <2>2, <2>3, <2>4, <2>5 DEF TypeOK
  <1>12. OneVersionPerSource'
    BY <1>4, <1>5 DEF IInv, OneVersionPerSource, VersionsOf
  <1>13. DocumentsWhole'
    <2>1. \A x \in StoredDocuments' : documents'[x].source \in StoredSources'
      BY <1>1, <1>2, <1>4, <1>5 DEF IInv, DocumentsWhole
    <2>2. {x.document : x \in Without(chunks, D)} = StoredDocuments \ D
      BY DEF IInv, DocumentsWhole, Without
    <2>3. {x.document : x \in chunks'} = StoredDocuments'
      <3>1. {x.document : x \in chunks'} = {x.document : x \in Without(chunks, D)} \cup {row.document}
        BY <1>2
      <3>2. row.document = d OBVIOUS
      <3>3. QED BY <1>4, <2>2, <3>1, <3>2
    <2>4. \A x \in chunks' : x.text = CutOf(documents'[x.document].text)
      BY <1>2, <1>5, <2>2 DEF IInv, DocumentsWhole, Without, u
    <2>5. index' = chunks' BY <1>2 DEF IInv, DocumentsWhole
    <2>6. QED BY <2>1, <2>3, <2>4, <2>5 DEF DocumentsWhole
  <1>14. MinedUnlessQuarantined'
    <2>1. {x.document : x \in Without(claims, D)} = Visible \ D
      BY DEF IInv, MinedUnlessQuarantined, Without
    <2>2. {x.document : x \in Without(mentions, D)} \subseteq Visible \ D
      BY DEF IInv, MinedUnlessQuarantined, Without
    <2>3. QED BY <1>2, <1>6, <1>7, <2>1, <2>2 DEF MinedUnlessQuarantined
  <1>15. ErasedFromText'
    <2> SUFFICES ASSUME erased' PROVE ErasedFromText' BY DEF ErasedFromText
    <2>1. erased /\ ~Names(t) /\ ~Titles(t) /\ ~Names(u) BY <1>2, <1>t, Cuts DEF u
    <2>2. EntitiesIn(u) \cap TermEntity = {} BY <1>t, <2>1, Texts
    <2>3. \A x \in chunks' \cup index' \cup claims' : ~Names(x.text)
      BY <1>2, <1>7, <2>1 DEF IInv, ErasedFromText, Without
    <2>4. Holds(t) => t.of \in Tailed \ (Naming \cup Titled)
      BY <2>1 DEF Holds, Names, Titles
    <2>5. \A x \in StoredDocuments' :
            Holds(documents'[x].text) => documents'[x].text.of \in Tailed \ (Naming \cup Titled)
      BY <1>4, <1>5, <2>1, <2>4 DEF IInv, ErasedFromText
    <2>6. QED BY <1>2, <1>9, <2>1, <2>2, <2>3, <2>5 DEF IInv, ErasedFromText
  <1>16. QED BY <1>8, <1>10, <1>11, <1>12, <1>13, <1>14, <1>15 DEF IInv, EntitiesMentioned

\* setQuarantine, towards the state reviewed: what was mined of the document goes.
LEMMA HoldInv ==
  ASSUME IInv, NEW d \in DocumentId, SetQuarantine(d, TRUE)
  PROVE  IInv'
  <1>1. /\ d \in StoredDocuments /\ documents' = [documents EXCEPT ![d].quarantine = TRUE]
        /\ claims' = Without(claims, {d}) /\ mentions' = Without(mentions, {d})
        /\ entities' = entities \cap Mentioning(mentions')
        /\ UNCHANGED <<sources, chunks, index, call, erased>>
    BY DEF SetQuarantine, Hold
  <1>2. documents' \in [DocumentId -> DocumentRow]
    BY <1>1 DEF IInv, TypeOK, DocumentRow
  <1>3. /\ StoredDocuments' = StoredDocuments /\ StoredSources' = StoredSources
        /\ \A x \in StoredDocuments : /\ documents'[x].source = documents[x].source
                                      /\ documents'[x].text = documents[x].text
    BY <1>1 DEF IInv, TypeOK, DocumentRow, StoredDocuments, StoredSources
  <1>4. Visible' = Visible \ {d}
    <2>1. \A x \in DocumentId : x \in Visible' <=> x \in Visible \ {d}
      BY <1>1, <1>3 DEF IInv, TypeOK, DocumentRow, Visible
    <2>2. Visible' \subseteq DocumentId /\ Visible \subseteq DocumentId
      BY DEF Visible, StoredDocuments
    <2>3. QED BY <2>1, <2>2
  <1>5. entities' = Mentioning(mentions') /\ entities' \subseteq entities
    BY <1>1 DEF IInv, EntitiesMentioned, Without, Mentioning
  <1>6. TypeOK'
    BY <1>1, <1>2, <1>3, <1>5 DEF IInv, TypeOK, Without
  <1>7. OneVersionPerSource' /\ CallComplete'
    BY <1>1, <1>3 DEF IInv, OneVersionPerSource, CallComplete
  <1>8. DocumentsWhole'
    BY <1>1, <1>3 DEF IInv, DocumentsWhole
  <1>9. MinedUnlessQuarantined'
    BY <1>1, <1>4 DEF IInv, MinedUnlessQuarantined, Without
  <1>10. ErasedFromText'
    <2>1. claims' \subseteq claims BY <1>1 DEF Without
    <2>2. QED BY <1>1, <1>3, <1>5, <2>1 DEF IInv, ErasedFromText, Names
  <1>11. QED BY <1>5, <1>6, <1>7, <1>8, <1>9, <1>10 DEF IInv, EntitiesMentioned

\* setQuarantine, towards the state released: the chunks, as they read now, are mined.
LEMMA ReleaseInv ==
  ASSUME IInv, NEW d \in DocumentId, SetQuarantine(d, FALSE)
  PROVE  IInv'
  <1>1. /\ d \in StoredDocuments /\ documents' = [documents EXCEPT ![d].quarantine = FALSE]
        /\ Release(d)
        /\ UNCHANGED <<sources, chunks, index, call, erased>>
    BY DEF SetQuarantine
  <1>2. PICK t \in Text : CutOf(documents[d].text) = t
    BY <1>1, Cuts DEF IInv, TypeOK
  <1>3. {c.text : c \in {x \in chunks : x.document = d}} = {t}
    BY <1>1, <1>2 DEF IInv, DocumentsWhole
  <1>4. /\ claims' = Without(claims, {d}) \cup ClaimsOf(d, t)
        /\ mentions' = mentions \cup MentionsOf(d, t)
        /\ entities' = entities \cup EntitiesIn(t)
    BY <1>1, <1>3 DEF Release
  <1>5. /\ ClaimsOf(d, t) \subseteq ClaimRow /\ MentionsOf(d, t) \subseteq MentionRow
        /\ {x.document : x \in ClaimsOf(d, t)} = {d}
        /\ {x.document : x \in MentionsOf(d, t)} \subseteq {d}
        /\ \A x \in ClaimsOf(d, t) : x.text = t
        /\ Mentioning(MentionsOf(d, t)) = EntitiesIn(t) /\ EntitiesIn(t) \subseteq Entity
    <2>1. EntitiesIn(t) \subseteq Entity BY Texts
    <2>2. /\ ClaimsOf(d, t) \subseteq ClaimRow /\ \A x \in ClaimsOf(d, t) : x.text = t
          /\ {x.document : x \in ClaimsOf(d, t)} = {d}
      BY <2>1 DEF ClaimsOf, ClaimRow
    <2>3. /\ MentionsOf(d, t) \subseteq MentionRow
          /\ {x.document : x \in MentionsOf(d, t)} \subseteq {d}
      BY <2>1 DEF MentionsOf, MentionRow
    <2>4. Mentioning(MentionsOf(d, t)) = EntitiesIn(t)
      <3>1. \A e \in EntitiesIn(t) : [document |-> d, entity |-> e] \in MentionsOf(d, t)
        BY DEF MentionsOf
      <3>2. \A m \in MentionsOf(d, t) : m.entity \in EntitiesIn(t)
        BY DEF MentionsOf
      <3>3. \A e : [document |-> d, entity |-> e].entity = e
        OBVIOUS
      <3>4. \A e \in EntitiesIn(t) : e \in Mentioning(MentionsOf(d, t))
        BY <3>1, <3>3, Zenon DEF Mentioning
      <3>5. QED BY <3>2, <3>4 DEF Mentioning
    <2>5. QED BY <2>1, <2>2, <2>3, <2>4
  <1>6. documents' \in [DocumentId -> DocumentRow]
    BY <1>1 DEF IInv, TypeOK, DocumentRow
  <1>7. /\ StoredDocuments' = StoredDocuments /\ StoredSources' = StoredSources
        /\ \A x \in StoredDocuments : /\ documents'[x].source = documents[x].source
                                      /\ documents'[x].text = documents[x].text
    BY <1>1 DEF IInv, TypeOK, DocumentRow, StoredDocuments, StoredSources
  <1>8. Visible' = Visible \cup {d}
    <2>1. \A x \in DocumentId : x \in Visible' <=> x \in Visible \cup {d}
      BY <1>1, <1>7 DEF IInv, TypeOK, DocumentRow, Visible
    <2>2. Visible' \subseteq DocumentId /\ Visible \subseteq DocumentId
      BY DEF Visible, StoredDocuments
    <2>3. QED BY <2>1, <2>2
  <1>9. entities' = Mentioning(mentions')
    BY <1>4, <1>5 DEF IInv, EntitiesMentioned, Mentioning
  <1>10. TypeOK'
    <2>1. claims' \subseteq ClaimRow /\ mentions' \subseteq MentionRow /\ entities' \subseteq Entity
      BY <1>4, <1>5 DEF IInv, TypeOK, Without
    <2>2. QED BY <1>1, <1>6, <1>7, <1>9, <2>1 DEF IInv, TypeOK
  <1>11. OneVersionPerSource' /\ CallComplete'
    BY <1>1, <1>7 DEF IInv, OneVersionPerSource, CallComplete
  <1>12. DocumentsWhole'
    BY <1>1, <1>7 DEF IInv, DocumentsWhole
  <1>13. MinedUnlessQuarantined'
    <2>1. {x.document : x \in Without(claims, {d})} = Visible \ {d}
      BY DEF IInv, MinedUnlessQuarantined, Without
    <2>2. {x.document : x \in claims'} = (Visible \ {d}) \cup {d}
      BY <1>4, <1>5, <2>1
    <2>3. {x.document : x \in mentions'} \subseteq Visible'
      BY <1>4, <1>5, <1>8 DEF IInv, MinedUnlessQuarantined
    <2>4. QED BY <1>8, <2>2, <2>3 DEF MinedUnlessQuarantined
  <1>14. ErasedFromText'
    <2> SUFFICES ASSUME erased' PROVE ErasedFromText' BY DEF ErasedFromText
    <2>1. erased /\ ~Names(t) BY <1>1, <1>3 DEF IInv, ErasedFromText
    <2>2. EntitiesIn(t) \cap TermEntity = {} BY <2>1, Texts
    <2>3. \A x \in chunks' \cup index' \cup claims' : ~Names(x.text)
      BY <1>1, <1>4, <1>5, <2>1 DEF IInv, ErasedFromText, Without
    <2>4. entities' \cap TermEntity = {}
      BY <1>4, <2>1, <2>2 DEF IInv, ErasedFromText
    <2>5. QED BY <1>1, <1>7, <2>1, <2>3, <2>4 DEF IInv, ErasedFromText
  <1>15. QED BY <1>9, <1>10, <1>11, <1>12, <1>13, <1>14 DEF IInv, EntitiesMentioned

\* redactTerm: chunks and index entries are rewritten alike, and with a chunk its document.
LEMMA RedactTermInv ==
  ASSUME IInv, RedactTerm
  PROVE  IInv'
  <1> DEFINE found == FoundByChunk
  <1>1. /\ chunks' = Rewritten(chunks) /\ claims' = Rewritten(claims)
        /\ index' = Without(index, found) \cup {c \in chunks' : c.document \in found}
        /\ documents' = [d \in DocumentId |->
             IF d \in FoundDocuments THEN [documents[d] EXCEPT !.text = Redacted(@)] ELSE documents[d]]
        /\ sources' = [s \in SourceId |->
             IF s \in StoredSources THEN [sources[s] EXCEPT !.named = FALSE] ELSE sources[s]]
        /\ entities' = entities \ TermEntity
        /\ mentions' = {m \in mentions : m.entity \notin TermEntity}
        /\ erased' = TRUE /\ call' = call
    BY DEF RedactTerm, RedactedClaims, CascadedMentions
  <1>2. \A x \in chunks : x.document \in StoredDocuments /\ x.text = CutOf(documents[x.document].text)
    BY DEF IInv, DocumentsWhole
  <1>3. \A d \in StoredDocuments : documents[d].text \in Text
    BY DEF IInv, TypeOK
  <1>4. /\ found \subseteq StoredDocuments
        /\ \A d \in StoredDocuments : d \in found <=> Names(documents[d].text)
    <2>1. {c.document : c \in chunks} = StoredDocuments BY DEF IInv, DocumentsWhole
    <2>2. \A x \in chunks : Names(x.text) <=> Names(documents[x.document].text)
      BY <1>2, <1>3, Cuts
    <2>3. QED BY <2>1, <2>2 DEF FoundByChunk
  <1>t. \A d \in StoredDocuments :
          d \in FoundDocuments <=> Names(documents[d].text) \/ Titles(documents[d].text)
    BY <1>4 DEF FoundDocuments
  <1>5. /\ StoredDocuments' = StoredDocuments /\ StoredSources' = StoredSources
        /\ \A d \in StoredDocuments : documents'[d].source = documents[d].source
        /\ \A d \in StoredDocuments : documents'[d].quarantine <=> documents[d].quarantine
    BY <1>1 DEF IInv, TypeOK, DocumentRow, SourceRow, StoredDocuments, StoredSources
  <1>6. \A d \in StoredDocuments :
          IF Names(documents[d].text) \/ Titles(documents[d].text)
          THEN documents'[d].text = Redacted(documents[d].text)
          ELSE documents'[d].text = documents[d].text
    <2> SUFFICES ASSUME NEW d \in StoredDocuments
                 PROVE  IF d \in FoundDocuments
                        THEN documents'[d].text = Redacted(documents[d].text)
                        ELSE documents'[d].text = documents[d].text
      BY <1>t
    <2>1. d \in DocumentId /\ documents[d] \in DocumentRow
      BY DEF IInv, TypeOK, StoredDocuments
    <2> HIDE DEF found
    <2>2. QED BY <1>1, <2>1 DEF DocumentRow
  <1>7. Visible' = Visible
    BY <1>5 DEF Visible
  <1> DEFINE R(y) == IF Names(y.text) THEN [y EXCEPT !.text = Redacted(@)] ELSE y
  <1>8. \A y \in chunks : /\ R(y) \in ChunkRow /\ R(y).document = y.document
                          /\ R(y).text = CutOf(documents'[y.document].text)
                          /\ ~Names(R(y).text)
                          /\ y.document \notin found => R(y) = y
    <2> SUFFICES ASSUME NEW y \in chunks
                 PROVE  /\ R(y) \in ChunkRow /\ R(y).document = y.document
                        /\ R(y).text = CutOf(documents'[y.document].text)
                        /\ ~Names(R(y).text)
                        /\ y.document \notin found => R(y) = y
      OBVIOUS
    <2>1. PICK t \in Text : t = documents[y.document].text
      BY <1>2, <1>3
    <2>2. /\ y.document \in StoredDocuments /\ y.text = CutOf(t) /\ y \in ChunkRow
          /\ y.document \in found <=> Names(t)
      BY <1>2, <1>4, <2>1 DEF IInv, TypeOK
    <2>3. IF Names(t) \/ Titles(t) THEN documents'[y.document].text = Redacted(t)
                                  ELSE documents'[y.document].text = t
      BY <1>6, <2>1, <2>2
    <2>4. CutOf(t) \in Text /\ (Names(CutOf(t)) <=> Names(t))
      BY Cuts
    <2>5. CASE Names(t)
      <3>1. documents'[y.document].text = Redacted(t) /\ CutOf(Redacted(t)) = Redacted(CutOf(t))
        BY <2>3, <2>5, Cuts
      <3>2. R(y) = [y EXCEPT !.text = Redacted(y.text)]
        BY <2>2, <2>4, <2>5
      <3>3. Redacted(y.text) \in Text /\ ~Names(Redacted(y.text))
        BY <2>2, <2>4, Texts
      <3>4. QED BY <2>2, <2>5, <3>1, <3>2, <3>3 DEF ChunkRow
    <2>6. CASE ~Names(t)
      <3>1. CutOf(documents'[y.document].text) = CutOf(t)
        BY <2>3, <2>6, Cuts
      <3>2. R(y) = y
        BY <2>2, <2>4, <2>6
      <3>3. QED BY <2>2, <2>4, <2>6, <3>1, <3>2
    <2>7. QED BY <2>5, <2>6
  <1>9. \A y \in claims : /\ R(y) \in ClaimRow /\ R(y).document = y.document
                          /\ ~Names(R(y).text)
    <2> SUFFICES ASSUME NEW y \in claims
                 PROVE  R(y) \in ClaimRow /\ R(y).document = y.document /\ ~Names(R(y).text)
      OBVIOUS
    <2>1. y \in ClaimRow /\ y.text \in Text
      BY DEF IInv, TypeOK, ClaimRow
    <2>2. Redacted(y.text) \in Text /\ ~Names(Redacted(y.text))
      BY <2>1, Texts
    <2>3. QED BY <2>1, <2>2 DEF ClaimRow
  <1>10. chunks' = {R(y) : y \in chunks} /\ claims' = {R(y) : y \in claims}
    BY <1>1 DEF Rewritten
  <1> HIDE DEF found, R
  <1>11. /\ {x.document : x \in chunks'} = StoredDocuments
         /\ \A x \in chunks' : x \in ChunkRow /\ x.text = CutOf(documents'[x.document].text)
    <2>1. {c.document : c \in chunks} = StoredDocuments BY DEF IInv, DocumentsWhole
    <2>2. {x.document : x \in chunks'} = {c.document : c \in chunks}
      BY <1>8, <1>10
    <2>3. \A y \in chunks : R(y).text = CutOf(documents'[R(y).document].text)
      BY <1>8
    <2>4. \A x \in chunks' : x \in ChunkRow /\ x.text = CutOf(documents'[x.document].text)
      BY <1>8, <1>10, <2>3
    <2>5. QED BY <2>1, <2>2, <2>4
  <1>12. index' = chunks'
    <2>1. index = chunks BY DEF IInv, DocumentsWhole
    <2>2. Without(index, found) \subseteq chunks'
      BY <1>8, <1>10, <2>1 DEF Without
    <2>3. \A x \in chunks' : x.document \notin found => x \in Without(index, found)
      BY <1>8, <1>10, <2>1 DEF Without
    <2>4. QED BY <1>1, <2>2, <2>3
  <1>13. /\ claims' \subseteq ClaimRow /\ \A x \in claims' : ~Names(x.text)
         /\ {x.document : x \in claims'} = {x.document : x \in claims}
    BY <1>9, <1>10
  <1>14. entities' = Mentioning(mentions') /\ entities' \subseteq Entity
    BY <1>1 DEF IInv, TypeOK, EntitiesMentioned, Mentioning
  <1>15. TypeOK'
    <2>1. sources' \in [SourceId -> SourceRow]
      BY <1>1 DEF IInv, TypeOK, SourceRow
    <2>2. documents' \in [DocumentId -> DocumentRow]
      <3>1. ASSUME NEW d \in FoundDocuments
            PROVE  [documents[d] EXCEPT !.text = Redacted(@)] \in DocumentRow
        <4>1. d \in StoredDocuments
          BY <1>4 DEF FoundDocuments, found
        <4>2. documents[d] \in DocumentRow /\ Redacted(documents[d].text) \in Text
          BY <1>3, <4>1, Texts DEF IInv, TypeOK, StoredDocuments
        <4>3. QED BY <4>2 DEF DocumentRow
      <3>2. QED BY <1>1, <3>1 DEF IInv, TypeOK
    <2>3. \A d \in StoredDocuments' : documents'[d].source \in SourceId /\ documents'[d].text \in Text
      BY <1>3, <1>5, <1>6, Texts DEF IInv, TypeOK
    <2>4. chunks' \subseteq ChunkRow /\ index' \subseteq ChunkRow /\ mentions' \subseteq MentionRow
      BY <1>1, <1>11, <1>12 DEF IInv, TypeOK
    <2>5. call' \in [Call -> CallRow] /\ erased' \in BOOLEAN
      BY <1>1 DEF IInv, TypeOK
    <2>6. QED BY <1>13, <1>14, <2>1, <2>2, <2>3, <2>4, <2>5 DEF TypeOK
  <1>16. OneVersionPerSource' /\ CallComplete'
    BY <1>1, <1>5 DEF IInv, OneVersionPerSource, CallComplete
  <1>17. DocumentsWhole'
    BY <1>5, <1>11, <1>12 DEF IInv, DocumentsWhole
  <1>18. MinedUnlessQuarantined'
    BY <1>1, <1>7, <1>13 DEF IInv, MinedUnlessQuarantined
  <1>19. ErasedFromText'
    <2>1. \A d \in StoredDocuments :
            Holds(documents'[d].text) => documents'[d].text.of \in Tailed \ (Naming \cup Titled)
      <3> SUFFICES ASSUME NEW d \in StoredDocuments, NEW t \in Text, t = documents[d].text,
                          Holds(documents'[d].text)
                   PROVE  documents'[d].text.of \in Tailed \ (Naming \cup Titled)
        BY <1>3
      <3>1. ~(Names(t) \/ Titles(t)) /\ documents'[d].text = t
        BY <1>6, Texts
      <3>2. QED BY <3>1 DEF Holds, Names, Titles
    <2>2. \A x \in chunks' : ~Names(x.text)
      BY <1>8, <1>10
    <2>3. \A s \in StoredSources' : ~sources'[s].named
      BY <1>1, <1>5 DEF IInv, TypeOK, SourceRow, StoredSources
    <2>4. QED BY <1>1, <1>5, <1>12, <1>13, <2>1, <2>2, <2>3 DEF ErasedFromText
  <1>20. QED BY <1>14, <1>15, <1>16, <1>17, <1>18, <1>19 DEF IInv, EntitiesMentioned

\* eraseTenant: nothing is left to relate.
LEMMA EraseTenantInv ==
  ASSUME IInv, EraseTenant
  PROVE  IInv'
  <1>1. /\ sources' = [s \in SourceId |->
             IF s \in StoredSources THEN DeletedSource ELSE sources[s]]
        /\ documents' = [d \in DocumentId |->
             IF d \in StoredDocuments THEN DeletedDocument ELSE documents[d]]
        /\ chunks' = {} /\ index' = {} /\ claims' = {} /\ mentions' = {} /\ entities' = {}
        /\ erased' = TRUE /\ call' = call
    BY DEF EraseTenant
  <1>2. sources' \in [SourceId -> SourceRow] /\ documents' \in [DocumentId -> DocumentRow]
    BY <1>1, DeletedRows DEF IInv, TypeOK, SourceRow, DocumentRow, RowStatus
  <1>3. StoredSources' = {} /\ StoredDocuments' = {}
    BY <1>1, DeletedRows DEF IInv, TypeOK, SourceRow, DocumentRow, RowStatus, StoredSources, StoredDocuments
  <1>4. Visible' = {} BY <1>3 DEF Visible
  <1>5. TypeOK'
    BY <1>1, <1>2, <1>3 DEF IInv, TypeOK, Mentioning
  <1>6. QED
    BY <1>1, <1>3, <1>4, <1>5
    DEF IInv, CallComplete, OneVersionPerSource, DocumentsWhole, MinedUnlessQuarantined,
        EntitiesMentioned, ErasedFromText, Mentioning

\* Any step.
LEMMA NextInv == ASSUME IInv, [Next]_vars PROVE IInv'
  <1>1. CASE UNCHANGED vars
    BY <1>1, TablesUnchanged DEF vars, IInv, TypeOK, CallComplete
  <1>2. ASSUME NEW s \in SourceId, NEW l \in Locator, AddSource(s, l) PROVE IInv'
    BY <1>2, AddSourceInv
  <1>3. ASSUME NEW s \in SourceId, DeleteSource(s) PROVE IInv'
    BY <1>3, DeleteSourceInv
  <1>4. ASSUME NEW r \in Call, NEW s \in SourceId, NEW c \in Content, BeginIngest(r, s, c)
        PROVE IInv'
    BY <1>4, BeginIngestInv
  <1>5. ASSUME NEW r \in Call, NEW d \in DocumentId, CommitIngest(r, d) PROVE IInv'
    BY <1>5, CommitIngestInv
  <1>6. ASSUME NEW r \in Call, BeginSearch(r) PROVE IInv'
    BY <1>6, BeginSearchInv
  <1>7. ASSUME NEW r \in Call, Abort(r) \/ EndSearch(r) PROVE IInv'
    BY <1>7, CallEndsInv
  <1>8. ASSUME NEW d \in DocumentId, NEW q \in BOOLEAN, SetQuarantine(d, q) PROVE IInv'
    <2>1. CASE q BY <1>8, <2>1, HoldInv
    <2>2. CASE ~q BY <1>8, <2>2, ReleaseInv
    <2>3. QED BY <2>1, <2>2
  <1>9. CASE RedactTerm BY <1>9, RedactTermInv
  <1>10. CASE EraseTenant BY <1>10, EraseTenantInv
  <1>11. QED BY <1>1, <1>2, <1>3, <1>4, <1>5, <1>6, <1>7, <1>8, <1>9, <1>10 DEF Next

-----------------------------------------------------------------------------
(* Theorems *)

\* The inductive invariant holds for any numbers of sources, documents, texts and calls
\* (store.ts, every method that writes).
THEOREM Invariance == Spec => []IInv
  <1>1. Init => IInv BY InitInv
  <1>2. IInv /\ [Next]_vars => IInv' BY NextInv
  <1>3. QED BY <1>1, <1>2, PTL DEF Spec

\* The tables keep their shape and their foreign keys (storage/migrations.ts:44-126).
THEOREM TypeCorrect == Spec => []TypeOK
  <1>1. IInv => TypeOK BY DEF IInv
  <1>2. QED BY <1>1, Invariance, PTL

\* Any number of overlapping ingestions leaves a source one version (store.ts ingest).
THEOREM OneVersion == Spec => []OneVersionPerSource
  <1>1. IInv => OneVersionPerSource BY DEF IInv
  <1>2. QED BY <1>1, Invariance, PTL

\* No row of chunks or of the index is missing, outdated or left over (store.ts ingest,
\* deleteSource, redactTerm).
THEOREM AlwaysWhole == Spec => []DocumentsWhole
  <1>1. IInv => DocumentsWhole BY DEF IInv
  <1>2. QED BY <1>1, Invariance, PTL

\* What is in quarantine is never mined, and all else is (store.ts ingest, setQuarantine).
THEOREM QuarantineKept == Spec => []MinedUnlessQuarantined
  <1>1. IInv => MinedUnlessQuarantined BY DEF IInv
  <1>2. QED BY <1>1, Invariance, PTL

\* No entity outlives its last mention (store.ts #deleteDocumentRows, setQuarantine).
THEOREM NoOrphanEntity == Spec => []EntitiesMentioned
  <1>1. IInv => EntitiesMentioned BY DEF IInv
  <1>2. QED BY <1>1, Invariance, PTL

\* A redacted term stays out of every chunk, index entry, claim, entity and source until
\* something that a redaction would find is stored again, and out of the whole of every
\* document, title and tail included, whose chunks or title ever had it.  What a redaction
\* does not reach is a term only in the part of a text that the chunker drops (store.ts
\* findTerm, redactTerm, and extraction on release).
THEOREM RedactionHolds == Spec => []ErasedFromText
  <1>1. IInv => ErasedFromText BY DEF IInv
  <1>2. QED BY <1>1, Invariance, PTL

\* What a search returns was visible before its await or after it, and what was visible
\* at both moments is returned (hybrid.ts search).
THEOREM SearchesSound == Spec => []SearchAnswers
  <1>1. IInv => SearchAnswers
    BY LegsFindVisible DEF IInv, CallComplete, SearchAnswers, Answer
  <1>2. QED BY <1>1, Invariance, PTL
=============================================================================
