----------------------------- MODULE Rendering ------------------------------
(***************************************************************************)
(* How a published draft becomes a page: its evidence markers turn into    *)
(* footnotes (packages/core/src/content/grounding.ts renderWithSources),   *)
(* its Markdown into blocks (content/markdown.ts markdownToHtml), as       *)
(* render() of publishing/pipeline.ts calls them.                          *)
(*                                                                         *)
(* A draft is its lines, each of a kind, and its text: words, markers and  *)
(* references, each on a line.  A block of a page is known by the lines    *)
(* that it shows.  Escaping, emphasis, links and the levels of headings    *)
(* are left out.                                                           *)
(***************************************************************************)
EXTENDS Integers, Sequences, SequencesExt, FiniteSets

Line(kind)     == [kind |-> kind]
Definition(id) == [kind |-> "footnote", id |-> id]

Word(i, w)      == [line |-> i, word |-> w]
Marker(i, id)   == [line |-> i, marker |-> id]
Reference(i, n) == [line |-> i, reference |-> n]
IsMarker(a)     == "marker" \in DOMAIN a

-----------------------------------------------------------------------------
(* grounding.ts *)

\* The ids used, in the order of their first use: the place of one is its number.
Used(text) ==
  LET used[p \in 0 .. Len(text)] ==
        IF p = 0 THEN <<>>
        ELSE IF IsMarker(text[p]) /\ text[p].marker \notin Range(used[p - 1])
               THEN Append(used[p - 1], text[p].marker)
               ELSE used[p - 1]
  IN  used[Len(text)]

Footnoted(text, used) ==
  [p \in DOMAIN text |->
     IF IsMarker(text[p])
       THEN Reference(text[p].line, CHOOSE n \in DOMAIN used : used[n] = text[p].marker)
       ELSE text[p]]

\* An id that names no evidence is its own footnote.
Source(id, evidence) == IF id \in DOMAIN evidence THEN evidence[id] ELSE id

RenderWithSources(draft, evidence) ==
  LET used == Used(draft.text)
      last == Len(draft.lines)
      body == [draft EXCEPT !.text = Footnoted(@, used)]
  IN  IF used = <<>> THEN body
      ELSE [lines |-> body.lines \o <<Line("blank"), Line("heading"), Line("blank")>>
                                 \o [n \in DOMAIN used |-> Definition(n)],
            text  |-> body.text \o <<Word(last + 2, "Sources")>>
                                \o [n \in DOMAIN used |-> Word(last + 3 + n, Source(used[n], evidence))]]

StripMarkers(draft) ==
  [draft EXCEPT !.text = [p \in {q \in DOMAIN @ : ~ IsMarker(@[q])} |-> @[p]]]

-----------------------------------------------------------------------------
(* markdown.ts *)

\* open holds the lines of the paragraph, list and quotation that are not written yet.
Nothing == [blocks |-> <<>>, footnotes |-> <<>>, list |-> "ul",
            open |-> [b \in {"text", "list", "quote"} |-> <<>>]]

\* A list has an item for each line; the lines of the others run on.
Written(s, b) ==
  IF b = "list" THEN [tag |-> s.list, items |-> [k \in DOMAIN s.open[b] |-> <<s.open[b][k]>>]]
                ELSE [tag |-> b, items |-> <<s.open[b]>>]

KeepsQuote(s, b) ==                                                         \* mutant
  IF s.open[b] = <<>> THEN s
  ELSE [s EXCEPT !.blocks = Append(@, Written(s, b)), !.open[b] = IF b = "quote" THEN @ ELSE <<>>]

\* flushPara, flushList and flushQuote.
Flush(s, b) ==
  IF s.open[b] = <<>> THEN s
  ELSE [s EXCEPT !.blocks = Append(@, Written(s, b)), !.open[b] = <<>>]
FlushAll(s) == Flush(Flush(Flush(s, "text"), "list"), "quote")

Add(s, b, i) == [s EXCEPT !.open[b] = Append(@, i)]

Item(s, i, kind) ==
  LET flushed == Flush(Flush(s, "text"), "quote")
      list    == IF flushed.list = kind THEN flushed ELSE [Flush(flushed, "list") EXCEPT !.list = kind]
  IN  Add(list, "list", i)

ReadLine(s, i, line) ==
  CASE line.kind = "footnote" ->
         [FlushAll(s) EXCEPT !.footnotes = Append(@, [id |-> line.id, line |-> i])]
    [] line.kind = "heading"  ->
         [FlushAll(s) EXCEPT !.blocks = Append(@, [tag |-> "heading", items |-> <<<<i>>>>])]
    [] line.kind \in {"ul", "ol"} -> Item(s, i, line.kind)
    [] line.kind = "quote" -> Add(Flush(Flush(s, "text"), "list"), "quote", i)
    [] line.kind = "blank" -> FlushAll(s)
    [] line.kind = "text"  -> Add(Flush(Flush(s, "list"), "quote"), "text", i)

MarkdownToHtml(draft) ==
  LET read[n \in 0 .. Len(draft.lines)] ==
        IF n = 0 THEN Nothing ELSE ReadLine(read[n - 1], n, draft.lines[n])
      all == FlushAll(read[Len(draft.lines)])
  IN  [text |-> draft.text, blocks |-> all.blocks, footnotes |-> all.footnotes]

-----------------------------------------------------------------------------
(* pipeline.ts *)

Render(draft, evidence) == MarkdownToHtml(StripMarkers(RenderWithSources(draft, evidence)))

-----------------------------------------------------------------------------
(* Properties *)

\* The lines whose neighbours of the same kind share a block, and those that stand in one.
Running == {"text", "ul", "ol", "quote"}
Shown   == Running \cup {"heading"}

\* Where a page shows a line: the blocks, and their items.
Places(page, i) ==
  {p \in UNION {{b} \X DOMAIN page.blocks[b].items : b \in DOMAIN page.blocks} :
     i \in Range(page.blocks[p[1]].items[p[2]])}

\* A page shows every line once, in a block of its kind, the lines in order, and the
\* definitions of footnotes apart from them, in order too; two lines share a block exactly
\* when all from one to the other are of one kind, and items of a list stay apart.
\* (markdown.ts markdownToHtml)
LinesShown(page, lines) ==
  LET Alike(i, j) == lines[i].kind \in Running /\ \A k \in i .. j : lines[k].kind = lines[i].kind
  IN  /\ \A i \in DOMAIN lines :
           IF lines[i].kind \in Shown
             THEN \E b \in DOMAIN page.blocks : \E k \in DOMAIN page.blocks[b].items :
                    Places(page, i) = {<<b, k>>} /\ page.blocks[b].tag = lines[i].kind
             ELSE Places(page, i) = {}
      /\ \A b \in DOMAIN page.blocks :
           page.blocks[b].items # <<>> /\ <<>> \notin Range(page.blocks[b].items)
      /\ \A i, j \in DOMAIN lines : i < j =>
           \A p \in Places(page, i), q \in Places(page, j) :
             /\ p[1] < q[1] \/ (p[1] = q[1] /\ p[2] <= q[2])
             /\ p[1] = q[1] <=> Alike(i, j)
             /\ p = q <=> (Alike(i, j) /\ lines[i].kind \notin {"ul", "ol"})
             /\ p = q => \E m, n \in DOMAIN page.blocks[p[1]].items[p[2]] :
                           m < n /\ page.blocks[p[1]].items[p[2]][m] = i /\ page.blocks[p[1]].items[p[2]][n] = j
      /\ {page.footnotes[f].line : f \in DOMAIN page.footnotes} = {i \in DOMAIN lines : lines[i].kind = "footnote"}
      /\ \A f \in DOMAIN page.footnotes : page.footnotes[f].id = lines[page.footnotes[f].line].id
      /\ \A f, g \in DOMAIN page.footnotes : f < g => page.footnotes[f].line < page.footnotes[g].line
NothingUnrendered(draft, evidence) ==
  LinesShown(Render(draft, evidence), RenderWithSources(draft, evidence).lines)

\* In a draft without footnotes of its own every word stays, and every marker ends as a
\* reference to exactly one footnote, which names the evidence it marks; there is no other
\* footnote, and they are numbered as they are first met. (grounding.ts renderWithSources)
SourcesShown(draft, evidence) ==
  LET page    == Render(draft, evidence)
      markers == {p \in DOMAIN draft.text : IsMarker(draft.text[p])}
      On(i)   == {page.text[p] : p \in {q \in DOMAIN page.text : page.text[q].line = i}}
      Number(p) == page.text[p].reference
  IN  (\A i \in DOMAIN draft.lines : draft.lines[i].kind # "footnote") =>
        /\ \A p \in DOMAIN draft.text \ markers : p \in DOMAIN page.text /\ page.text[p] = draft.text[p]
        /\ \A p \in markers :
             /\ p \in DOMAIN page.text /\ page.text[p] = Reference(draft.text[p].line, Number(p))
             /\ \E f \in DOMAIN page.footnotes :
                  /\ {g \in DOMAIN page.footnotes : page.footnotes[g].id = Number(p)} = {f}
                  /\ On(page.footnotes[f].line) =
                       {Word(page.footnotes[f].line, Source(draft.text[p].marker, evidence))}
             /\ Number(p) <= 1 + Cardinality({Number(q) : q \in {m \in markers : m < p}})
        /\ Len(page.footnotes) = Cardinality({draft.text[p].marker : p \in markers})
=============================================================================
