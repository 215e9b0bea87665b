-------------------------------- MODULE Html --------------------------------
(***************************************************************************)
(* The extraction of a page's text in packages/core/src/knowledge/html.ts: *)
(* what of it becomes evidence, and where its headings stand.              *)
(*                                                                         *)
(* A page is the sequence of its tokens: texts, opening and closing tags,  *)
(* and the openers and closers of comments, CDATA and declarations.  The   *)
(* characters of a text, its whitespace and line breaks are left out: a    *)
(* text is known by its place in the page, and an extracted text is the    *)
(* sequence of such places.  Every a has an href, without which it is no   *)
(* link.  Metadata, images and JSON-LD are left out.                       *)
(***************************************************************************)
EXTENDS Integers, Sequences, SequencesExt, FiniteSets

DropTags == {"script", "style", "noscript", "template", "svg", "canvas", "iframe", "object"}
BoilerplateTags == {"nav", "header", "footer", "aside"}
BoilerplateRoles == {"navigation", "banner", "contentinfo", "complementary"}
HeadingTags == {"h1", "h2", "h3", "h4", "h5", "h6"}

\* A hidden tag has the attribute hidden or a style that hides; a void one has no content.
Text == [kind |-> "text"]
Tag(kind, name, hidden, role, void) ==
  [kind |-> kind, name |-> name, hidden |-> hidden, role |-> role, void |-> void]
Opener(construct) == [kind |-> "opener", name |-> construct]
Closer(construct) == [kind |-> "closer", name |-> construct]

-----------------------------------------------------------------------------
(* stripCommentsAndDeclarations: the places of the tokens outside comments.  A *)
(* comment or CDATA ends at its own closer, a declaration at the first >.      *)

Ends(construct, token) ==
  \/ token.kind = "closer" /\ construct \in {token.name, "doctype"}
  \/ token.kind \in {"open", "close"} /\ construct = "doctype"

Strip(page) ==
  LET strip[n \in 0 .. Len(page)] ==
        IF n = 0 THEN [within |-> "", left |-> <<>>]
        ELSE LET s == strip[n - 1] IN
             IF s.within # "" THEN [s EXCEPT !.within = IF Ends(@, page[n]) THEN "" ELSE @]
             ELSE IF page[n].kind = "opener" THEN [s EXCEPT !.within = page[n].name]
             ELSE [s EXCEPT !.left = Append(@, n)]
  IN  strip[Len(page)].left

-----------------------------------------------------------------------------
(* extractHtml *)

\* Buffers collect the texts of the title, heading and link that are open.
Blank == [drop |-> 0, hidden |-> <<>>, boilerplate |-> 0, inMain |-> FALSE, open |-> <<>>,
          main |-> <<>>, full |-> <<>>, title |-> <<>>, headings |-> <<>>, links |-> <<>>]

OneLess(n) == IF n = 0 THEN 0 ELSE n - 1
IsMain(t) == t.name = "main" \/ t.role = "main"
SawMain(page, left) == \E i \in 1 .. Len(left) : page[left[i]].kind = "open" /\ IsMain(page[left[i]])

Gather(open, i) == [b \in DOMAIN open |-> [open[b] EXCEPT !.texts = Append(@, i)]]

EmitText(s, i, sawMain) ==
  IF s.drop > 0 THEN s
  ELSE [s EXCEPT !.open = Gather(@, i),
                 !.full = Append(@, i),
                 !.main = IF s.boilerplate = 0 /\ (s.inMain \/ ~sawMain) THEN Append(@, i) ELSE @]

\* Elements whose content is dropped, and elements hidden by their own attributes.
VoidHides(s, t) ==                                                          \* mutant
  CASE t.kind = "open" /\ (t.hidden \/ t.name \in DropTags) ->
         [s EXCEPT !.drop = @ + 1, !.hidden = IF t.name \in DropTags THEN @ ELSE Append(@, t.name)]
    [] t.kind = "close" /\ t.name \in DropTags -> [s EXCEPT !.drop = OneLess(@)]
    [] OTHER -> s

Hide(s, t) ==
  CASE t.kind = "open" /\ ~t.void /\ (t.hidden \/ t.name \in DropTags) ->
         [s EXCEPT !.drop = @ + 1, !.hidden = IF t.name \in DropTags THEN @ ELSE Append(@, t.name)]
    [] t.kind = "close" /\ t.name \in DropTags -> [s EXCEPT !.drop = OneLess(@)]
    [] OTHER -> s

Reveal(s, t) ==
  IF t.kind = "close" /\ s.hidden # <<>> /\ Last(s.hidden) = t.name
    THEN [s EXCEPT !.hidden = Front(@), !.drop = OneLess(@)]
    ELSE s

Enter(s, t) ==
  [s EXCEPT
    !.boilerplate = CASE t.kind = "open" /\ (t.name \in BoilerplateTags \/ t.role \in BoilerplateRoles) -> @ + 1
                      [] t.kind = "close" /\ t.name \in BoilerplateTags -> OneLess(@)
                      [] OTHER -> @,
    !.inMain = CASE t.kind = "open" /\ IsMain(t) -> TRUE
                 [] t.kind = "close" /\ t.name = "main" -> FALSE
                 [] OTHER -> @]

\* The buffer a tag opens and closes; a tag opened again starts it afresh.
Buffer(t) ==
  IF t.name \in HeadingTags THEN "heading"
  ELSE IF t.name = "a" THEN "link"
  ELSE IF t.name = "title" THEN "title" ELSE ""

Renew(open, b, offset) ==
  [c \in DOMAIN open \cup {b} |-> IF c = b THEN [texts |-> <<>>, offset |-> offset] ELSE open[c]]

Close(s, b) ==
  LET texts  == s.open[b].texts
      closed == [s EXCEPT !.open = Restrict(@, DOMAIN @ \ {b})]
  IN  CASE b = "title" -> [closed EXCEPT !.title = texts]
        [] b = "link"  -> [closed EXCEPT !.links = Append(@, texts)]
        [] b = "heading" /\ texts # <<>> /\ s.drop = 0 /\ s.boilerplate = 0 ->
             [closed EXCEPT !.headings = Append(@, [texts |-> texts, offset |-> s.open[b].offset])]
        [] OTHER -> closed

Collect(s, t) ==
  LET b == Buffer(t)
  IN  IF b = "" THEN s
      ELSE CASE t.kind = "open" -> [s EXCEPT !.open = Renew(@, b, Len(s.main))]
             [] t.kind = "close" /\ b \in DOMAIN s.open -> Close(s, b)
             [] b = "title" /\ t.kind = "close" /\ b \notin DOMAIN s.open -> [s EXCEPT !.title = <<>>]
             [] OTHER -> s

Read(s, t) ==
  IF t.name \in DropTags THEN Hide(s, t) ELSE Collect(Enter(Reveal(Hide(s, t), t), t), t)

\* A closer alone is a text.
Take(s, page, i, sawMain) ==
  IF page[i].kind \in {"open", "close"} THEN Read(s, page[i]) ELSE EmitText(s, i, sawMain)

ExtractHtml(page) ==
  LET left    == Strip(page)
      sawMain == SawMain(page, left)
      read[n \in 0 .. Len(left)] ==
        IF n = 0 THEN Blank ELSE Take(read[n - 1], page, left[n], sawMain)
  IN  read[Len(left)]

-----------------------------------------------------------------------------
(* Properties *)

Begins(t) == t.kind = "opener" \/ (t.kind = "open" /\ ~t.void)
Stops(t)  == t.kind \in {"close", "closer"}

\* The elements and comments that are open after each place, and those around it.
Stacks(page) ==
  LET stack[n \in 0 .. Len(page)] ==
        IF n = 0 THEN <<>>
        ELSE IF Begins(page[n]) THEN Append(stack[n - 1], n)
        ELSE IF Stops(page[n]) THEN Front(stack[n - 1])
        ELSE stack[n - 1]
  IN  stack
Around(page) == LET stack == Stacks(page) IN [i \in DOMAIN page |-> Range(stack[i - 1]) \cap Range(stack[i])]

\* What stops was begun last, and what is begun is stopped; no comment stands in one of its
\* kind, and a declaration has only text in it.
Nested(page, around, stack) ==
  /\ stack[Len(page)] = <<>>
  /\ \A i \in DOMAIN page : Stops(page[i]) =>
       /\ stack[i - 1] # <<>>
       /\ LET begun == page[Last(stack[i - 1])]
          IN  begun.name = page[i].name /\ (begun.kind = "open" <=> page[i].kind = "close")
  /\ \A i \in DOMAIN page : \A k \in around[i] :
       /\ page[k].kind = "opener" => page[k] # page[i]
       /\ page[k] = Opener("doctype") => page[i] = Text

\* A hidden element has no visible one of its name in it unless another hidden one is
\* between them; main, headings, titles and links are not void nor nested in their kind, nor are
\* landmarks void; and roles stand on tags of their meaning.
Plain(page) ==
  LET around == Around(page)
  IN  /\ Nested(page, around, Stacks(page))
      /\ \A i \in {j \in DOMAIN page : page[j].kind = "open"} :
        LET outer  == {k \in around[i] : page[k].kind = "open"}
            hiders == {k \in outer : page[k].hidden /\ page[k].name \notin DropTags}
        IN  /\ ~page[i].hidden => \A h \in hiders : page[h].name # page[i].name \/ \E k \in hiders : k > h
            /\ page[i].name = "main" => \A k \in outer : page[k].name # "main"
            /\ Buffer(page[i]) # "" => \A k \in outer : Buffer(page[k]) # Buffer(page[i])
            /\ page[i].role \in BoilerplateRoles => page[i].name \in BoilerplateTags
            /\ page[i].role = "main" => page[i].name = "main"
            /\ page[i].void => Buffer(page[i]) = "" /\ page[i].name \notin BoilerplateTags \cup {"main"}

\* The elements of these names, outside comments.
Elements(page, around, names) ==
  {i \in DOMAIN page :
     page[i].kind = "open" /\ page[i].name \in names /\ \A k \in around[i] : page[k].kind = "open"}

\* The texts that a browser would show: in no comment, dropped or hidden element; those of
\* the main content, and those in an element.
Hides(t) == t.kind # "open" \/ t.hidden \/ t.name \in DropTags
Outside(page, places) == \A k \in places : page[k].name \notin BoilerplateTags
VisibleTexts(page, around) ==
  {i \in DOMAIN page : page[i] = Text /\ \A k \in around[i] : ~ Hides(page[k])}
MainTexts(page, around) ==
  {i \in VisibleTexts(page, around) :
     /\ Outside(page, around[i])
     /\ (\E k \in around[i] : page[k].name = "main") \/ Elements(page, around, {"main"}) = {}}
TextsIn(page, around, e) == {i \in VisibleTexts(page, around) : e \in around[i]}

\* A sequence lists a set of numbers in their order.
Lists(s, S) == Range(s) = S /\ \A m, n \in DOMAIN s : m < n => s[m] < s[n]

\* The text of a page is what it shows, in order and complete, and that of its main
\* content what it shows there; the title and the headings are those it shows, and a
\* heading's offset is the length of the main content before it (html.ts 144-281).
ShowsOnly(page) ==
  LET read     == ExtractHtml(page)
      around   == Around(page)
      content  == MainTexts(page, around)
      titles   == Elements(page, around, {"title"})
      links    == Elements(page, around, {"a"})
      headings == {e \in Elements(page, around, HeadingTags) :
                     TextsIn(page, around, e) # {} /\ Outside(page, around[e])}
      Upto(S, e) == Cardinality({i \in S : i <= e})
  IN  /\ Lists(read.full, VisibleTexts(page, around))
      /\ Lists(read.main, content)
      /\ titles = {} => read.title = <<>>
      /\ \A e \in titles : (\A d \in titles : d <= e) => Lists(read.title, TextsIn(page, around, e))
      /\ Len(read.links) = Cardinality(links)
      /\ \A e \in links : Lists(read.links[Upto(links, e)], TextsIn(page, around, e))
      /\ Len(read.headings) = Cardinality(headings)
      /\ \A e \in headings :
           LET heading == read.headings[Upto(headings, e)]
           IN  Lists(heading.texts, TextsIn(page, around, e)) /\ heading.offset = Upto(content, e)
=============================================================================
