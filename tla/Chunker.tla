------------------------------ MODULE Chunker -------------------------------
(***************************************************************************)
(* The chunker of packages/core/src/knowledge/chunker.ts.                  *)
(*                                                                         *)
(* A text is known by its units, the ranges of its sentences in order, and *)
(* by the offsets and levels of its headings.                              *)
(***************************************************************************)
EXTENDS Integers, Sequences, FiniteSets, FiniteSetsExt, SequencesExt

CONSTANTS Target, Overlap, MinChars   \* chunkText's options, in characters

ASSUME ChunkAssumption == Target \in Nat \ {0} /\ Overlap \in Nat /\ MinChars \in Nat

-----------------------------------------------------------------------------
(* headingPathAt *)

\* The path is popped until its level, counted down by one for each heading removed, is
\* below that of the next heading.
Popped(path, last, level) ==
  SubSeq(path, 1, Len(path) - Min({Len(path), Max({0, last - level + 1})}))

Push(s, h) == [path |-> Append(Popped(s.path, s.last, h.level), h), last |-> h.level]

\* The headings are read as far as the first that is beyond the offset.
HeadingPathAt(offset, headings) ==
  LET after[n \in 0 .. Len(headings)] ==
        IF n = 0 THEN [path |-> <<>>, last |-> 0]
        ELSE IF \E m \in 1 .. n : headings[m].offset > offset THEN after[n - 1]
        ELSE Push(after[n - 1], headings[n])
  IN  after[Len(headings)].path

-----------------------------------------------------------------------------
(* chunkText *)

\* How many units fit from unit i on.
Fitting(units, i) ==
  Cardinality({j \in i..Len(units) : units[j].end - units[i].start <= Target})

\* The unit after the window that starts at unit i, and where the window ends.  A unit
\* longer than the target is cut.
WindowNext(units, i) == i + Max({1, Fitting(units, i)})
WindowEnd(units, i) ==
  IF Fitting(units, i) = 0 THEN Min({units[i].end, units[i].start + Target})
                           ELSE units[WindowNext(units, i) - 1].end

\* The unit the next window starts at: the last one again if there are several, or the
\* first that starts inside the overlap.
Restart(units, i) ==
  LET next == WindowNext(units, i)
      base == IF Overlap > 0 /\ next - 1 > i THEN next - 1 ELSE next
  IN  Min({base} \cup {k \in i + 1 .. base - 1 : units[k].start >= WindowEnd(units, i) - Overlap})

DropsShort(chunks, end) == chunks                                           \* mutant
\* A short window extends the chunk before it.
Extend(chunks, end) == [chunks EXCEPT ![Len(chunks)].end = end]

Emit(units, chunks, i) ==
  LET start == units[i].start
      end   == WindowEnd(units, i)
  IN  IF end - start >= MinChars \/ chunks = <<>> \/ WindowNext(units, i) > Len(units)
        THEN Append(chunks, [start |-> start, end |-> end])
        ELSE Extend(chunks, end)

\* One turn for each window; as every window starts at a later unit than the one before,
\* there are at most as many as units.
Windows(units) ==
  LET after[n \in 0 .. Len(units)] ==
        IF n = 0 THEN [i |-> 1, chunks |-> <<>>]
        ELSE LET s == after[n - 1]
             IN  IF s.i > Len(units) THEN s
                 ELSE [i |-> Restart(units, s.i), chunks |-> Emit(units, s.chunks, s.i)]
  IN  after[Len(units)].chunks

ChunkText(units, headings) ==
  LET chunks == Windows(units)
  IN  [n \in DOMAIN chunks |->
         [start |-> chunks[n].start, end |-> chunks[n].end,
          headings |-> HeadingPathAt(chunks[n].start, headings)]]

-----------------------------------------------------------------------------
(* Properties *)

\* The headings that enclose an offset: those no later heading has closed.
Enclosing(offset, headings) ==
  {h \in Range(headings) :
     /\ h.offset <= offset
     /\ \A g \in Range(headings) :
          h.offset < g.offset /\ g.offset <= offset => h.level < g.level}

\* No heading is more than one level below the one before.
NoLevelSkipped(headings) ==
  \A i \in 2 .. Len(headings) : headings[i].level <= headings[i - 1].level + 1

\* Every character of a sentence is in some chunk, up to the target-th of each.
Covering(chunks, units) ==
  \A u \in Range(units) : \A x \in u.start .. Min({u.end, u.start + Target}) - 1 :
    \E c \in Range(chunks) : c.start <= x /\ x < c.end

\* Chunks start one after the other, and none is empty.
InOrder(chunks) ==
  /\ \A n \in DOMAIN chunks : chunks[n].start < chunks[n].end
  /\ \A n \in 2 .. Len(chunks) : chunks[n - 1].start < chunks[n].start

\* Each chunk carries the headings that enclose it, provided no level is skipped.
Headed(chunks, headings) ==
  NoLevelSkipped(headings) =>
    \A c \in Range(chunks) : Range(c.headings) = Enclosing(c.start, headings)

\* The chunks leave nothing out, are in order and have their headings (chunker.ts:3-7,
\* chunkText).
Complete(units, headings) ==
  LET chunks == ChunkText(units, headings)
  IN  Covering(chunks, units) /\ InOrder(chunks) /\ Headed(chunks, headings)
=============================================================================
