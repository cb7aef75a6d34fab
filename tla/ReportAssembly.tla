---------------------------- MODULE ReportAssembly ----------------------------
(***************************************************************************)
(* What the suggestion worker and the edit agent make of the sources of a  *)
(* report (automatic_report_suggestions.py): the anchors that the provider *)
(* is shown, and the section of the merged document that repeats every     *)
(* source.  And the comparison of two sources (document_comparison.py).    *)
(*                                                                         *)
(* A document is the sequence of its anchors, an anchor is a record with   *)
(* the length of its text.                                                 *)
(***************************************************************************)
EXTENDS Integers, SequencesExt, FiniteSetsExt

CONSTANTS
  BlockAnchors,     \* _MAX_COVERAGE_ANCHORS_PER_BLOCK
  ParagraphLength,  \* _MAX_MERGED_PARAGRAPH_LENGTH
  Sizes,            \* lengths of the anchors in the documents that are tried
  MaxDocument,      \* bound on the anchors of the documents that are tried
  Scores            \* similarities that are tried

ASSUME AssemblyAssumption ==
  /\ BlockAnchors \in Nat \ {0} /\ ParagraphLength \in Nat
  /\ MaxDocument \in Nat /\ Scores \subseteq Int

-----------------------------------------------------------------------------
(* The section of the sources *)

\* The anchors of a block are joined by two line ends.
TextLength(block) ==
  FoldLeft(LAMBDA n, a : n + a.size, 0, block) + (IF block = <<>> THEN 0 ELSE 2 * (Len(block) - 1))

Full(chunk, a) ==
  Len(chunk) >= BlockAnchors \/ TextLength(Append(chunk, a)) > ParagraphLength

\* Fault: what is left at the end of a document is forgotten.
NoFlush(blocks, chunk) == blocks

\* flush_chunk
Flush(blocks, chunk) == IF chunk = <<>> THEN blocks ELSE Append(blocks, chunk)

\* The next anchor joins the chunk in hand, or it begins another.
Take(acc, a) ==
  IF Full(acc.chunk, a)
    THEN [blocks |-> Flush(acc.blocks, acc.chunk), chunk |-> <<a>>]
    ELSE [blocks |-> acc.blocks, chunk |-> Append(acc.chunk, a)]

\* The blocks of one document, each the sequence of the anchors it quotes.
_build_source_coverage_blocks(document) ==
  LET end == FoldLeft(Take, [blocks |-> <<>>, chunk |-> <<>>], document)
  IN  Flush(end.blocks, end.chunk)

-----------------------------------------------------------------------------
(* The anchors that the provider is shown *)

\* The first anchor of every document, then the second of every document that has one,
\* and so on.
RoundRobin(documents, perDocument) ==
  LET round(n) ==
        FlattenSeq([d \in 1..Len(documents) |->
                      IF n <= Len(documents[d]) THEN <<documents[d][n]>> ELSE <<>>])
  IN  FlattenSeq([n \in 1..perDocument |-> round(n)])

LongestOf(documents) == Max({0} \cup {Len(documents[d]) : d \in DOMAIN documents})

\* perDocument is 0 when the caller sets no limit.
_select_report_anchors(documents, maxAnchors, perDocument) ==
  LET limit == IF perDocument = 0 THEN LongestOf(documents) ELSE perDocument
      all == RoundRobin(documents, limit)
  IN  SubSeq(all, 1, Min({maxAnchors, Len(all)}))

-----------------------------------------------------------------------------
(* The comparison of two documents *)

\* The cosine of the embeddings of two anchors.
Score(left, right, similarity, c) == similarity[<<left[c.l].id, right[c.r].id>>]

\* Only the pairs whose embeddings have a dominant bucket in common are looked at; near
\* is the set of them.  A comparison of too many is refused.
Candidates(left, right, near, similarity, threshold) ==
  {c \in [l : DOMAIN left, r : DOMAIN right] :
     /\ <<left[c.l].id, right[c.r].id>> \in near
     /\ Score(left, right, similarity, c) >= threshold}

\* Best first; among equals in the order of the documents.
Before(left, right, similarity, c, d) ==
  LET score(x) == Score(left, right, similarity, x)
  IN  \/ score(c) > score(d)
      \/ score(c) = score(d) /\ c.l < d.l
      \/ score(c) = score(d) /\ c.l = d.l /\ c.r < d.r

\* Fault: a source anchor may be paired again.
FreeOnOneSide(matches, c) == \A m \in matches : m.l # c.l

Free(matches, c) == \A m \in matches : m.l # c.l /\ m.r # c.r

Match(matches, c) == IF Free(matches, c) THEN matches \cup {c} ELSE matches

\* The candidates in order: the n-th is the one that has n - 1 before it.
Ordered(left, right, similarity, candidates) ==
  [n \in 1..Cardinality(candidates) |->
     CHOOSE c \in candidates :
       Cardinality({d \in candidates : Before(left, right, similarity, d, c)}) = n - 1]

\* Each candidate in order is a match if both of its anchors are still free.
compare_anchor_sets(left, right, near, similarity, threshold) ==
  FoldLeft(Match, {},
           Ordered(left, right, similarity, Candidates(left, right, near, similarity, threshold)))

-----------------------------------------------------------------------------
(* Properties, over the documents up to the bounds *)

\* An anchor of a tried document; the id tells the places of a document apart.
SampleDocuments(d) ==
  UNION {{[i \in 1..n |-> [id |-> <<d, i>>, size |-> sizes[i]]] : sizes \in [1..n -> Sizes]} :
           n \in 0..MaxDocument}

Lengths(d) == {[i \in 1..n |-> [id |-> <<d, i>>, size |-> 1]] : n \in 0..MaxDocument}

\* The section repeats every anchor of every source once and in order, "prevents model
\* summarization or retrieval limits from silently dropping uploaded-document content",
\* and no paragraph is longer than the editor takes, unless a single anchor is.
CoverageIsComplete ==
  \A document \in SampleDocuments(1) :
    LET blocks == _build_source_coverage_blocks(document)
    IN  /\ FlattenSeq(blocks) = document
        /\ \A b \in ToSet(blocks) :
             /\ Len(b) \in 1..BlockAnchors
             /\ TextLength(b) > ParagraphLength => Len(b) = 1

\* How many of the first n anchors of a selection are of the document d.
CountOf(selected, n, d) == Cardinality({k \in 1..n : selected[k].id[1] = d})

\* No source is crowded out of the prompt: the provider is shown a beginning of every
\* document, as much of one as of another unless that one is shorter, and as much as
\* the limits allow.
SelectionIsFair ==
  \A d1 \in Lengths(1), d2 \in Lengths(2), d3 \in Lengths(3),
     maxAnchors \in 1..(2 * MaxDocument), perDocument \in 0..MaxDocument :
    LET documents == <<d1, d2, d3>>
        selected == _select_report_anchors(documents, maxAnchors, perDocument)
        most(d) == IF perDocument = 0 THEN Len(documents[d]) ELSE Min({perDocument, Len(documents[d])})
        all == Len(selected)
    IN  /\ all = Min({maxAnchors, most(1) + most(2) + most(3)})
        /\ \A n \in 1..all : \E d \in 1..3 :
             /\ CountOf(selected, n, d) \in DOMAIN documents[d]
             /\ selected[n] = documents[d][CountOf(selected, n, d)]
        /\ \A d \in 1..3 :
             \/ CountOf(selected, all, d) = most(d)
             \/ \A e \in 1..3 : CountOf(selected, all, e) <= CountOf(selected, all, d) + 1

\* The matches of two documents pair an anchor with at most one other, and a pair that
\* was found similar is passed over only for a match of one of the two that is as good.
ComparisonIsStable ==
  LET ids(d) == {<<d, i>> : i \in 1..2}
      anchors(d) == [i \in 1..2 |-> [id |-> <<d, i>>, size |-> 1]]
  IN  \A near \in SUBSET (ids(1) \X ids(2)), threshold \in Scores :
        \A similarity \in [ids(1) \X ids(2) -> Scores] :
          LET left == anchors(1)
              right == anchors(2)
              score(c) == Score(left, right, similarity, c)
              matches == compare_anchor_sets(left, right, near, similarity, threshold)
          IN  /\ \A m, n \in matches : m.l = n.l <=> m.r = n.r
              /\ \A c \in Candidates(left, right, near, similarity, threshold) \ matches :
                   \E m \in matches : (m.l = c.l \/ m.r = c.r) /\ score(m) >= score(c)
===============================================================================
