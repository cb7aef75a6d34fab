----------------------------- MODULE MCGrounding -----------------------------
(* Three sources, the first of two anchors and the others of one, and an anchor *)
(* of an earlier extraction of the first; the provider is shown three anchors.  *)
EXTENDS Grounding

CONSTANTS r1, r2, r3, a1, a2, a3, a4, old, u1, u1slash, u2

MCRows == <<a1, a2, old, a3, a4>>
MCRevisions == <<r1, r2, r3>>

\* The scores of a1 and a2: ahead of the other anchors, in either order, or even with them.
Scorings == {<<2, 1>>, <<1, 2>>, <<0, 0>>}

Source(score, rejected, instruction, size) ==
  [a \in Anchors |->
     [rev |-> IF a = a3 THEN r2 ELSE IF a = a4 THEN r3 ELSE r1, pinned |-> a # old,
      accepted |-> a \notin rejected, instruction |-> a \in instruction, size |-> size,
      score |-> IF a = a1 THEN score[1] ELSE IF a = a2 THEN score[2] ELSE 0]]

\* All is well; some anchors have a bad text; one reads like an instruction; the texts are
\* long; a source repeats itself.
MCDatabases ==
  UNION {
    {[anchor |-> Source(s, rejected, {}, 1), duplicates |-> {}] :
       rejected \in {{}, {a1}, {a3}, {a1, a2}, {a3, a4}, Anchors}}
    \cup {[anchor |-> Source(s, {}, {a}, 1), duplicates |-> {}] : a \in {a1, a4}}
    \cup {[anchor |-> Source(s, {}, {}, 2), duplicates |-> {}],
          [anchor |-> Source(s, {a3, a4}, {}, 1), duplicates |-> {{a1, a2}}]} : s \in Scorings}

Item(h, t, id, support, quote, clean) ==
  [heading |-> h, text |-> t, id |-> id, support |-> support, quote |-> quote, clean |-> clean]

MCItems ==
  {Item(h, "text", a, a, "literal", TRUE) : h \in {"first", "second"}, a \in Anchors \ {old}}
  \cup {Item("first", "other text", a1, a1, q, TRUE) : q \in {"literal", "rewritten"}}
  \cup {Item("first", "text", old, old, "literal", TRUE),
        Item("first", "text", a1, a2, "literal", TRUE),
        Item("first", "text", a3, a3, "literal", FALSE)}

MCUrl == {u1, u1slash, u2}
MCPage == [u \in MCUrl |-> IF u = u2 THEN "other page" ELSE "page"]

Finding(a, quoted, verdict, urls) ==
  [anchor |-> a, quoted |-> quoted, verdict |-> verdict, urls |-> urls]

MCFindings ==
  {Finding(a, TRUE, "supported", urls) : a \in {a1, a3},
     urls \in {<<>>, <<u1>>, <<u1, u1slash>>, <<u1slash, u2>>}}
  \cup {Finding(a2, TRUE, "unverifiable", <<>>), Finding(old, TRUE, "mixed", <<>>),
        Finding(a1, FALSE, "refuted", <<u2>>)}
===============================================================================
