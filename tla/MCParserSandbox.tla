-------------------------- MODULE MCParserSandbox --------------------------
EXTENDS ParserSandbox

\* A good result of two blocks, and envelopes that differ from it in one respect.
Text(id) == [id |-> id, length |-> 1, normal |-> TRUE]
Anchor(id) ==
  [kind |-> "pdf_block", source |-> "staged", profile |-> "profile", text |-> id,
   locator |-> [fields |-> {"page", "block_id", "bbox"}, wrong |-> {}, parser |-> "none"]]
Block(i, id) ==
  [ordinal |-> i, text |-> Text(id), anchor |-> Anchor(id), anchor_hash |-> Anchor(id)]
Good ==
  [json |-> TRUE, header |-> TRUE, keys |-> TRUE, ok |-> TRUE,
   code |-> "none", message |-> TRUE, retryable |-> FALSE,
   source |-> "staged", media |-> "pdf", parser |-> "pypdfium2", profile |-> "profile",
   blocks |-> <<Block(0, "a"), Block(1, "b")>>,
   anchor_set |-> <<Anchor("a"), Anchor("b")>>,
   warnings |-> {[code |-> "LOW_CONFIDENCE", block_ordinal |-> 1]}]
WithAnchor(anchor) ==
  [Good EXCEPT !.blocks[2].anchor = anchor, !.blocks[2].anchor_hash = anchor,
               !.anchor_set[2] = anchor]
Failure(code, retryable) ==
  [Good EXCEPT !.ok = FALSE, !.code = code, !.retryable = retryable]

MCEnvelope ==
  {Good,
   [Good EXCEPT !.json = FALSE],
   [Good EXCEPT !.source = "other"],
   [Good EXCEPT !.blocks[2].ordinal = 0],
   [Good EXCEPT !.blocks[2].text.length = 3],
   [Good EXCEPT !.anchor_set = <<Anchor("a")>>],
   [Good EXCEPT !.blocks[2] = Block(1, "a"), !.anchor_set[2] = Anchor("a")],
   WithAnchor([Anchor("b") EXCEPT !.source = "other"]),
   WithAnchor([Anchor("b") EXCEPT !.text = "a"]),
   WithAnchor([Anchor("b") EXCEPT !.locator.wrong = {"bbox"}]),
   WithAnchor([Anchor("b") EXCEPT !.kind = "image_bbox",
                                  !.locator.fields = {"image_id", "bbox"}]),
   [Good EXCEPT !.profile = "older",
                !.blocks = <<[Block(0, "a") EXCEPT !.anchor.profile = "older",
                                                   !.anchor_hash.profile = "older"]>>,
                !.anchor_set = <<[Anchor("a") EXCEPT !.profile = "older"]>>,
                !.warnings = {}],
   Failure("CORRUPT_DOCUMENT", FALSE), Failure("OCR_TIMEOUT", TRUE),
   Failure("UNHEARD_OF", FALSE)}
===============================================================================
