--------------------------- MODULE ParserProtocol ---------------------------
(***************************************************************************)
(* What a parser may answer.  The envelope of a parser is checked by two   *)
(* validators written separately: parser_protocol.py, used by the          *)
(* container runner, and the second half of sandbox_ipc.py, used by the    *)
(* process harness.  Both only accept or raise ValueError, so each is a    *)
(* predicate here.                                                         *)
(*                                                                         *)
(* An envelope is a record:                                                *)
(*   json      one UTF-8 JSON object, no duplicate key, finite numbers     *)
(*   header    schema_version is 1 and ok is a boolean                     *)
(*   keys      every object has exactly the fields of the protocol         *)
(*   ok        result or error                                             *)
(*   code, message, retryable                      of an error             *)
(*   source, media, parser, profile, blocks, anchor_set, warnings          *)
(*                                                 of a result             *)
(* A digest is the value it is the digest of: the hash of an anchor is the *)
(* anchor, the hash of an anchor set the sequence of the anchor hashes.  A *)
(* text is a record of its identity, its length and whether it is non-empty*)
(* and normalised (NFC, LF, Unicode scalars).                              *)
(***************************************************************************)
EXTENDS Naturals, Sequences, FiniteSets, Functions

CONSTANTS
  MaxBlocks, MaxBlockChars, MaxTotalChars   \* the policy's result section

ASSUME PolicyAssumption ==
  {MaxBlocks, MaxBlockChars, MaxTotalChars} \subseteq Nat \ {0}

AnchorKind ==
  [text |-> "text_line", pdf |-> "pdf_block", png |-> "image_bbox",
   jpeg |-> "image_bbox", hwp |-> "hwp_paragraph", hwpx |-> "hwp_paragraph",
   docx |-> "docx_paragraph", pptx |-> "pdf_block", xlsx |-> "xlsx_cell"]

\* _MEDIA_TYPES of the container protocol: plain text is read without a parser.
ContainerMedia == DOMAIN AnchorKind \ {"text"}

ApprovedParser ==
  [pdf |-> "pypdfium2", png |-> "tesseract", jpeg |-> "tesseract",
   hwp |-> "pyhwp", hwpx |-> "hwpxlib", docx |-> "stdlib-docx",
   pptx |-> "libreoffice", xlsx |-> "stdlib-xlsx"]

ErrorCodes ==
  {"EMPTY_INPUT", "INPUT_TOO_LARGE", "UNSUPPORTED_MEDIA_TYPE", "TYPE_MISMATCH",
   "DEPENDENCY_UNAVAILABLE", "CORRUPT_DOCUMENT", "ENCRYPTED_DOCUMENT",
   "IMAGE_PIXEL_LIMIT", "PDF_PAGE_LIMIT", "INVALID_COORDINATE",
   "ZIP_EXPANSION_LIMIT", "XML_DTD_FORBIDDEN", "OCR_REQUIRED", "OCR_TIMEOUT",
   "OCR_FAILED", "NO_EXTRACTABLE_TEXT", "OUTPUT_TOO_LARGE", "INTERNAL_ERROR"}

\* The fields a locator of each kind may have.
HwpBase == {"parser", "parser_version", "section", "paragraph"}
LocatorForms ==
  [text_line |-> {{"line", "start", "end"}},
   pdf_block |-> {{"page", "block_id", "bbox"}},
   image_bbox |-> {{"image_id", "bbox"}},
   docx_paragraph |-> {{"paragraph"}, {"paragraph", "table"}},
   xlsx_cell |-> {{"sheet", "cell", "row", "column"}},
   hwp_paragraph |-> {HwpBase, HwpBase \cup {"table"}, HwpBase \cup {"footnote"}}]

\* wrong: the fields of the locator whose value is no index, text, box or path.
ValidLocator(kind, locator, parser) ==
  /\ kind \in DOMAIN LocatorForms
  /\ locator.fields \in LocatorForms[kind]
  /\ locator.wrong = {}
  /\ kind = "hwp_paragraph" => locator.parser = parser

ValidText(text, maximum) == text.normal /\ text.length <= maximum

TotalChars(blocks) ==
  LET total[i \in 0 .. Len(blocks)] ==
        IF i = 0 THEN 0 ELSE total[i - 1] + blocks[i].text.length
  IN  total[Len(blocks)]

AnchorHashes(blocks) == [i \in DOMAIN blocks |-> blocks[i].anchor_hash]

ValidWarning(warning, blocks) ==
  /\ warning.code \in {"LOW_CONFIDENCE", "PARTIAL_EXTRACTION", "FOOTNOTE_UNRESOLVED"}
  /\ warning.block_ordinal < Len(blocks)

-----------------------------------------------------------------------------
(* parser_protocol.py *)

ContainerAnchor(anchor, source, profile, text, parser) ==
  /\ anchor.source = source
  /\ anchor.profile = profile
  /\ anchor.text = text.id
  /\ ValidLocator(anchor.kind, anchor.locator, parser)

\* Fault: an anchor of any kind is taken for any document.
AnyAnchorKind(anchor, media) == TRUE

KindOfMedia(anchor, media) == anchor.kind = AnchorKind[media]

ContainerSuccess(p, source, media) ==
  /\ p.keys
  /\ p.source = source
  /\ p.media = media
  /\ p.parser = ApprovedParser[media]
  /\ p.blocks # <<>> /\ Len(p.blocks) <= MaxBlocks
  /\ \A i \in DOMAIN p.blocks :
       LET block == p.blocks[i]
       IN  /\ block.ordinal = i - 1
           /\ ValidText(block.text, MaxBlockChars)
           /\ ContainerAnchor(block.anchor, source, p.profile, block.text, p.parser)
           /\ KindOfMedia(block.anchor, media)
           /\ block.anchor_hash = block.anchor
  /\ TotalChars(p.blocks) <= MaxTotalChars
  /\ IsInjective(AnchorHashes(p.blocks))
  /\ p.anchor_set = AnchorHashes(p.blocks)
  /\ \A w \in p.warnings : ValidWarning(w, p.blocks)

ContainerFailure(p) == p.keys /\ p.code \in ErrorCodes /\ p.message

validate_parser_payload(p, source, media) ==
  /\ media \in ContainerMedia
  /\ p.json /\ p.header
  /\ IF p.ok THEN ContainerSuccess(p, source, media) ELSE ContainerFailure(p)

-----------------------------------------------------------------------------
(* sandbox_ipc.py; request names the staged source, media type and parser. *)

ProcessAnchor(anchor, request, profile, text) ==
  /\ anchor.kind = AnchorKind[request.media]
  /\ anchor.source = request.source
  /\ anchor.profile = profile
  /\ anchor.text = text.id
  /\ ValidLocator(anchor.kind, anchor.locator, request.parser)

ProcessSuccess(p, request) ==
  /\ p.keys
  /\ p.source = request.source
  /\ p.media = request.media
  /\ p.parser = request.parser
  /\ p.blocks # <<>> /\ Len(p.blocks) <= MaxBlocks
  /\ \A i \in DOMAIN p.blocks :
       LET block == p.blocks[i]
       IN  /\ block.ordinal = i - 1
           /\ ValidText(block.text, MaxBlockChars)
           /\ ProcessAnchor(block.anchor, request, p.profile, block.text)
           /\ block.anchor_hash = block.anchor
  /\ TotalChars(p.blocks) <= MaxTotalChars
  /\ p.anchor_set = AnchorHashes(p.blocks)
  /\ \A w \in p.warnings : ValidWarning(w, p.blocks)

ProcessFailure(p) == p.keys /\ p.code \in ErrorCodes /\ p.message

ValidPhase1Payload(p, request) ==
  /\ p.json /\ p.header
  /\ IF p.ok THEN ProcessSuccess(p, request) ELSE ProcessFailure(p)
===============================================================================
