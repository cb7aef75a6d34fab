------------------------- MODULE MergedDocumentProofs -------------------------
(***************************************************************************)
(* Proofs about MergedDocument, for every set of members and every bound:  *)
(* a version number stands for one text, and a save loses nothing of the   *)
(* report its blocks were copied from.                                     *)
(***************************************************************************)
EXTENDS MergedDocument, WellFoundedInduction, TLAPS

(***************************************************************************)
(* The inductive invariant.  A copy never runs ahead of the document it    *)
(* was made of, and while the two have the same version they have the same *)
(* text.  So a save, which raises the version, makes every other copy old  *)
(* and none of them false.                                                 *)
(***************************************************************************)
TrueCopy(copy) ==
  copy.version > 0 =>
    /\ documents[copy.epoch].version >= copy.version
    /\ documents[copy.epoch].version = copy.version
         => documents[copy.epoch].blocks = copy.blocks

EditorsHoldTrueCopies ==
  \A m \in Member : TrueCopy(editor[m].cache) /\ TrueCopy(editor[m].shown)

NamedAreTrueCopies ==
  /\ \A copy \in named : TrueCopy(copy)
  /\ \A copy, other \in named :
       /\ copy.version > 0
       /\ other.epoch = copy.epoch
       /\ other.version = copy.version
       => other = copy

\* The blocks a member edits have the version of the last answer, whichever
\* report they are of.
ShownFollowsCache ==
  \A m \in Member : editor[m].shown # NoCopy => editor[m].shown.version = editor[m].cache.version

NoRowNoBlocks == \A e \in Epoch : documents[e].version = 0 => documents[e].blocks = {}

\* While a save is under way the editor stays as it was when the save began.
SavesHaveBlocks ==
  \A m \in Member :
    request[m].operation = "save" =>
      editor[m].shown # NoCopy /\ editor[m].cache.version < MaxVersion

IInv ==
  /\ TypeOK
  /\ EditorsHoldTrueCopies
  /\ NamedAreTrueCopies
  /\ ShownFollowsCache
  /\ NoRowNoBlocks
  /\ SavesHaveBlocks

-------------------------------------------------------------------------------
(* Reports and copies *)

\* A bounded set of naturals that is not empty has a largest member.
LEMMA LargestNatural ==
  ASSUME NEW bound \in Nat, NEW S \in SUBSET (0 .. bound), S # {}
  PROVE  \E n \in S : \A other \in S : other <= n
<1> DEFINE Distance == {d \in Nat : bound - d \in S}
<1>1. \A n \in S : bound - n \in Nat /\ bound - (bound - n) = n
  OBVIOUS
<1>2. Distance # {}
  BY <1>1
<1> HIDE DEF Distance
<1>3. PICK d \in Distance : \A other \in Distance : ~ (<<other, d>> \in OpToRel(<, Nat))
  <2>1. Distance \subseteq Nat
    BY DEF Distance
  <2> QED  BY <1>2, <2>1, WFMin, NatLessThanWellFounded
<1>4. \A other \in Distance : ~ (other < d)
  BY <1>3 DEF OpToRel, Distance
<1>5. bound - d \in S
  BY DEF Distance
<1>6. \A other \in S : other <= bound - d
  BY <1>1, <1>4 DEF Distance
<1> QED  BY <1>5, <1>6

\* load_report_identity finds a complete report whenever there is one.
LEMMA ReportIsComplete ==
  ASSUME DocumentAssumption, Complete # {}
  PROVE  Report \in Complete /\ Report \in Epoch
<1>1. MaxEpoch \in Nat /\ Complete \in SUBSET (0 .. MaxEpoch)
  BY DEF DocumentAssumption, Complete, Epoch
<1>2. \E e \in Complete : \A other \in Complete : other <= e
  BY <1>1, LargestNatural
<1>3. Report \in Complete
  BY <1>2 DEF Report
<1> QED  BY <1>3 DEF Complete

\* What get returns is a true copy of the report it was asked for.
LEMMA CurrentIsTrue ==
  ASSUME DocumentAssumption, TypeOK, NEW report \in Epoch
  PROVE  /\ Current(report) \in Copy
         /\ TrueCopy(Current(report))
         /\ Current(report).epoch = report
         /\ Current(report).version = documents[report].version
         /\ Current(report) # NoCopy
<1>1. /\ documents[report].version \in 0 .. MaxVersion
      /\ documents[report].blocks \in SUBSET Contribution
      /\ documents[report].version \in Nat
      /\ MaxVersion \in Nat
  BY DEF TypeOK, DocumentAssumption
<1>2. [epoch |-> epoch, by |-> "summary", version |-> 0] \in Contribution
  BY <1>1 DEF TypeOK, Contribution
<1>3. report \in Nat /\ report # 0
  BY DEF Epoch, DocumentAssumption
<1>4. CASE documents[report].version > 0
  BY <1>1, <1>3, <1>4 DEF Current, Copy, TrueCopy, NoCopy
<1>5. CASE ~ (documents[report].version > 0)
  <2>1. documents[report].version = 0
    BY <1>1, <1>5
  <2> QED  BY <1>1, <1>2, <1>3, <1>5, <2>1 DEF Current, Copy, TrueCopy, NoCopy
<1> QED  BY <1>4, <1>5

\* The two kinds of copy an editor and the named versions hold.
LEMMA CopyFacts ==
  ASSUME DocumentAssumption
  PROVE  /\ NoCopy \notin Copy
         /\ NoCopy.version = 0
         /\ \A copy \in Copy : copy.epoch \in Epoch /\ copy.version \in Nat
                               /\ copy.version \in 0 .. MaxVersion
                               /\ copy.blocks \in SUBSET Contribution
         /\ Epoch \subseteq Nat \ {0}
         /\ MaxVersion \in Nat \ {0}
BY DEF DocumentAssumption, Copy, NoCopy, Epoch

-------------------------------------------------------------------------------
(* Init *)

\* Nothing is generated, written or loaded yet.
LEMMA InitIInv ==
  ASSUME DocumentAssumption, Init
  PROVE  IInv
<1>1. TypeOK
  BY DEF Init, TypeOK, DocumentAssumption, Epoch, EmptyEditor, Editor, NoRequest
<1>2. EditorsHoldTrueCopies /\ ShownFollowsCache
  BY DEF Init, EditorsHoldTrueCopies, ShownFollowsCache, TrueCopy, EmptyEditor, NoCopy
<1>3. NamedAreTrueCopies /\ NoRowNoBlocks /\ SavesHaveBlocks
  BY DEF Init, NamedAreTrueCopies, NoRowNoBlocks, SavesHaveBlocks, NoRequest
<1> QED  BY <1>1, <1>2, <1>3 DEF IInv

-------------------------------------------------------------------------------
(* Steps that leave the documents alone *)

\* What the invariant says of documents, named versions and copies depends on
\* nothing else.
LEMMA OutsideKeepsIInv ==
  ASSUME IInv, TypeOK', SavesHaveBlocks', UNCHANGED <<documents, named, editor>>
  PROVE  IInv'
<1>1. EditorsHoldTrueCopies' /\ ShownFollowsCache'
  BY DEF IInv, EditorsHoldTrueCopies, ShownFollowsCache, TrueCopy
<1>2. NamedAreTrueCopies' /\ NoRowNoBlocks'
  BY DEF IInv, NamedAreTrueCopies, NoRowNoBlocks, TrueCopy
<1> QED  BY <1>1, <1>2 DEF IInv

\* The session is closed again, or a run succeeds.
LEMMA SessionKeepsIInv ==
  ASSUME DocumentAssumption, IInv,
         NextEpoch \/ \E e \in Epoch, kind \in Kind : RunSucceeds(e, kind)
  PROVE  IInv'
<1>1. CASE NextEpoch
  <2>1. epoch' \in Epoch
    BY <1>1 DEF NextEpoch, IInv, TypeOK, Epoch, DocumentAssumption
  <2>2. TypeOK' /\ SavesHaveBlocks'
    BY <1>1, <2>1 DEF NextEpoch, IInv, TypeOK, SavesHaveBlocks
  <2> QED  BY <1>1, <2>2, OutsideKeepsIInv DEF NextEpoch
<1>2. ASSUME NEW e \in Epoch, NEW kind \in Kind, RunSucceeds(e, kind)
      PROVE  IInv'
  <2>1. generated' \in [Epoch -> SUBSET Kind]
    BY <1>2 DEF RunSucceeds, IInv, TypeOK
  <2>2. TypeOK' /\ SavesHaveBlocks'
    BY <1>2, <2>1 DEF RunSucceeds, IInv, TypeOK, SavesHaveBlocks
  <2> QED  BY <1>2, <2>2, OutsideKeepsIInv DEF RunSucceeds
<1> QED  BY <1>1, <1>2

\* A request begins with a report that exists, and a save with blocks to save.
LEMMA BeginKeepsIInv ==
  ASSUME DocumentAssumption, IInv, NEW m \in Member,
         Begin(m, "load") \/ BeginSave(m) \/ BeginName(m)
  PROVE  IInv'
<1>1. PICK operation \in {"load", "save", "name"} :
        /\ Begin(m, operation)
        /\ operation = "save" => editor[m].shown # NoCopy /\ editor[m].cache.version < MaxVersion
  BY DEF BeginSave, BeginName
<1>2. Report \in Epoch
  BY <1>1, ReportIsComplete DEF Begin
<1>3. TypeOK'
  BY <1>1, <1>2 DEF Begin, IInv, TypeOK
<1>4. SavesHaveBlocks'
  BY <1>1 DEF Begin, IInv, TypeOK, SavesHaveBlocks
<1> QED  BY <1>1, <1>3, <1>4, OutsideKeepsIInv DEF Begin

\* A refused save changes nothing but the request.
LEMMA RefuseSaveKeepsIInv ==
  ASSUME IInv, NEW m \in Member, RefuseSave(m)
  PROVE  IInv'
<1>1. TypeOK'
  BY DEF RefuseSave, Answer, IInv, TypeOK
<1>2. SavesHaveBlocks'
  BY DEF RefuseSave, Answer, IInv, TypeOK, SavesHaveBlocks, NoRequest
<1> QED  BY <1>1, <1>2, OutsideKeepsIInv DEF RefuseSave

\* A loaded copy is true, and the editor keeps its old blocks only under the
\* version of the copy that came.
LEMMA EndLoadKeepsIInv ==
  ASSUME DocumentAssumption, IInv, NEW m \in Member, EndLoad(m)
  PROVE  IInv'
<1> DEFINE report == request[m].report
           copy == Current(report)
<1>1. report \in Epoch
  BY DEF EndLoad, IInv, TypeOK, NoRequest
<1>2. copy \in Copy /\ TrueCopy(copy) /\ copy # NoCopy
  BY <1>1, CurrentIsTrue DEF IInv
<1> HIDE DEF copy
<1>3. request' = [request EXCEPT ![m] = NoRequest] /\ UNCHANGED <<generated, epoch, documents, named>>
  BY DEF EndLoad, Answer
<1>4. \/ editor' = editor
      \/ editor' = [editor EXCEPT ![m] = [cache |-> copy,
                                          shown |-> Synchronised(editor[m].shown, copy)]]
  BY DEF EndLoad, copy
<1>5. /\ Synchronised(editor[m].shown, copy) \in Copy
      /\ TrueCopy(Synchronised(editor[m].shown, copy))
      /\ Synchronised(editor[m].shown, copy).version = copy.version
  BY <1>2 DEF Synchronised, IInv, TypeOK, Editor, EditorsHoldTrueCopies
<1> HIDE DEF report
<1>6. \A other \in Member :
        /\ editor'[other].cache \in {editor[other].cache, copy}
        /\ TrueCopy(editor'[other].shown)
        /\ other # m => editor'[other] = editor[other]
        /\ editor'[m] = editor[m] \/ editor'[m].shown.version = editor'[m].cache.version
  BY <1>4, <1>5 DEF IInv, TypeOK, EditorsHoldTrueCopies
<1>7. TypeOK'
  BY <1>2, <1>3, <1>4, <1>5 DEF IInv, TypeOK, Editor
<1>8. EditorsHoldTrueCopies'
  BY <1>2, <1>3, <1>6 DEF IInv, EditorsHoldTrueCopies, TrueCopy
<1>9. ShownFollowsCache'
  BY <1>6 DEF IInv, ShownFollowsCache
<1>10. NamedAreTrueCopies' /\ NoRowNoBlocks'
  BY <1>3 DEF IInv, NamedAreTrueCopies, NoRowNoBlocks, TrueCopy
<1>11. SavesHaveBlocks'
  BY <1>3, <1>6 DEF IInv, TypeOK, SavesHaveBlocks, NoRequest
<1> QED  BY <1>7, <1>8, <1>9, <1>10, <1>11 DEF IInv

\* A named version is the current text, and an earlier one of the same version
\* is so too.
LEMMA EndNameKeepsIInv ==
  ASSUME DocumentAssumption, IInv, NEW m \in Member, EndName(m)
  PROVE  IInv'
<1> DEFINE report == request[m].report
           copy == Current(report)
<1>1. report \in Epoch
  BY DEF EndName, IInv, TypeOK, NoRequest
<1>2. copy \in Copy /\ TrueCopy(copy) /\ copy.epoch = report
      /\ copy.version = documents[report].version
  BY <1>1, CurrentIsTrue DEF IInv
<1> HIDE DEF copy
<1>3. /\ request' = [request EXCEPT ![m] = NoRequest]
      /\ UNCHANGED <<generated, epoch, documents, editor>>
      /\ named' \subseteq named \cup {copy}
  BY DEF EndName, Answer, copy
<1> HIDE DEF report
<1>4. TypeOK'
  BY <1>2, <1>3 DEF IInv, TypeOK
<1>5. \A other \in named :
        other.version = copy.version /\ other.epoch = copy.epoch /\ copy.version > 0 => other = copy
  <2> SUFFICES ASSUME NEW other \in named, other.version = copy.version,
                      other.epoch = copy.epoch, copy.version > 0
               PROVE  other = copy
    OBVIOUS
  <2>1. other.blocks = copy.blocks
    BY <1>2 DEF IInv, NamedAreTrueCopies, TrueCopy
  <2>2. other \in Copy
    BY DEF IInv, TypeOK
  <2> QED  BY <1>2, <2>1, <2>2 DEF Copy
<1>6. NamedAreTrueCopies'
  <2>1. \A other \in named' : TrueCopy(other)
    BY <1>2, <1>3 DEF IInv, NamedAreTrueCopies
  <2>2. (\A other \in named : TrueCopy(other))'
    BY <1>3, <2>1 DEF TrueCopy
  <2>3. \A one, other \in named' :
          one.version > 0 /\ other.epoch = one.epoch /\ other.version = one.version => other = one
    BY <1>3, <1>5 DEF IInv, NamedAreTrueCopies
  <2> QED  BY <2>2, <2>3 DEF NamedAreTrueCopies
<1>7. EditorsHoldTrueCopies' /\ ShownFollowsCache' /\ NoRowNoBlocks'
  BY <1>3 DEF IInv, EditorsHoldTrueCopies, ShownFollowsCache, NoRowNoBlocks, TrueCopy
<1>8. SavesHaveBlocks'
  BY <1>3 DEF IInv, TypeOK, SavesHaveBlocks, NoRequest
<1> QED  BY <1>4, <1>6, <1>7, <1>8 DEF IInv

\* A page that is closed forgets its copies and its request.
LEMMA LeaveKeepsIInv ==
  ASSUME DocumentAssumption, IInv, NEW m \in Member, Leave(m)
  PROVE  IInv'
<1>1. /\ request' = [request EXCEPT ![m] = NoRequest]
      /\ editor' = [editor EXCEPT ![m] = EmptyEditor]
      /\ UNCHANGED <<generated, epoch, documents, named>>
  BY DEF Leave
<1>2. TypeOK'
  BY <1>1 DEF IInv, TypeOK, Editor, EmptyEditor
<1>3. EditorsHoldTrueCopies' /\ ShownFollowsCache'
  <2>1. \A other \in Member : editor'[other] = editor[other] \/ editor'[other] = EmptyEditor
    BY <1>1 DEF IInv, TypeOK
  <2>2. EmptyEditor.cache = NoCopy /\ EmptyEditor.shown = NoCopy /\ NoCopy.version = 0
    BY DEF EmptyEditor, NoCopy
  <2> QED  BY <1>1, <2>1, <2>2 DEF IInv, EditorsHoldTrueCopies, ShownFollowsCache, TrueCopy
<1>4. NamedAreTrueCopies' /\ NoRowNoBlocks'
  BY <1>1 DEF IInv, NamedAreTrueCopies, NoRowNoBlocks, TrueCopy
<1>5. SavesHaveBlocks'
  BY <1>1 DEF IInv, TypeOK, SavesHaveBlocks, NoRequest
<1> QED  BY <1>2, <1>3, <1>4, <1>5 DEF IInv

-------------------------------------------------------------------------------
(* Steps that write a document *)

\* A write that raises the version of one document leaves every copy true that
\* was true of it before.
LEMMA CopiesStayTrue ==
  ASSUME DocumentAssumption, TypeOK, NEW e \in Epoch, NEW version \in 0 .. MaxVersion, NEW blocks,
         documents[e].version < version,
         documents' = [documents EXCEPT ![e] = [version |-> version, blocks |-> blocks]],
         NEW copy \in Copy \cup {NoCopy}, TrueCopy(copy)
  PROVE  /\ copy.version > 0 => documents'[copy.epoch].version >= copy.version
         /\ copy.version > 0 /\ documents'[copy.epoch].version = copy.version
              => documents'[copy.epoch].blocks = copy.blocks
<1> SUFFICES ASSUME copy.version > 0
             PROVE  /\ documents'[copy.epoch].version >= copy.version
                    /\ documents'[copy.epoch].version = copy.version
                         => documents'[copy.epoch].blocks = copy.blocks
  OBVIOUS
<1>1. copy \in Copy /\ copy.epoch \in Epoch /\ copy.version \in Nat
  BY CopyFacts
<1>2. documents[copy.epoch].version \in Nat /\ version \in Nat
  BY <1>1 DEF TypeOK, DocumentAssumption
<1>3. CASE copy.epoch = e
  <2>1. documents'[copy.epoch].version = version
    BY <1>3 DEF TypeOK
  <2>2. documents[e].version >= copy.version
    BY <1>3 DEF TrueCopy
  <2> QED  BY <1>1, <1>2, <1>3, <2>1, <2>2
<1>4. CASE copy.epoch # e
  <2>1. documents'[copy.epoch] = documents[copy.epoch]
    BY <1>1, <1>4 DEF TypeOK
  <2> QED  BY <2>1 DEF TrueCopy
<1> QED  BY <1>3, <1>4

\* The draft becomes the first version, which no copy can have.
LEMMA InsertDraftKeepsIInv ==
  ASSUME DocumentAssumption, IInv, NEW e \in Epoch, InsertDraft(e)
  PROVE  IInv'
<1> DEFINE blocks == {[epoch |-> e, by |-> "draft", version |-> 1]}
<1>1. /\ documents' = [documents EXCEPT ![e] = [version |-> 1, blocks |-> blocks]]
      /\ documents[e].version < 1
      /\ 1 \in 0 .. MaxVersion
      /\ UNCHANGED <<generated, epoch, named, editor, request>>
  BY DEF InsertDraft, DocumentAssumption
<1>2. blocks \subseteq Contribution
  BY <1>1 DEF Contribution
<1> HIDE DEF blocks
<1>3. TypeOK'
  BY <1>1, <1>2 DEF IInv, TypeOK
<1>4. EditorsHoldTrueCopies'
  <2> SUFFICES ASSUME NEW m \in Member
               PROVE  (TrueCopy(editor[m].cache) /\ TrueCopy(editor[m].shown))'
    BY DEF EditorsHoldTrueCopies
  <2>1. editor[m].cache \in Copy \cup {NoCopy} /\ editor[m].shown \in Copy \cup {NoCopy}
    BY DEF IInv, TypeOK, Editor
  <2>2. TrueCopy(editor[m].cache) /\ TrueCopy(editor[m].shown)
    BY DEF IInv, EditorsHoldTrueCopies
  <2>3. TrueCopy(editor[m].cache)'
    BY <1>1, <2>1, <2>2, CopiesStayTrue DEF TrueCopy, IInv
  <2>4. TrueCopy(editor[m].shown)'
    BY <1>1, <2>1, <2>2, CopiesStayTrue DEF TrueCopy, IInv
  <2> QED  BY <2>3, <2>4
<1>5. NamedAreTrueCopies'
  <2>1. ASSUME NEW copy \in named
        PROVE  TrueCopy(copy)'
    <3>1. copy \in Copy \cup {NoCopy} /\ TrueCopy(copy)
      BY DEF IInv, TypeOK, NamedAreTrueCopies
    <3> QED  BY <1>1, <3>1, CopiesStayTrue DEF TrueCopy, IInv
  <2> QED  BY <1>1, <2>1 DEF IInv, NamedAreTrueCopies
<1>6. ShownFollowsCache' /\ SavesHaveBlocks'
  BY <1>1 DEF IInv, ShownFollowsCache, SavesHaveBlocks
<1>7. NoRowNoBlocks'
  BY <1>1 DEF IInv, TypeOK, NoRowNoBlocks
<1> QED  BY <1>3, <1>4, <1>5, <1>6, <1>7 DEF IInv

\* A save: what it reads, and what it writes.
LEMMA SaveFacts ==
  ASSUME DocumentAssumption, IInv, NEW m \in Member, EndSave(m)
  PROVE  LET report == request[m].report
             expected == editor[m].cache.version
             text == editor[m].shown.blocks
                       \cup {[epoch |-> report, by |-> m, version |-> expected + 1]}
             copy == [epoch |-> report, version |-> expected + 1, blocks |-> text]
         IN  /\ report \in Epoch
             /\ expected \in Nat
             /\ expected + 1 \in 0 .. MaxVersion
             /\ text \in SUBSET Contribution
             /\ documents[report].version = expected
             /\ request[m] = [operation |-> "save", report |-> report]
             /\ documents' = [documents EXCEPT ![report] = [version |-> expected + 1, blocks |-> text]]
             /\ editor' = [editor EXCEPT ![m] = [cache |-> copy, shown |-> copy]]
             /\ request' = [request EXCEPT ![m] = NoRequest]
             /\ UNCHANGED <<generated, epoch, named>>
<1> DEFINE report == request[m].report
           expected == editor[m].cache.version
           addition == [epoch |-> report, by |-> m, version |-> expected + 1]
<1>1. /\ request[m].operation = "save"
      /\ request[m] \in [operation : {"load", "save", "name"}, report : Epoch]
  BY DEF EndSave, IInv, TypeOK, NoRequest
<1>2. report \in Epoch /\ request[m] = [operation |-> "save", report |-> report]
  BY <1>1
<1>3. /\ editor[m].shown \in Copy
      /\ editor[m].cache.version \in Nat
      /\ editor[m].cache.version < MaxVersion
  BY <1>1, CopyFacts DEF IInv, TypeOK, Editor, SavesHaveBlocks
<1>4. expected + 1 \in 0 .. MaxVersion
  BY <1>3 DEF DocumentAssumption
<1>5. addition \in Contribution
  BY <1>2, <1>4 DEF Contribution
<1>6. editor[m].shown.blocks \cup {addition} \in SUBSET Contribution
  BY <1>3, <1>5 DEF Copy
<1> QED  BY <1>2, <1>3, <1>4, <1>6 DEF EndSave, Answer

\* A save raises the version: every other copy becomes an old one.
LEMMA EndSaveKeepsIInv ==
  ASSUME DocumentAssumption, IInv, NEW m \in Member, EndSave(m)
  PROVE  IInv'
<1>1. PICK report \in Epoch, version \in 0 .. MaxVersion, text \in SUBSET Contribution :
        /\ version > 0
        /\ documents[report].version < version
        /\ documents' = [documents EXCEPT ![report] = [version |-> version, blocks |-> text]]
        /\ editor' = [editor EXCEPT ![m] =
                        [cache |-> [epoch |-> report, version |-> version, blocks |-> text],
                         shown |-> [epoch |-> report, version |-> version, blocks |-> text]]]
        /\ request' = [request EXCEPT ![m] = NoRequest]
        /\ UNCHANGED <<generated, epoch, named>>
  <2> DEFINE target == request[m].report
             expected == editor[m].cache.version
             after == expected + 1
             saved == editor[m].shown.blocks
                        \cup {[epoch |-> target, by |-> m, version |-> after]}
  <2>1. /\ target \in Epoch
        /\ after \in 0 .. MaxVersion
        /\ saved \in SUBSET Contribution
        /\ documents' = [documents EXCEPT ![target] = [version |-> after, blocks |-> saved]]
        /\ editor' = [editor EXCEPT ![m] =
                        [cache |-> [epoch |-> target, version |-> after, blocks |-> saved],
                         shown |-> [epoch |-> target, version |-> after, blocks |-> saved]]]
        /\ request' = [request EXCEPT ![m] = NoRequest]
        /\ UNCHANGED <<generated, epoch, named>>
    BY SaveFacts
  <2>2. expected \in Nat /\ documents[target].version = expected
    BY SaveFacts
  <2>3. after > 0 /\ documents[target].version < after
    BY <2>2
  <2> HIDE DEF target, after, saved
  <2> QED  BY <2>1, <2>3
<1> DEFINE copy == [epoch |-> report, version |-> version, blocks |-> text]
<1>2. copy \in Copy /\ copy.epoch = report /\ copy.version = version /\ copy.blocks = text
  BY <1>1 DEF Copy
<1> HIDE DEF copy
<1>3. TypeOK'
  BY <1>1, <1>2 DEF IInv, TypeOK, Editor, copy
<1>4. documents'[copy.epoch].version = copy.version /\ documents'[copy.epoch].blocks = copy.blocks
  BY <1>1, <1>2 DEF IInv, TypeOK
<1>5. EditorsHoldTrueCopies'
  <2> SUFFICES ASSUME NEW other \in Member
               PROVE  (TrueCopy(editor[other].cache) /\ TrueCopy(editor[other].shown))'
    BY DEF EditorsHoldTrueCopies
  <2>1. CASE other = m
    <3>1. editor'[m].cache = copy /\ editor'[m].shown = copy
      BY <1>1 DEF IInv, TypeOK, copy
    <3>2. copy.version >= copy.version
      BY <1>2
    <3> QED  BY <1>4, <2>1, <3>1, <3>2 DEF TrueCopy
  <2>2. CASE other # m
    <3>1. editor[other].cache \in Copy \cup {NoCopy} /\ editor[other].shown \in Copy \cup {NoCopy}
      BY DEF IInv, TypeOK, Editor
    <3>2. TrueCopy(editor[other].cache) /\ TrueCopy(editor[other].shown)
      BY DEF IInv, EditorsHoldTrueCopies
    <3>3. editor'[other] = editor[other]
      BY <1>1, <2>2 DEF IInv, TypeOK
    <3>4. TrueCopy(editor[other].cache)'
      BY <1>1, <3>1, <3>2, <3>3, CopiesStayTrue DEF TrueCopy, IInv
    <3>5. TrueCopy(editor[other].shown)'
      BY <1>1, <3>1, <3>2, <3>3, CopiesStayTrue DEF TrueCopy, IInv
    <3> QED  BY <3>4, <3>5
  <2> QED  BY <2>1, <2>2
<1>6. NamedAreTrueCopies'
  <2>1. ASSUME NEW one \in named
        PROVE  TrueCopy(one)'
    <3>1. one \in Copy \cup {NoCopy} /\ TrueCopy(one)
      BY DEF IInv, TypeOK, NamedAreTrueCopies
    <3> QED  BY <1>1, <3>1, CopiesStayTrue DEF TrueCopy, IInv
  <2> QED  BY <1>1, <2>1 DEF IInv, NamedAreTrueCopies
<1>7. ShownFollowsCache'
  BY <1>1 DEF IInv, TypeOK, ShownFollowsCache
<1>8. NoRowNoBlocks'
  BY <1>1 DEF IInv, TypeOK, NoRowNoBlocks
<1>9. SavesHaveBlocks'
  BY <1>1 DEF IInv, TypeOK, SavesHaveBlocks, NoRequest
<1> QED  BY <1>3, <1>5, <1>6, <1>7, <1>8, <1>9 DEF IInv

-------------------------------------------------------------------------------
(* The specification *)

\* No step breaks the invariant.
LEMMA NextKeepsIInv ==
  ASSUME DocumentAssumption, IInv, [Next]_vars
  PROVE  IInv'
<1>1. CASE UNCHANGED vars
  <2>1. TypeOK' /\ SavesHaveBlocks'
    BY <1>1 DEF vars, IInv, TypeOK, SavesHaveBlocks
  <2> QED  BY <1>1, <2>1, OutsideKeepsIInv DEF vars
<1>2. CASE Next
  BY <1>2, SessionKeepsIInv, InsertDraftKeepsIInv, BeginKeepsIInv, EndLoadKeepsIInv,
     EndSaveKeepsIInv, RefuseSaveKeepsIInv, EndNameKeepsIInv, LeaveKeepsIInv DEF Next
<1> QED  BY <1>1, <1>2

\* The invariant holds throughout.
LEMMA InvariantHolds ==
  ASSUME DocumentAssumption
  PROVE  Spec => []IInv
<1>1. Init => IInv
  BY InitIInv
<1>2. IInv /\ [Next]_vars => IInv'
  BY NextKeepsIInv
<1> QED  BY <1>1, <1>2, PTL DEF Spec

\* Rows, copies, editors and requests keep their shape, whatever interleaves.
THEOREM TypeCorrect ==
  ASSUME DocumentAssumption
  PROVE  Spec => []TypeOK
<1>1. IInv => TypeOK
  BY DEF IInv
<1> QED  BY <1>1, InvariantHolds, PTL

\* Under any interleaving of loads, saves, named versions, drafts and reopened
\* sessions, a version of a report's document is the version of one text: what
\* the version check of merged_document_service.py relies on.
THEOREM VersionsAreTexts ==
  ASSUME DocumentAssumption
  PROVE  Spec => []OneVersionOneText
<1>1. IInv => VersionIdentifiesBlocks
  BY DEF IInv, EditorsHoldTrueCopies, TrueCopy, VersionIdentifiesBlocks
<1>2. IInv => NamedVersionsAreTrue
  BY DEF IInv, NamedAreTrueCopies, TrueCopy, NamedVersionsAreTrue
<1>3. IInv => OneVersionOneText
  BY <1>1, <1>2 DEF OneVersionOneText
<1> QED  BY <1>3, InvariantHolds, PTL

\* A save whose blocks are a copy of the report it writes carries everything
\* that was saved there.
LEMMA SaveBuildsOnItsReport ==
  ASSUME DocumentAssumption, IInv, NEW m \in Member, EndSave(m), NEW e \in Epoch,
         ~ SavedFromElsewhere(m, e)
  PROVE  documents[e].blocks \subseteq documents'[e].blocks
<1> DEFINE report == request[m].report
           expected == editor[m].cache.version
           text == editor[m].shown.blocks
                     \cup {[epoch |-> report, by |-> m, version |-> expected + 1]}
<1>1. /\ report \in Epoch
      /\ expected \in Nat
      /\ documents[report].version = expected
      /\ request[m] = [operation |-> "save", report |-> report]
      /\ documents' = [documents EXCEPT ![report] = [version |-> expected + 1, blocks |-> text]]
      /\ request' = [request EXCEPT ![m] = NoRequest]
  BY SaveFacts
<1> HIDE DEF text
<1>2. CASE e # report
  BY <1>1, <1>2 DEF IInv, TypeOK
<1>3. CASE e = report
  <2>1. documents'[e].blocks = text
    BY <1>1, <1>3 DEF IInv, TypeOK
  <2>2. request'[m] = NoRequest
    BY <1>1 DEF IInv, TypeOK
  <2>3. editor[m].shown.epoch = e
    BY <1>1, <1>3, <2>2 DEF SavedFromElsewhere
  <2>4. CASE expected = 0
    BY <1>1, <1>3, <2>4 DEF IInv, NoRowNoBlocks
  <2>5. CASE expected > 0
    <3>1. editor[m].shown.version = expected
      BY <1>1 DEF IInv, ShownFollowsCache, SavesHaveBlocks
    <3>2. documents[e].blocks = editor[m].shown.blocks
      BY <1>1, <1>3, <2>3, <2>5, <3>1 DEF IInv, EditorsHoldTrueCopies, TrueCopy
    <3> QED  BY <2>1, <3>2 DEF text
  <2> QED  BY <1>1, <2>4, <2>5
<1> QED  BY <1>2, <1>3

\* Whatever changes the document of a report, nothing saved there is lost by a
\* member whose blocks are a copy of that report, nor by the AI draft.
THEOREM NothingIsLostOnOneReport ==
  ASSUME DocumentAssumption
  PROVE  Spec => SavesBuildOnTheirReport
<1> DEFINE Builds == \A e \in Epoch :
                       \/ documents[e].blocks \subseteq documents'[e].blocks
                       \/ \E m \in Member : SavedFromElsewhere(m, e)
<1>1. IInv /\ [Next]_vars => [Builds]_vars
  <2> SUFFICES ASSUME IInv, Next
               PROVE  Builds
    BY DEF Builds
  <2>1. ASSUME documents' = documents
        PROVE  Builds
    BY <2>1
  <2>2. ASSUME NEW e \in Epoch, InsertDraft(e)
        PROVE  Builds
    <3>1. documents[e].blocks = {}
      BY <2>2 DEF InsertDraft, IInv, NoRowNoBlocks
    <3>2. \A other \in Epoch : other # e => documents'[other] = documents[other]
      BY <2>2 DEF InsertDraft, IInv, TypeOK
    <3> QED  BY <3>1, <3>2
  <2>3. ASSUME NEW m \in Member, EndSave(m)
        PROVE  Builds
    BY <2>3, SaveBuildsOnItsReport
  <2> QED  BY <2>1, <2>2, <2>3 DEF Next, NextEpoch, RunSucceeds, Begin, BeginSave, BeginName,
                                   EndLoad, RefuseSave, EndName, Leave
<1> QED  BY <1>1, InvariantHolds, PTL DEF Spec, SavesBuildOnTheirReport
===============================================================================
