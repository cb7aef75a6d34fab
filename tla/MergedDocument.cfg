\* Two members, two reports of the same session, a draft and two saves of each.
SPECIFICATION Spec
CONSTANTS
  ann = ann
  bob = bob
  Member = {ann, bob}
  MaxEpoch = 2
  MaxVersion = 2
  MaxNamed = 2
SYMMETRY MemberSymmetry
INVARIANTS
  OneVersionOneText
PROPERTIES
  SavesBuildOnTheirReport
