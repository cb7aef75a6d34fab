\* Expected to be violated, see the README.
SPECIFICATION Spec
CONSTANTS
  ann = ann
  bob = bob
  Member = {ann, bob}
  MaxEpoch = 2
  MaxVersion = 2
  MaxNamed = 1
PROPERTIES
  NoSilentOverwrite
