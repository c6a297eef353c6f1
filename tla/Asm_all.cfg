SPECIFICATION Spec
CONSTANTS
  Sources <- AllSources
  MaxRounds = 2
INVARIANTS
  CyclesAreRefused
  WordsDoNotOverlap
  BranchesLeadInOneSection
  WordsHaveTheirValues
  LabelsLieWhereCounted
  ObjectsLinkToTheImage
  SectionsComeWhole
PROPERTIES
  CallsMeanTheirBodies
  ConditionalsNest
  LabelsOnlyRise
