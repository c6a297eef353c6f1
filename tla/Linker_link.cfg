SPECIFICATION Spec
CONSTANTS
  Imm = 8
  Base <- TextAndData
  Jobs <- AllJobs
INVARIANTS TypeOK BranchesReach SmallestRelaxation ReachAfterRelaxation
           RelocsBind SectionsStayWhole
PROPERTY LinkEnds
CHECK_DEADLOCK FALSE
