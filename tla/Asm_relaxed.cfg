SPECIFICATION Spec
CONSTANTS
  Sources <- Runs
  MaxRounds = 2
INVARIANT BranchesLead
