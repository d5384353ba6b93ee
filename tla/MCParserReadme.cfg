SPECIFICATION FairSpec
CONSTANTS
  Inputs <- ReadmeInputs
PROPERTIES
  AcceptsReadmeExample
CHECK_DEADLOCK FALSE
