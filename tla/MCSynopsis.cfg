SPECIFICATION Spec
CONSTANTS
  Limit = 3
  MaxHeight = 12
INVARIANTS
  SynopsisSpansChain
  SynopsisLogarithmic
  AnswerContinuesChain
CHECK_DEADLOCK FALSE
