SPECIFICATION StreamSpec
CONSTANTS
  Answers <- MCAnswers
  Excerpts <- MCExcerpts
  MaxDeltas = 3
  MaxReads = 1
INVARIANTS
  WholeAnswerIsKept
  CitationsSurviveCuts
CHECK_DEADLOCK FALSE
