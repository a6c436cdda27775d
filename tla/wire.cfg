\* Lines of every shape, ambiguous or malformed in one place, and ids alike; texts
\* of every escape, whole and cut; names before, in and after the surrogates.
SPECIFICATION WireSpec
CONSTANTS
  Scripts <- MCScripts Replies <- MCReplies Depth <- MCDepth Exact = 4 Overflow = 10
  Texts <- MCTexts NameSets <- MCNameSets
INVARIANTS
  EveryReaderAgrees AnswersFindTheirCall RefusalsNameTheirRequest
  ScanIsExact OneCanonicalOrder
CHECK_DEADLOCK FALSE
