\* One click, one timer.
SPECIFICATION Spec
CONSTANTS
  c1 = c1 c2 = c2 h1 = h1 h2 = h2
  NoCall = NoCall Calls <- OneCall Posts <- TwoPosts
INVARIANT TimeoutMeansUnanswered
CHECK_DEADLOCK FALSE
