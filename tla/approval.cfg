\* Two calls, two tabs, timers that may never fire, and Close, in any order.
SPECIFICATION FairSpec
CONSTANTS
  c1 = c1 c2 = c2 h1 = h1 h2 = h2
  NoCall = NoCall Calls <- MCCalls Posts <- TwoPosts
INVARIANTS DeliveryNeverBlocks PageIsCurrent
PROPERTIES ImplementsGate EveryRequestReturns
CHECK_DEADLOCK FALSE
