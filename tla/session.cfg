\* Any child, any client: all a session has, and all the ways it ends.
SPECIFICATION FairSpec
CONSTANTS MaxMessages = 1 MaxLines = 2
INVARIANTS ReapedBeforeReturn CleanMeansComplete HealthyNotKilled DrainIsTold
PROPERTIES EitherEndResolves GoroutinesEnd
CHECK_DEADLOCK FALSE
