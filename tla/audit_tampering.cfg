\* Two sessions and an outsider who edits the log between them.
SPECIFICATION Spec
CONSTANTS
  s1 = s1 s2 = s2 s3 = s3 b1 = b1 b2 = b2 f1 = f1 f2 = f2
  Sessions <- TwoSessions Bodies <- TwoBodies Inodes <- OneFile
  Header = Header Key = Key BadKey = BadKey Nobody = Nobody NoFile = NoFile
  Rotation = "never" MaxWrites = 3 MaxEdits = 2
INVARIANT TamperDetected
SYMMETRY Interchangeable
CHECK_DEADLOCK FALSE
