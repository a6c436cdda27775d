\* The log is moved aside while a session opens it.
SPECIFICATION Spec
CONSTANTS
  s1 = s1 s2 = s2 s3 = s3 b1 = b1 b2 = b2 f1 = f1 f2 = f2
  Sessions <- MCSessions Bodies <- OneBody Inodes <- TwoFiles
  Header = Header Key = Key BadKey = BadKey Nobody = Nobody NoFile = NoFile
  Rotation = "any" MaxWrites = 4 MaxEdits = 0
INVARIANT OneChainPerFile
CHECK_DEADLOCK FALSE
