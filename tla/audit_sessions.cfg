\* Sessions that compete, crash and fail to write, on a log that may be moved
\* aside, but not while a session opens it.
SPECIFICATION Spec
CONSTANTS
  s1 = s1 s2 = s2 s3 = s3 b1 = b1 b2 = b2 f1 = f1 f2 = f2
  Sessions <- MCSessions Bodies <- OneBody Inodes <- TwoFiles
  Header = Header Key = Key BadKey = BadKey Nobody = Nobody NoFile = NoFile
  Rotation = "settled" MaxWrites = 4 MaxEdits = 0
INVARIANTS
OneWriter OneChainPerFile NeverAccusesItself DamageStopsTheLog Reopens
SYMMETRY AnyOrderAndFile
CHECK_DEADLOCK FALSE
