CONSTANTS
  Keys <- MCKeys
  NoKey = NoKey
  NoPath = NoPath
  Garbage = Garbage
  UserKeyFile = NoPath
  UserMetaFile = NoPath
  MaxFaults = 3
SPECIFICATION FairSpec
PROPERTY RestartRecovers
