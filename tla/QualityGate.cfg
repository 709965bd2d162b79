SPECIFICATION FairSpec
CONSTANTS
  Repositories <- MCRepositories
  Directories <- MCDirectories
  Ambients <- MCAmbients
  Upper <- MCUpper
  Sensitive <- MCSensitive
INVARIANTS
  PassIsSound
  MetadataComesFirst
  Hermetic
  TemporariesRemoved
PROPERTIES
  OnlyFmtRewrites
  Terminates
CHECK_DEADLOCK FALSE
