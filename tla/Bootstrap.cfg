SPECIFICATION Spec
CONSTANTS
  Graphs = 2
  Optional = {2}
  Contents = {"original", "changed"}
  GitContents = {"index", "other index"}
INVARIANTS
  ChangeReported
  SuccessIsComplete
  TemporariesRemoved
PROPERTIES
  DownloadsOnlyCopies
CHECK_DEADLOCK FALSE
