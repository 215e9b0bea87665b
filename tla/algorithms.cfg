SPECIFICATION Spec
CONSTANTS
  Star = Star  Empty = Empty  gpt = gpt  gptbot = gptbot  root = root  dir = dir
  Agent = {"GPTBot", "bingbot"}  Path = {"/a", "/dir/a"}
  Length <- MCLength  Fits <- MCFits  Covers <- MCCovers
  Target = 6  Overlap = 2  MinChars = 3
\* One step answers a task.
CHECK_DEADLOCK FALSE
INVARIANTS RobotsAsDeclared NothingLost EvidenceIsVisible FabricationDenied ReportAddsUp DecisionsMonotone
