SPECIFICATION Spec
CONSTANTS
  cli = cli  console = console  r1 = r1  r2 = r2
  Process = {cli, console}  Versions = 2
  Models = 2  Prompts = 2  Slot = {r1, r2}
  None = None
  MaxCalls = 3  MaxErasures = 1  MaxRefusals = 1
\* Saves, runs and erasures are bounded.
CHECK_DEADLOCK FALSE
INVARIANTS SchemaReady ErasedStaysErased SummaryAccounts
PROPERTIES NewestOnTop RunsEnd
