SPECIFICATION FairSpec
CONSTANTS
  Request = {r1,r2}
  Routes = {"mail","link","session","item","health"}
  Threads = 1
  Connections = 1
  Faults = TRUE
INVARIANT TypeOK
INVARIANT StuckOnlyBySmtp
INVARIANT AnswerTellsOutcome
PROPERTY AnswersCome
