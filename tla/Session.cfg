SPECIFICATION MCSpec
CONSTANTS
  Viewers = {1, 2}
  Capacity = 1
  MaxEvents = 2
  MaxStreams = 2
  MaxFrames = 3
  MaxChildFaults = 1
  Prompts = {1, 2, 3}
  MaxForks = 1
  MaxSwapFaults = 1
  Messages = {1, 2, 3}
  Sessions = {1, 2}
  NoSession = NoSession
  MaxDisturbances = 2
  MaxBlocks = 3
  MaxResyncs = 1
  Word <- MCWord
CONSTRAINTS InOrder Few
INVARIANTS
  MCTypeOK
  StreamHeldByViewers ChildViewComplete
  PromptRunsAsAsked NoTurnKilled ListenersFollow NothingLeftBehind
  QueuedInOrder NothingVanishes AdmissionsHeld ScreenBelongs
  DoneShowsTheRun
CHECK_DEADLOCK FALSE
