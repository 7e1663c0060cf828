SPECIFICATION TuiSpec
CONSTANTS
  Presets = 2
  MaxGeneration = 2
  MaxPresses = 1
  MaxEvents = 1
  MaxActions = 5
  MaxSaves = 2
  MaxCommands = 3
  File = {f1, f2}
  NoFile = NoFile
  Comment = {"a", "b"}
  Key = {k1, k2}
  Renamed = {k2}
  NoLine = NoLine
INVARIANTS FrameInOrder WatchesItsBackend ScreenIsTrue SecretsHandled 
  FocusIsShown CommentOfItsKey SavedUnderOwnName
PROPERTIES  FooterCatchesUp
CHECK_DEADLOCK FALSE
