SPECIFICATION FairSpec
CONSTANTS
  NumModules = 2
  GameThreads = {t1}
  match_event = match_event
  OverlayOn = OverlayOn
  Events <- MCEvents
  Leaky <- MCFaulty
  TwicePopped <- MCFaulty
  Context = Context
  Library = Library
  Error = Error
  MaxEdits = 1
  MaxLeft = 1
  MaxPops = 1
CHECK_DEADLOCK FALSE
INVARIANTS TypeOK Anchored EndOnlyIfNone
PROPERTY EditedIsLoaded
