CONSTANTS
  LuaSounds = {s}
  UiSounds = {}
  NoSound = NoSound
  MaxFrames = 1
  MaxFade = 2
SPECIFICATION FairSpec
INVARIANTS TypeOK NoUseAfterFree
PROPERTIES ImplementsLifecycle FinishedIsReleased EveryCallReturns PlaysOut
