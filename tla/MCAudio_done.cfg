CONSTANTS
  LuaSounds = {s}
  UiSounds = {}
  NoSound = NoSound
  MaxFrames = 1
  MaxFade = 2
SPECIFICATION FairSpec
PROPERTY DoneCallbackRuns
