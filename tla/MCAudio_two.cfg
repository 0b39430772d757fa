CONSTANTS
  LuaSounds = {s}
  UiSounds = {u}
  NoSound = NoSound
  MaxFrames = 1
  MaxFade = 1
SPECIFICATION Spec
INVARIANTS TrackedOnce EnoughTracked
