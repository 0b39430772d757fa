SPECIFICATION Spec
CONSTANTS
  LT = LT
  RT = RT
  Slots = 4
  Users <- MCUsers
  DInput = DInput
  NoSource = NoSource
  Buttons = {LT, RT}
  Toggle1 = RT
  Toggle2 = LT
  NextModule = LT
  PrevModule = RT
  MaxFails = 2
  Skips = 2
INVARIANTS TypeOK
PROPERTIES ChordNeverSwitches SettlesOnOne FoundAgain
