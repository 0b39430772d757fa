SPECIFICATION Spec
CONSTANTS
  NumModules = 3
  Keyboard = Keyboard
  Controller = Controller
INVARIANTS TypeOK OneShown BlockIsOwned
PROPERTY PointerStays
