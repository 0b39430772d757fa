SPECIFICATION HooksSpec
CONSTANTS
  v1 = v1
  v2 = v2
  k1 = k1
  p1 = p1
  m1 = m1
  k2 = k2
  p2 = p2
  Vtables = {v1, v2}
  Devices = {k1, p1, m1, k2, p2}
  Vtable <- MCVtable
  Kind <- MCKind
  Threads = {t1, t2}
  NoHook = NoHook
  NoFunction = NoFunction
  NoDevice = NoDevice
INVARIANTS HooksTypeOK NeverNull RightOriginal
