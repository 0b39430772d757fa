SPECIFICATION FairSpec
CONSTANTS
  r1 = r1
  r2 = r2
  r3 = r3
  Offsets = {1, 2, 3}
  Bytes = {0, 1, 2, 3}
  Releases = {r1, r2, r3}
  Original <- MCOriginal
  Patches <- MCPatches
  PatchOf <- MCPatchOf
  MaxFaults = 3
INVARIANTS TypeOK OneVersion ReportedIsTrue
PROPERTY Repairs
