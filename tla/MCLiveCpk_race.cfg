SPECIFICATION Spec
CONSTANTS
  Loaders = {l1, l2}
  home = home
  away = away
  shirt = shirt
  shirt2 = shirt2
  Decoy = Decoy
  NoKey = NoKey
  pModule = pModule
  pRoot = pRoot
  NoValue = NoPath
  Keys = {shirt, shirt2, Decoy}
  Files = {shirt, shirt2}
  Values = {pModule, pRoot, NoPath}
  Contexts = {home, away}
  NumModules = 2
  NumRoots = 2
  Rewrite <- MCRewrite
  MakeKey <- MCMakeKey
  FilePath <- MCFilePath
  RootPath <- MCRootPath
  ContextChanges = TRUE
  DiskChanges = TRUE
  Size = 1
  Ttl = 1
  MaxTime = 2
  MaxChanges = 1
SYMMETRY LoaderSymmetry
INVARIANTS TypeOK StaleNoLongerThanTtl OneFilePerRequest
