SPECIFICATION Spec
CONSTANTS
  cup = cup
  league = league
  Matches = {cup, league}
  WithInfo <- MCWithInfo
  WithLeg <- MCWithLeg
  Game = Game
  Others = {files, keys}
  Edited = Edited
  NoMatch = NoMatch
INVARIANTS TypeOK NeverNull OneMatch StatsAreCurrent SeesTheMatch
