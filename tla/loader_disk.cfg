SPECIFICATION Spec
CONSTANTS
  fs = fs
  app = app
  main = main
  a = a
  b = b
  s1 = s1
  s2 = s2
  root = root
  home = home
  cwd = cwd
  lib = lib
  Names <- MCNames
  Builtins = {fs}
  App = app
  Main = main
  Absolute = {a}
  Slashed = {app}
  Dirs <- MCDirs
  Root = root
  Cwd = cwd
  GlobalPaths <- MCGlobalPaths
  Real <- MCReal
  FirstDisk <- MCAbsoluteDisk
  Volatile <- MCVolatile
  Sandboxes = {}
  RecursionLimit = 3
  Null = Null
CHECK_DEADLOCK FALSE
INVARIANTS TypeOK EvaluatedOnce CyclesEnd FirstMatchWins ReadsWhatItFound
PROPERTIES AnswersAreFinal KeepsLife SearchAdvances
