SPECIFICATION FairSpec
CONSTANTS
  fs = fs
  app = app
  main = main
  a = a
  b = b
  s1 = s1
  s2 = s2
  root = root
  home = home
  cwd = cwd
  lib = lib
  Names <- MCNames
  Builtins = {fs}
  App = app
  Main = main
  Absolute = {}
  Slashed = {}
  Dirs <- MCDirs
  Root = root
  Cwd = cwd
  GlobalPaths <- MCGlobalPaths
  Real <- MCReal
  FirstDisk <- MCDisk
  Volatile = {}
  Sandboxes = {s1, s2}
  RecursionLimit = 5
  Null = Null
CHECK_DEADLOCK FALSE
INVARIANTS SandboxStaysOut NestingIsBounded
PROPERTIES MainEnds KeepsLife
