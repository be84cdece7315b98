SPECIFICATION FairSpec
CONSTANTS
  p = p
  q = q
  dot = dot
  dotdot = dotdot
  a = a
  b = b
  nul = nul
  w = w
  Paths = {p, q}
  Here = Here
  Dots = {dot, dotdot}
  Shape <- MCShape
  Bytes = {a, b, nul}
  Nul = nul
  Wide = {w}
  Low <- MCLow
  Texts <- MCTexts
  OtherTexts <- MCOtherTexts
  MaxOpen = 2
  Junk = Junk
  Null = Null
CHECK_DEADLOCK FALSE
INVARIANTS TypeOK OnlyListingsLeak
PROPERTIES ReadsAreExact NothingUnwritten WrittenTextReadsBack WrittenFilesAreListed CallsReturn
