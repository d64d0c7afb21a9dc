\* The host program and the tools around their files.
CONSTANTS
  p1 = p1
  p2 = p2
  p3 = p3
  w1 = w1
  w2 = w2
  w3 = w3
  w4 = w4
  w5 = w5
  w6 = w6
  w7 = w7
  w8 = w8
  w9 = w9
  NULL = NULL
  MAP_FAILED = MAP_FAILED
  Process = {p1, p2}
  stale = stale
  Junk = {NULL, stale}
  Copier = {p1, p2, p3}
  Size = 7
  BufSize = 3
  Paths = {w1, w2, w3, w4, w5, w6, w7, w8, w9}
  NoPath = NULL
  other = other
  Behind = other
  Digits <- SmallDigits
  KeySize = 3
  PerLine = 2
  Mark = 4
  Tails <- AfterKey
SPECIFICATION ToolsSpec
\* Parsers, copies and scans end.
CHECK_DEADLOCK FALSE
CONSTRAINT FewLines
INVARIANTS Prefix CopiedMeansWhole AcceptsTheUsage PathsAsTyped
           SubmittedOwnFiles ReleasedAtReturn KeyAsPrinted
