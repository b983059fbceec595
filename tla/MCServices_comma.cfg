CONSTANTS
  Socket = {1, 2}
  Queue = 2
  Descriptor = {0, 1, 2, 3}
  Masks = {{"ACCEPT", "READ"}, {"WRITE"}}
  Flags = {{"SERVER"}, {}}
  PageSize = 2
  Limit = 8
  Region = {r1, r2}
  Offset = {0, 1, 2, 3, 4, 5, 6, 7}
  Size = {0, 1, 3, 7}
  Granularity = 2
  QuadLimit = 16
  DWord = 8
  Largest = 4
  Least = 2
  FileSizes = {0, 3, 8, 13}
  Places = {p1, p2}
  WinOffset = {0, 1, 2, 5, 15}
  WinSize = {0, 1, 3, 7, 8, 12}
  LowWord = 3
  MaxTime = 8
  MaxStops = 2
  Entry = {e1, e2, e3}
  File = {f1, f2, f3}
  Null = Null
  Chunk = 2
  Texts <- ShortTexts
  Rooms = {1, 2, 3, 5}
  Strings <- WrittenStrings
  MaxText = 6
  Specifiers = {1, 2}
  Thread = {t1, t2, t3, t4}
  Creator = t1
  MaxChildren = 3
  WinHandle = {0, 1, 2}
  MaxLost = 1
  Caller = {c1, c2, c3}
  Handle = {1, 2}
  MostUnits = 2
  WordSize = 8
  Second = 4
  Milli = 2
  Spans = {1, 3, 6, 25}
  Waits = {1, 3, 7}
  MaxExact = 63
  Cpus = 2
  Columns = 2
  MaxTicks = 3
  LogName = {n1, n2}
  FirstName = n1
  NoName = NoName
  Stream = {s1, s2}
  NoStream = NoStream
  Level = {"error"}
  MaxTraces = 2
  PathParts <- SomePaths
  BaseParts <- SomeBases
  SuffixParts <- SomeSuffixes
  NoPart = NoPart
  NameRooms = {3, 6, 7, 8, 9, 18, 20}
  GivenNames <- ShortNames
SPECIFICATION Spec
INVARIANT CommaDelimits
CHECK_DEADLOCK FALSE
