\* Two opens of different versions, from nothing or from an old daemon, and a crash.
SPECIFICATION Spec
CONSTANTS
  o1 = o1
  o2 = o2
  p1 = p1
  e1 = e1
  s1 = s1
  Unparsed = Unparsed
  Absent = Absent
  Garbled = Garbled
  Opens <- TwoOpens
  Polls <- None
  Ends <- None
  Stops <- None
  VersionOf <- Versions
  OldVersions <- Older
  MaxCrashes = 1
INVARIANTS TypeOK LoneDaemonIsNamed
PROPERTIES OnlyOlderIsEvicted
CHECK_DEADLOCK FALSE
