\* An open, a poll, an end and a stop, from nothing or from an old daemon, and a crash.
SPECIFICATION LiveSpec
CONSTANTS
  o1 = o1
  o2 = o2
  p1 = p1
  e1 = e1
  s1 = s1
  Unparsed = Unparsed
  Absent = Absent
  Garbled = Garbled
  Opens <- OneOpen
  Polls <- OnePoll
  Ends <- OneEnd
  Stops <- OneStop
  VersionOf <- Versions
  OldVersions <- Older
  MaxCrashes = 1
PROPERTIES CommandsSettle ServersEnd
CHECK_DEADLOCK FALSE
