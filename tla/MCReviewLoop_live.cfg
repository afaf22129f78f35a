\* Two sessions sharing the mutex and the state file: an open, a Send & end and a poll of one,
\* an end and a malformed Send of the other, one restart; with the daemon's fibers fair.
SPECIFICATION LiveSpec
CONSTANTS
  k1 = k1  k2 = k2  o1 = o1  o2 = o2  s1 = s1  s2 = s2  e1 = e1  c1 = c1
  a1 = a1  a2 = a2  p1 = p1  p2 = p2
  Keys = {k1, k2}
  Opens = {o1}
  Sends = {s1, s2}
  SendEnds = {e1}
  PlainEnds = {}
  AgentEnds = {a2}
  Polls = {p1}
  BoundedPolls = {}
  ReplyingPolls = {}
  Malformed = {s2}
  SessionOf <- TwoSessions
  MaxRestarts = 1
INVARIANTS TypeOK DiskMatchesMemory
PROPERTIES StatusMovesOnRequest HeldPollsAreTold MutexIsReleased
CHECK_DEADLOCK FALSE
