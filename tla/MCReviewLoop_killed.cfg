\* A Send against a poll that is killed: expected to be violated.
SPECIFICATION Spec
CONSTANTS
  k1 = k1  k2 = k2  o1 = o1  o2 = o2  s1 = s1  s2 = s2  e1 = e1  c1 = c1
  a1 = a1  a2 = a2  p1 = p1  p2 = p2
  Keys = {k1}
  Opens = {}
  Sends = {s1}
  SendEnds = {e1}
  PlainEnds = {c1}
  AgentEnds = {}
  Polls = {p1}
  BoundedPolls = {}
  ReplyingPolls = {p1}
  Malformed = {}
  SessionOf <- OneSession
  MaxRestarts = 0
CHECK_DEADLOCK FALSE
INVARIANT KilledPollLosesNothing
