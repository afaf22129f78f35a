\* One session: two polls, a Send, a Send & end racing a plain End, a re-open and one restart.
SPECIFICATION Spec
CONSTANTS
  k1 = k1  k2 = k2  o1 = o1  o2 = o2  s1 = s1  s2 = s2  e1 = e1  c1 = c1
  a1 = a1  a2 = a2  p1 = p1  p2 = p2
  Keys = {k1}
  Opens = {o1}
  Sends = {s1}
  SendEnds = {e1}
  PlainEnds = {c1}
  AgentEnds = {}
  Polls = {p1, p2}
  BoundedPolls = {p2}
  ReplyingPolls = {p1}
  Malformed = {}
  SessionOf <- OneSession
  MaxRestarts = 1
CHECK_DEADLOCK FALSE
INVARIANTS NoLostWakeup ThreadAccountsForFeedback PresenceTruthful
PROPERTIES ImplementsHandoff RiderBringsEnd
