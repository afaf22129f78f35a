\* Two Feedbacks and three troubles.
SPECIFICATION LiveSpec
CONSTANTS
  MaxSends = 2
  MaxTroubles = 3
INVARIANTS TypeOK
PROPERTIES AgentRecovers SentIsRead
CHECK_DEADLOCK FALSE
