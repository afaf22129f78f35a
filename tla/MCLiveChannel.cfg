\* One page, followed through broken connections, reloads, ends, resurrections and a
\* restart of the daemon.
SPECIFICATION LiveSpec
CONSTANTS
  Tabs = {t1}
  MaxSaid = 2
  MaxMoves = 1
  MaxDrops = 2
  MaxEnds = 2
  MaxRestarts = 1
INVARIANTS TypeOK ThreadIsPrefix CaughtUpShowsCurrent NeverTwice
PROPERTIES FinalBubbleBeforeEnded EndReachesPages
CHECK_DEADLOCK FALSE
