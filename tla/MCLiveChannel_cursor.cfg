\* The page of a previous daemon: its cursor and its set of rendered seqs.
SPECIFICATION Spec
CONSTANTS
  Tabs = {t1}
  MaxSaid = 2
  MaxMoves = 0
  MaxDrops = 0
  MaxEnds = 0
  MaxRestarts = 1
INVARIANTS CaughtUpShowsThread
CHECK_DEADLOCK FALSE
