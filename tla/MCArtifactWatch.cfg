\* Two pages, two edits, three closed pages or broken connections, a failing watch.
SPECIFICATION LiveSpec
CONSTANTS
  Tabs = {t1, t2}
  MaxEdits = 2
  MaxHangUps = 3
  MaxFailures = 1
INVARIANTS TypeOK WatcherCountsStreams
PROPERTIES EditIsShown LastReleaseStops
CHECK_DEADLOCK FALSE
