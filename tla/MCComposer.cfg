\* Five budgets: submissions that overlap, cross a reload, break, or end a session that is opened again.
SPECIFICATION LiveSpec
CONSTANTS
  Budgets <- Cases
INVARIANTS TypeOK MarkersFollowRows ModeFollowsToggle TwiceOnlyIfOverlapped NotesPredateSnapshot
PROPERTIES LossNeedsOverlap ComposerComesBack
CHECK_DEADLOCK FALSE
