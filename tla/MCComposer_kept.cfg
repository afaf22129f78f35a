\* Annotations captured while a Send is in flight: expected to be violated.
SPECIFICATION Spec
CONSTANTS
  Budgets <- Cases
PROPERTIES PendingUntilSent
CHECK_DEADLOCK FALSE
