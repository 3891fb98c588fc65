SPECIFICATION Spec
CONSTANTS
  Chips = {"haswell", "baytrail", "braswell", "skylake"}
  MaxChanges = 3
INVARIANT RailsInOrder
INVARIANT HooksAlternate
PROPERTY ForcedDown
PROPERTY ExitIsTakenUp
CHECK_DEADLOCK FALSE
