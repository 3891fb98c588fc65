SPECIFICATION Spec
CONSTANTS
  a = a
  b = b
  Units = {a, b}
  buffer_units = 4
  W = 8
  MaxCount = 3
INVARIANTS TypeOK NeverOverfull ClaimsHold
PROPERTIES IsFifo
