\* No symmetry, since liveness is checked.
CONSTANTS
  a = a  b = b  c = c  d = d  e = e  k1 = k1  none = none  None = None
SPECIFICATION Spec
PROPERTIES EventsSettle CopiesConverge DeletionEnds JobsEnd
CHECK_DEADLOCK FALSE
