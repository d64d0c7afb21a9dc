\* Programs of one call each on the points of small curves.
CONSTANTS
  R = 16
  TooBig = 5
  Store = 8
  Names <- Pair
  Programs <- AllPrograms
SPECIFICATION Spec
\* A program stops after its call.
CHECK_DEADLOCK FALSE
PROPERTIES Sound Implements
