\* Programs of one call each on numbers of up to three words.
CONSTANTS
  W = 3
  nib = 3
  TooBig = 8
  AndOf <- AndBits
  XorOf <- XorBits
  SqrFaster = 1
  ByteBits = 1
  Reg <- Names
  Programs <- AllPrograms
SPECIFICATION Spec
\* A program stops after its call.
CHECK_DEADLOCK FALSE
PROPERTIES BasicsExact Implements
