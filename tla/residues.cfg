\* Programs of one call each on residues modulo numbers of one or two words.
CONSTANTS
  W = 4
  nib = 3
  TooBig = 16
  AndOf <- AndBits
  XorOf <- XorBits
  SqrFaster = 1
  ByteBits = 4
  Reg <- Pair
  Programs <- AllPrograms
SPECIFICATION Spec
\* A program stops after its call.
CHECK_DEADLOCK FALSE
PROPERTIES Reduced Implements
