SPECIFICATION NoErrorSpec
CONSTANTS
  File = {f1, f2}
  Byte <- MCByte
  Writes <- MCWrites
  Lengths <- MCLengths
  MaxLen = 2
  Capacity = 1
  MaxFaults = 1
INVARIANT ReadsReturnBytes
