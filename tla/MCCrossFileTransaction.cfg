SPECIFICATION TxnSpec
CONSTANTS
  fileA = fileA
  fileB = fileB
  v1 = v1
  v2 = v2
  w1 = w1
  Absent = Absent
  Torn = Torn
  MaxFaults = 2
  File <- MCFile
  Content <- MCContent
  Writer <- MCWriter
INVARIANTS
  EndsClean
  AllOrNothing
  Recoverable
PROPERTIES
  ImplementsAtomicStore
