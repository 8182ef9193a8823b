\* Two threads on their own copies of "localhost", one connecting over IPv4
\* and one binding over IPv6; a signal may interrupt connect().
CONSTANTS
  t1 = t1
  t2 = t2
  Threads <- MCThreads
  Records <- MCRecords
  Family <- MCFamilyMixed
  Op <- MCOpMixed
  Port <- MCPort
  SharedHost = FALSE
  Signals = TRUE
SPECIFICATION Spec
INVARIANT TypeOK FirstMatchByFamily
PROPERTY ImplementsAddressSelection
