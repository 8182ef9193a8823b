\* One lookup of a dual-stack name is enough: its list may start with an
\* entry of the other family, or with one that refuses the connection.
CONSTANTS
  b4 = b4
  a6 = a6
  a4 = a4
  Addrs <- MCAddrs
  Family <- MCFamily
  LexOrder <- MCLexOrder
  StdioOpen <- MCStdioOpen
  MaxFd = 4
SPECIFICATION Spec
INVARIANT FallsBackToNextEntry
