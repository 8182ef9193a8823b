CONSTANTS
  o1 = o1
  o2 = o2
  o3 = o3
  Objs <- MCObjs
  MaxFd = 4
  StdioOpen <- MCStdioOpen
  Stdio = Stdio
  NoOwner = NoOwner
SYMMETRY MCSymmetry
SPECIFICATION Spec
INVARIANT RawCreateNullOnlyOnFailure
