CONSTANTS
  Message <- MCMessage
  SockTypes = {"UDP"}
SPECIFICATION Spec
INVARIANT NoContractAbort
