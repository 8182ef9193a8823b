CONSTANTS
  Message <- MCMessage
  SockTypes = {"TCP"}
SPECIFICATION Spec
INVARIANT TypeOK
INVARIANT ReceiveExactContract
INVARIANT NoContractAbort
INVARIANT ConnectFindsListener
PROPERTY ClientReturns
