\* Four C API calls over descriptors 0..5 (stdio open): enough for a listener,
\* its accepted socket and a client, for a shutdown, and for reuse after it;
\* or for two lookups of up to two addresses and two shutdowns.
CONSTANTS
  MaxFd = 5
  MaxCalls = 4
  MaxIps = 2
SPECIFICATION Spec
INVARIANT TypeOK HandleNamesItsSocket ShutdownReleasesAll NoDoubleFree HostnameListZeroTerminated
