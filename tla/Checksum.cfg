\* Every message of up to 8 bytes (an ICMP header) over bytes 0, 1 and 255,
\* which produce every carry and double carry, on a little-endian host.
CONSTANTS
  MaxLen = 8
  ByteVals = {0, 1, 255}
  BigEndian = FALSE
SPECIFICATION Spec
INVARIANT TypeOK MatchesRFC1071 SelfVerifies
