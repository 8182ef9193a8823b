\* An IPv4 probe of a one- or two-record Host, by SendTo or by Connect, with
\* three foreign ICMP packets.  rmem_max 4 grants a queue of four packets,
\* room for everything that arrives; asking for 9 is refused in part.
CONSTANTS
  Hosts <- MCHosts
  Family = "IPv4"
  Modes <- MCModes
  Foreign <- MCForeign
  MagicTtl = 1
  Sizes = {4, 9}
  RcvMax = 4
  RcvDefault = 8
SPECIFICATION Spec
INVARIANT TypeOK ReplyFromItsSender
PROPERTY ProbeEnds
