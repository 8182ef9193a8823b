--------------------------- MODULE MC_HostConnect ---------------------------
(* A dual-stack name: two IPv4 addresses and one IPv6 address, whose text *)
(* sorts as "192.0.2.1" < "2001:db8::1" < "8.8.8.8", so an IPv6 entry can *)
(* sit between, before or after IPv4 ones in a Hostname list.  Standard   *)
(* descriptors all open, or stdout closed as in a daemon.                 *)
EXTENDS HostConnect

CONSTANTS b4, a6, a4

MCAddrs == {b4, a6, a4}
MCFamily == [a \in MCAddrs |-> IF a = a6 THEN "IPv6" ELSE "IPv4"]
MCLexOrder == <<b4, a6, a4>>
MCStdioOpen == {{0, 1, 2}, {0, 2}}
=============================================================================
