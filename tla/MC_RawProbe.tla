---------------------------- MODULE MC_RawProbe ----------------------------
EXTENDS RawProbe, TLC

\* The target as the tests name it ("127.0.0.1"), or a name whose resolver
\* lists an IPv6 address first.
MCHosts == {<<"IPv4">>, <<"IPv6", "IPv4">>}
MCModes == {"sendto", "connect"}
\* Other pingers' echo replies from two hosts, and a destination unreachable.
MCForeign == {[kind |-> "echoreply", from |-> 7, ours |-> FALSE],
              [kind |-> "echoreply", from |-> 8, ours |-> FALSE],
              [kind |-> "unreach", from |-> 9, ours |-> FALSE]}
=============================================================================
