-------------------------- MODULE MC_ClientConnect --------------------------
EXTENDS ClientConnect, TLC

CONSTANTS t1, t2

MCThreads == {t1, t2}
\* "localhost" as host_test resolves it: IPv4 records, then IPv6 ones.
MCRecords == <<"IPv4", "IPv6", "IPv4", "IPv6">>
MCFamily == [t \in MCThreads |-> "IPv4"]
MCFamilyMixed == (t1 :> "IPv4") @@ (t2 :> "IPv6")
MCOpConnect == [t \in MCThreads |-> "connect"]
MCOpMixed == (t1 :> "connect") @@ (t2 :> "bind")
MCPort == (t1 :> 80) @@ (t2 :> 8080)
=============================================================================
