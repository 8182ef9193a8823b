------------------------- MODULE MC_SocketLifecycle -------------------------
(* Three objects and descriptors 0..4: enough for a listener, an accepted *)
(* socket and a client to hold 3 and 4 at once, and for a closed number   *)
(* to be handed out again.  Standard descriptors 0-2 all open, or with    *)
(* stdout closed as in a daemon.                                          *)
EXTENDS SocketLifecycle, TLC

CONSTANTS o1, o2, o3

MCObjs == {o1, o2, o3}
MCStdioOpen == {{0, 1, 2}, {0, 2}}
MCSymmetry == Permutations(MCObjs)
=============================================================================
