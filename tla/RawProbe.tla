------------------------------ MODULE RawProbe ------------------------------
(***************************************************************************)
(* An ICMP echo probe over RawSocket, the way test_raw_socket_send_recv.cc *)
(* runs one: size the receive buffer (SetRecvBufferSize, then             *)
(* GetRecvBufferSize), send an echo request to a Host (SendToOrDie, or    *)
(* Connect then SendOrDie), then read packets (ReceiveFromOrDie, or       *)
(* ReceiveOrDie) until its own echo reply comes, giving up after          *)
(* magic_ttl echo replies that are not its own.                           *)
(*                                                                         *)
(* The kernel side: every ICMP packet for this machine is offered to the  *)
(* raw socket, which takes it when it passes the socket's filters (the    *)
(* connected peer, the ICMPv6 filter the RawSocket constructor installs)  *)
(* and its receive queue has room, and drops it otherwise.  The Host      *)
(* addressed answers the request with an echo reply; other hosts send     *)
(* their own ICMP packets meanwhile.                                      *)
(***************************************************************************)
EXTENDS Integers, Sequences, FiniteSets

CONSTANTS
  Hosts,       \* the sockaddr_ family lists the target's Host may hold
  Family,      \* the socket's family_
  Modes,       \* "sendto": SendTo/ReceiveFrom; "connect": Connect/Send/Receive
  Foreign,     \* the ICMP packets other hosts send while the probe runs
  MagicTtl,    \* the test loop's magic_ttl
  Sizes,       \* the sizes the caller passes to SetRecvBufferSize
  RcvMax,      \* the kernel's net.core.rmem_max
  RcvDefault   \* the socket's SO_RCVBUF before any setsockopt

Kinds == {"echoreply", "unreach", "timeexceeded", "other"}
\* Record i of the target Host has address i; other hosts have addresses
\* above Len of every list; -1 is recvaddr's initial Host("192.168.0.1").
InitAddr == -1
NoPeer == 0
Packets == [kind : Kinds, from : Int, ours : BOOLEAN]
NoPacket == [kind |-> "other", from |-> NoPeer, ours |-> FALSE]

ASSUME /\ Hosts \subseteq Seq({"IPv4", "IPv6"}) /\ Family \in {"IPv4", "IPv6"}
       /\ Foreign \subseteq [kind : Kinds, from : Nat, ours : {FALSE}]
       /\ MagicTtl \in Nat \ {0}

VARIABLES
  records,     \* the target Host's sockaddr_ families
  mode,
  pc,          \* "setbuf", "getbuf", "connect", "send", "sendto", "recv",
               \* "done", "aborted" (LOG(FATAL) or ASSERT)
  rcvbuf,      \* SO_RCVBUF in the kernel
  req,         \* the size passed to SetRecvBufferSize
  setRet,      \* what SetRecvBufferSize returned: "none", "true", "false"
  getRet,      \* what GetRecvBufferSize returned
  peer,        \* the address connect() attached the socket to, or NoPeer
  wire,        \* addresses holding an echo request of ours not yet answered
  pending,     \* foreign packets not yet arrived
  queue,       \* the socket's receive queue
  recvbuf,     \* the packet the last receive returned
  recvaddr,    \* the Host the caller passed to ReceiveFromOrDie
  ttl          \* magic_ttl

vars == <<records, mode, pc, rcvbuf, req, setRet, getRet, peer, wire,
          pending, queue, recvbuf, recvaddr, ttl>>

Init ==
  /\ records \in Hosts /\ mode \in Modes
  /\ pc = "setbuf"
  /\ rcvbuf = RcvDefault /\ req = 0 /\ setRet = "none" /\ getRet = 0
  /\ peer = NoPeer /\ wire = {} /\ pending = Foreign /\ queue = <<>>
  /\ recvbuf = NoPacket /\ recvaddr = InitAddr /\ ttl = MagicTtl

MinOf(a, b) == IF a < b THEN a ELSE b
Matches == {i \in DOMAIN records : records[i] = Family}
Goto(l) == pc' = l

\* setsockopt(SO_RCVBUF) on Linux: the request clamped to rmem_max, doubled
\* for the kernel's bookkeeping overhead.
Granted(s) == 2 * MinOf(s, RcvMax)

(* Socket::SetBufferSize(size, BUFFERTYPE_RECV): setsockopt, getsockopt   *)
(* the real size, false when it is smaller than asked.                    *)
SetRecvBufferSize(s) ==
  /\ pc = "setbuf"
  /\ rcvbuf' = Granted(s) /\ req' = s
  /\ setRet' = IF Granted(s) < s THEN "false" ELSE "true"
  /\ Goto("getbuf")
  /\ UNCHANGED <<records, mode, getRet, peer, wire, pending, queue, recvbuf, recvaddr, ttl>>

(* Socket::GetBufferSize(BUFFERTYPE_RECV): getsockopt(SO_RCVBUF).          *)
GetRecvBufferSize ==
  /\ pc = "getbuf"
  /\ getRet' = rcvbuf
  /\ Goto(IF mode = "connect" THEN "connect" ELSE "sendto")
  /\ UNCHANGED <<records, mode, rcvbuf, req, setRet, peer, wire, pending, queue, recvbuf, recvaddr, ttl>>

(* RawSocket::Connect: connect() on each record of the socket's family in *)
(* turn until one succeeds; -1 when none does.  Any matching record can   *)
(* be the first success, every one before it having failed.               *)
RawConnect ==
  /\ pc = "connect"
  /\ \E i \in Matches \cup {NoPeer} : peer' = i
  /\ Goto("send")
  /\ UNCHANGED <<records, mode, rcvbuf, req, setRet, getRet, wire, pending, queue, recvbuf, recvaddr, ttl>>

(* Socket::SendOrDie over RawSocket::Send: send() to the connected peer;  *)
(* on an unconnected socket it fails (EDESTADDRREQ) and SendOrDie aborts. *)
RawSend ==
  /\ pc = "send"
  /\ \/ /\ peer # NoPeer
        /\ wire' = wire \cup {peer}
        /\ Goto("recv")
     \/ /\ Goto("aborted")
        /\ UNCHANGED wire
  /\ UNCHANGED <<records, mode, rcvbuf, req, setRet, getRet, peer, pending, queue, recvbuf, recvaddr, ttl>>

\* Mutant: SendTo looks only at the first record, whatever its family.
SendToFirstRecordOnly ==
  /\ pc = "sendto"
  /\ IF records # <<>> /\ records[1] = Family
       THEN /\ \/ /\ wire' = wire \cup {1}
                  /\ Goto("recv")
               \/ /\ Goto("aborted")
                  /\ UNCHANGED wire
       ELSE /\ Goto("recv")
            /\ UNCHANGED wire
  /\ UNCHANGED <<records, mode, rcvbuf, req, setRet, getRet, peer, pending, queue, recvbuf, recvaddr, ttl>>

(* RawSocket::SendToOrDie over SendTo: the first record of the socket's   *)
(* family gets the sendto(); its failure returns false and SendToOrDie    *)
(* aborts, with no later record tried.  With no record of the family,     *)
(* SendTo sets *num_bytes = 0 and returns true.                           *)
SendToOrDie ==
  /\ pc = "sendto"
  /\ IF Matches # {}
       THEN LET i == CHOOSE j \in Matches : \A k \in Matches : j <= k
            IN \/ /\ wire' = wire \cup {i}
                  /\ Goto("recv")
               \/ /\ Goto("aborted")
                  /\ UNCHANGED wire
       ELSE /\ Goto("recv")
            /\ UNCHANGED wire
  /\ UNCHANGED <<records, mode, rcvbuf, req, setRet, getRet, peer, pending, queue, recvbuf, recvaddr, ttl>>

\* The ICMPv6 types the filter set by the RawSocket constructor lets pass.
Icmp6Pass == {"echoreply", "timeexceeded", "unreach"}

(* The kernel offers packet p to the socket: it is queued when it passes   *)
(* the socket's filters and the queue has room, and dropped otherwise.     *)
(* Each queued packet is charged about twice its size against SO_RCVBUF.   *)
Accepts(p) == /\ peer = NoPeer \/ p.from = peer
              /\ Family = "IPv4" \/ p.kind \in Icmp6Pass
Deliver(p) ==
  queue' = IF Accepts(p) /\ Len(queue) < rcvbuf \div 2 THEN Append(queue, p) ELSE queue

(* The host at address a answers our echo request.                        *)
EchoReply(a) ==
  /\ a \in wire
  /\ Deliver([kind |-> "echoreply", from |-> a, ours |-> TRUE])
  /\ wire' = wire \ {a}
  /\ UNCHANGED <<records, mode, pc, rcvbuf, req, setRet, getRet, peer, pending, recvbuf, recvaddr, ttl>>

(* Another host's ICMP packet reaches this machine.                       *)
Arrive(p) ==
  /\ p \in pending
  /\ Deliver(p)
  /\ pending' = pending \ {p}
  /\ UNCHANGED <<records, mode, pc, rcvbuf, req, setRet, getRet, peer, wire, recvbuf, recvaddr, ttl>>

\* Mutant: the loop runs `while (magic_ttl >= 0)`.
TestLoopPastZero(p) ==
  \/ /\ p.kind # "echoreply"
     /\ UNCHANGED ttl /\ Goto("recv")
  \/ /\ p.kind = "echoreply" /\ p.ours
     /\ UNCHANGED ttl /\ Goto("done")
  \/ /\ p.kind = "echoreply" /\ ~p.ours
     /\ ttl' = ttl - 1
     /\ Goto(IF ttl - 1 < 0 THEN "done" ELSE "recv")

(* The test's loop body on the packet p it read: its own echo reply ends   *)
(* the loop; another echo reply uses up one of magic_ttl; any other type   *)
(* is skipped.                                                              *)
TestLoop(p) ==
  \/ /\ p.kind # "echoreply"
     /\ UNCHANGED ttl /\ Goto("recv")
  \/ /\ p.kind = "echoreply" /\ p.ours
     /\ UNCHANGED ttl /\ Goto("done")
  \/ /\ p.kind = "echoreply" /\ ~p.ours
     /\ ttl' = ttl - 1
     /\ Goto(IF ttl - 1 = 0 THEN "done" ELSE "recv")

\* Mutant: ReceiveFrom does not write *host.
ReceiveLoopNoHost ==
  /\ pc = "recv" /\ queue # <<>>
  /\ recvbuf' = Head(queue) /\ queue' = Tail(queue)
  /\ TestLoop(Head(queue))
  /\ UNCHANGED <<records, mode, rcvbuf, req, setRet, getRet, peer, wire, pending, recvaddr>>

(* ReceiveFromOrDie (or ReceiveOrDie) blocks in recvfrom() until a packet  *)
(* is queued and returns it.  A raw packet is never empty, so ReceiveFrom  *)
(* always sets *host to its sender's address; Receive has no host.         *)
ReceiveLoop ==
  /\ pc = "recv" /\ queue # <<>>
  /\ recvbuf' = Head(queue) /\ queue' = Tail(queue)
  /\ recvaddr' = IF mode = "sendto" THEN Head(queue).from ELSE recvaddr
  /\ TestLoop(Head(queue))
  /\ UNCHANGED <<records, mode, rcvbuf, req, setRet, getRet, peer, wire, pending>>

(* recvfrom() fails, e.g. EINTR on a signal (a raw socket has no receive   *)
(* timeout), and the OrDie wrapper aborts.                                 *)
RecvFails ==
  /\ pc = "recv"
  /\ Goto("aborted")
  /\ UNCHANGED <<records, mode, rcvbuf, req, setRet, getRet, peer, wire, pending, queue, recvbuf, recvaddr, ttl>>

Terminated ==
  /\ pc \in {"done", "aborted"}
  /\ UNCHANGED vars

Prober ==
  \/ \E s \in Sizes : SetRecvBufferSize(s)
  \/ GetRecvBufferSize \/ RawConnect \/ RawSend \/ SendToOrDie \/ ReceiveLoop

Next ==
  \/ Prober \/ RecvFails
  \/ \E a \in wire : EchoReply(a)
  \/ \E p \in pending : Arrive(p)
  \/ Terminated

\* The prober's thread runs, and the host addressed answers an echo request
\* (the tests address the loopback interface).  No fairness for signals or
\* for other hosts' traffic.
Fairness == WF_vars(Prober) /\ WF_vars(\E a \in wire : EchoReply(a))

Spec == Init /\ [][Next]_vars /\ Fairness

-----------------------------------------------------------------------------
(* Every variable holds a value of its type.                               *)
TypeOK ==
  /\ records \in Hosts /\ mode \in Modes
  /\ pc \in {"setbuf", "getbuf", "connect", "send", "sendto", "recv", "done", "aborted"}
  /\ rcvbuf \in Nat /\ req \in {0} \cup Sizes /\ getRet \in Nat
  /\ setRet \in {"none", "true", "false"}
  /\ peer \in {NoPeer} \cup DOMAIN records /\ wire \subseteq DOMAIN records
  /\ pending \subseteq Foreign /\ queue \in Seq(Packets) /\ recvbuf \in Packets
  /\ recvaddr \in {InitAddr} \cup DOMAIN records \cup {p.from : p \in Foreign}
  /\ ttl \in 0..MagicTtl

(* When the probe ends on its own echo reply, the Host ReceiveFrom filled  *)
(* in names the address the request went to, the first record of the      *)
(* socket's family (the test's EXPECT_STREQ on recvaddr), however many     *)
(* other packets were read before.                                          *)
ReplyFromItsSender ==
  pc = "done" /\ recvbuf.ours /\ mode = "sendto" =>
    recvaddr \in Matches /\ \A i \in Matches : recvaddr <= i

(* The probe ends: it finds its reply, gives up after magic_ttl foreign    *)
(* echo replies, or aborts; it does not block in recvfrom() for ever.      *)
ProbeEnds == <>(pc \in {"done", "aborted"})
=============================================================================
