--------------------------- MODULE StreamExchange ---------------------------
(***************************************************************************)
(* The data path between a connected ClientSocket and the AcceptedSocket  *)
(* a ListenSocket made for it, driven the way socket_test.cc drives them: *)
(* the server thread receives message.length() bytes and echoes what it   *)
(* got, then its scoped_ptrs delete the sockets; the client thread sends  *)
(* the message and receives the echo, with Receive (as the test does      *)
(* through ReceiveOrDie) or with ReceiveX (the ReceiveExact of the spec). *)
(*                                                                         *)
(* The kernel is a byte stream each way.  recv() returns at least one and *)
(* at most the requested number of queued bytes, 0 once the peer closed   *)
(* and the queue is empty, and -1 after a reset (a close with unread      *)
(* data).  The two threads interleave at every system call.               *)
(***************************************************************************)
EXTENDS Integers, Sequences, SequencesExt

CONSTANTS
  Message,     \* the bytes the client sends (distinct values)
  SockTypes    \* the SocketTypes the test is instantiated with

ASSUME Len(Message) > 0 /\ SockTypes \subseteq {"TCP", "UDP"}

Count == Len(Message)     \* the count both sides ask recv() for
AcceptedFd == 4           \* the descriptor accept() returned
NoFd == -1
NoByte == "none"
Bytes == ToSet(Message)

VARIABLES
  stype,          \* the SocketType of both sockets
  c2s, s2c,       \* bytes queued in the kernel, client to server and back
  cFin, sFin,     \* the client's / the server's socket has been closed
  sReset,         \* the server closed with unread data: the kernel sent RST
  cpc,            \* client thread: "send", "recv", "recvx", "done"
  cMode,          \* which receive the client called: "Receive" or "ReceiveX"
  buffer,         \* ClientSocket::ReceiveX's char buffer[count]
  offset,         \* ReceiveX's offset
  cRes,           \* the Packet the client's receive returned
  spc,            \* server thread: "recv", "send", "close", "done"
  sFd,            \* AcceptedSocket::fd_ as ListenSocket::Accept set it
  client_addr_len_, \* AcceptedSocket::client_addr_len_
  sPkt,           \* the Packet the server received
  sSent,          \* ghost: every byte the server's send() queued
  abortCause,     \* "none", or what raised SIGABRT: a failed "io" call in
                  \* an *OrDie wrapper, a "fatal" LOG in the set-up, an
                  \* ASSERT on a system call's result ("sysassert"), or a
                  \* failed "assert" on the library's own state
  ready,          \* the semaphore server_ready_
  listening,      \* the server's socket is bound (UDP) or listening (TCP)
  pending         \* a TCP connection waits in the listener's accept queue

setupVars == <<ready, listening, pending>>
vars == <<stype, c2s, s2c, cFin, sFin, sReset, cpc, cMode, buffer, offset, cRes,
          spc, sFd, client_addr_len_, sPkt, sSent, abortCause, setupVars>>

Running == abortCause = "none"

Abort(cause) == abortCause' = cause

\* What one recv() of at most n bytes on a queue q may return: a count k
\* of bytes taken from the head of q, 0 at end of stream, -1 on error.
RecvResults(q, n, peerClosed, reset) ==
  IF q # <<>> THEN 1..Min({n, Len(q)})
  ELSE IF peerClosed THEN {IF reset THEN -1 ELSE 0}
  ELSE {}

Init ==
  /\ stype \in SockTypes
  /\ c2s = <<>> /\ s2c = <<>>
  /\ cFin = FALSE /\ sFin = FALSE /\ sReset = FALSE
  /\ cpc = "wait"
  /\ cMode = "Receive"
  /\ buffer = [i \in 1..Count |-> NoByte]
  /\ offset = 0
  /\ cRes = <<>>
  /\ spc = "create"
  /\ sFd = NoFd
  /\ client_addr_len_ = 0
  /\ sPkt = <<>>
  /\ sSent = <<>>
  /\ abortCause = "none"
  /\ ready = 0 /\ listening = FALSE /\ pending = FALSE

(***************************************************************************)
(* Set-up, as socket_test.cc runs it.  The server thread creates its      *)
(* ListenSocket, posts server_ready_, selects and accepts; the test's     *)
(* SetUp waits on server_ready_ before SendAndReceive connects.           *)
(***************************************************************************)

(* Server: ListenSocket::CreateOrDie(port, type, family), then            *)
(* sem_post(&server_ready_).  A failed socket() trips Start's ASSERT on    *)
(* setsockopt(fd_ = -1, SO_RCVTIMEO); a failed bind() or listen() ends in  *)
(* Start's LOG(FATAL).                                                    *)
ServerStart ==
  /\ Running /\ spc = "create"
  /\ \/ /\ Abort("sysassert") \/ Abort("fatal")
        /\ UNCHANGED <<spc, ready, listening>>
     \/ /\ listening' = TRUE /\ ready' = ready + 1
        /\ spc' = "select"
        /\ UNCHANGED abortCause
  /\ UNCHANGED <<stype, cMode, c2s, s2c, cFin, sFin, sReset, cpc, buffer, offset,
                 cRes, sFd, client_addr_len_, sPkt, sSent, pending>>

(* Server: ListenSocket::SelectWithTimeout(5).  A datagram listener       *)
(* returns at once; a stream listener's select() returns once a           *)
(* connection is pending.                                                 *)
ServerSelect ==
  /\ Running /\ spc = "select"
  /\ stype = "UDP" \/ pending
  /\ spc' = "accept"
  /\ UNCHANGED <<stype, cMode, c2s, s2c, cFin, sFin, sReset, cpc, buffer, offset,
                 cRes, sFd, client_addr_len_, sPkt, sSent, abortCause, setupVars>>

(* Server: select() on a stream listener returns 0 after 5 s with no      *)
(* connection pending, and SelectWithTimeout LOG(FATAL)s.                 *)
SelectTimesOut ==
  /\ Running /\ spc = "select"
  /\ stype = "TCP" /\ ~pending
  /\ Abort("timeout")
  /\ UNCHANGED <<stype, cMode, c2s, s2c, cFin, sFin, sReset, cpc, buffer, offset,
                 cRes, spc, sFd, client_addr_len_, sPkt, sSent, setupVars>>

(* Server: ListenSocket::AcceptOrDie.  A datagram listener builds         *)
(* AcceptedSocket(fd_, -1, ...); a stream listener accept()s the pending  *)
(* connection and builds AcceptedSocket(fd_, client_fd, ...).             *)
ServerAccept ==
  /\ Running /\ spc = "accept"
  /\ sFd' = IF stype = "TCP" THEN AcceptedFd ELSE NoFd
  /\ pending' = FALSE
  /\ spc' = "recv"
  /\ UNCHANGED <<stype, cMode, c2s, s2c, cFin, sFin, sReset, cpc, buffer, offset,
                 cRes, client_addr_len_, sPkt, sSent, abortCause, ready, listening>>

\* Mutant: SetUp does not wait on server_ready_.
ClientWaitSkipped ==
  /\ Running /\ cpc = "wait"
  /\ cpc' = "connect"
  /\ UNCHANGED <<stype, cMode, c2s, s2c, cFin, sFin, sReset, buffer, offset, cRes,
                 spc, sFd, client_addr_len_, sPkt, sSent, abortCause, setupVars>>

(* Client: SetUp's sem_wait(&server_ready_).                              *)
ClientWait ==
  /\ Running /\ cpc = "wait"
  /\ ready > 0 /\ ready' = ready - 1
  /\ cpc' = "connect"
  /\ UNCHANGED <<stype, cMode, c2s, s2c, cFin, sFin, sReset, buffer, offset, cRes,
                 spc, sFd, client_addr_len_, sPkt, sSent, abortCause, listening, pending>>

(* Client: ClientSocket::CreateOrDie(localhost, port, type, family).  A   *)
(* stream connect() to a port with no listener is refused, and Create     *)
(* LOG(FATAL)s; otherwise the connection waits in the accept queue.  A    *)
(* datagram connect() only records the peer.                              *)
ClientCreate ==
  /\ Running /\ cpc = "connect"
  /\ \/ /\ stype = "TCP" /\ ~listening
        /\ Abort("refused")
        /\ UNCHANGED <<cpc, pending>>
     \/ /\ stype = "TCP" /\ listening
        /\ pending' = TRUE /\ cpc' = "send"
        /\ UNCHANGED abortCause
     \/ /\ stype = "UDP"
        /\ cpc' = "send"
        /\ UNCHANGED <<abortCause, pending>>
  /\ UNCHANGED <<stype, cMode, c2s, s2c, cFin, sFin, sReset, buffer, offset, cRes,
                 spc, sFd, client_addr_len_, sPkt, sSent, ready, listening>>

(***************************************************************************)
(* Client: SendOrDie(message) over ClientSocket::Send, whose send() is    *)
(* retried on EINTR and may queue only a prefix of the bytes; -1 makes    *)
(* SendOrDie LOG(FATAL).  On UDP the datagram is sent whole, and dropped  *)
(* when no socket is bound to the port.                                   *)
(***************************************************************************)
ClientSend ==
  /\ Running /\ cpc = "send"
  /\ \/ /\ \E k \in IF stype = "TCP" THEN 1..Count ELSE {Count} :
             c2s' = IF stype = "UDP" /\ ~listening THEN c2s
                    ELSE c2s \o SubSeq(Message, 1, k)
        /\ \/ cpc' = "recv" /\ cMode' = "Receive"
           \/ cpc' = "recvx" /\ cMode' = "ReceiveX"
        /\ UNCHANGED abortCause
     \/ /\ Abort("io")
        /\ UNCHANGED <<c2s, cpc, cMode>>
  /\ UNCHANGED <<setupVars, stype, s2c, cFin, sFin, sReset, buffer, offset, cRes, spc, sFd,
                 client_addr_len_, sPkt, sSent>>

(***************************************************************************)
(* Client: ReceiveOrDie(count) over ClientSocket::Receive: one recv(),    *)
(* retried on EINTR, returning whatever it got; -1 is fatal.  The client  *)
(* then deletes its socket.                                               *)
(***************************************************************************)
ClientReceive ==
  /\ Running /\ cpc = "recv"
  /\ \E k \in RecvResults(s2c, Count, sFin, sReset) :
       IF k < 0
         THEN /\ Abort("io")
              /\ UNCHANGED <<s2c, cRes, cpc, cFin>>
         ELSE /\ cRes' = SubSeq(s2c, 1, k)
              /\ s2c' = SubSeq(s2c, k + 1, Len(s2c))
              /\ cpc' = "done"
              /\ cFin' = TRUE
              /\ UNCHANGED abortCause
  /\ UNCHANGED <<setupVars, stype, cMode, c2s, sFin, sReset, buffer, offset, spc, sFd,
                 client_addr_len_, sPkt, sSent>>

\* Mutant: the loop returns Packet(buffer, count) instead of (buffer, offset).
ReceiveXStepWholeBuffer ==
  /\ Running /\ cpc = "recvx" /\ offset < Count
  /\ \E k \in RecvResults(s2c, Count - offset, sFin, sReset) :
       LET got == SubSeq(s2c, 1, Max({k, 0}))
           buffer2 == [i \in 1..Count |->
                         IF offset < i /\ i <= offset + Len(got)
                           THEN got[i - offset] ELSE buffer[i]]
           offset2 == offset + Max({k, 0})
           returns == k <= 0 \/ offset2 = Count
       IN /\ s2c' = SubSeq(s2c, Len(got) + 1, Len(s2c))
          /\ buffer' = buffer2
          /\ offset' = offset2
          /\ cRes' = IF returns THEN buffer2 ELSE cRes
          /\ cpc' = IF returns THEN "done" ELSE "recvx"
          /\ cFin' = returns
  /\ UNCHANGED <<setupVars, stype, cMode, c2s, sFin, sReset, spc, sFd, client_addr_len_, sPkt,
                 sSent, abortCause>>

\* Mutant: every recv() writes to &buffer[0] instead of &buffer[offset].
ReceiveXStepAtStart ==
  /\ Running /\ cpc = "recvx" /\ offset < Count
  /\ \E k \in RecvResults(s2c, Count - offset, sFin, sReset) :
       LET got == SubSeq(s2c, 1, Max({k, 0}))
           buffer2 == [i \in 1..Count |-> IF i <= Len(got) THEN got[i] ELSE buffer[i]]
           offset2 == offset + Max({k, 0})
           returns == k <= 0 \/ offset2 = Count
       IN /\ s2c' = SubSeq(s2c, Len(got) + 1, Len(s2c))
          /\ buffer' = buffer2
          /\ offset' = offset2
          /\ cRes' = IF returns THEN [i \in 1..offset2 |-> buffer2[i]] ELSE cRes
          /\ cpc' = IF returns THEN "done" ELSE "recvx"
          /\ cFin' = returns
  /\ UNCHANGED <<setupVars, stype, cMode, c2s, sFin, sReset, spc, sFd, client_addr_len_, sPkt,
                 sSent, abortCause>>

(***************************************************************************)
(* Client: one iteration of ClientSocket::ReceiveX's loop:                *)
(* recv(fd_, &buffer[offset], count - offset), retried on EINTR.  -1      *)
(* returns Packet(buffer, offset); 0 breaks out; otherwise offset grows   *)
(* and the loop ends at offset == count.  The result is then returned and *)
(* the client deletes its socket.                                         *)
(***************************************************************************)
ReceiveXStep ==
  /\ Running /\ cpc = "recvx" /\ offset < Count
  /\ \E k \in RecvResults(s2c, Count - offset, sFin, sReset) :
       LET got == SubSeq(s2c, 1, Max({k, 0}))
           buffer2 == [i \in 1..Count |->
                         IF offset < i /\ i <= offset + Len(got)
                           THEN got[i - offset] ELSE buffer[i]]
           offset2 == offset + Max({k, 0})
           returns == k <= 0 \/ offset2 = Count
       IN /\ s2c' = SubSeq(s2c, Len(got) + 1, Len(s2c))
          /\ buffer' = buffer2
          /\ offset' = offset2
          /\ cRes' = IF returns THEN [i \in 1..offset2 |-> buffer2[i]] ELSE cRes
          /\ cpc' = IF returns THEN "done" ELSE "recvx"
          /\ cFin' = returns
  /\ UNCHANGED <<setupVars, stype, cMode, c2s, sFin, sReset, spc, sFd, client_addr_len_, sPkt,
                 sSent, abortCause>>

\* Mutant: client_addr_len_ is set before the switch, for every type.
ServerReceiveAddrAlways ==
  /\ Running /\ spc = "recv"
  /\ IF sFd = NoFd
       THEN /\ Abort("assert")
            /\ UNCHANGED <<c2s, spc, sPkt, client_addr_len_>>
       ELSE /\ client_addr_len_' = 128
            /\ \E k \in RecvResults(c2s, Count, cFin, FALSE) :
                 /\ sPkt' = SubSeq(c2s, 1, k)
                 /\ c2s' = SubSeq(c2s, k + 1, Len(c2s))
                 /\ spc' = IF k > 0 THEN "send" ELSE "close"
                 /\ UNCHANGED abortCause
  /\ UNCHANGED <<setupVars, stype, cMode, s2c, cFin, sFin, sReset, cpc, buffer, offset, cRes,
                 sFd, sSent>>

(***************************************************************************)
(* Server: ReceiveOrDie(message.length()) over AcceptedSocket::Receive:   *)
(* ASSERT(fd_ != -1); a datagram socket records client_addr_len_ and      *)
(* calls recvfrom(), a stream socket recv(), neither retried on EINTR: a  *)
(* blocked call may fail (EINTR, or the 5 s SO_RCVTIMEO the listener set) *)
(* and ReceiveOrDie LOG(FATAL)s.  A 0-byte Packet fails the test's        *)
(* ASSERT_GT, which returns from Server() to the destructors.             *)
(***************************************************************************)
ServerReceive ==
  /\ Running /\ spc = "recv"
  /\ IF sFd = NoFd
       THEN /\ Abort("assert")
            /\ UNCHANGED <<c2s, spc, sPkt, client_addr_len_>>
       ELSE /\ client_addr_len_' = IF stype = "UDP" THEN 128 ELSE client_addr_len_
            /\ \E k \in RecvResults(c2s, Count, cFin, FALSE) \cup
                        (IF c2s = <<>> /\ ~cFin THEN {-1} ELSE {}) :
                 IF k < 0
                   THEN /\ Abort("io")
                        /\ UNCHANGED <<c2s, spc, sPkt>>
                   ELSE /\ sPkt' = SubSeq(c2s, 1, k)
                        /\ c2s' = SubSeq(c2s, k + 1, Len(c2s))
                        /\ spc' = IF k > 0 THEN "send" ELSE "close"
                        /\ UNCHANGED abortCause
  /\ UNCHANGED <<setupVars, stype, cMode, s2c, cFin, sFin, sReset, cpc, buffer, offset, cRes,
                 sFd, sSent>>

(***************************************************************************)
(* Server: SendOrDie(recv_str) over AcceptedSocket::Send: a stream        *)
(* socket ASSERTs client_addr_len_ == 0 and calls send(), which may queue *)
(* a prefix; -1 (the peer reset, or SO_SNDTIMEO) is fatal.                *)
(***************************************************************************)
ServerSend ==
  /\ Running /\ spc = "send"
  /\ IF stype = "TCP" /\ client_addr_len_ # 0
       THEN /\ Abort("assert")
            /\ UNCHANGED <<s2c, sSent, spc>>
       ELSE \/ /\ \E k \in 1..Len(sPkt) :
                    /\ s2c' = s2c \o SubSeq(sPkt, 1, k)
                    /\ sSent' = sSent \o SubSeq(sPkt, 1, k)
               /\ spc' = "close"
               /\ UNCHANGED abortCause
            \/ /\ cFin
               /\ Abort("io")
               /\ UNCHANGED <<s2c, sSent, spc>>
  /\ UNCHANGED <<setupVars, stype, cMode, c2s, cFin, sFin, sReset, cpc, buffer, offset, cRes,
                 sFd, client_addr_len_, sPkt>>

\* Mutant: ~AcceptedSocket closes listen_fd_ but not fd_.
ServerCloseListenOnly ==
  /\ Running /\ spc = "close"
  /\ spc' = "done"
  /\ UNCHANGED <<setupVars, stype, cMode, c2s, s2c, cFin, sFin, sReset, cpc, buffer, offset,
                 cRes, sFd, client_addr_len_, sPkt, sSent, abortCause>>

(***************************************************************************)
(* Server: the scoped_ptrs run ~AcceptedSocket, which closes listen_fd_   *)
(* and then fd_.  Closing with unread bytes makes the kernel send RST.    *)
(***************************************************************************)
ServerClose ==
  /\ Running /\ spc = "close"
  /\ sFin' = (sFd # NoFd)
  /\ sReset' = (sFd # NoFd /\ c2s # <<>>)
  /\ spc' = "done"
  /\ UNCHANGED <<setupVars, stype, cMode, c2s, s2c, cFin, cpc, buffer, offset, cRes, sFd,
                 client_addr_len_, sPkt, sSent, abortCause>>

\* The server thread has returned (the client thread may still be blocked
\* in recv()), or the process is gone.
Terminated ==
  /\ spc = "done" \/ ~Running
  /\ UNCHANGED vars

Next ==
  \/ ServerStart \/ ServerSelect \/ SelectTimesOut \/ ServerAccept
  \/ ClientWait \/ ClientCreate
  \/ ClientSend \/ ClientReceive \/ ReceiveXStep
  \/ ServerReceive \/ ServerSend \/ ServerClose
  \/ Terminated

\* The OS schedules both threads: a thread that can take a step takes one.
\* A select() timeout is possible but never forced.
Fairness ==
  /\ WF_vars(ServerStart) /\ WF_vars(ServerSelect) /\ WF_vars(ServerAccept)
  /\ WF_vars(ClientWait) /\ WF_vars(ClientCreate)
  /\ WF_vars(ClientSend) /\ WF_vars(ClientReceive) /\ WF_vars(ReceiveXStep)
  /\ WF_vars(ServerReceive) /\ WF_vars(ServerSend) /\ WF_vars(ServerClose)

Spec == Init /\ [][Next]_vars /\ Fairness

-----------------------------------------------------------------------------
(* Every variable holds a value of its type.                               *)
TypeOK ==
  /\ stype \in {"TCP", "UDP"}
  /\ c2s \in Seq(Bytes) /\ s2c \in Seq(Bytes) /\ sSent \in Seq(Bytes)
  /\ {cFin, sFin, sReset} \subseteq BOOLEAN
  /\ cpc \in {"wait", "connect", "send", "recv", "recvx", "done"}
  /\ cMode \in {"Receive", "ReceiveX"}
  /\ spc \in {"create", "select", "accept", "recv", "send", "close", "done"}
  /\ buffer \in [1..Count -> Bytes \cup {NoByte}]
  /\ offset \in 0..Count
  /\ cRes \in Seq(Bytes) /\ sPkt \in Seq(Bytes)
  /\ abortCause \in {"none", "io", "fatal", "sysassert", "timeout", "refused", "assert"}
  /\ ready \in 0..1 /\ {listening, pending} \subseteq BOOLEAN

(* ReceiveX (the spec's ReceiveExact) never writes past buffer[count - 1], *)
(* and what it returns is exactly the first bytes the peer sent, in order, *)
(* short of count only when the peer closed or the connection failed.      *)
ReceiveExactContract ==
  /\ offset <= Count
  /\ cpc = "recvx" => IsPrefix([i \in 1..offset |-> buffer[i]], sSent)
  /\ (cpc = "done" /\ cMode = "ReceiveX") =>
       /\ cRes = [i \in 1..offset |-> buffer[i]]
       /\ IsPrefix(cRes, sSent)
       /\ Len(cRes) < Count => sFin

(* No ASSERT in the library fires when the library is used as the test     *)
(* uses it: only a failed system call in an *OrDie wrapper may abort.      *)
NoContractAbort == abortCause # "assert"

(* The client's connect() never finds the server's port without a         *)
(* listener: SetUp's sem_wait orders it after the server's CreateOrDie,   *)
(* whichever thread the scheduler runs first.                             *)
ConnectFindsListener == abortCause # "refused"

(* The client's receive returns: it is never left blocked for ever, since  *)
(* the server either echoes or closes its socket.                          *)
ClientReturns == <>(cpc = "done" \/ ~Running)
=============================================================================
