--------------------------- MODULE SocketLifecycle ---------------------------
(***************************************************************************)
(* Ownership of file descriptors by the socket objects of the library:    *)
(* ClientSocket, ListenSocket, AcceptedSocket and RawSocket.  Each object *)
(* keeps the descriptor number fd_ it got from socket() or accept(); an   *)
(* AcceptedSocket also keeps listen_fd_, the number of the listening      *)
(* socket it came from.  The kernel hands out the lowest free number and  *)
(* close() of a number that is not open fails with EBADF.                 *)
(*                                                                         *)
(* Every library call is one atomic step: the objects of different       *)
(* threads of the caller interleave at call boundaries.  The data path    *)
(* (send/recv) is in module StreamExchange.                               *)
(***************************************************************************)
EXTENDS Integers, FiniteSets

CONSTANTS
  Objs,        \* socket objects the caller may construct (model values)
  MaxFd,       \* highest descriptor number of the process
  StdioOpen,   \* the sets of standard descriptors open at start
  Stdio,       \* owner of the standard descriptors
  NoOwner      \* owner of a free descriptor

ASSUME MaxFd \in Nat /\ StdioOpen \subseteq SUBSET (0..2)

Fds == 0..MaxFd
NoFd == -1
LiveKinds == {"client", "listen", "accepted", "raw"}
Kinds == LiveKinds \cup {"none", "deleted"}
\* What the kernel keeps behind an open descriptor number.
Files == {"free", "tty", "stream_listen", "stream_conn", "dgram", "raw"}

VARIABLES
  kind,        \* which class an object is, or "none" before construction
  stype,       \* its SocketType
  fd_,         \* Socket::fd_
  listen_fd_,  \* AcceptedSocket::listen_fd_
  file,        \* the kernel's descriptor table
  owner,       \* ghost: the object whose socket()/accept() opened a number
  lastCall,    \* ghost: the last Create call, whether socket() succeeded and what it returned
  aborted      \* an ASSERT or LOG(FATAL) raised SIGABRT

vars == <<kind, stype, fd_, listen_fd_, file, owner, lastCall, aborted>>

Live(o) == kind[o] \in LiveKinds

FreeFds == {n \in Fds : file[n] = "free"}

\* socket() and accept() return the lowest-numbered free descriptor.
LowestFree == CHOOSE n \in FreeFds : \A m \in FreeFds : n <= m

\* close(n): a number that is not open is left alone (EBADF).
Close(f, n) == IF n \in Fds THEN [f EXCEPT ![n] = "free"] ELSE f

\* The owner of a number is forgotten when the number becomes free.
OwnersAfter(f) == [n \in Fds |-> IF f[n] = "free" THEN NoOwner ELSE owner[n]]

\* The kernel file a successfully set up socket of type t refers to.
FileOf(t) == CASE t = "TCP" -> "stream_conn"
               [] t = "UDP" -> "dgram"
               [] OTHER     -> "raw"

Call(op, o, got, ret) == lastCall' = [op |-> op, obj |-> o, gotFd |-> got, ret |-> ret]

\* A constructor succeeded with descriptor n of kernel file f.
Opened(o, k, t, n, f) ==
  /\ kind' = [kind EXCEPT ![o] = k]
  /\ stype' = [stype EXCEPT ![o] = t]
  /\ fd_' = [fd_ EXCEPT ![o] = n]
  /\ file' = [file EXCEPT ![n] = f]
  /\ owner' = [owner EXCEPT ![n] = o]

Init ==
  /\ kind = [o \in Objs |-> "none"]
  /\ stype = [o \in Objs |-> "TCP"]
  /\ fd_ = [o \in Objs |-> NoFd]
  /\ listen_fd_ = [o \in Objs |-> NoFd]
  /\ \E std \in StdioOpen :
       /\ file = [n \in Fds |-> IF n \in std THEN "tty" ELSE "free"]
       /\ owner = [n \in Fds |-> IF n \in std THEN Stdio ELSE NoOwner]
  /\ lastCall = [op |-> "none", obj |-> NoOwner, gotFd |-> FALSE, ret |-> "none"]
  /\ aborted = FALSE

(***************************************************************************)
(* ClientSocket::Create(host, port, type, family): the constructor calls  *)
(* CreateSocket(); a failed socket() returns NULL, a failed Connect()     *)
(* destroys the socket and then LOG(FATAL)s.  Which candidate connects is *)
(* the subject of module ClientConnect; here Connect() succeeds or fails. *)
(***************************************************************************)
ClientSocketCreate(o, t) ==
  /\ ~aborted /\ kind[o] = "none"
  /\ \/ /\ Call("ClientCreate", o, FALSE, "null")
        /\ UNCHANGED <<kind, stype, fd_, listen_fd_, file, owner, aborted>>
     \/ /\ FreeFds # {}
        /\ \/ /\ Opened(o, "client", t, LowestFree, FileOf(t))
              /\ Call("ClientCreate", o, TRUE, "socket")
              /\ UNCHANGED <<listen_fd_, aborted>>
           \/ /\ aborted' = TRUE /\ Call("ClientCreate", o, TRUE, "abort")
              /\ UNCHANGED <<kind, stype, fd_, listen_fd_, file, owner>>

\* Mutant: a failed Bind() or Connect() returns NULL without DestroySocket().
ClientSocketCreateBoundNoDestroy(o, t) ==
  /\ ~aborted /\ kind[o] = "none"
  /\ FreeFds # {}
  /\ file' = [file EXCEPT ![LowestFree] = FileOf(t)]
  /\ owner' = [owner EXCEPT ![LowestFree] = o]
  /\ Call("ClientCreateBound", o, TRUE, "null")
  /\ UNCHANGED <<kind, stype, fd_, listen_fd_, aborted>>

(***************************************************************************)
(* ClientSocket::Create(bindhost, bindport, connecthost, connectport,     *)
(* type, family): a failed Bind() or Connect() destroys the socket and    *)
(* returns NULL.                                                          *)
(***************************************************************************)
ClientSocketCreateBound(o, t) ==
  /\ ~aborted /\ kind[o] = "none"
  /\ \/ /\ Call("ClientCreateBound", o, FALSE, "null")
        /\ UNCHANGED <<kind, stype, fd_, listen_fd_, file, owner, aborted>>
     \/ /\ FreeFds # {}
        /\ \/ /\ Opened(o, "client", t, LowestFree, FileOf(t))
              /\ Call("ClientCreateBound", o, TRUE, "socket")
           \/ /\ Call("ClientCreateBound", o, TRUE, "null")
              /\ UNCHANGED <<kind, stype, fd_, file, owner>>
        /\ UNCHANGED <<listen_fd_, aborted>>

(***************************************************************************)
(* ListenSocket::Create(port, type, family) and ListenSocket::Start.  A   *)
(* failed socket() leaves fd_ = -1 and the ASSERT on setsockopt aborts;   *)
(* a failed SO_REUSEADDR, bind() or listen() destroys the socket and the  *)
(* final fd_ == -1 check LOG(FATAL)s.  So Create never returns NULL.      *)
(***************************************************************************)
ListenSocketCreate(o, t) ==
  /\ ~aborted /\ kind[o] = "none"
  /\ \/ /\ FreeFds # {}
        /\ Opened(o, "listen", t, LowestFree,
                  IF t = "TCP" THEN "stream_listen" ELSE "dgram")
        /\ Call("ListenCreate", o, TRUE, "socket")
        /\ UNCHANGED <<listen_fd_, aborted>>
     \/ /\ aborted' = TRUE /\ Call("ListenCreate", o, FALSE, "abort")
        /\ UNCHANGED <<kind, stype, fd_, listen_fd_, file, owner>>

(***************************************************************************)
(* ListenSocket::Accept.  A datagram listener constructs                  *)
(* AcceptedSocket(fd_, -1, ...): listen_fd_ is the listener's number and  *)
(* the accepted fd_ is -1.  A stream listener calls accept() on fd_,      *)
(* which succeeds only if that number is still a listening socket and a   *)
(* connection is pending (SO_RCVTIMEO bounds the wait); else NULL.        *)
(***************************************************************************)
Accept(l, a) ==
  /\ ~aborted /\ kind[l] = "listen" /\ kind[a] = "none"
  /\ IF stype[l] # "TCP"
       THEN /\ kind' = [kind EXCEPT ![a] = "accepted"]
            /\ stype' = [stype EXCEPT ![a] = stype[l]]
            /\ listen_fd_' = [listen_fd_ EXCEPT ![a] = fd_[l]]
            /\ Call("Accept", a, FALSE, "socket")
            /\ UNCHANGED <<fd_, file, owner>>
       ELSE \/ /\ file[fd_[l]] = "stream_listen" /\ FreeFds # {}
               /\ Opened(a, "accepted", "TCP", LowestFree, "stream_conn")
               /\ listen_fd_' = [listen_fd_ EXCEPT ![a] = fd_[l]]
               /\ Call("Accept", a, TRUE, "socket")
            \/ /\ Call("Accept", a, FALSE, "null")
               /\ UNCHANGED <<kind, stype, fd_, listen_fd_, file, owner>>
  /\ UNCHANGED aborted

(***************************************************************************)
(* RawSocket::Create(type, family) and the RawSocket constructor.  A      *)
(* failed socket() LOG(FATAL)s, as does a failed ICMPv6 filter on IPv6.   *)
(* Create then keeps the object only `if (socket->fd_ != 1)`; otherwise   *)
(* it deletes it, closing the descriptor, and returns NULL.               *)
(***************************************************************************)
\* RawSocket::Create keeps the new object `if (socket->fd_ != 1)`.
KeptByCreate(n) == n # 1

RawSocketConstruct(op, o, t, family) ==
  /\ ~aborted /\ kind[o] = "none"
  /\ \/ /\ aborted' = TRUE /\ Call(op, o, FALSE, "abort")
        /\ UNCHANGED <<kind, stype, fd_, listen_fd_, file, owner>>
     \/ /\ FreeFds # {}
        /\ family = "IPv6"
        /\ aborted' = TRUE /\ Call(op, o, TRUE, "abort")
        /\ UNCHANGED <<kind, stype, fd_, listen_fd_, file, owner>>
     \/ /\ FreeFds # {}
        /\ KeptByCreate(LowestFree)
        /\ Opened(o, "raw", t, LowestFree, "raw")
        /\ Call(op, o, TRUE, "socket")
        /\ UNCHANGED <<listen_fd_, aborted>>
     \/ /\ FreeFds # {}
        /\ ~KeptByCreate(LowestFree)
        /\ Call(op, o, TRUE, "null")
        /\ UNCHANGED <<kind, stype, fd_, listen_fd_, file, owner, aborted>>

RawSocketCreate(o, t, family) == RawSocketConstruct("RawCreate", o, t, family)

(* RawSocket::CreateOrDie(type, family): Create, and LOG(FATAL) when it   *)
(* returned NULL, which it does for a socket opened as descriptor 1.      *)
RawSocketCreateOrDie(o, t, family) ==
  \/ /\ RawSocketConstruct("RawCreateOrDie", o, t, family)
     /\ lastCall'.ret # "null"
  \/ /\ ~aborted /\ kind[o] = "none"
     /\ FreeFds # {} /\ ~KeptByCreate(LowestFree)
     /\ aborted' = TRUE /\ Call("RawCreateOrDie", o, TRUE, "null")
     /\ UNCHANGED <<kind, stype, fd_, listen_fd_, file, owner>>

\* Mutant: DestroySocket() closes fd_ but does not set it back to -1.
DestroySocketNoReset(o) ==
  /\ file' = Close(file, fd_[o])
  /\ fd_' = fd_

(***************************************************************************)
(* Socket::DestroySocket: close fd_ if it is not -1, then set it to -1.   *)
(***************************************************************************)
DestroySocket(o) ==
  /\ file' = Close(file, fd_[o])
  /\ fd_' = [fd_ EXCEPT ![o] = NoFd]

(* delete of a ClientSocket, ListenSocket or RawSocket: ~Socket.          *)
DeleteSocket(o) ==
  /\ ~aborted /\ kind[o] \in {"client", "listen", "raw"}
  /\ DestroySocket(o)
  /\ kind' = [kind EXCEPT ![o] = "deleted"]
  /\ owner' = OwnersAfter(file')
  /\ UNCHANGED <<stype, listen_fd_, lastCall, aborted>>

(* delete of an AcceptedSocket: ~AcceptedSocket closes listen_fd_ and     *)
(* sets it to -1, then ~Socket destroys fd_.                              *)
DeleteAccepted(o) ==
  /\ ~aborted /\ kind[o] = "accepted"
  /\ file' = Close(Close(file, listen_fd_[o]), fd_[o])
  /\ fd_' = [fd_ EXCEPT ![o] = NoFd]
  /\ listen_fd_' = [listen_fd_ EXCEPT ![o] = NoFd]
  /\ kind' = [kind EXCEPT ![o] = "deleted"]
  /\ owner' = OwnersAfter(file')
  /\ UNCHANGED <<stype, lastCall, aborted>>

\* After SIGABRT the process is gone, and a caller that has deleted every
\* object it made is done with the library: nothing more happens.
Terminated ==
  /\ aborted \/ \A o \in Objs : kind[o] = "deleted"
  /\ UNCHANGED vars

Next ==
  \/ \E o \in Objs, t \in {"TCP", "UDP"} :
       ClientSocketCreate(o, t) \/ ClientSocketCreateBound(o, t) \/ ListenSocketCreate(o, t)
  \/ \E l, a \in Objs : Accept(l, a)
  \/ \E o \in Objs, t \in {"RAW", "ICMP"}, f \in {"IPv4", "IPv6"} : RawSocketCreate(o, t, f)
                                                           \/ RawSocketCreateOrDie(o, t, f)
  \/ \E o \in Objs : DeleteSocket(o) \/ DeleteAccepted(o)
  \/ Terminated

Spec == Init /\ [][Next]_vars

-----------------------------------------------------------------------------
(* Every object has a well-formed shape: an object that is not constructed *)
(* or is deleted holds no descriptor.                                      *)
TypeOK ==
  /\ kind \in [Objs -> Kinds]
  /\ stype \in [Objs -> {"TCP", "UDP", "RAW", "ICMP"}]
  /\ fd_ \in [Objs -> Fds \cup {NoFd}]
  /\ listen_fd_ \in [Objs -> Fds \cup {NoFd}]
  /\ file \in [Fds -> Files]
  /\ owner \in [Fds -> Objs \cup {Stdio, NoOwner}]
  /\ aborted \in BOOLEAN
  /\ \A o \in Objs : kind[o] \in {"none", "deleted"} => fd_[o] = NoFd

(* No descriptor leaks: every socket descriptor the process has open was  *)
(* opened by an object that is still alive, on every success, failure and *)
(* destructor path of the four classes.                                    *)
NoLeak ==
  ~aborted =>
    \A n \in Fds : file[n] \notin {"free", "tty"} => Live(owner[n])

(* RawSocket::Create returns NULL only when no raw socket could be opened  *)
(* (spec 4.6 and 7(b)); a socket that was opened is returned.              *)
RawCreateNullOnlyOnFailure ==
  lastCall.op = "RawCreate" /\ lastCall.ret = "null" => ~lastCall.gotFd
=============================================================================
