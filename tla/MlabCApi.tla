------------------------------- MODULE MlabCApi -------------------------------
(***************************************************************************)
(* The C API of mlab.cc over its process-wide std::vector<Socket*>        *)
(* sockets.  A C caller gets descriptor numbers back and passes them in:  *)
(* mlab_send and mlab_recv act on the first socket in the vector whose    *)
(* raw() equals the number; mlab_shutdown deletes the sockets in vector   *)
(* order and clears it.                                                    *)
(*                                                                         *)
(* mlab.h: mlab_listen_on and mlab_connect_to return "the socket fd on    *)
(* success and -1 on failure"; mlab_send and mlab_recv return a byte      *)
(* count "on success and -1 on failure".                                  *)
(***************************************************************************)
EXTENDS Integers, Sequences, FiniteSets

CONSTANTS
  MaxFd,       \* descriptors 0..MaxFd; 0, 1 and 2 are stdio
  MaxCalls,    \* the number of C API calls a behaviour makes
  MaxIps       \* the most distinct addresses an mlab-ns answer resolves to

Fds == 0..MaxFd
Stdio == {0, 1, 2}
NoFd == -1
Types == {"TCP", "UDP"}

VARIABLES
  sockets,     \* the vector: <<[cls, fd, lfd]>>, cls "listen", "accepted", "client"
  file,        \* the kernel descriptor table: "tty", "sock" or "free"
  handles,     \* the numbers listen_on / connect_to returned since the
               \* last shutdown: [h, by]
  returned,    \* every number they ever returned, which a caller may still
               \* pass after mlab_shutdown
  abortCause,  \* "none", or what raised SIGABRT: "fatal" in a non-OrDie
               \* call, "ordie" in an *ordie call, "sysassert" on a system
               \* call's result, "assert" on the library's own state
  calls,       \* C API calls made so far
  hostnames,   \* the vector std::vector<Hostname*> hostnames: the call
               \* numbers of the lookups whose list it holds
  mem,         \* heap blocks: the list a lookup malloc'd and the Host its
               \* entries' strings live in: "none", "live" or "freed"
  given        \* the Hostname lists handed to the caller: [n, next]

heapVars == <<hostnames, mem, given>>
vars == <<sockets, file, handles, returned, abortCause, calls, heapVars>>

Blocks == {"list", "host"} \X (1..MaxCalls)

FreeFds == {n \in Fds : file[n] = "free"}
LowestFree == CHOOSE n \in FreeFds : \A m \in FreeFds : n <= m
Close(f, n) == IF n \in Fds THEN [f EXCEPT ![n] = "free"] ELSE f
Sock(c, n, l) == [cls |-> c, fd |-> n, lfd |-> l]

Init ==
  /\ sockets = <<>>
  /\ file = [n \in Fds |-> IF n \in Stdio THEN "tty" ELSE "free"]
  /\ handles = {} /\ returned = {}
  /\ abortCause = "none"
  /\ calls = 0
  /\ hostnames = <<>>
  /\ mem = [b \in Blocks |-> "none"]
  /\ given = {}

Call == /\ abortCause = "none" /\ calls < MaxCalls
        /\ calls' = calls + 1

Abort(cause) == /\ abortCause' = cause
                /\ UNCHANGED <<sockets, file, handles, returned, heapVars>>

Returned(h, by) == /\ handles' = handles \cup {[h |-> h, by |-> by]}
                   /\ returned' = returned \cup {h}

\* Delete the sockets s[i..] in order: close listen_fd_ (an AcceptedSocket),
\* then fd_.  close(-1) fails with EBADF and changes nothing.
RECURSIVE DeleteAll(_, _, _)
DeleteAll(f, s, i) ==
  IF i > Len(s) THEN f ELSE DeleteAll(Close(Close(f, s[i].lfd), s[i].fd), s, i + 1)

\* The pushes and the result of AcceptAndStore for a listener l of type t
\* (f1: the table once the listener holds l).
\* Mutant: AcceptAndStore returns accepted->raw() instead of socket->raw().
AcceptAndStoreReturnsAccepted(t, l, f1) ==
  LET free1 == {n \in Fds : f1[n] = "free"}
  IN \/ /\ t = "UDP"
        /\ sockets' = sockets \o <<Sock("listen", l, NoFd), Sock("accepted", NoFd, l)>>
        /\ file' = f1
        /\ Returned(NoFd, "listen")
     \/ /\ t = "TCP" /\ free1 # {}
        /\ LET a == CHOOSE n \in free1 : \A m \in free1 : n <= m
           IN /\ sockets' = sockets \o <<Sock("listen", l, NoFd), Sock("accepted", a, l)>>
              /\ file' = [f1 EXCEPT ![a] = "sock"]
              /\ Returned(a, "listen")
     \/ /\ t = "TCP"
        /\ sockets' = Append(sockets, Sock("listen", l, NoFd))
        /\ file' = f1
        /\ UNCHANGED <<handles, returned>>

\* Mutant: AcceptAndStore pushes the listener only once Accept succeeded.
AcceptAndStoreLatePush(t, l, f1) ==
  LET free1 == {n \in Fds : f1[n] = "free"}
  IN \/ /\ t = "UDP"
        /\ sockets' = sockets \o <<Sock("listen", l, NoFd), Sock("accepted", NoFd, l)>>
        /\ file' = f1
        /\ Returned(l, "listen")
     \/ /\ t = "TCP" /\ free1 # {}
        /\ LET a == CHOOSE n \in free1 : \A m \in free1 : n <= m
           IN /\ sockets' = sockets \o <<Sock("listen", l, NoFd), Sock("accepted", a, l)>>
              /\ file' = [f1 EXCEPT ![a] = "sock"]
        /\ Returned(l, "listen")
     \/ /\ t = "TCP"
        /\ file' = f1
        /\ UNCHANGED <<sockets, handles, returned>>

(***************************************************************************)
(* AcceptAndStore: push the listener, Accept() (a datagram listener makes *)
(* AcceptedSocket(fd_, -1); a stream one accept()s, which may fail, e.g.  *)
(* on the 5 s SO_RCVTIMEO, and then -1 is returned), push the accepted    *)
(* socket and return the listener's raw().                                *)
(***************************************************************************)
AcceptAndStore(t, l, f1) ==
  LET free1 == {n \in Fds : f1[n] = "free"}
  IN \/ /\ t = "UDP"
        /\ sockets' = sockets \o <<Sock("listen", l, NoFd), Sock("accepted", NoFd, l)>>
        /\ file' = f1
        /\ Returned(l, "listen")
     \/ /\ t = "TCP" /\ free1 # {}
        /\ LET a == CHOOSE n \in free1 : \A m \in free1 : n <= m
           IN /\ sockets' = sockets \o <<Sock("listen", l, NoFd), Sock("accepted", a, l)>>
              /\ file' = [f1 EXCEPT ![a] = "sock"]
        /\ Returned(l, "listen")
     \/ /\ t = "TCP"
        /\ sockets' = Append(sockets, Sock("listen", l, NoFd))
        /\ file' = f1
        /\ UNCHANGED <<handles, returned>>

\* ListenSocket::CreateOrDie: a failed socket() trips Start's ASSERT on
\* setsockopt(fd_ = -1, SO_RCVTIMEO); a failed bind() or listen() ends in
\* Start's LOG(FATAL).
ListenCreateFails == Abort("sysassert") \/ Abort("fatal")

(* mlab_listen_on*: ListenSocket::CreateOrDie (any failure of socket(),   *)
(* bind() or listen() is fatal), then AcceptAndStore.                     *)
ListenOn(t) ==
  /\ Call /\ UNCHANGED heapVars
  /\ \/ ListenCreateFails
     \/ /\ FreeFds # {}
        /\ AcceptAndStore(t, LowestFree, [file EXCEPT ![LowestFree] = "sock"])
        /\ UNCHANGED abortCause

\* ClientSocket::CreateOrDie: Create returns NULL when socket() fails and
\* LOG(FATAL)s itself when Connect() fails; CreateOrDie LOG(FATAL)s on NULL.
ClientCreateFails == Abort("fatal")

(***************************************************************************)
(* mlab_connect_to: for the first Hostname, ClientSocket::CreateOrDie     *)
(* (Host(ip_address)): a failed socket() makes Create return NULL and     *)
(* CreateOrDie LOG(FATAL)s; a failed Connect() makes Create itself        *)
(* LOG(FATAL).  So `socket->raw() != -1` always holds and the loop never  *)
(* reaches the next Hostname.  An empty list returns -1.                  *)
(***************************************************************************)
ConnectTo(empty) ==
  /\ Call /\ UNCHANGED heapVars
  /\ IF empty
       THEN UNCHANGED <<sockets, file, handles, returned, abortCause>>
       ELSE \/ ClientCreateFails
            \/ /\ FreeFds # {}
               /\ sockets' = Append(sockets, Sock("client", LowestFree, NoFd))
               /\ file' = [file EXCEPT ![LowestFree] = "sock"]
               /\ Returned(LowestFree, "connect")
               /\ UNCHANGED abortCause

\* The index of the first socket in the vector whose raw() is h, or 0.
Find(h) == IF \E i \in DOMAIN sockets : sockets[i].fd = h
             THEN CHOOSE i \in DOMAIN sockets :
                    sockets[i].fd = h /\ \A j \in 1..i - 1 : sockets[j].fd # h
             ELSE 0

\* ListenSocket::Send and ListenSocket::Receive are ASSERT(false).
ListenSendReceive == Abort("assert")

(***************************************************************************)
(* mlab_send / mlab_recv (and the *ordie forms, fatal on a negative       *)
(* result): no socket with raw() == h returns -1; ListenSocket::Send and  *)
(* Receive are ASSERT(false); the Send and Receive of an AcceptedSocket   *)
(* ASSERT(fd_ != -1); otherwise the system call returns a count or -1.    *)
(***************************************************************************)
SendRecv(h, orDie) ==
  /\ Call /\ UNCHANGED heapVars
  /\ LET i == Find(h) IN
       \/ /\ i = 0
          /\ IF orDie THEN Abort("ordie") ELSE UNCHANGED <<sockets, file, handles, returned, abortCause>>
       \/ /\ i # 0 /\ sockets[i].cls = "listen"
          /\ ListenSendReceive
       \/ /\ i # 0 /\ sockets[i].cls # "listen" /\ sockets[i].fd = NoFd
          /\ Abort("assert")
       \/ /\ i # 0 /\ sockets[i].cls # "listen" /\ sockets[i].fd # NoFd
          /\ \/ UNCHANGED <<sockets, file, handles, returned, abortCause>>
             \/ /\ orDie
                /\ Abort("ordie")

-----------------------------------------------------------------------------
(***************************************************************************)
(* The mlab_ns_lookup_* functions, and the Hostname lists they return.    *)
(***************************************************************************)

\* The next pointers CreateHostnameListFromHost writes for a list of k
\* entries: entry i (0-based i - 1) links to entry i + 1 while
\* i - 1 < size() - 1, and the last entry's next is 0.
\* Mutant: the loop tests i < size() instead of i < size() - 1.
LinksPastEnd(k) == [i \in 1..k |-> IF i - 1 < k THEN i + 1 ELSE 0]

Links(k) == [i \in 1..k |-> IF i - 1 < k - 1 THEN i + 1 ELSE 0]

\* ns::GetHostFor...WithPolicy: http::Get (ClientSocket::CreateOrDie,
\* SendOrDie, one ReceiveOrDie of 2048 bytes), ParseResponse (a status
\* other than 200 OK, an unexpected Content-Type or AppId, or JSON that does
\* not parse) and Host(fqdn) all LOG(FATAL) on failure.
NsHostFails == Abort("fatal")

(* CreateHostnameListFromHost for lookup n, whose Host resolved k          *)
(* distinct IPs: malloc the list, one entry per IP, with hostname and      *)
(* ip_address c_str() pointers into the Host, link it, push it on          *)
(* hostnames and return it to the caller (m: the heap as the caller then   *)
(* finds it).                                                              *)
CreateHostnameListFromHost(n, k, m) ==
  /\ mem' = [m EXCEPT ![<<"list", n>>] = "live"]
  /\ hostnames' = Append(hostnames, n)
  /\ given' = given \cup {[n |-> n, next |-> Links(k)]}

(***************************************************************************)
(* mlab_ns_lookup_*(tool, ...): CreateHostnameListFromHost on the Host     *)
(* ns:: returned by value.  That Host is a temporary: it is destroyed at  *)
(* the end of the full expression, as the lookup returns.                 *)
(***************************************************************************)
NsLookup ==
  /\ Call
  /\ UNCHANGED <<sockets, file, handles, returned>>
  /\ \/ NsHostFails
     \/ \E k \in 1..MaxIps :
          LET n == calls + 1 IN
          /\ CreateHostnameListFromHost(n, k, [mem EXCEPT ![<<"host", n>>] = "freed"])
          /\ UNCHANGED abortCause

\* free() of every list in hostnames; glibc aborts on a block that is not
\* live (a double free).
FreeLists(hs) ==
  IF \E i \in DOMAIN hs : mem[<<"list", hs[i]>>] # "live"
    THEN /\ abortCause' = "heap" /\ UNCHANGED mem
    ELSE /\ mem' = [b \in Blocks |->
                      IF b[1] = "list" /\ \E i \in DOMAIN hs : hs[i] = b[2]
                        THEN "freed" ELSE mem[b]]
         /\ UNCHANGED abortCause

\* Mutant: mlab_shutdown frees the lists but does not clear hostnames.
ShutdownKeepsHostnames ==
  /\ Call
  /\ FreeLists(hostnames)
  /\ file' = DeleteAll(file, sockets, 1)
  /\ sockets' = <<>>
  /\ handles' = {}
  /\ UNCHANGED <<returned, hostnames, given>>

\* Mutant: mlab_shutdown deletes the sockets but does not clear the vector.
ShutdownNoClear ==
  /\ Call
  /\ FreeLists(hostnames) /\ hostnames' = <<>>
  /\ file' = DeleteAll(file, sockets, 1)
  /\ handles' = {}
  /\ UNCHANGED <<sockets, returned, given>>

(***************************************************************************)
(* mlab_shutdown: free() every Hostname list and clear hostnames, then    *)
(* delete every socket in vector order (an AcceptedSocket closes          *)
(* listen_fd_, then ~Socket closes fd_) and clear sockets.                *)
(***************************************************************************)
Shutdown ==
  /\ Call
  /\ FreeLists(hostnames) /\ hostnames' = <<>>
  /\ file' = DeleteAll(file, sockets, 1)
  /\ sockets' = <<>>
  /\ handles' = {}
  /\ UNCHANGED <<returned, given>>

\* The process aborted, or the caller made its last call.
Terminated ==
  /\ abortCause # "none" \/ calls = MaxCalls
  /\ UNCHANGED vars

Next ==
  \/ \E t \in Types : ListenOn(t)
  \/ \E e \in BOOLEAN : ConnectTo(e)
  \/ \E h \in returned, o \in BOOLEAN : SendRecv(h, o)
  \/ NsLookup
  \/ Shutdown
  \/ Terminated

Spec == Init /\ [][Next]_vars

-----------------------------------------------------------------------------
(* Every variable holds a value of its type.                               *)
TypeOK ==
  /\ sockets \in Seq([cls : {"listen", "accepted", "client"},
                      fd : Fds \cup {NoFd}, lfd : Fds \cup {NoFd}])
  /\ file \in [Fds -> {"tty", "sock", "free"}]
  /\ handles \subseteq [h : Fds, by : {"listen", "connect"}]
  /\ returned \subseteq Fds
  /\ abortCause \in {"none", "fatal", "ordie", "sysassert", "assert", "heap"}
  /\ calls \in 0..MaxCalls
  /\ hostnames \in Seq(1..MaxCalls)
  /\ mem \in [Blocks -> {"none", "live", "freed"}]
  /\ given \subseteq [n : 1..MaxCalls, next : Seq(Nat)]

(* A number mlab_connect_to returned names, for mlab_send and mlab_recv,   *)
(* the ClientSocket it was returned for, across later listen_on,           *)
(* connect_to and shutdown calls that reuse descriptor numbers.            *)
HandleNamesItsSocket ==
  \A x \in handles :
    x.by = "connect" => Find(x.h) # 0 /\ sockets[Find(x.h)].cls = "client"

(* mlab_shutdown leaves no descriptor the API opened open, whatever        *)
(* listen_on (with a failed Accept too) and connect_to calls came before.  *)
(* mlab.h, "Frees any memory allocated by calls to the above methods":     *)
(* once mlab_shutdown emptied the vectors, no list it malloc'd is live.    *)
ShutdownReleasesAll ==
  sockets = <<>> /\ hostnames = <<>> =>
    /\ \A n \in Fds \ Stdio : file[n] = "free"
    /\ \A b \in Blocks : b[1] = "list" => mem[b] # "live"

(* mlab_shutdown called again, or after more lookups, never frees a        *)
(* Hostname list a previous mlab_shutdown freed (glibc would abort).       *)
NoDoubleFree == abortCause # "heap"

\* The entries met following next from the head of list nx: it stops at a
\* 0 pointer, at a pointer outside the block, or after Len(nx) + 1 steps.
RECURSIVE Chain(_, _, _)
Chain(nx, i, steps) ==
  IF i = 0 \/ steps > Len(nx) THEN <<>>
  ELSE <<i>> \o (IF i \in DOMAIN nx THEN Chain(nx, nx[i], steps + 1) ELSE <<>>)

(* mlab.h: a lookup returns "a zero-terminated linked list of resolved IP  *)
(* addresses": following next from the head meets every entry of the      *)
(* malloc'd block once and then a 0, never a pointer past the block.       *)
HostnameListZeroTerminated ==
  \A g \in given :
    LET c == Chain(g.next, 1, 0)
    IN Len(c) = Len(g.next) /\ \A i \in 1..Len(c) : c[i] = i

(* The hostname and ip_address strings of a Hostname list the caller still *)
(* holds (mlab_shutdown has not freed it) are live memory, so the caller   *)
(* can read them and pass the list to mlab_connect_to.                     *)
ListPointsToLiveMemory ==
  \A g \in given :
    mem[<<"list", g.n>>] = "live" => mem[<<"host", g.n>>] = "live"

(* mlab_send and mlab_recv on a number mlab_listen_on or mlab_connect_to   *)
(* returned give a count or -1 (mlab.h); no ASSERT fires.                  *)
SendRecvNeverAsserts == abortCause # "assert"
=============================================================================
