----------------------------- MODULE HostConnect -----------------------------
(***************************************************************************)
(* A C caller's path from a name to a connected socket: mlab_ns_lookup_*  *)
(* builds Host(fqdn), whose constructor resolves the name with            *)
(* getaddrinfo(AF_UNSPEC, socktype 0); CreateHostnameListFromHost turns    *)
(* its resolved_ips, a std::set<std::string>, into a Hostname list; and    *)
(* mlab_connect_to* walks that list, building Host(ip_address) for an     *)
(* entry and calling ClientSocket::CreateOrDie on it.                     *)
(*                                                                         *)
(* mlab.h: mlab_connect_to "Returns the socket fd on success and -1 on    *)
(* failure".                                                              *)
(***************************************************************************)
EXTENDS Integers, Sequences, SequencesExt, FiniteSets

CONSTANTS
  Addrs,       \* the addresses the name may resolve to (model values)
  Family,      \* [Addrs -> Families]: the family of each address
  LexOrder,    \* Addrs as a sequence, in the order of their text (operator<
               \* of std::string)
  StdioOpen,   \* the possible sets of open standard descriptors
  MaxFd        \* descriptors 0..MaxFd

Families == {"IPv4", "IPv6"}
Types == {"TCP", "UDP"}
Fds == 0..MaxFd
NoAddr == "none"

\* getaddrinfo with ai_socktype 0 returns one addrinfo per socket type
\* (SOCK_STREAM, SOCK_DGRAM, SOCK_RAW) for each address, in an order of the
\* resolver's (RFC 6724 sorting, /etc/gai.conf): any order of any non-empty
\* set of the name's addresses.
SockTypesPerAddr == 3
Answers == SetToAllKPermutations(Addrs) \ {<<>>}

LexLess(a, b) == \E i, j \in DOMAIN LexOrder :
                   i < j /\ LexOrder[i] = a /\ LexOrder[j] = b

VARIABLES
  pc,          \* "lookup", "call", "done"
  host,        \* the Host ns:: returned: [sockaddr_, resolved_ips]
  list,        \* the ip_address of each entry of the Hostname list
  arg,         \* the connect_to call: [list, type, family]
  stdio,       \* the standard descriptors open in the process
  result,      \* what connect_to returned, a descriptor or -1, once pc is
               \* "done"
  peer,        \* the address the returned socket is connected to
  abortCause   \* "none", or what raised SIGABRT

vars == <<pc, host, list, arg, stdio, result, peer, abortCause>>

NoHost == [sockaddr_ |-> <<>>, resolved_ips |-> {}]

Running == abortCause = "none"

Abort(cause) == abortCause' = cause

\* Host::Host for a getaddrinfo answer ans: every addrinfo, an AF_INET or
\* AF_INET6 one (AF_UNSPEC returns no other), is pushed on sockaddr_, and its
\* text inserted into the set resolved_ips.
HostOf(ans) ==
  [sockaddr_ |-> FlattenSeq([i \in DOMAIN ans |-> [k \in 1..SockTypesPerAddr |-> ans[i]]]),
   resolved_ips |-> ToSet(ans)]

\* CreateHostnameListFromHost: one entry per element of resolved_ips, in the
\* set's iteration order, entry i linked to entry i + 1.
HostnameList(h) == SetToSortSeq(h.resolved_ips, LexLess)

Init ==
  /\ pc = "lookup"
  /\ host = NoHost /\ list = <<>>
  /\ arg = [list |-> <<>>, type |-> "TCP", family |-> "IPv4"]
  /\ stdio \in StdioOpen
  /\ result = -1 /\ peer = NoAddr
  /\ abortCause = "none"

(***************************************************************************)
(* mlab_ns_lookup_*: Host(fqdn) of the mlab-ns answer, whose getaddrinfo  *)
(* failure is LOG(FATAL), then CreateHostnameListFromHost.  (The rest of  *)
(* the lookup, http::Get and ParseResponse, is NsHostFails in MlabCApi.)  *)
(***************************************************************************)
NsLookup ==
  /\ Running /\ pc = "lookup"
  /\ \/ /\ Abort("resolve")
        /\ UNCHANGED <<pc, host, list, arg, stdio, result, peer>>
     \/ \E ans \in Answers :
          /\ host' = HostOf(ans)
          /\ list' = HostnameList(host')
          /\ pc' = "call"
          /\ UNCHANGED <<arg, stdio, result, peer, abortCause>>

\* Host(hostname->ip_address): getaddrinfo of a numeric address returns
\* that address alone.  The entry's ip_address points into a set node of the
\* Host the lookup destroyed (ListPointsToLiveMemory in MlabCApi).  Freeing
\* the node overwrites only its first 16 bytes, the tree links; an address
\* of at most 15 characters, as all of Addrs are, lies in the string's own
\* buffer beyond them, and nothing allocates before std::string copies it,
\* so this build reads the text back as it was.
EntryHost(e) == HostOf(<<e>>)

\* The first record of family f in Host h's sockaddr_, the one Connect tries
\* first; NoAddr if there is none.
FirstOfFamily(h, f) ==
  LET recs == SelectSeq(h.sockaddr_, LAMBDA a : Family[a] = f)
  IN IF recs = <<>> THEN NoAddr ELSE recs[1]

LowestFree == CHOOSE n \in Fds \ stdio : \A m \in Fds \ stdio : n <= m

(***************************************************************************)
(* ClientSocket::CreateOrDie(Host(e), port, type, family), all four forms *)
(* (type defaults to TCP, family to IPv4).  socket() failing makes Create *)
(* return NULL and CreateOrDie LOG(FATAL); Connect() ASSERTs fd_ != 1;    *)
(* it skips every record of another family and tries connect() on each    *)
(* record of the socket's; if none connects, Create destroys the socket   *)
(* and LOG(FATAL)s.  A stream connect() may be refused; a datagram        *)
(* connect() only records the peer.                                       *)
(***************************************************************************)
CreateOrDieOn(e, t, f) ==
  LET h == EntryHost(e)
      target == FirstOfFamily(h, f)
  IN \/ /\ \/ Abort("socket")
           \/ LowestFree = 1 /\ Abort("assert")
           \/ /\ LowestFree # 1
              /\ target = NoAddr \/ t = "TCP"
              /\ Abort("connect")
        /\ UNCHANGED <<pc, host, list, stdio, result, peer>>
     \/ /\ LowestFree # 1 /\ target # NoAddr
        /\ result' = LowestFree /\ peer' = target
        /\ pc' = "done"
        /\ UNCHANGED <<host, list, stdio, abortCause>>

(***************************************************************************)
(* mlab_connect_to*(hostname, port[, type][, family]) on the list a lookup *)
(* returned, or on NULL.  `while (hostname != 0)`: CreateOrDie on the     *)
(* entry; it never returns NULL and Create only returns a socket with     *)
(* fd_ != -1, so `socket->raw() != -1` holds, the socket is pushed on     *)
(* sockets and its fd returned: the loop never reaches hostname->next.    *)
(***************************************************************************)
ConnectTo(l, t, f) ==
  /\ Running /\ pc = "call"
  /\ \/ /\ l = <<>>
        /\ result' = -1 /\ pc' = "done"
        /\ UNCHANGED <<host, list, stdio, peer, abortCause>>
     \/ /\ l # <<>>
        /\ CreateOrDieOn(l[1], t, f)
  /\ arg' = [list |-> l, type |-> t, family |-> f]

\* The caller's last call returned, or the process aborted.
Terminated == /\ pc = "done" \/ ~Running
              /\ UNCHANGED vars

Next ==
  \/ NsLookup
  \/ \E l \in {list, <<>>}, t \in Types, f \in Families : ConnectTo(l, t, f)
  \/ Terminated

Spec == Init /\ [][Next]_vars

-----------------------------------------------------------------------------
FallsBackToNextEntry ==
  abortCause = "connect" => Len(arg.list) <= 1
=============================================================================
