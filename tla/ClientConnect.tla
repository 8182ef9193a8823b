---------------------------- MODULE ClientConnect ----------------------------
(***************************************************************************)
(* ClientSocket::Connect and ClientSocket::Bind: the first-match loop     *)
(* over a Host's sockaddr_ list.  A record of another family is skipped;  *)
(* for a matching one the port is written into the record itself (through *)
(* const_cast on the const Host&) and connect() is called, again while it *)
(* fails with EINTR, or bind() once.  The first success returns true; the *)
(* end of the list returns false.                                         *)
(*                                                                         *)
(* Several caller threads may run the loop at once, each on its own      *)
(* socket, on the same Host object or on copies of it.  connect() follows *)
(* POSIX: interrupted by a signal it fails with EINTR and the connection  *)
(* goes on in the background; a later connect() on that socket fails with *)
(* EALREADY while it is in progress and EISCONN once it is established.  *)
(***************************************************************************)
EXTENDS Integers, Sequences, FiniteSets

CONSTANTS
  Threads,     \* caller threads, each with one socket
  Records,     \* the families of the Host's sockaddr_, in resolver order
  Family,      \* Family[t]: the family_ of thread t's socket
  Op,          \* Op[t]: "connect" or "bind"
  Port,        \* Port[t]: the port thread t passes
  SharedHost,  \* TRUE: all threads pass the same Host object
  Signals      \* TRUE: a signal may interrupt a blocking connect()

ASSUME /\ Records \in Seq({"IPv4", "IPv6"})
       /\ SharedHost \in BOOLEAN /\ Signals \in BOOLEAN

N == Len(Records)
Idx == 1..N
NoPort == 0

\* htons() on a little-endian host: the two bytes of a 16-bit port swapped.
\* sin_port holds the port in network order; the kernel reads it back.
Htons(p) == (p % 256) * 256 + p \div 256
Ntohs(p) == Htons(p)

\* The Host object thread t's loop walks.
HostOf(t) == IF SharedHost THEN CHOOSE u \in Threads : TRUE ELSE t

VARIABLES
  sin_port,    \* sin_port[h][i]: the port field of record i of Host h
  pc,          \* "loop", "call", "retry", "done"
  addr_it,     \* the loop's iterator, an index into Records
  sock,        \* thread t's socket in the kernel: "idle", "connecting",
               \* "connected", "bound"
  peer,        \* the record and port it connected or bound to
  ret,         \* what Connect/Bind returned: "none", "true", "false"
  tried        \* ghost: the records the loop called connect()/bind() on

vars == <<sin_port, pc, addr_it, sock, peer, ret, tried>>

NoPeer == [rec |-> 0, port |-> NoPort]

Init ==
  /\ sin_port = [h \in Threads |-> [i \in Idx |-> NoPort]]
  /\ pc = [t \in Threads |-> "loop"]
  /\ addr_it = [t \in Threads |-> 1]
  /\ sock = [t \in Threads |-> "idle"]
  /\ peer = [t \in Threads |-> NoPeer]
  /\ ret = [t \in Threads |-> "none"]
  /\ tried = [t \in Threads |-> {}]

Goto(t, l) == pc' = [pc EXCEPT ![t] = l]
Advance(t) == /\ addr_it' = [addr_it EXCEPT ![t] = @ + 1]
              /\ Goto(t, "loop")

\* Mutant: the port is stored in host byte order, without htons().
LoopHeadNoHtons(t) ==
  /\ pc[t] = "loop"
  /\ \/ /\ addr_it[t] > N
        /\ ret' = [ret EXCEPT ![t] = "false"]
        /\ Goto(t, "done")
        /\ UNCHANGED <<sin_port, addr_it>>
     \/ /\ addr_it[t] <= N /\ Records[addr_it[t]] # Family[t]
        /\ Advance(t)
        /\ UNCHANGED <<sin_port, ret>>
     \/ /\ addr_it[t] <= N /\ Records[addr_it[t]] = Family[t]
        /\ sin_port' = [sin_port EXCEPT ![HostOf(t)][addr_it[t]] = Port[t]]
        /\ Goto(t, "call")
        /\ UNCHANGED <<addr_it, ret>>
  /\ UNCHANGED <<sock, peer, tried>>

\* Mutant: the family test is dropped, every record goes to the call.
LoopHeadNoFamilyCheck(t) ==
  /\ pc[t] = "loop"
  /\ \/ /\ addr_it[t] > N
        /\ ret' = [ret EXCEPT ![t] = "false"]
        /\ Goto(t, "done")
        /\ UNCHANGED <<sin_port, addr_it>>
     \/ /\ addr_it[t] <= N
        /\ sin_port' = [sin_port EXCEPT ![HostOf(t)][addr_it[t]] = Htons(Port[t])]
        /\ Goto(t, "call")
        /\ UNCHANGED <<addr_it, ret>>
  /\ UNCHANGED <<sock, peer, tried>>

\* Mutant: the retry loop spins while connect() returns -1, whatever errno.
ConnectRetryAnyError(t) ==
  /\ pc[t] = "retry"
  /\ UNCHANGED vars

(* The loop head: at the end return false; skip a record of another       *)
(* family; otherwise set its port (htons(port)) and go to the call.       *)
LoopHead(t) ==
  /\ pc[t] = "loop"
  /\ \/ /\ addr_it[t] > N
        /\ ret' = [ret EXCEPT ![t] = "false"]
        /\ Goto(t, "done")
        /\ UNCHANGED <<sin_port, addr_it>>
     \/ /\ addr_it[t] <= N /\ Records[addr_it[t]] # Family[t]
        /\ Advance(t)
        /\ UNCHANGED <<sin_port, ret>>
     \/ /\ addr_it[t] <= N /\ Records[addr_it[t]] = Family[t]
        /\ sin_port' = [sin_port EXCEPT ![HostOf(t)][addr_it[t]] = Htons(Port[t])]
        /\ Goto(t, "call")
        /\ UNCHANGED <<addr_it, ret>>
  /\ UNCHANGED <<sock, peer, tried>>

Succeed(t) ==
  /\ ret' = [ret EXCEPT ![t] = "true"]
  /\ Goto(t, "done")
  /\ UNCHANGED addr_it

\* The record and port the call reads from the Host now.
Target(t) == [rec |-> addr_it[t], port |-> Ntohs(sin_port[HostOf(t)][addr_it[t]])]

(* connect(fd_, saddr, addrlen) on an idle socket: it connects, is        *)
(* refused (next record), or is interrupted and retried.                  *)
ConnectCall(t) ==
  /\ pc[t] = "call" /\ Op[t] = "connect" /\ sock[t] = "idle"
  /\ tried' = [tried EXCEPT ![t] = @ \cup {addr_it[t]}]
  /\ \/ /\ sock' = [sock EXCEPT ![t] = "connected"]
        /\ peer' = [peer EXCEPT ![t] = Target(t)]
        /\ Succeed(t)
     \/ /\ Advance(t)
        /\ UNCHANGED <<sock, peer, ret>>
     \/ /\ Signals
        /\ sock' = [sock EXCEPT ![t] = "connecting"]
        /\ peer' = [peer EXCEPT ![t] = Target(t)]
        /\ Goto(t, "retry")
        /\ UNCHANGED <<addr_it, ret>>
  /\ UNCHANGED sin_port

(* The `while (... == -1 && errno == EINTR)` retry: a connection still in *)
(* progress fails with EALREADY and one already made with EISCONN; both   *)
(* end the retry loop with -1 and the loop moves to the next record.      *)
ConnectRetry(t) ==
  /\ pc[t] = "retry"
  /\ Advance(t)
  /\ UNCHANGED <<sin_port, sock, peer, ret, tried>>

(* The kernel completes a connection left in progress by an interrupted   *)
(* connect(), or it fails and the socket is idle again.                   *)
ConnectCompletes(t) ==
  /\ sock[t] = "connecting"
  /\ \/ /\ sock' = [sock EXCEPT ![t] = "connected"]
        /\ UNCHANGED peer
     \/ /\ sock' = [sock EXCEPT ![t] = "idle"]
        /\ peer' = [peer EXCEPT ![t] = NoPeer]
  /\ UNCHANGED <<sin_port, pc, addr_it, ret, tried>>

(* A connect() on a socket that is connecting or connected fails at once. *)
ConnectBusy(t) ==
  /\ pc[t] = "call" /\ Op[t] = "connect" /\ sock[t] # "idle"
  /\ tried' = [tried EXCEPT ![t] = @ \cup {addr_it[t]}]
  /\ Advance(t)
  /\ UNCHANGED <<sin_port, sock, peer, ret>>

(* bind(fd_, saddr, addrlen), not retried: it binds or fails.             *)
BindCall(t) ==
  /\ pc[t] = "call" /\ Op[t] = "bind"
  /\ tried' = [tried EXCEPT ![t] = @ \cup {addr_it[t]}]
  /\ \/ /\ sock' = [sock EXCEPT ![t] = "bound"]
        /\ peer' = [peer EXCEPT ![t] = Target(t)]
        /\ Succeed(t)
     \/ /\ Advance(t)
        /\ UNCHANGED <<sock, peer, ret>>
  /\ UNCHANGED sin_port

Terminated ==
  /\ \A t \in Threads : pc[t] = "done" /\ sock[t] # "connecting"
  /\ UNCHANGED vars

Next ==
  \/ \E t \in Threads :
       \/ LoopHead(t) \/ ConnectCall(t) \/ ConnectRetry(t) \/ ConnectBusy(t)
       \/ ConnectCompletes(t) \/ BindCall(t)
  \/ Terminated

\* Each caller thread is scheduled, and the kernel finishes a handshake.
Fairness == \A t \in Threads :
  /\ WF_vars(LoopHead(t)) /\ WF_vars(ConnectCall(t)) /\ WF_vars(ConnectRetry(t))
  /\ WF_vars(ConnectBusy(t)) /\ WF_vars(ConnectCompletes(t)) /\ WF_vars(BindCall(t))

Spec == Init /\ [][Next]_vars /\ Fairness

-----------------------------------------------------------------------------
(* Every variable holds a value of its type.                               *)
TypeOK ==
  /\ sin_port \in [Threads -> [Idx -> {NoPort} \cup {Htons(Port[t]) : t \in Threads}]]
  /\ pc \in [Threads -> {"loop", "call", "retry", "done"}]
  /\ addr_it \in [Threads -> 1..N + 1]
  /\ sock \in [Threads -> {"idle", "connecting", "connected", "bound"}]
  /\ ret \in [Threads -> {"none", "true", "false"}]
  /\ tried \in [Threads -> SUBSET Idx]

(* First match by family (spec 4.3, 8): the loop only ever calls connect() *)
(* or bind() on records of the socket's own family, and when it returns    *)
(* true it is attached to the first such record that did not fail.         *)
FirstMatchByFamily ==
  \A t \in Threads :
    /\ \A i \in tried[t] : Records[i] = Family[t]
    /\ ret[t] = "true" =>
         /\ Records[peer[t].rec] = Family[t]
         /\ \A i \in Idx : i < peer[t].rec /\ Records[i] = Family[t] => i \in tried[t]

(* Each connection or binding is to the port its own caller passed.  The   *)
(* spec says a Host is immutable after construction.  It says something    *)
(* only when two threads share one Host (SharedHost = TRUE), where Connect *)
(* writes each thread's port into the same record; no run checks it.      *)
PortAsRequested ==
  \A t \in Threads : sock[t] \in {"connected", "bound"} => peer[t].port = Port[t]

\* The refinement mapping: what a caller can see of a call is what it
\* returned and, when that is true, the record and port the socket is on.
Selection == INSTANCE AddressSelection WITH
  result <- ret,
  attached <- [t \in Threads |-> IF ret[t] = "true" THEN peer[t] ELSE NoPeer]

(* Connect and Bind implement AddressSelection: each call returns exactly  *)
(* once (the EINTR retry never spins for ever), true only attached to a    *)
(* record of its family at its own port, whatever the other thread does.   *)
ImplementsAddressSelection == Selection!Spec
=============================================================================
