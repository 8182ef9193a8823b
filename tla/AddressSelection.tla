-------------------------- MODULE AddressSelection --------------------------
(***************************************************************************)
(* What ClientSocket::Connect and Bind promise their callers, one call per *)
(* thread, whatever the other threads do: the call returns once, either    *)
(* true, with the socket attached to a record of its own family at the     *)
(* port the caller passed, or false.                                       *)
(***************************************************************************)
EXTENDS Integers, Sequences

CONSTANTS Threads, Records, Family, Port

VARIABLES
  result,      \* result[t]: "none" until thread t's call returns
  attached     \* attached[t]: the record and port the call attached to

NoAttach == [rec |-> 0, port |-> 0]

Init == /\ result = [t \in Threads |-> "none"]
        /\ attached = [t \in Threads |-> NoAttach]

\* The call returns true, attached to a record of its family.
Attach(t) ==
  /\ result[t] = "none"
  /\ \E i \in DOMAIN Records :
       /\ Records[i] = Family[t]
       /\ attached' = [attached EXCEPT ![t] = [rec |-> i, port |-> Port[t]]]
  /\ result' = [result EXCEPT ![t] = "true"]

\* The call returns false.
GiveUp(t) ==
  /\ result[t] = "none"
  /\ result' = [result EXCEPT ![t] = "false"]
  /\ UNCHANGED attached

Next == \E t \in Threads : Attach(t) \/ GiveUp(t)

\* Every call returns.
Spec == /\ Init /\ [][Next]_<<result, attached>>
        /\ \A t \in Threads : WF_<<result, attached>>(Attach(t) \/ GiveUp(t))
=============================================================================
