------------------------------ MODULE Checksum ------------------------------
(***************************************************************************)
(* InternetCheckSum(buffer, len) of protocol_header.cc, step by step: a   *)
(* `long` sum of the buffer read as host-order uint16_t words, an odd     *)
(* trailing byte added as a uint8_t, the carries folded back while        *)
(* sum >> 16, and the complement truncated to uint16_t.                   *)
(*                                                                         *)
(* The way test_raw_socket_send_recv.cc uses it, in two passes: checksum  *)
(* an ICMP message whose checksum field (bytes 3 and 4) is zero, store    *)
(* the result there as a uint16_t, and checksum the message again.        *)
(*                                                                         *)
(* The reference is RFC 1071 as spec 4.7 states it: the one's-complement  *)
(* sum of the big-endian 16-bit words, an odd byte padded with a zero,    *)
(* complemented, and sent in network byte order.                          *)
(***************************************************************************)
EXTENDS Integers, Sequences

CONSTANTS
  MaxLen,      \* the longest buffer
  ByteVals,    \* the byte values a buffer is made of
  BigEndian    \* the host's byte order

ASSUME MaxLen \in Nat /\ ByteVals \subseteq 0..255 /\ BigEndian \in BOOLEAN

Field == 3                 \* icmp_checksum is bytes 3..4 of the message

\* The value *w reads from the two bytes at i and i + 1 of memory.
Load16(b, i) == IF BigEndian THEN b[i] * 256 + b[i + 1] ELSE b[i] + b[i + 1] * 256

\* The two bytes memory holds for a stored uint16_t v.
Store16(v) == IF BigEndian THEN <<v \div 256, v % 256>> ELSE <<v % 256, v \div 256>>

\* ~x truncated to uint16_t.
Complement16(x) == 65535 - (x % 65536)

\* Reference: RFC 1071 over network-order words, odd byte zero-padded.
RECURSIVE OnesSum(_)
OnesSum(b) ==
  IF b = <<>> THEN 0
  ELSE LET word == IF Len(b) = 1 THEN b[1] * 256 ELSE b[1] * 256 + b[2]
           rest == IF Len(b) <= 2 THEN <<>> ELSE SubSeq(b, 3, Len(b))
           s == OnesSum(rest) + word
       IN IF s > 65535 THEN s - 65535 ELSE s

RefChecksum(b) == 65535 - OnesSum(b)

\* The bytes, in order, of the network-order checksum.
NetBytes(c) == <<c \div 256, c % 256>>

Buffers == UNION {[1..n -> ByteVals] : n \in 0..MaxLen}

VARIABLES
  buf,      \* the bytes InternetCheckSum reads
  input,    \* ghost: the message as the caller built it, checksum field zero
  pass,     \* 1: the first checksum; 2: the check after storing it
  phase,    \* "words", "odd", "fold", "complement", "done"
  w,        \* the index of the byte *w points at
  nleft,    \* bytes left to add
  sum,      \* the `long` accumulator
  rt,       \* the uint16_t result
  first     \* the result of pass 1

vars == <<buf, input, pass, phase, w, nleft, sum, rt, first>>

Start(b) ==
  /\ buf' = b
  /\ phase' = "words" /\ w' = 1 /\ nleft' = Len(b) /\ sum' = 0 /\ rt' = 0

Init ==
  /\ input \in {b \in Buffers : Len(b) >= Field + 1 => b[Field] = 0 /\ b[Field + 1] = 0}
  /\ buf = input
  /\ phase = "words" /\ w = 1 /\ nleft = Len(input) /\ sum = 0 /\ rt = 0
  /\ pass = 1 /\ first = 0

\* Mutant: the word loop runs `while (nleft > 2)`, dropping the last word.
AddWordShort ==
  /\ phase = "words"
  /\ IF nleft > 2
       THEN /\ sum' = sum + Load16(buf, w)
            /\ w' = w + 2 /\ nleft' = nleft - 2
            /\ UNCHANGED phase
       ELSE /\ phase' = "odd"
            /\ UNCHANGED <<sum, w, nleft>>
  /\ UNCHANGED <<buf, input, pass, rt, first>>

\* Mutant: the word loop runs `while (nleft > 0)`, reading past the end.
AddWordPastEnd ==
  /\ phase = "words"
  /\ IF nleft > 0
       THEN /\ sum' = sum + Load16(buf \o <<0>>, w)
            /\ w' = w + 2 /\ nleft' = nleft - 2
            /\ UNCHANGED phase
       ELSE /\ phase' = "odd"
            /\ UNCHANGED <<sum, w, nleft>>
  /\ UNCHANGED <<buf, input, pass, rt, first>>

\* while (nleft > 1) { sum += *w++; nleft -= 2; }
AddWord ==
  /\ phase = "words"
  /\ IF nleft > 1
       THEN /\ sum' = sum + Load16(buf, w)
            /\ w' = w + 2 /\ nleft' = nleft - 2
            /\ UNCHANGED phase
       ELSE /\ phase' = "odd"
            /\ UNCHANGED <<sum, w, nleft>>
  /\ UNCHANGED <<buf, input, pass, rt, first>>

\* if (nleft > 0) sum += *(uint8_t *)w;
AddOddByte ==
  /\ phase = "odd"
  /\ sum' = IF nleft > 0 THEN sum + buf[w] ELSE sum
  /\ phase' = "fold"
  /\ UNCHANGED <<buf, input, pass, w, nleft, rt, first>>

\* Mutant: the carry is folded once, `if` instead of `while`.
FoldOnce ==
  /\ phase = "fold"
  /\ sum' = (sum % 65536) + sum \div 65536
  /\ phase' = "complement"
  /\ UNCHANGED <<buf, input, pass, w, nleft, rt, first>>

\* while (sum >> 16) sum = (sum & 0xffff) + (sum >> 16);
Fold ==
  /\ phase = "fold"
  /\ IF sum \div 65536 # 0
       THEN /\ sum' = (sum % 65536) + sum \div 65536
            /\ UNCHANGED phase
       ELSE /\ phase' = "complement"
            /\ UNCHANGED sum
  /\ UNCHANGED <<buf, input, pass, w, nleft, rt, first>>

\* rt = ~sum; return (rt);
ReturnSum ==
  /\ phase = "complement"
  /\ rt' = Complement16(sum)
  /\ phase' = "done"
  /\ UNCHANGED <<buf, input, pass, w, nleft, sum, first>>

(* The caller: picmp->icmp_checksum = InternetCheckSum(buffer, len), and  *)
(* the checksum is computed again over the message now holding it.         *)
StoreAndRecheck ==
  /\ phase = "done" /\ pass = 1 /\ Len(buf) >= Field + 1
  /\ first' = rt
  /\ pass' = 2
  /\ Start([i \in DOMAIN buf |->
             IF i = Field THEN Store16(rt)[1]
             ELSE IF i = Field + 1 THEN Store16(rt)[2] ELSE buf[i]])
  /\ UNCHANGED input

Done ==
  /\ phase = "done" /\ (pass = 2 \/ Len(buf) < Field + 1)
  /\ UNCHANGED vars

Next == AddWord \/ AddOddByte \/ Fold \/ ReturnSum \/ StoreAndRecheck \/ Done

Spec == Init /\ [][Next]_vars

-----------------------------------------------------------------------------
(* Every variable holds a value of its type; the accumulator never goes   *)
(* negative and the index never passes the end of the buffer.             *)
TypeOK ==
  /\ input \in Buffers /\ buf \in Seq(0..255) /\ Len(buf) = Len(input)
  /\ pass \in {1, 2}
  /\ phase \in {"words", "odd", "fold", "complement", "done"}
  /\ nleft \in 0..MaxLen /\ w \in 1..MaxLen + 1
  /\ sum \in Nat /\ rt \in 0..65535 /\ first \in 0..65535

(* The checksum InternetCheckSum returns, stored as a uint16_t, puts on    *)
(* the wire the bytes of the RFC 1071 checksum of the message (spec 4.7),  *)
(* for every length, odd ones included.                                     *)
MatchesRFC1071 ==
  phase = "done" /\ pass = 1 => Store16(rt) = NetBytes(RefChecksum(input))

(* Self-verification (spec 8): checksumming a message that holds its own   *)
(* checksum gives 0.                                                        *)
SelfVerifies ==
  phase = "done" /\ pass = 2 => rt = 0
=============================================================================
