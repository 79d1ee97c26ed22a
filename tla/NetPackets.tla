------------------------------- MODULE NetPackets -------------------------------
(***************************************************************************)
(* kernel/net.c: the two conversions of addresses, the checksum, and the   *)
(* echo request that net_ping builds.                                      *)
(*                                                                         *)
(* An address is its four octets, highest first.  Its text is the groups   *)
(* of digits between the dots; ip_from_string skips every other character. *)
(* A header is its bytes in the order of memory, where a field of two or   *)
(* four bytes has its lowest byte first.                                   *)
(***************************************************************************)
EXTENDS Integers, Sequences, SequencesExt

(* The value after the last of the terms: n = scale * n + term for each.    *)
Accumulated(scale, terms) ==
  LET n[k \in 0..Len(terms)] == IF k = 0 THEN 0 ELSE scale * n[k - 1] + terms[k]
  IN  n[Len(terms)]

Number(digits) == Accumulated(10, digits)

Octet(text, j) == IF j \in DOMAIN text THEN Number(text[j]) ELSE 0

Shifted(n, octets) == n \div <<1, 256, 65536, 16777216>>[octets + 1]

Bit(n, k) == (n \div <<128, 64, 32, 16, 8, 4, 2, 1>>[k]) % 2

(* ip |= octet << shift: the j-th octet of ip has the bits that are set in *)
(* any number there.  A number above 255 runs over into the octets above   *)
(* its own, and out of the word above the first.                           *)
ip_from_string(text) ==
  LET bits(j) == [k \in 1..8 |->
                    IF \E i \in j..4 : Bit(Shifted(Octet(text, i), i - j), k) = 1 THEN 1 ELSE 0]
  IN  [j \in 1..4 |-> Accumulated(2, bits(j))]

(* Seeded fault: the zero in the middle of 105 is left out.                *)
DecimalNoInnerZero(octet) ==
  CASE octet >= 100 -> SelectSeq(<<octet \div 100, (octet % 100) \div 10>>, LAMBDA d : d > 0)
                         \o <<octet % 10>>
    [] octet \in 10..99 -> <<octet \div 10, octet % 10>>
    [] octet < 10 -> <<octet>>

Decimal(octet) ==
  CASE octet >= 100 -> <<octet \div 100, (octet % 100) \div 10, octet % 10>>
    [] octet \in 10..99 -> <<octet \div 10, octet % 10>>
    [] octet < 10 -> <<octet>>

ip_to_string(ip) == [j \in 1..4 |-> Decimal(ip[j])]

-----------------------------------------------------------------------------
LittleEndian(word) == <<word % 256, word \div 256>>

(* The sum of the words as this machine reads them, with a last odd byte.  *)
WordSum(bytes) ==
  Accumulated(1, [j \in 1..Len(bytes) |-> bytes[j] * (IF j % 2 = 1 THEN 1 ELSE 256)])

Carried(sum) == (sum % 65536) + (sum \div 65536)

(* Seeded fault: the carries are added back once.                          *)
FoldedOnce(sum) == Carried(sum) % 65536

(* while (sum >> 16): a sum of 32 bits has carries to add back at most     *)
(* twice, and where there are none adding them changes nothing.            *)
Folded(sum) == Carried(Carried(sum))

net_checksum(bytes) == 65535 - Folded(WordSum(bytes))

(* The first j - 1 bytes of a header, its checksum, and the rest: the sum  *)
(* is taken with zeros in its place.                                       *)
WithChecksum(before, after) ==
  before \o LittleEndian(net_checksum(before \o <<0, 0>> \o after)) \o after

IpHeader(src, dest) ==
  WithChecksum(<<69, 0>> \o LittleEndian(28) \o LittleEndian(4660) \o <<0, 0>> \o <<64, 1>>,
               Reverse(src) \o Reverse(dest))

IcmpHeader ==
  WithChecksum(<<8, 0>>, LittleEndian(4660) \o LittleEndian(1))

(* What net_ping hands to the driver; `from' is net_if.                    *)
EchoRequest(from, dest) ==
  [src_mac |-> from.mac, ip |-> IpHeader(from.ip, dest), icmp |-> IcmpHeader]

-----------------------------------------------------------------------------
(* The sum of the words in network order.                                  *)
NetworkSum(bytes) ==
  Accumulated(1, [j \in 1..Len(bytes) |-> bytes[j] * (IF j % 2 = 1 THEN 256 ELSE 1)])

(* A receiver's test: that sum, carries added back in, is all ones.        *)
Verifies(bytes) == NetworkSum(bytes) > 0 /\ NetworkSum(bytes) % 65535 = 0

(* Four numbers of a byte each, without leading zeros.                     *)
IsAddress(text) ==
  /\ Len(text) = 4
  /\ \A j \in 1..4 : /\ text[j] # <<>> /\ Number(text[j]) < 256
                     /\ Len(text[j]) > 1 => text[j][1] # 0
=============================================================================
